----------------------------- MODULE MCTlsStream -----------------------------
(***************************************************************************)
(* The streams that TLC runs TlsStream on.                                 *)
(***************************************************************************)
EXTENDS TlsStream

Common == [bursts |-> FALSE, reuses |-> FALSE, oom |-> FALSE, kinds |-> Kinds]

\* An owner that keeps to one chunk, one that writes more and closes before it
\* connects, and one that does not close.
AllSetups == {Common,
              [Common EXCEPT !.bursts = TRUE, !.kinds = {"app"}],
              [Common EXCEPT !.reuses = TRUE, !.oom = TRUE, !.kinds = {"app", "notify"}]}

PlainSetups == {Common}
BurstSetups == {[Common EXCEPT !.bursts = TRUE]}
=============================================================================
