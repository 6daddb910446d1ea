---------------------------- MODULE MCHttpClient ----------------------------
(***************************************************************************)
(* The clients that TLC runs HttpClient on.                                *)
(***************************************************************************)
EXTENDS HttpClient

Common == [poll |-> FALSE, timeout |-> TRUE, strays |-> FALSE, closes |-> TRUE,
           impatient |-> FALSE, calls |-> Ops]

\* A well-behaved peer; one that sends responses unasked, to a
\* client without timeouts; an application that
\* connects over a request in flight; and a client in poller mode whose
\* connection lasts.
AllSetups ==
  {Common,
   [Common EXCEPT !.strays = TRUE, !.timeout = FALSE, !.calls = {"close"}],
   [Common EXCEPT !.impatient = TRUE],
   [Common EXCEPT !.poll = TRUE, !.closes = FALSE, !.calls = {}]}
=============================================================================
