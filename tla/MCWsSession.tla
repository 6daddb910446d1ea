----------------------------- MODULE MCWsSession -----------------------------
(***************************************************************************)
(* The sessions that TLC runs WsSession on.                                *)
(***************************************************************************)
EXTENDS WsSession

Common == [tls |-> FALSE, timeout |-> TRUE, keepAlive |-> TRUE, frames |-> {"msg"},
           read |-> 1, closes |-> TRUE, calls |-> {}]

\* Every kind of frame over TCP, with callbacks that send and close; callbacks
\* that also connect, over TLS; and several frames at a time for callbacks that
\* only look.
SafetySetups ==
  {[Common EXCEPT !.frames = PeerKinds, !.calls = {"send", "close"}],
   [Common EXCEPT !.tls = TRUE, !.frames = {"msg", "first", "last", "ping"}, !.calls = Ops],
   [Common EXCEPT !.keepAlive = FALSE, !.timeout = FALSE, !.read = 2,
                  !.frames = {"msg", "first", "last", "close", "bad"}]}

\* A peer that talks but answers nothing, over TCP, to a session with keepalive
\* and to one with neither keepalive nor a connect timeout, as is the default;
\* and a peer that closes or vanishes, over TLS.
LiveSetups ==
  {[Common EXCEPT !.closes = FALSE],
   [Common EXCEPT !.closes = FALSE, !.keepAlive = FALSE, !.timeout = FALSE],
   [Common EXCEPT !.tls = TRUE, !.frames = {"close"}]}
=============================================================================
