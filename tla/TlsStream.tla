------------------------------ MODULE TlsStream ------------------------------
(***************************************************************************)
(* lepton::security::TlsStream, OpenSSL between two memory BIOs and a      *)
(* nonblocking TcpSocket (include/lepton/net/security/tls_stream.h,        *)
(* src/net/security/tls_stream.cpp).                                       *)
(*                                                                         *)
(* A call is the steps from an empty stk back to an empty stk, one step    *)
(* per call of OpenSSL or of the socket, because what the socket takes and *)
(* gives may be different at each. Ciphertext going out is counted in      *)
(* units, numbered in the order OpenSSL makes them; coming in, it is       *)
(* records, perhaps with the start of one ("part") at the end.             *)
(***************************************************************************)
EXTENDS Naturals, Sequences, Erase

CONSTANTS
  Chunk,      \* kCipherChunk, units that one BIO_read can take
  HighWater,  \* the 65536 bytes in rbio_ above which pump_in() stops, in records
  MaxRead,    \* most records that one read of the socket returns
  MaxUnits,   \* most units that OpenSSL makes on one connection
  MaxLive,    \* most SSL objects when the owner connects without closing
  Setups      \* the streams considered; see setup

\* Records of the peer, as OpenSSL reads them: data, control (a session ticket, a
\* key update), close_notify, and what is no record.
Kinds == {"app", "ctl", "notify", "bad"}

ASSUME TlsConstants ==
  /\ Chunk \in Nat \ {0} /\ HighWater \in Nat \ {0} /\ MaxRead \in Nat \ {0}
  /\ MaxUnits \in Nat /\ MaxUnits >= 3 /\ MaxLive \in Nat
  /\ Setups \subseteq [bursts : BOOLEAN, reuses : BOOLEAN, oom : BOOLEAN, kinds : SUBSET Kinds]

VARIABLES
  setup,    \* how the stream is used, chosen once: whether its owner writes however
            \* much is unsent (bursts), connects without closing first (reuses),
            \* whether OpenSSL may run out of memory (oom), and what the peer sends
  phase,    \* phase_
  tcp,      \* tcp_: "closed", "opening", "open" or, after an error, "dead"
  eof,      \* the peer has closed the TCP connection
  ssl,      \* ssl_ is not null: "none", "new", "hello" sent, "up", "over" after a
            \* close_notify from the peer, or "broken" after an error
  live,     \* history: SSL objects allocated and not freed
  made,     \* units made on this connection
  wbio,     \* wbio_
  chunk,    \* pump_out()'s buf and
  off,      \* off
  out,      \* history: units the socket has taken on this connection
  rbio,     \* rbio_
  plain,    \* SSL_pending() > 0
  readAny,  \* pump_in()'s read_any
  ret,      \* what the last call returned, "none" while one runs
  stk       \* what is left of the running call

vars == <<setup, phase, tcp, eof, ssl, live, made, wbio, chunk, off, out, rbio, plain,
          readAny, ret, stk>>

outgoing == <<made, wbio, chunk, off, out>>
incoming == <<eof, rbio, plain, readAny>>

Init ==
  /\ setup \in Setups
  /\ phase = "Idle" /\ tcp = "closed" /\ eof = FALSE
  /\ ssl = "none" /\ live = 0
  /\ made = 0 /\ wbio = <<>> /\ chunk = <<>> /\ off = 0 /\ out = <<>>
  /\ rbio = <<>> /\ plain = FALSE /\ readAny = FALSE
  /\ ret = "none" /\ stk = <<>>

-----------------------------------------------------------------------------
(* Helpers of the calls *)

Start(frames) == stk' = frames /\ ret' = "none"

Return(r) == ret' = r /\ stk' = <<>>

\* SSL_free() and what it takes along.
Freed ==
  /\ ssl' = "none" /\ live' = IF ssl = "none" THEN live ELSE live - 1
  /\ made' = 0 /\ wbio' = <<>> /\ chunk' = <<>> /\ off' = 0 /\ out' = <<>>
  /\ rbio' = <<>> /\ plain' = FALSE

Fail ==
  /\ Freed
  /\ tcp' = "closed" /\ phase' = "Error"
  /\ UNCHANGED <<eof, readAny>>

\* OpenSSL makes n more units; wbio_ takes whatever it is given.
Make(n) ==
  /\ made' = made + n
  /\ wbio' = wbio \o [i \in 1 .. n |-> made + i]
  /\ UNCHANGED <<chunk, off, out>>

Pump == <<"pump_out", "pump_in">>

-----------------------------------------------------------------------------
(* The calls *)

Quiet == stk = <<>> /\ phase # "Crashed"

\* An SSL object of an earlier connection stays where it is.
Connect ==
  /\ Quiet
  /\ ssl = "none" \/ (setup.reuses /\ live < MaxLive)
  /\ \/ tcp' = "opening" /\ phase' = "ConnectingTcp" /\ ret' = "true"
     \/ tcp' = "closed" /\ phase' = "Error" /\ ret' = "false"
  /\ eof' = FALSE
  /\ UNCHANGED <<setup, ssl, live, outgoing, rbio, plain, readAny, stk>>

\* begin_handshake(). If OpenSSL gives no SSL object or no BIO, poll_open()
\* goes on to a handshake on null: a crash, or an error that fails once more.
BeginHandshake ==
  \/ /\ ssl' = "new" /\ live' = live + 1
     /\ made' = 0 /\ wbio' = <<>> /\ chunk' = <<>> /\ off' = 0 /\ out' = <<>>
     /\ rbio' = <<>> /\ plain' = FALSE
     /\ tcp' = "open" /\ phase' = "Handshaking"
     /\ Start(<<"handshake">>)
     /\ UNCHANGED <<eof, readAny>>
  \/ /\ setup.oom
     /\ ssl' = "none" /\ tcp' = "closed"
     /\ phase' \in {"Error", "Crashed"}
     /\ Return("failed")
     /\ UNCHANGED <<live, outgoing, incoming>>

\* poll_open() while TCP connects.
PollTcp ==
  /\ Quiet /\ phase = "ConnectingTcp"
  /\ UNCHANGED setup
  /\ \/ ret' = "connecting" /\ UNCHANGED <<phase, tcp, ssl, live, outgoing, incoming, stk>>
     \/ Fail /\ Return("failed")
     \/ BeginHandshake

\* poll_open() in any other phase.
PollOpen ==
  /\ Quiet /\ phase # "ConnectingTcp"
  /\ \/ phase = "Handshaking" /\ Start(<<"handshake">>)
     \/ phase = "Established" /\ Return("open")
     \/ phase = "Closed" /\ Return("closed")
     \/ phase \in {"Idle", "Error"} /\ Return("failed")
  /\ UNCHANGED <<setup, phase, tcp, ssl, live, outgoing, incoming>>

\* Mutant: reading leaves what is unsent to the next write.
Refill_NoFlush == IF ~plain /\ rbio = <<>> THEN <<"pump_in">> ELSE <<>>

\* The socket is read only if nothing is left to decrypt; what is unsent is
\* tried in any case.
Refill == IF ~plain /\ rbio = <<>> THEN Pump ELSE <<"pump_out">>

Read ==
  /\ Quiet
  /\ IF phase = "Established" THEN Start(Refill \o <<"ssl_read">>)
     ELSE Return("again")
  /\ UNCHANGED <<setup, phase, tcp, ssl, live, outgoing, incoming>>

\* write(): OpenSSL takes all of it at once, whatever the socket does.
Write ==
  /\ Quiet
  /\ UNCHANGED <<setup, phase, tcp, ssl, live, incoming>>
  /\ \/ /\ phase = "Established" /\ ssl # "broken"
        /\ \E n \in 1 .. MaxUnits - made - 1 :
             /\ setup.bursts \/ Len(wbio) + n < Chunk   \* room for close_notify
             /\ Make(n)
        /\ Start(Pump \o <<"written">>)
     \/ phase = "Established" /\ ssl = "broken" /\ Return("error") /\ UNCHANGED outgoing
     \/ phase # "Established" /\ Return("again") /\ UNCHANGED outgoing

\* close() and the destructor. A close_notify goes out if the socket takes it.
Close ==
  /\ Quiet
  /\ IF phase = "Established" /\ ssl # "broken" THEN Make(1) ELSE UNCHANGED outgoing
  /\ Start((IF phase = "Established" THEN Pump ELSE <<>>) \o <<"closed">>)
  /\ UNCHANGED <<setup, phase, tcp, ssl, live, incoming>>

-----------------------------------------------------------------------------
(* pump_out() and pump_in() *)

\* "pump_out": one BIO_read; the loop ends when nothing is left.
PumpOut ==
  /\ Head(stk) = "pump_out"
  /\ LET n == IF Len(wbio) < Chunk THEN Len(wbio) ELSE Chunk IN
     /\ chunk' = SubSeq(wbio, 1, n)
     /\ wbio' = SubSeq(wbio, n + 1, Len(wbio))
     /\ stk' = IF n = 0 THEN Tail(stk) ELSE <<"push">> \o stk
  /\ off' = 0
  /\ UNCHANGED <<phase, tcp, ssl, live, made, out, incoming, ret>>

\* "push": the socket takes one unit more of the chunk, or the chunk is through.
PushSome ==
  /\ Head(stk) = "push" /\ tcp = "open"
  /\ out' = Append(out, chunk[off + 1])
  /\ off' = off + 1
  /\ stk' = IF off' = Len(chunk) THEN Tail(stk) ELSE stk
  /\ chunk' = IF off' = Len(chunk) THEN <<>> ELSE chunk
  /\ UNCHANGED <<phase, tcp, ssl, live, made, wbio, incoming, ret>>

\* Mutants: the tail is dropped; what was sent is put back with it.
PushBlocked_Drop ==
  /\ Head(stk) = "push" /\ tcp = "open"
  /\ chunk' = <<>> /\ stk' = Tail(Tail(stk))
  /\ UNCHANGED <<phase, tcp, ssl, live, made, wbio, off, out, incoming, ret>>

PushBlocked_Whole ==
  /\ Head(stk) = "push" /\ tcp = "open"
  /\ wbio' = wbio \o chunk
  /\ chunk' = <<>> /\ stk' = Tail(Tail(stk))
  /\ UNCHANGED <<phase, tcp, ssl, live, made, off, out, incoming, ret>>

\* The socket is full: the tail goes back into wbio_, at its end, and pump_out()
\* returns.
PushBlocked ==
  /\ Head(stk) = "push" /\ tcp = "open"
  /\ wbio' = wbio \o SubSeq(chunk, off + 1, Len(chunk))
  /\ chunk' = <<>> /\ stk' = Tail(Tail(stk))
  /\ UNCHANGED <<phase, tcp, ssl, live, made, off, out, incoming, ret>>

\* A write or a read fails: all pumping ends, and the caller hears false. What
\* pump_out() had in hand is gone.
PumpFails ==
  /\ Head(stk) = "push" \/ (Head(stk) = "pull" /\ Len(rbio) < HighWater)
  /\ tcp' = "dead" /\ chunk' = <<>>
  /\ stk' = <<"dead", stk[Len(stk)]>>
  /\ UNCHANGED <<phase, ssl, live, made, wbio, off, out, incoming, ret>>

PumpIn ==
  /\ Head(stk) = "pump_in"
  /\ readAny' = FALSE
  /\ stk' = <<"pull">> \o Tail(stk)
  /\ UNCHANGED <<phase, tcp, eof, ssl, live, outgoing, rbio, plain, ret>>

\* What one read of the socket gives; an earlier "part" is complete with it.
Arrivals == LET whole == UNION {[1 .. n -> setup.kinds] : n \in 0 .. MaxRead}
            IN  (whole \cup {Append(w, "part") : w \in whole}) \ {<<>>}

Whole(s) == Erase(s, "part")

\* "pull": one round of pump_in()'s loop.
PullMore ==
  /\ Head(stk) = "pull" /\ tcp = "open" /\ ~eof
  /\ Len(rbio) < HighWater
  /\ \E a \in Arrivals : rbio' = Whole(rbio) \o a
  /\ readAny' = TRUE
  /\ UNCHANGED <<phase, tcp, eof, ssl, live, outgoing, plain, ret, stk>>

\* Enough, nothing more for now, or the end of the TCP connection, which is
\* left to SSL_read() to notice.
PullEnd ==
  /\ Head(stk) = "pull"
  /\ eof' \in IF Len(rbio) >= HighWater THEN {eof}
              ELSE IF tcp = "open" THEN {eof, TRUE} ELSE {TRUE}
  /\ stk' = Tail(stk)
  /\ UNCHANGED <<phase, tcp, ssl, live, outgoing, rbio, plain, readAny, ret>>

\* "dead": what the caller does when pumping has failed. poll_open() says so and
\* leaves everything as it is; close() does not care.
Dead ==
  /\ Head(stk) = "dead"
  /\ \/ /\ stk[2] \in {"hs_done", "hs_again"}
        /\ Return("failed")
        /\ UNCHANGED <<phase, tcp, ssl, live, outgoing, incoming>>
     \/ stk[2] \in {"ssl_read", "read_again", "written"} /\ Fail /\ Return("error")
     \/ /\ stk[2] = "closed"
        /\ stk' = Tail(stk)
        /\ UNCHANGED <<phase, tcp, ssl, live, outgoing, incoming, ret>>

-----------------------------------------------------------------------------
(* OpenSSL, and what the calls make of its answers *)

\* "handshake": one SSL_do_handshake(). With memory BIOs it wants to read or is
\* done; it never wants to write. The peer answers what has reached it, so a
\* flight follows the last one only when that is out.
HandshakeWants ==
  /\ Head(stk) = "handshake"
  /\ \/ ssl = "new" /\ ssl' = "hello" /\ Make(1) /\ UNCHANGED rbio
     \/ ssl = "hello" /\ rbio' = <<>> /\ UNCHANGED <<ssl, outgoing>>
     \/ /\ ssl = "hello" /\ rbio # <<>> /\ wbio = <<>> /\ made + 3 <= MaxUnits
        /\ rbio' = <<>> /\ Make(1) /\ UNCHANGED ssl
  /\ stk' = <<"pump_in", "pump_out", "hs_again">>
  /\ UNCHANGED <<phase, tcp, eof, live, plain, readAny, ret>>

\* The peer's flight is complete, with records behind it perhaps; or it has
\* been since a poll_open() that failed to send the last flight of this side.
HandshakeDone ==
  /\ Head(stk) = "handshake"
  /\ \/ /\ ssl = "hello" /\ rbio # <<>> /\ wbio = <<>>
        /\ ssl' = "up"
        /\ \E n \in 1 .. Len(rbio) : rbio' = SubSeq(rbio, n + 1, Len(rbio))
        /\ Make(1)
     \/ ssl = "up" /\ UNCHANGED <<ssl, rbio, outgoing>>
  /\ stk' = Pump \o <<"hs_done">>
  /\ UNCHANGED <<phase, tcp, eof, live, plain, readAny, ret>>

HandshakeError ==
  /\ Head(stk) = "handshake" /\ ssl = "hello" /\ rbio # <<>>
  /\ Fail /\ Return("failed")

HandshakePumped ==
  \/ /\ Head(stk) = "hs_done"
     /\ phase' = "Established" /\ Return("open")
     /\ UNCHANGED <<tcp, ssl, live, outgoing, incoming>>
  \/ /\ Head(stk) = "hs_again"
     /\ IF readAny THEN stk' = <<"handshake">> /\ UNCHANGED ret ELSE Return("connecting")
     /\ UNCHANGED <<phase, tcp, ssl, live, outgoing, incoming>>

\* The records that one SSL_read() looks at: control records, and what follows.
Looked == IF \E i \in 1 .. Len(rbio) : rbio[i] # "ctl"
          THEN CHOOSE i \in 1 .. Len(rbio) :
                 rbio[i] # "ctl" /\ \A j \in 1 .. i - 1 : rbio[j] = "ctl"
          ELSE Len(rbio)

Found == IF rbio = <<>> THEN "ctl" ELSE rbio[Looked]

Rest == SubSeq(rbio, Looked + 1, Len(rbio))

\* "ssl_read": one SSL_read(). Decrypted bytes that do not fit stay pending.
ReadData ==
  /\ Head(stk) = "ssl_read" /\ ssl = "up"
  /\ plain \/ Found = "app"
  /\ rbio' = IF plain THEN rbio ELSE Rest
  /\ plain' \in BOOLEAN
  /\ Return("data")
  /\ UNCHANGED <<phase, tcp, eof, ssl, live, outgoing, readAny>>

\* Nothing but control records, or a part: all of it is inside OpenSSL now, the
\* socket is read once more, and whatever that brings, the answer is -EAGAIN.
ReadWants ==
  /\ Head(stk) = "ssl_read" /\ ssl = "up" /\ ~plain /\ Found \in {"ctl", "part"}
  /\ rbio' = <<>>
  /\ stk' = Pump \o <<"read_again">>
  /\ UNCHANGED <<phase, tcp, eof, ssl, live, outgoing, plain, readAny, ret>>

ReadAgain ==
  /\ Head(stk) = "read_again"
  /\ Return("again")
  /\ UNCHANGED <<phase, tcp, ssl, live, outgoing, incoming>>

ReadEnd ==
  /\ Head(stk) = "ssl_read" /\ ~plain
  /\ \/ ssl = "over" \/ (ssl = "up" /\ Found = "notify")
  /\ ssl' = "over"
  /\ rbio' = IF ssl = "up" THEN Rest ELSE rbio
  /\ Return("eof")
  /\ UNCHANGED <<phase, tcp, eof, live, outgoing, plain, readAny>>

ReadError ==
  /\ Head(stk) = "ssl_read" /\ ~plain
  /\ ssl = "broken" \/ (ssl = "up" /\ Found = "bad")
  /\ ssl' = "broken"
  /\ rbio' = IF ssl = "up" THEN Rest ELSE rbio
  /\ Return("error")
  /\ UNCHANGED <<phase, tcp, eof, live, outgoing, plain, readAny>>

Written ==
  /\ Head(stk) = "written"
  /\ Return("written")
  /\ UNCHANGED <<phase, tcp, ssl, live, outgoing, incoming>>

\* Mutant: an SSL object that never got through its handshake is forgotten.
Closed_Established ==
  /\ Head(stk) = "closed"
  /\ IF phase = "Established" THEN Freed
     ELSE ssl' = "none" /\ UNCHANGED <<live, outgoing, rbio, plain>>
  /\ tcp' = "closed" /\ phase' = "Closed"
  /\ stk' = <<>>
  /\ UNCHANGED <<eof, readAny, ret>>

\* "closed": the rest of close().
Closed ==
  /\ Head(stk) = "closed"
  /\ Freed
  /\ tcp' = "closed" /\ phase' = "Closed"
  /\ stk' = <<>>
  /\ UNCHANGED <<eof, readAny, ret>>

Step ==
  /\ stk # <<>> /\ setup' = setup
  /\ \/ PumpOut \/ PushSome \/ PushBlocked \/ PumpFails \/ PumpIn \/ PullMore \/ PullEnd
     \/ Dead
     \/ HandshakeWants \/ HandshakeDone \/ HandshakeError \/ HandshakePumped
     \/ ReadData \/ ReadWants \/ ReadAgain \/ ReadEnd \/ ReadError
     \/ Written \/ Closed

Next == Step \/ Connect \/ PollTcp \/ PollOpen \/ Read \/ Write \/ Close

Spec == Init /\ [][Next]_vars

\* Calls run on, a busy-polling owner reads in every iteration, and a full
\* socket has room again some time.
FairSpec == Spec /\ WF_vars(Step) /\ SF_vars(Read) /\ SF_vars(Step /\ PushSome)

-----------------------------------------------------------------------------
(* Properties *)

\* Types of all variables; rbio_ never holds more than one read above the mark
\* that pump_in() keeps.
TypeOK ==
  /\ setup \in Setups
  /\ phase \in {"Idle", "ConnectingTcp", "Handshaking", "Established", "Closed", "Error",
                "Crashed"}
  /\ tcp \in {"closed", "opening", "open", "dead"}
  /\ ssl \in {"none", "new", "hello", "up", "over", "broken"}
  /\ live \in Nat /\ made \in 0 .. MaxUnits
  /\ wbio \in Seq(1 .. MaxUnits) /\ chunk \in Seq(1 .. MaxUnits) /\ out \in Seq(1 .. MaxUnits)
  /\ Len(chunk) <= Chunk /\ off \in 0 .. Chunk
  /\ rbio \in Seq(Kinds \cup {"part"}) /\ Len(rbio) <= HighWater + MaxRead
  /\ eof \in BOOLEAN /\ plain \in BOOLEAN /\ readAny \in BOOLEAN
  /\ ret \in {"none", "true", "false", "connecting", "open", "closed", "failed", "data",
              "written", "again", "eof", "error"}

\* No ciphertext is lost or sent twice, however often the socket is full: until
\* the socket dies every unit OpenSSL has made is with the socket, in pump_out()'s
\* buffer or in wbio_. All variables keep their types, so rbio_ keeps its mark.
NoLoss ==
  LET all == out \o SubSeq(chunk, off + 1, Len(chunk)) \o wbio
  IN  TypeOK /\ (ssl # "none" /\ tcp = "open" => Len(all) = made /\ {all[i] : i \in 1 .. Len(all)} = 1 .. made)

\* The socket gets the ciphertext in the order OpenSSL made it ("push the
\* unsent tail back into wbio so we retry it on the next pump",
\* tls_stream.cpp:175).
InOrder == \A i \in 1 .. Len(out) : out[i] = i

\* It does as long as what is unsent, close_notify included, fits one chunk.
InOrderUnlessBursts == ~setup.bursts => InOrder

\* Every SSL object but the current one has been freed, whatever fails and
\* wherever the handshake ends, if the owner closes before it connects again.
NoSslLeak == ~setup.reuses => live = IF ssl = "none" THEN 0 ELSE 1

\* The end of the TCP connection reaches an owner that goes on reading ("let
\* SSL_read surface it as EOF / close_notify", tls_stream.cpp:206).
EofSurfaces ==
  eof /\ phase = "Established" ~> ret \in {"eof", "error"} \/ phase # "Established"

\* What has been pulled from the socket is handed out by a later read(), also if
\* the one that pulled it returned -EAGAIN.
ArrivedDelivered ==
  phase = "Established" /\ ssl = "up" /\ (plain \/ Found = "app")
    ~> ret = "data" \/ phase # "Established"

\* The stream is up and its socket has not died.
StreamUp == phase = "Established" /\ tcp = "open"

\* Every unit OpenSSL has made for a write() is taken by the socket some time,
\* however often the socket takes none of it, while the stream is connected.
WritesReachSocket ==
  \A n \in 1 .. MaxUnits :
    StreamUp /\ made >= n ~> (\E i \in 1 .. Len(out) : out[i] = n) \/ ~StreamUp

\* An owner that goes on reading keeps both directions moving: read() also
\* sends what an earlier write() could not ("Just pump outbound data",
\* tls_stream.cpp:226).
BothWaysMove == ArrivedDelivered /\ WritesReachSocket
=============================================================================
