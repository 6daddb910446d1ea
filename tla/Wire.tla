-------------------------------- MODULE Wire --------------------------------
(***************************************************************************)
(* The byte path of a connection, end to end: a WsSession or an HttpClient *)
(* over a TcpSocket, driven by a busy-polling loop or by the edge-triggered*)
(* poller, against a peer and a kernel that may cut the stream anywhere.   *)
(* WsSession and HttpClient model the control of the two classes (timers,  *)
(* callbacks, buffers); this module models what happens to the bytes.      *)
(*                                                                         *)
(* job is rigid: what the application sends and what the peer says.        *)
(*   kind "ws": head, the lines of the upgrade response; frames, the peer's*)
(*     frames; expect, whether an accept value is expected; sends, payload *)
(*     lengths to send; closes, whether the application then closes.       *)
(*   kind "http": sends, one request body per exchange; responses.         *)
(*   poll: poller mode; avx: the build has AVX2; ends: the peer's end;     *)
(*   tries: how often the application connects.                            *)
(* c is the connection: the fields of TcpSocket, and of the session        *)
(*   state; head, data  recv_: headroom and bytes (capacity Cap);          *)
(*   fop, frag          frag_opcode_ (0: no frag_) and the frag_ bytes;    *)
(*   pend               the unsent rest of each pending buffer, in order;  *)
(*   registered, armed  registered_, write_armed_;                         *)
(*   got, kept          delivered messages, accepted frames (history).     *)
(***************************************************************************)
EXTENDS WsFrame, Http, TcpSocket

CONSTANTS Cap, MaxPending, Room, Grants, Jobs

VARIABLES job, c, pc, left, connects, fault

vars == <<job, c, pc, left, connects, fault>>

Body(i, n) == [j \in 1..n |-> Cell("pay", 20 * i + j)]

-----------------------------------------------------------------------------
(* What the peer writes: the reference encodings                           *)

\* The header of a frame (RFC 6455); form is how many length bytes follow.
FrameHead(f) ==
    <<Cell("b0", (IF f.fin THEN 128 ELSE 0) + 16 * f.rsv + f.op),
      Cell("b1", (IF f.masked THEN 128 ELSE 0)
                 + CASE f.form = 0 -> f.len [] f.form = 2 -> Short
                     [] OTHER -> Short + 1)>>
    \o host_to_net(f.len, f.form)
    \o (IF f.masked THEN KeyCells ELSE <<>>)

\* A payload under the key, from its first byte on.
UnderKey(body) == [j \in DOMAIN body |-> Xored(body[j], (j - 1) % 4)]

FrameCells(f, i) ==
    With(Body(i, f.len),
         LAMBDA body : FrameHead(f) \o (IF f.masked THEN UnderKey(body) ELSE body))

\* The status of a response whose status line is one word.
NoCode == -1

ChunkCells(ch) == Line("size", Len(ch)) \o ch \o CRLF

ResponseCells(r) ==
    Line(IF r.status = NoCode THEN "bare" ELSE "status", r.status)
    \o (CASE r.mode = "none" -> CRLF
          [] r.mode = "length" ->
                Line("clen", Len(r.chunks[1])) \o CRLF \o r.chunks[1]
          [] r.mode = "bad" -> Line("te", 0) \o CRLF \o Line("other", 0)
          [] OTHER -> Line("te", 0) \o CRLF
                \o FlattenSeq([i \in DOMAIN r.chunks |-> ChunkCells(r.chunks[i])])
                \o Line("size", 0) \o r.trailer \o CRLF)

\* Where the answer to the n-th request ends.
ReplyEnd(j, n) ==
    Len(FlattenSeq([i \in 1..n |-> ResponseCells(j.responses[i])]))

Stream(j) ==
    IF j.kind = "ws"
    THEN FlattenSeq([i \in DOMAIN j.head |-> Line(j.head[i].k, j.head[i].n)])
         \o CRLF
         \o FlattenSeq([i \in DOMAIN j.frames |-> FrameCells(j.frames[i], i)])
    ELSE FlattenSeq([i \in DOMAIN j.responses |-> ResponseCells(j.responses[i])])

StreamOf == [j \in Jobs |-> Stream(j)]
ReplyEnds == [j \in Jobs |-> [n \in 0..Len(j.responses) |-> ReplyEnd(j, n)]]

-----------------------------------------------------------------------------
(* IOBuffer recv_, write interest, teardown                                *)

Spare(s) == Cap - s.head - Len(s.data)
Reset(s) == [s EXCEPT !.head = 0, !.data = <<>>]
Consume(s, n) == [s EXCEPT !.head = @ + n, !.data = SubSeq(@, n + 1, Len(@))]

\* Mutant: only an empty buffer is rewound.
CompactRecv_EmptyOnly(s) == IF s.data = <<>> THEN [s EXCEPT !.head = 0] ELSE s

\* compact_recv: the bytes move to the front of the buffer.
CompactRecv(s) == [s EXCEPT !.head = 0]

\* EventLoop::notify_write_interest.
Notify(s, w) == IF job.poll THEN PollerMod(s, w) ELSE s

\* WsSession::teardown, auto_reconnect_ off; HttpClient::fail.
Teardown(s, next) ==
    [SocketClose(s) EXCEPT !.pend = <<>>, !.fop = 0, !.frag = <<>>,
                           !.armed = FALSE, !.state = next]

-----------------------------------------------------------------------------
(* WsSession: the write side                                               *)

\* Mutant: the poller is told about the write interest only when it changes.
FlushDone_OnChange(s) == IF s.want THEN Notify(s, FALSE) ELSE s

\* The end of flush_pending: nothing is left to write.
FlushDone(s) == Notify(s, FALSE)

\* Mutant: a partial write does not move the send position.
Unsent_Repeats(cells, n) == cells

\* p.sent += n: what of a pending buffer is still to be written.
Unsent(cells, n) == SubSeq(cells, n + 1, Len(cells))

RECURSIVE FlushPending(_)
FlushPending(s) ==
    LET Wrote(w) ==
            LET done == [w.c EXCEPT !.pend = Tail(@)]
            IN  CASE w.n = EAGAIN -> s
                  [] w.n = ECONN -> Teardown(s, "Failed")
                  [] w.n \in 0..(Len(s.pend[1]) - 1) ->
                        [w.c EXCEPT !.pend[1] = Unsent(@, w.n)]
                  [] OTHER -> IF s.state = "Closing" /\ Len(s.pend) = 1
                              THEN Teardown(done, "Disconnected")
                              ELSE With(done, FlushPending)
    IN  IF s.pend = <<>> THEN FlushDone(s)
        ELSE With(SocketWrite(s, s.pend[1]), Wrote)

\* push_pending of a buffer that has room in the ring.
PushPending(s, cells) ==
    LET p == [s EXCEPT !.pend = Append(@, cells)]
    IN  IF s.pend = <<>> THEN Notify(p, TRUE) ELSE p

\* enqueue_frame; the SendStatus is Status(s, payload).
Status(s, payload) ==
    CASE Len(payload) > Cap - ws_client_header_size(Len(payload)) -> "TooLarge"
      [] Len(s.pend) >= MaxPending -> "WouldBlock"
      [] OTHER -> "Ok"

EnqueueFrame(s, op, payload) ==
    IF Status(s, payload) # "Ok" THEN s ELSE
    With(PushPending(
            [s EXCEPT !.kept = Append(@, [op |-> op, body |-> payload])],
            ws_encode_client_header(op, Len(payload), TRUE)
                \o ws_mask(payload, job.avx)),
         FlushPending)

\* send_upgrade_request.
SendUpgradeRequest(s) ==
    LET req == build_ws_upgrade(Cap)
        u == Reset([s EXCEPT !.state = "Upgrading"])
    IN  IF req = <<>> THEN Teardown(u, "Failed")
        ELSE With(PushPending(u, req), FlushPending)

-----------------------------------------------------------------------------
(* WsSession: the read side                                                *)

Deliver(s, op, body) ==
    [s EXCEPT !.got = Append(@, [op |-> op, body |-> body])]

\* append_fragment, on a frag_ that exists (fop # 0) or not.
AppendFragment(s, chunk, fin) ==
    CASE s.fop = 0 -> s
      [] s.fop # 0 /\ Len(s.frag) + Len(chunk) > Cap -> Teardown(s, "Failed")
      [] OTHER -> IF fin
                  THEN [Deliver(s, s.fop, s.frag \o chunk)
                            EXCEPT !.fop = 0, !.frag = <<>>]
                  ELSE [s EXCEPT !.frag = @ \o chunk]

\* dispatch_frame and begin_fragment.
DispatchFrame(s, h, payload) ==
    CASE h.op \in {Text, Binary} /\ h.fin -> Deliver(s, h.op, payload)
      [] h.op \in {Text, Binary} /\ ~h.fin ->
            AppendFragment([s EXCEPT !.fop = h.op, !.frag = <<>>], payload, FALSE)
      [] h.op = Cont -> AppendFragment(s, payload, h.fin)
      [] h.op = Ping -> EnqueueFrame(s, Pong, payload)
      [] h.op = Pong -> s
      [] h.op = Close -> Teardown(s, "Disconnected")

RECURSIVE ParseFrames(_)
ParseFrames(s) ==
    LET Continue(d) == IF d.state \in {"Open", "Closing"} THEN ParseFrames(d) ELSE d
        Parsed(h) ==
            LET total == h.size + h.len
            IN  CASE h.size = ParseError -> Teardown(s, "Failed")
                  [] h.size = 0 \/ (h.size > 0 /\ Len(s.data) < total) ->
                        CompactRecv(s)
                  [] OTHER ->
                        With(DispatchFrame(s, h, SubSeq(s.data, h.size + 1, total)),
                             LAMBDA d : With(Consume(d, total), Continue))
    IN  With(ws_parse_header(s.data), Parsed)

\* The part of drive_upgrade_read after a read that returned bytes.
CheckUpgrade(s) ==
    LET Checked(r) ==
            LET open == [CompactRecv(Consume(s, r.len)) EXCEPT !.state = "Open"]
            IN  CASE ~r.complete -> s
                  [] r.complete /\ ~r.accepted /\ job.expect -> Teardown(s, "Failed")
                  [] OTHER -> IF r.len = Len(s.data) THEN open
                              ELSE With(open, ParseFrames)
    IN  With(validate_ws_upgrade(s.data), Checked)

\* drive_upgrade_read and drive_frame_read: one read, then what it completes.
DriveRead(s) ==
    LET Got(r) ==
            CASE r.n = EAGAIN -> s
              [] r.n = 0 -> Teardown(s, IF s.state = "Upgrading" THEN "Failed"
                                        ELSE "Disconnected")
              [] r.n = ECONN -> Teardown(s, "Failed")
              [] OTHER -> With([r.c EXCEPT !.data = @ \o r.cells],
                               LAMBDA m : IF m.state = "Upgrading"
                                          THEN CheckUpgrade(m) ELSE ParseFrames(m))
    IN  IF Spare(s) = 0 THEN Teardown(s, "Failed")
        ELSE With(SocketRead(s, Spare(s)), Got)

-----------------------------------------------------------------------------
(* HttpClient: flush_send, drive_recv, try_complete                        *)

\* try_complete, for a response or for the end of the stream.
TryComplete(s, eof) ==
    LET Parsed(r) ==
            LET view == [s EXCEPT !.data = r.buf]
            IN  CASE ~r.complete /\ eof -> Teardown(s, "Failed")
                  [] ~r.complete /\ ~eof -> view
                  [] OTHER ->
                        [CompactRecv(Consume(Deliver(view, r.status, r.body), r.consumed))
                            EXCEPT !.pend = <<>>, !.state = "Idle"]
    IN  With(parse_http_response(s.data), Parsed)

RECURSIVE DriveRecv(_)
DriveRecv(s) ==
    LET Again(t) == IF t.state = "Receiving" THEN DriveRecv(t) ELSE t
        Got(r) ==
            CASE r.n = EAGAIN -> s
              [] r.n = 0 -> TryComplete(s, TRUE)
              [] r.n = ECONN -> Teardown(s, "Failed")
              [] OTHER -> With([r.c EXCEPT !.data = @ \o r.cells],
                               LAMBDA m : With(TryComplete(m, FALSE), Again))
    IN  IF Spare(s) = 0 THEN Teardown(s, "Failed")
        ELSE With(SocketRead(s, Spare(s)), Got)

Arm(s, w) == IF s.armed = w THEN s ELSE [Notify(s, w) EXCEPT !.armed = w]

RECURSIVE FlushSend(_)
FlushSend(s) ==
    LET Wrote(w) ==
            CASE w.n = EAGAIN -> Arm(s, TRUE)
              [] w.n = ECONN -> Teardown(s, "Failed")
              [] w.n = Len(s.pend[1]) -> With([w.c EXCEPT !.pend = <<>>], FlushSend)
              [] OTHER -> With([w.c EXCEPT !.pend[1] = Unsent(@, w.n)], FlushSend)
    IN  IF s.pend = <<>>
        THEN With(Arm([s EXCEPT !.state = "Receiving"], FALSE), DriveRecv)
        ELSE With(SocketWrite(s, s.pend[1]), Wrote)

-----------------------------------------------------------------------------
(* The loop thread                                                         *)

\* start_connect of both classes: buffers released, recv_ empty, and only a
\* session that was never registered is added to the loop.
StartConnect(s) ==
    LET fresh == [Reset(s) EXCEPT !.pend = <<>>, !.fop = 0, !.frag = <<>>,
                                  !.got = <<>>, !.kept = <<>>, !.out = <<>>,
                                  !.armed = TRUE]
        Added(r) == [(IF job.poll /\ ~r.registered THEN PollerAdd(r, TRUE) ELSE r)
                        EXCEPT !.registered = TRUE, !.state = "Connecting"]
    IN  {IF r.cstate = "Failed" THEN Teardown(r, "Failed") ELSE Added(r)
           : r \in SocketConnect(fresh, Room)}

\* The application connects, again if the connection is gone.
Connect ==
    /\ pc = "wait" /\ connects < job.tries
    /\ c.state \in {"Disconnected", "Failed"}
    /\ c' \in StartConnect(c)
    /\ left' = job.sends /\ connects' = connects + 1
    /\ fault' = (c'.state = "Failed")
    /\ UNCHANGED <<job, pc>>

\* poll_open in a Connecting session or client.
Opening(s) ==
    LET Polled(p) ==
            CASE poll_open(p) = "Open" ->
                    IF job.kind = "ws" THEN SendUpgradeRequest(p)
                    ELSE Arm([p EXCEPT !.state = "Idle"], FALSE)
              [] poll_open(p) \in {"Failed", "Closed"} -> Teardown(p, "Failed")
              [] OTHER -> p
    IN  With(poll_connect(s), Polled)

\* on_ready up to the read of a WsSession; all of an HttpClient's.
Handle(s) ==
    CASE s.state = "Connecting" -> Opening(s)
      [] s.state \in {"Upgrading", "Open", "Closing"} -> FlushPending(s)
      [] s.state = "Sending" -> FlushSend(s)
      [] s.state = "Receiving" -> DriveRecv(s)
      [] OTHER -> s

Streaming(s) == s.state \in {"Upgrading", "Open", "Closing"}

\* One turn of the loop calls on_ready: always when busy-polling, and when the
\* poller reports the descriptor otherwise.
OnReady ==
    /\ pc = "wait" /\ c.registered
    /\ job.poll => c.ready
    /\ LET taken == IF job.poll THEN PollerWait(c) ELSE c
           called == job.poll => Event(taken)
       IN  /\ c' = IF called THEN With(taken, Handle) ELSE taken
           /\ pc' = IF called /\ Streaming(c) /\ Streaming(c') THEN "read" ELSE "wait"
    /\ UNCHANGED <<job, left, connects, fault>>

\* The rest of WsSession::on_ready.
Read ==
    /\ pc = "read"
    /\ c' = DriveRead(c) /\ pc' = "wait"
    /\ UNCHANGED <<job, left, connects, fault>>

\* send() from the step hook; the application retries what would block.
Send ==
    /\ pc = "wait" /\ job.kind = "ws" /\ c.state = "Open" /\ left # <<>>
    /\ LET payload == Body(Len(left), Head(left)) IN
         /\ c' = EnqueueFrame(c, Binary, payload)
         /\ left' = IF Status(c, payload) = "WouldBlock" THEN left ELSE Tail(left)
    /\ UNCHANGED <<job, pc, connects, fault>>

\* close(1000) when everything is sent.
CloseSession ==
    /\ pc = "wait" /\ job.kind = "ws" /\ job.closes
    /\ c.state = "Open" /\ left = <<>>
    /\ LET e == EnqueueFrame(c, Close, Body(0, 2)) IN
         c' = [e EXCEPT !.state = "Closing"]
    /\ UNCHANGED <<job, pc, left, connects, fault>>

\* request(), from the step hook; flush_send is its last call.
Request ==
    /\ pc = "wait" /\ job.kind = "http" /\ c.state = "Idle" /\ left # <<>>
    /\ LET req == build_http_request(Body(Len(left), Head(left)), Cap) IN
         c' = IF req = <<>> THEN c
              ELSE With([Reset(c) EXCEPT !.pend = <<req>>, !.state = "Sending",
                            !.kept = Append(@, [op |-> 0, body |-> req])], FlushSend)
    /\ left' = Tail(left)
    /\ UNCHANGED <<job, pc, connects, fault>>

-----------------------------------------------------------------------------
(* The kernel and the peer (external)                                      *)

Establish ==
    /\ c.link = "syn"
    /\ \E l \in {"up", "refused"} :
          c' = Wake([c EXCEPT !.link = l]) /\ fault' = (fault \/ l = "refused")
    /\ UNCHANGED <<job, pc, left, connects>>

\* How much the peer has had reason to say: nothing before the upgrade request,
\* and the response of every request it has read to the end.
Said ==
    IF job.kind = "ws"
    THEN IF Len(c.out) >= Len(build_ws_upgrade(Cap)) THEN Len(c.stream) ELSE 0
    ELSE ReplyEnds[job][IF c.pend = <<>> THEN Len(c.kept) ELSE Len(c.kept) - 1]

\* One more byte is there; a segment is as many arrivals as no read separates.
Arrive ==
    /\ c.link = "up" /\ c.end = "no" /\ c.arrived < Said
    /\ c' = Wake([c EXCEPT !.arrived = @ + 1])
    /\ UNCHANGED <<job, pc, left, connects, fault>>

\* A full send buffer drains, by as little as the kernel likes.
Drain ==
    /\ c.link = "up" /\ c.end = "no" /\ c.room = 0
    /\ \E g \in Grants : c' = Wake([c EXCEPT !.room = g])
    /\ UNCHANGED <<job, pc, left, connects, fault>>

PeerEnds ==
    /\ c.link = "up" /\ c.end = "no" /\ job.ends # "no"
    /\ c' = Wake([c EXCEPT !.end = job.ends])
    /\ fault' = TRUE
    /\ UNCHANGED <<job, pc, left, connects>>

-----------------------------------------------------------------------------
Init ==
    /\ job \in Jobs
    /\ c = [fd |-> NoFd, cstate |-> "Idle", fds |-> {}, link |-> "none",
            end |-> "no", stream |-> StreamOf[job], arrived |-> 0, taken |-> 0,
            room |-> 0, out |-> <<>>, watched |-> FALSE, want |-> FALSE,
            ready |-> FALSE, state |-> "Disconnected", head |-> 0,
            data |-> <<>>, fop |-> 0, frag |-> <<>>, pend |-> <<>>,
            registered |-> FALSE, armed |-> FALSE, got |-> <<>>, kept |-> <<>>]
    /\ pc = "wait" /\ left = job.sends /\ connects = 0 /\ fault = FALSE

Next ==
    \/ Connect \/ OnReady \/ Read \/ Send \/ CloseSession \/ Request
    \/ Establish \/ Arrive \/ Drain \/ PeerEnds

\* The loop thread runs and the kernel establishes, delivers and drains.  The
\* step hook has its turn in every iteration, between two handlers, so what the
\* application wants to send is tried again and again.  Nobody has to connect,
\* to close or to end.
Fairness ==
    /\ WF_vars(OnReady) /\ WF_vars(Read) /\ SF_vars(Send) /\ SF_vars(Request)
    /\ WF_vars(Establish) /\ WF_vars(Arrive) /\ WF_vars(Drain)

Spec == Init /\ [][Next]_vars /\ Fairness

-----------------------------------------------------------------------------
(* What a correct endpoint would do with the job                           *)

Minimal(len) == IF len > Max16 THEN 8 ELSE IF len >= Short THEN 2 ELSE 0

WellFormed(f) ==
    /\ f.rsv = 0 /\ f.op \in WsOpcode /\ f.form = Minimal(f.len) /\ ~f.masked
    /\ f.op >= 8 => f.len < Short /\ f.fin

RECURSIVE Messages(_, _, _, _)
Messages(fs, i, op, acc) ==
    IF i > Len(fs) \/ (i <= Len(fs) /\ (~WellFormed(fs[i]) \/ fs[i].op = Close))
    THEN <<>> ELSE
    LET f == fs[i]
        body == Body(i, f.len)
    IN  CASE f.op \in {Text, Binary} /\ f.fin ->
                <<[op |-> f.op, body |-> body]>> \o Messages(fs, i + 1, op, acc)
          [] f.op \in {Text, Binary} /\ ~f.fin -> Messages(fs, i + 1, f.op, body)
          [] f.op = Cont /\ op # 0 /\ f.fin ->
                <<[op |-> op, body |-> acc \o body]>> \o Messages(fs, i + 1, 0, <<>>)
          [] f.op = Cont /\ op # 0 /\ ~f.fin -> Messages(fs, i + 1, op, acc \o body)
          [] OTHER -> Messages(fs, i + 1, op, acc)

Upgraded(j) ==
    LET accept == SelectSeq(j.head, LAMBDA l : l.k = "accept")
    IN  j.head[1] = Cell("status", 101) /\ accept # <<>> /\ accept[1].n = 1

\* The endpoint tells a response with a bad chunk size or without a status code,
\* and a frame that a server has masked, from the rest.  The code does not.
Sound(r) == r.mode # "bad" /\ r.status # NoCode
Untold == {j \in Jobs : \/ \E i \in DOMAIN j.responses : ~Sound(j.responses[i])
                        \/ \E i \in DOMAIN j.frames : j.frames[i].masked}

\* The messages up to the first thing that is not well-formed.
Expected(j) ==
    IF j.kind = "http"
    THEN LET bad == SelectInSeq(j.responses, LAMBDA r : ~Sound(r))
             rs == IF bad = 0 THEN j.responses ELSE SubSeq(j.responses, 1, bad - 1)
         IN  [i \in DOMAIN rs |->
                [op |-> IF rs[i].status = 0 THEN 502 ELSE rs[i].status,
                 body |-> FlattenSeq(rs[i].chunks)]]
    ELSE IF Upgraded(j) \/ ~j.expect THEN Messages(j.frames, 1, 0, <<>>) ELSE <<>>

ExpectedOf == [j \in Jobs |-> Expected(j)]

Masked(op, body) ==
    FrameHead([fin |-> TRUE, rsv |-> 0, op |-> op, masked |-> TRUE,
               form |-> Minimal(Len(body)), len |-> Len(body)])
    \o UnderKey(body)

Outgoing ==
    IF job.kind = "http" THEN FlattenSeq([i \in DOMAIN c.kept |-> c.kept[i].body])
    ELSE build_ws_upgrade(Cap)
         \o FlattenSeq([i \in DOMAIN c.kept |-> Masked(c.kept[i].op, c.kept[i].body)])

\* Everything the peer says can be held: frames, fragments and responses fit.
Fits(j) ==
    IF j.kind = "http"
    THEN \A i \in DOMAIN j.responses : Len(ResponseCells(j.responses[i])) <= Cap
    ELSE /\ 3 * Len(j.head) + 2 <= Cap
         /\ \A i \in DOMAIN j.frames : Len(FrameCells(j.frames[i], i)) <= Cap
         /\ \A i \in DOMAIN Expected(j) : Len(Expected(j)[i].body) <= Cap

Acceptable ==
    {j \in Jobs \ Untold :
        /\ Fits(j)
        /\ j.kind = "ws" => /\ Upgraded(j) \/ ~j.expect
                            /\ \A i \in DOMAIN j.frames : WellFormed(j.frames[i])}

-----------------------------------------------------------------------------
(* Properties                                                              *)

\* What on_message and on_response have been given is the beginning of what
\* the peer said, message by message and byte by byte, however the stream was
\* cut by the kernel and by the room in recv_: parse_frames, the fragment
\* assembly, the compaction and the chunk decoder lose, repeat and shift
\* nothing.  recv_ never holds more than its capacity.  If the peer masks a
\* frame, sends a malformed chunk size or a status line of one word, this ends
\* with what came before: such a payload is delivered under its key
\* (ws_session_impl.h:235), and such a response as a complete one with the
\* status it began with (http.h:353) or with what follows the first space
\* behind the status line (http.h:250).
Delivered ==
    /\ \/ IsPrefix(c.got, ExpectedOf[job])
       \/ job \in Untold /\ IsPrefix(ExpectedOf[job], c.got)
    /\ c.head + Len(c.data) <= Cap

\* What the kernel was given, with what is still pending, is exactly the request
\* and the accepted frames in order, each one header and payload as RFC 6455
\* has them and masked with the key from its first byte on, through partial
\* writes, a full ring and Pongs sent from inside parse_frames.
SentExact ==
    IF c.fd # NoFd /\ c.state # "Connecting"
    THEN c.out \o FlattenSeq(c.pend) = Outgoing
    ELSE IsPrefix(c.out, Outgoing)

\* A session or client gives a connection up only for a reason: connect failed,
\* the peer ended it, refused the upgrade, broke the framing, or sent what
\* recv_ cannot hold.  A frame or response that fits is never refused for
\* where it lies in the buffer.
FailsForReason == c.state = "Failed" => fault \/ job \notin Acceptable

\* The process has exactly the descriptor the socket knows: every path through
\* connect, poll_connect and teardown closes what it opened, once.
NoFdLeak == c.fds = {c.fd} \ {NoFd}

\* A session with an expected accept value is Open only after a 101 response
\* whose first Sec-WebSocket-Accept is that value.
OpenUpgraded ==
    job.kind = "ws" /\ c.state \in {"Open", "Closing"} /\ job.expect => Upgraded(job)

\* While the link is up and the descriptor is one the poller knows, everything
\* the peer says is delivered and everything accepted is sent.  WsSession reads
\* once per event under EPOLLET and may leave bytes in the kernel; it is the
\* unconditional notify_write_interest of flush_pending that makes the poller
\* look again.
Flowing ==
    /\ c.link = "up" /\ c.end = "no" /\ job \in Acceptable
    /\ job.poll => c.watched

Caught ==
    /\ c.got = ExpectedOf[job] /\ c.pend = <<>>
    /\ left = <<>> /\ c.out = Outgoing

Drains == Flowing ~> (Caught \/ ~Flowing)
=============================================================================
