----------------------------- MODULE TcpSocket -----------------------------
(***************************************************************************)
(* net/tcp_socket.h over the system calls of net/detail/sys_api.h, and the *)
(* edge-triggered poller of net/detail/poller.h, as functions on a record  *)
(* c that holds one connection:                                            *)
(*   fd, cstate            TcpSocket::fd_ and state_ (fd -1: none)         *)
(*   fds                   the descriptors the process has open            *)
(*   link                  the kernel's connection: none, syn, up, refused *)
(*   end                   how the peer ended it: no, eof, reset           *)
(*   stream, arrived, taken  what the peer says, how much of it is in the  *)
(*                         receive queue or past it, how much recv took    *)
(*   room, out             send-buffer room, cells handed to the kernel    *)
(*   watched, want, ready  the fd is in the epoll set, with EPOLLOUT, and  *)
(*                         is on its ready list                            *)
(* The kernel side is external: what these calls return is modelled from   *)
(* how the code uses them.                                                 *)
(***************************************************************************)
EXTENDS Integers, Sequences, FiniteSets, SequencesExt

NoFd == -1

\* Negated errno values; ECONN is any other than the two with a meaning here.
EAGAIN == -11
ECONN == -104
EINPROGRESS == -115

Least(S) == CHOOSE i \in S : \A j \in S : i <= j

Readable(c) == c.link = "up" /\ (c.arrived > c.taken \/ c.end # "no")
Writable(c) == c.link = "up" /\ (c.room > 0 \/ c.end = "reset")
Event(c) == Readable(c) \/ (c.want /\ Writable(c)) \/ c.link = "refused"

\* The state of a watched item changed in a way that wakes it.
Wake(c) == [c EXCEPT !.ready = c.ready \/ (c.watched /\ Event(c))]

(***************************************************************************)
(* Poller::add and mod.  Both make the kernel look at the descriptor, and  *)
(* put it back on the ready list when an event it asks for is there now;   *)
(* mod of a descriptor that was never added fails and does nothing.        *)
(***************************************************************************)
PollerAdd(c, wantWrite) ==
    LET a == [c EXCEPT !.watched = TRUE, !.want = wantWrite]
    IN  [a EXCEPT !.ready = Event(a)]

PollerMod(c, wantWrite) ==
    LET a == [c EXCEPT !.want = wantWrite]
    IN  IF c.watched THEN [a EXCEPT !.ready = c.ready \/ Event(a)] ELSE c

\* epoll_wait takes an item off the ready list; EPOLLET does not put it back.
PollerWait(c) == [c EXCEPT !.ready = FALSE]

(***************************************************************************)
(* sys::tcp_socket, connect, socket_error, peer_connected and close, and   *)
(* TcpSocket::close.                                                       *)
(***************************************************************************)
tcp_socket(c) == Least(0..Cardinality(c.fds) \ c.fds)

sys_connect(c) ==
    { [rc |-> 0, c |-> [c EXCEPT !.link = "up"]],
      [rc |-> EINPROGRESS, c |-> [c EXCEPT !.link = "syn"]],
      [rc |-> ECONN, c |-> c] }

socket_error(c) == c.link = "refused"
peer_connected(c) == c.link = "up"

SysClose(c, fd) ==
    [c EXCEPT !.fds = @ \ {fd}, !.link = "none", !.end = "no",
              !.watched = FALSE, !.want = FALSE, !.ready = FALSE]

SocketClose(c) ==
    [(IF c.fd = NoFd THEN c ELSE SysClose(c, c.fd))
        EXCEPT !.fd = NoFd, !.cstate = "Closed"]

\* Mutant: a socket that cannot be made nonblocking is left open.
NonblockFails_Leaks(c, fd) ==
    [c EXCEPT !.fds = @ \cup {fd}, !.cstate = "Failed"]

NonblockFails(c, fd) ==
    [SysClose([c EXCEPT !.fds = @ \cup {fd}], fd) EXCEPT !.cstate = "Failed"]

(***************************************************************************)
(* TcpSocket::connect: every way it can end.  A new connection starts with *)
(* an empty receive queue and the whole send buffer, Room.                 *)
(***************************************************************************)
SocketConnect(c, Room) ==
    LET closed == SocketClose(c)
        fd == tcp_socket(closed)
        opened == [closed EXCEPT !.fds = @ \cup {fd}, !.fd = fd,
                                 !.arrived = 0, !.taken = 0,
                                 !.room = Room, !.out = <<>>]
        Begun(r) ==
            CASE r.rc = 0 -> [r.c EXCEPT !.cstate = "Connected"]
              [] r.rc = EINPROGRESS -> [r.c EXCEPT !.cstate = "Connecting"]
              [] OTHER -> [SocketClose(r.c) EXCEPT !.cstate = "Failed"]
    IN  { [closed EXCEPT !.cstate = "Failed"], NonblockFails(closed, fd) }
        \cup {Begun(r) : r \in sys_connect(opened)}

\* poll_connect: SO_ERROR first, then getpeername.
poll_connect(c) ==
    CASE c.cstate = "Connecting" /\ socket_error(c) ->
            [SocketClose(c) EXCEPT !.cstate = "Failed"]
      [] c.cstate = "Connecting" /\ ~socket_error(c) /\ peer_connected(c) ->
            [c EXCEPT !.cstate = "Connected"]
      [] OTHER -> c

\* poll_open: the StreamPhase of the socket after polling its connect.
poll_open(c) ==
    CASE c.cstate = "Connected" -> "Open"
      [] c.cstate = "Failed" -> "Failed"
      [] c.cstate = "Closed" -> "Closed"
      [] OTHER -> "Connecting"

(***************************************************************************)
(* read and write.  n is the number of cells, 0 for end of stream on a     *)
(* read, EAGAIN or ECONN below zero.                                       *)
(***************************************************************************)
Lesser(a, b) == IF a <= b THEN a ELSE b

\* What has arrived is read before the end of the stream or the error is seen.
SocketRead(c, spare) ==
    LET n == Lesser(spare, c.arrived - c.taken)
    IN  IF c.link = "up" /\ n > 0
        THEN [n |-> n, cells |-> SubSeq(c.stream, c.taken + 1, c.taken + n),
              c |-> [c EXCEPT !.taken = @ + n]]
        ELSE [n |-> CASE c.link # "up" \/ c.end = "reset" -> ECONN
                      [] c.link = "up" /\ c.end = "eof" -> 0
                      [] OTHER -> EAGAIN,
              cells |-> <<>>, c |-> c]

SocketWrite(c, cells) ==
    LET n == Lesser(c.room, Len(cells))
    IN  CASE c.link # "up" \/ c.end = "reset" -> [n |-> ECONN, c |-> c]
          [] c.link = "up" /\ c.end # "reset" /\ n = 0 ->
                [n |-> EAGAIN, c |-> c]
          [] OTHER -> [n |-> n,
                       c |-> [c EXCEPT !.room = @ - n,
                                       !.out = @ \o SubSeq(cells, 1, n)]]
=============================================================================
