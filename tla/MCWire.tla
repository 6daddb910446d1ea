------------------------------- MODULE MCWire -------------------------------
(* Jobs for Wire: one per shape of stream that takes a path of its own.      *)
EXTENDS Wire

F(op, len) ==
    [fin |-> TRUE, rsv |-> 0, op |-> op, masked |-> FALSE,
     form |-> Minimal(len), len |-> len]
Open(f) == [f EXCEPT !.fin = FALSE]

Accepted == <<Cell("status", 101), Cell("accept", 1)>>

Ws(head, frames) ==
    [kind |-> "ws", poll |-> FALSE, avx |-> FALSE, ends |-> "no",
     head |-> head, frames |-> frames, expect |-> TRUE,
     sends |-> <<>>, closes |-> FALSE, responses |-> <<>>, tries |-> 1]

\* Frames that a session accepts: short, both extended lengths, fragments with
\* control frames between them, more than recv_ holds at once.
GoodFrames ==
    { <<F(Text, 1), F(Ping, 1), F(Binary, 2), F(Pong, 0), F(Text, 3)>>,
      <<Open(F(Text, 1)), F(Ping, 0), Open(F(Cont, 2)), F(Cont, 1), F(Text, 0)>>,
      <<F(Binary, 8), F(Text, 4), F(Text, 9)>>,
      <<F(Cont, 1), F(Text, 2), F(Close, 2), F(Text, 1)>> }

\* Frames after one that the session should have refused.
MaskedFrames ==
    { <<F(Text, 1), [F(Text, 2) EXCEPT !.masked = TRUE], F(Text, 1)>> }

\* Frames that end the connection.
BadFrames ==
    { <<F(Text, 1), f>> : f \in
        { [F(Text, 3) EXCEPT !.form = 2], [F(Text, 8) EXCEPT !.form = 8],
          [F(Text, 1) EXCEPT !.rsv = 4], F(3, 1), F(Ping, 4), Open(F(Ping, 1)) } }
    \cup { <<F(Binary, 17)>>,
           <<Open(F(Text, 9)), Open(F(Cont, 9)), F(Cont, 9)>> }

Heads ==
    { <<Cell("status", 101), Cell("other", 0), Cell("accept", 1)>>,
      <<Cell("status", 200), Cell("accept", 1)>>,
      <<Cell("status", 101), Cell("accept", 0), Cell("accept", 1)>>,
      <<Cell("status", 101)>> }

Data(i, n) == [j \in 1..n |-> Cell("data", 10 * i + j)]

Resp(status, mode, chunks) ==
    [status |-> status, mode |-> mode, chunks |-> chunks, trailer |-> <<>>]

Answers ==
    { <<Resp(200, "length", <<Data(1, 2)>>), Resp(0, "none", <<>>)>>,
      <<Resp(200, "chunked", <<Data(1, 1), CRLF>>)>>,
      <<Resp(200, "none", <<>>), Resp(NoCode, "none", <<>>)>>,
      <<Resp(NoCode, "length", <<Data(1, 1)>>)>>,
      <<[Resp(200, "chunked", <<Data(1, 2)>>) EXCEPT !.trailer = Line("other", 0)],
        Resp(201, "length", <<CRLF \o CRLF>>)>>,
      <<Resp(204, "none", <<>>), Resp(200, "bad", <<>>)>>,
      <<Resp(200, "length", <<Data(1, 20)>>)>> }

Http1(rs) ==
    [Ws(Accepted, <<>>) EXCEPT !.kind = "http", !.responses = rs,
                               !.sends = [i \in DOMAIN rs |-> 2 * (i - 1)]]

MCJobs ==
    LET receiving == {Ws(Accepted, fs) :
                        fs \in GoodFrames \cup MaskedFrames \cup BadFrames}
                     \cup {Ws(h, <<F(Text, 1)>>) : h \in Heads}
                     \cup {[Ws(<<Cell("status", 101)>>, <<F(Text, 1)>>)
                               EXCEPT !.expect = FALSE]}
        sending == {[Ws(Accepted, <<>>) EXCEPT !.sends = ls] :
                      ls \in {<<12>>, <<7, 1>>, <<0, 1, 4>>, <<13, 2>>}}
                   \cup {[Ws(Accepted, <<F(Ping, 3)>>) EXCEPT !.sends = <<2, 1>>]}
        ending == {[Ws(Accepted, <<F(Text, 1), F(Ping, 1)>>) EXCEPT !.ends = e,
                       !.sends = <<2>>, !.closes = TRUE, !.tries = 2] :
                      e \in {"eof", "reset"}}
        asking == {Http1(rs) : rs \in Answers}
                  \cup {[Http1(<<Resp(200, "chunked", <<Data(1, 1)>>)>>)
                            EXCEPT !.ends = "eof", !.tries = 2]}
    IN  {[j EXCEPT !.poll = p, !.avx = ~p] :
           j \in receiving \cup sending \cup ending \cup asking, p \in BOOLEAN}
=============================================================================
