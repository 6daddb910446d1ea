-------------------------------- MODULE Http --------------------------------
(***************************************************************************)
(* The HTTP/1.1 messages of net/http.h as functions on sequences of cells  *)
(* (a cell is [k, n], see WsFrame).  A status line, a header line and a    *)
(* chunk-size line are one cell each, without its CR LF; CR and LF are     *)
(* cells of their own, so a terminator can be split by a read and body     *)
(* bytes can look like one:                                                *)
(*   status n   a status line with code n (0: not three digits)            *)
(*   bare       a status line without a space                              *)
(*   clen n     Content-Length: n        te     Transfer-Encoding: chunked *)
(*   accept n   Sec-WebSocket-Accept, n = 1 when the value is the expected *)
(*   size n     a chunk-size line        other  any other line or byte     *)
(***************************************************************************)
EXTENDS Integers, Sequences, SequencesExt, FiniteSetsExt

\* Op(v); v is evaluated once, which keeps the recursive definitions cheap.
With(v, Op(_)) == CHOOSE y \in {Op(x) : x \in {v}} : TRUE

CRLF == <<[k |-> "cr", n |-> 0], [k |-> "lf", n |-> 0]>>
Blank == CRLF \o CRLF

\* std::string_view::find: the first position >= from of pat, 0 if none.
Find(s, pat, from) ==
    With({i \in from..(Len(s) - Len(pat) + 1) :
            \A j \in 1..Len(pat) : s[i + j - 1].k = pat[j].k},
         LAMBDA at : IF at = {} THEN 0 ELSE Min(at))

\* The lines of kind k among the first n cells, in order.
Lines(s, n, k) == SelectSeq(SubSeq(s, 1, n), LAMBDA c : c.k = k)

\* The builders write nothing (and return 0) when the message does not fit.
Fitting(cells, cap) == IF Len(cells) <= cap THEN cells ELSE <<>>
Line(k, n) == <<[k |-> k, n |-> n]>> \o CRLF

build_ws_upgrade(cap) ==
    Fitting(Line("request", 0) \o Line("other", 0) \o CRLF, cap)

build_http_request(body, cap) ==
    Fitting(Line("request", 1)
            \o (IF body = <<>> THEN <<>> ELSE Line("clen", Len(body)))
            \o CRLF \o body, cap)

\* Mutant: the status code is not looked at.
validate_ws_upgrade_AnyStatus(s) ==
    LET Headers(end) ==
            [complete |-> end # 0,
             accepted |-> end # 0 /\ [k |-> "accept", n |-> 1] \in {s[i] : i \in 1..(end - 1)},
             len |-> IF end = 0 THEN 0 ELSE end + 3]
    IN  With(Find(s, Blank, 1), Headers)

(***************************************************************************)
(* validate_ws_upgrade: the first Sec-WebSocket-Accept line decides.       *)
(***************************************************************************)
validate_ws_upgrade(s) ==
    LET FirstAccept(accept) == accept # <<>> /\ accept[1].n = 1
        Headers(end) ==
            IF end = 0
            THEN [complete |-> FALSE, accepted |-> FALSE, len |-> 0]
            ELSE [complete |-> TRUE,
                  accepted |-> /\ s[1].k = "status" /\ s[1].n = 101
                               /\ FirstAccept(Lines(s, end + 3, "accept")),
                  len |-> end + 3]
    IN  With(Find(s, Blank, 1), Headers)

(***************************************************************************)
(* parse_http_response.  The result also carries the buffer, because a     *)
(* chunked body is decoded in place; body is what the view shows.  Lengths *)
(* are naturals: the sums of the code wrap near 2^64, these do not.        *)
(***************************************************************************)
Malformed == -1
parse_hex(line) ==
    IF Len(line) = 1 /\ line[1].k = "size" THEN line[1].n ELSE Malformed

\* Mutant: the chunks are decoded without the dry run over them.
AllPresent_NoDryRun(s, rp) == TRUE

RECURSIVE AllPresent(_, _)
AllPresent(s, rp) ==
    LET Sized(eol, sz) ==
            CASE sz = Malformed -> TRUE
              [] sz = 0 -> Find(s, Blank, eol) # 0
              [] OTHER -> /\ Len(s) >= eol + 1 + sz + 2
                          /\ AllPresent(s, eol + 2 + sz + 2)
    IN  With(Find(s, CRLF, rp),
             LAMBDA eol : /\ eol # 0
                          /\ With(parse_hex(SubSeq(s, rp, eol - 1)),
                                  LAMBDA sz : Sized(eol, sz)))

RECURSIVE Decode(_, _, _, _, _)
Decode(s, start, rp, wp, status) ==
    LET View(complete, body, consumed) ==
            [complete |-> complete, status |-> status, body |-> body,
             consumed |-> consumed, buf |-> s]
        waiting == View(FALSE, <<>>, 0)
        Final(term) == IF term = 0 THEN waiting
                       ELSE View(TRUE, SubSeq(s, start, wp - 1), term + 3)
        Sized(eol, sz) ==
            CASE sz = Malformed -> View(TRUE, <<>>, Len(s))
              [] sz = 0 -> With(Find(s, Blank, eol), Final)
              [] sz > 0 /\ Len(s) < eol + 1 + sz + 2 -> waiting
              [] OTHER ->
                    With([i \in DOMAIN s |-> IF i \in wp..(wp + sz - 1)
                                             THEN s[eol + 2 + i - wp] ELSE s[i]],
                         LAMBDA t : Decode(t, start, eol + 2 + sz + 2, wp + sz, status))
    IN  With(Find(s, CRLF, rp),
             LAMBDA eol : IF eol = 0 THEN waiting
                          ELSE With(parse_hex(SubSeq(s, rp, eol - 1)),
                                    LAMBDA sz : Sized(eol, sz)))

\* The status is what follows the first space of the buffer, three digits or
\* 502: in the status line or, if that has no space, in the next line with one
\* (whose lengths are below 100 here).
parse_http_response(s) ==
    LET spaced == {i \in DOMAIN s : s[i].k \in {"status", "clen", "te", "other"}}
        first == s[Min(spaced)]
        status == IF first.k = "status" /\ first.n # 0 THEN first.n ELSE 502
        waiting == [complete |-> FALSE, status |-> 0, body |-> <<>>,
                    consumed |-> 0, buf |-> s]
        Counted(start, len) ==
            IF Len(s) < start - 1 + len THEN waiting
            ELSE [complete |-> TRUE, status |-> status,
                  body |-> SubSeq(s, start, start - 1 + len),
                  consumed |-> start - 1 + len, buf |-> s]
        Headers(end) ==
            CASE end = 0 \/ spaced = {} -> waiting
              [] end # 0 /\ spaced # {} /\ Lines(s, end + 1, "te") = <<>> ->
                    With(Lines(s, end + 1, "clen"),
                         LAMBDA clen : Counted(end + 4, IF clen = <<>> THEN 0
                                                        ELSE Last(clen).n))
              [] OTHER -> IF ~AllPresent(s, end + 4) THEN waiting
                          ELSE Decode(s, end + 4, end + 4, end + 4, status)
    IN  With(Find(s, Blank, 1), Headers)
=============================================================================
