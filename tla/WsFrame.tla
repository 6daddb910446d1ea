------------------------------ MODULE WsFrame ------------------------------
(***************************************************************************)
(* The WebSocket frame codec (net/detail/ws_frame.h, net/detail/ws_mask.h, *)
(* base/hw_endian.h) as functions on sequences of cells.                   *)
(*                                                                         *)
(* A cell stands for one byte of the stream: n is its value and k says     *)
(* what the writer meant by it.  The decoder reads only n, exactly where   *)
(* the code reads a byte, so a decoder that loses its alignment reads the  *)
(* wrong number.  The widths are scaled: a length digit counts to Base     *)
(* instead of 256, the 7-bit length codes for "2 more" and "8 more" bytes  *)
(* are Short and Short + 1 instead of 126 and 127, and a vector lane of    *)
(* the mask loop is Wide or Narrow bytes instead of 32 or 8 (all of them   *)
(* multiples of the 4-byte key).                                           *)
(***************************************************************************)
EXTENDS Integers, Sequences, SequencesExt

CONSTANTS Base, Short, Wide, Narrow

ASSUME CodecConstants ==
    /\ Base \in Nat /\ Short \in Nat /\ Short < Base ^ 2 /\ Short < 127
    /\ Wide \in Nat \ {0} /\ Wide % 4 = 0
    /\ Narrow \in Nat \ {0} /\ Narrow % 4 = 0 /\ Narrow <= Wide

Cell(k, n) == [k |-> k, n |-> n]

Cont == 0
Text == 1
Binary == 2
Close == 8
Ping == 9
Pong == 10

WsOpcode == {Cont, Text, Binary, Close, Ping, Pong}
ws_is_control(op) == op >= 8

Max16 == Base ^ 2 - 1

\* Network byte order: the most significant digit comes first.
net_to_host(cells) == FoldLeft(LAMBDA v, c : v * Base + c.n, 0, cells)
host_to_net(v, w) ==
    [i \in 1..w |-> Cell("len", (v \div Base ^ (w - i)) % Base)]

(***************************************************************************)
(* ws_parse_header: size is the header's length, 0 when more bytes are     *)
(* needed, ParseError for a protocol violation.                            *)
(***************************************************************************)
ParseError == -1
Incomplete == [size |-> 0, fin |-> FALSE, op |-> 0, len |-> 0]
Violation == [Incomplete EXCEPT !.size = ParseError]

KeySize(masked) == IF masked THEN 4 ELSE 0

ws_parse_header(buf) ==
    IF Len(buf) < 2 THEN Incomplete ELSE
    LET b0 == buf[1].n
        b1 == buf[2].n
        fin == (b0 \div 128) % 2 = 1
        op == b0 % 16
        len7 == b1 % 128
        more == CASE len7 = Short -> 2 [] len7 = Short + 1 -> 8 [] OTHER -> 0
        pos == 2 + more
        size == pos + KeySize((b1 \div 128) % 2 = 1)
        Sized(len) ==
            CASE \/ more = 2 /\ len < Short
                 \/ more = 8 /\ (buf[3].n >= (Base + 1) \div 2 \/ len <= Max16)
                 \/ ws_is_control(op) /\ (len >= Short \/ ~fin) -> Violation
              [] Len(buf) < size -> Incomplete
              [] OTHER -> [size |-> size, fin |-> fin, op |-> op, len |-> len]
    IN  CASE (b0 \div 16) % 8 # 0 \/ op \notin WsOpcode -> Violation
          [] Len(buf) < pos -> Incomplete
          [] OTHER -> Sized(IF more = 0 THEN len7
                            ELSE net_to_host(SubSeq(buf, 3, pos)))

ws_client_header_size(len) ==
    2 + 4 + (IF len > Max16 THEN 8 ELSE IF len >= Short THEN 2 ELSE 0)

KeyCells == [j \in 1..4 |-> Cell("key", j - 1)]

\* ws_encode_client_header; a client frame always carries the mask bit.
ws_encode_client_header(op, len, fin) ==
    <<Cell("b0", (IF fin THEN 128 ELSE 0) + op)>>
    \o (CASE len < Short -> <<Cell("b1", 128 + len)>>
          [] len \in Short..Max16 ->
                <<Cell("b1", 128 + Short)>> \o host_to_net(len, 2)
          [] OTHER -> <<Cell("b1", 128 + Short + 1)>> \o host_to_net(len, 8))
    \o KeyCells

(***************************************************************************)
(* ws_mask, fresh frame (key_offset = 0): which byte of the key each of    *)
(* the len payload bytes is xored with.  A build with AVX2 does the first  *)
(* lanes with a pattern rotated once for offset 0; the 8-byte lanes rotate *)
(* it by the position i where they start; the tail indexes the key.        *)
(* Xored(c, j) is the cell c under key byte j.                             *)
(***************************************************************************)
KeyIndex(len, avx) ==
    LET wide == IF avx THEN (len \div Wide) * Wide ELSE 0
        narrow == wide + ((len - wide) \div Narrow) * Narrow
    IN  [i \in 0..(len - 1) |->
            CASE i < wide -> i % 4
              [] i \in wide..(narrow - 1) -> (wide + ((i - wide) % 4)) % 4
              [] OTHER -> i % 4]

Xored(c, j) == Cell("masked", 4 * c.n + j)

ws_mask(data, avx) ==
    LET key == KeyIndex(Len(data), avx)
    IN  [i \in DOMAIN data |-> Xored(data[i], key[i - 1])]
=============================================================================
