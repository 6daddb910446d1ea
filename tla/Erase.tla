-------------------------------- MODULE Erase --------------------------------
(***************************************************************************)
(* erase(remove(begin, end, x), end) of a vector: the elements other than  *)
(* x, in their order. A recursive function, so that it can be reasoned     *)
(* about.                                                                  *)
(***************************************************************************)
EXTENDS Naturals, Sequences

Erase(s, x) ==
  LET kept[i \in 0 .. Len(s)] ==
        IF i = 0 THEN <<>>
        ELSE IF s[i] = x THEN kept[i - 1] ELSE Append(kept[i - 1], s[i])
  IN  kept[Len(s)]
=============================================================================
