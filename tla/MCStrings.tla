------------------------------ MODULE MCStrings ------------------------------
(***************************************************************************)
(* All maps of up to two entries between strings of up to two characters.  *)
(***************************************************************************)
EXTENDS ResultStrings

FourCharacters == {"a", "=", "#", NewLine}
Strings == BoundedSeq(FourCharacters, 2)
Alphabet == <<NewLine, "#", "=", "a">>
AllStrings ==
  << <<>> >> \o [i \in 1 .. 20 |->
    LET c == Alphabet[((i - 1) \div 5) + 1]
        d == (i - 1) % 5
    IN  IF d = 0 THEN <<c>> ELSE <<c, Alphabet[d]>>]
SmallMaps == UNION {[K -> Strings] : K \in {{k, l} : k, l \in Strings} \cup {{}}}
=============================================================================
