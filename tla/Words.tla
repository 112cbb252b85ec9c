-------------------------------- MODULE Words --------------------------------
(***************************************************************************)
(* Machine words, as the sets of the bits that are set in them: bitwise    *)
(* "or" is union, "and" is intersection.                                   *)
(***************************************************************************)
LOCAL INSTANCE Integers

\* The lower w bits.
Low(a, w) == a \cap (0 .. w - 1)

Xor(a, b) == (a \ b) \cup (b \ a)

ShiftLeft(a, k) == {b + k : b \in a}
ShiftRight(a, k) == {b - k : b \in {c \in a : c >= k}}

\* The sum of two words modulo 2^w.  What both words have at a place is carried
\* into the next; where they differ the carry goes on.
Add(a, b, w) ==
  LET carry[i \in 0 .. w] ==
        IF i = 0 THEN FALSE
        ELSE IF (i - 1 \in a) = (i - 1 \in b) THEN i - 1 \in a
        ELSE carry[i - 1]
  IN  {i \in 0 .. w - 1 : ((i \in a) = (i \in b)) = carry[i]}

\* The bits of a natural number below 2^16.
BitsOf(n) == {b \in 0 .. 15 : (n \div 2 ^ b) % 2 = 1}

\* A constant of 32 bits, given by its halves.
Word(high, low) == BitsOf(low) \cup ShiftLeft(BitsOf(high), 16)
=============================================================================
