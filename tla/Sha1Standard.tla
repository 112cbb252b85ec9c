---------------------------- MODULE Sha1Standard -----------------------------
(***************************************************************************)
(* SHA-1 as FIPS 180 defines it, on a whole message: what SHA1::final()    *)
(* has to return.  A message is a sequence of bytes, and a word has 32     *)
(* bits.                                                                   *)
(***************************************************************************)
EXTENDS Words, Integers, Sequences

Size == 32
Plus(a, b) == Add(a, b, Size)
RotateLeft(a, k) == {(b + k) % Size : b \in a}
Not(a) == (0 .. Size - 1) \ a

BigEndian(bytes) ==
  UNION {ShiftLeft(BitsOf(bytes[i]), 8 * (4 - i)) : i \in 1 .. 4}

\* One bit, zeros, and the length in bits as a number of 64 bits.
Pad(message) ==
  LET zeros == (119 - (Len(message) % 64)) % 64
      length == [i \in 1 .. 4 |-> ((8 * Len(message)) \div 256 ^ (4 - i)) % 256]
  IN  message \o <<128>> \o [i \in 1 .. zeros + 4 |-> 0] \o length

\* s.words are the 16 words of the message schedule from the current one on.
Step(s, f, k) ==
  [ t |-> s.t + 1,
    a |-> Plus(Plus(Plus(Plus(RotateLeft(s.a, 5), f), s.e), k), s.words[1]),
    b |-> s.a,
    c |-> RotateLeft(s.b, 30),
    d |-> s.c,
    e |-> s.d,
    words |-> Append(Tail(s.words), RotateLeft(Xor(Xor(s.words[1], s.words[3]),
                                                   Xor(s.words[9], s.words[14])), 1)) ]

Ch(x, y, z) == (x \cap y) \cup (Not(x) \cap z)
Maj(x, y, z) == (x \cap y) \cup (x \cap z) \cup (y \cap z)

StepOf(s) ==
  CASE s.t \in 0 .. 19 -> Step(s, Ch(s.b, s.c, s.d), Word(\h5a82, \h7999))
    [] s.t \in 20 .. 39 -> Step(s, Xor(s.b, Xor(s.c, s.d)), Word(\h6ed9, \heba1))
    [] s.t \in 40 .. 59 -> Step(s, Maj(s.b, s.c, s.d), Word(\h8f1b, \hbcdc))
    [] s.t \in 60 .. 79 -> Step(s, Xor(s.b, Xor(s.c, s.d)), Word(\hca62, \hc1d6))

Block(hash, bytes) ==
  LET words == [k \in 1 .. 16 |-> BigEndian(SubSeq(bytes, 4 * k - 3, 4 * k))]
      start == [t |-> 0, a |-> hash[1], b |-> hash[2], c |-> hash[3], d |-> hash[4], e |-> hash[5],
                words |-> words]
      after[t \in 0 .. 80] == IF t = 0 THEN start ELSE StepOf(after[t - 1])
      last == after[80]
      worked == <<last.a, last.b, last.c, last.d, last.e>>
  IN  [i \in 1 .. 5 |-> Plus(hash[i], worked[i])]

InitialHash == << Word(\h6745, \h2301), Word(\hefcd, \hab89), Word(\h98ba, \hdcfe),
                  Word(\h1032, \h5476), Word(\hc3d2, \he1f0) >>

HashOf(bytes) ==
  LET blocks == Len(bytes) \div 64
      hash[i \in 0 .. blocks] ==
        IF i = 0 THEN InitialHash ELSE Block(hash[i - 1], SubSeq(bytes, 64 * i - 63, 64 * i))
  IN  hash[blocks]

Sha1Of(message) == HashOf(Pad(message))
=============================================================================
