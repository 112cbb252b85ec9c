-------------------------------- MODULE Sha1 ---------------------------------
(***************************************************************************)
(* The class SHA1: a context that takes a message in pieces of any length  *)
(* (update), hashes every block that is complete (transform), and pads,    *)
(* returns and resets itself (final).  sha1() and from_file() make a       *)
(* context, put everything through one update() and call final().          *)
(*                                                                         *)
(* sha1.h calls its words uint32 and declares them unsigned long: they     *)
(* have 64 bits on the machines the program runs on, and the header says   *)
(* that at least 32 are enough.  Words have WordBits bits here, and carry  *)
(* whatever the code leaves above the lower 32.                            *)
(***************************************************************************)
EXTENDS Words, Integers, Sequences

CONSTANTS
  WordBits,      \* of the type unsigned long
  Byte(_),       \* the message: its byte at each position
  PieceSizes,    \* the lengths of the strings that are given to update()
  MaxLength      \* bound on the length of a message

ASSUME Sha1Assumption ==
  /\ WordBits \in Nat /\ WordBits >= 32
  /\ MaxLength \in 0 .. 8191
  /\ PieceSizes \subseteq Nat
  /\ \A i \in 1 .. MaxLength : Byte(i) \in 0 .. 255

BLOCK_BYTES == 64
BLOCK_INTS == 16

VARIABLES
  sha1Context,    \* the members: digest, buffer and transforms
  hashed,         \* history: the message since the last reset()
  sha1Hash        \* what final() returned; <<>> while it has not been called

sha1Vars == <<sha1Context, hashed, sha1Hash>>

FreshContext == [
  digest |-> << Word(\h6745, \h2301), Word(\hefcd, \hab89), Word(\h98ba, \hdcfe),
                Word(\h1032, \h5476), Word(\hc3d2, \he1f0) >>,
  transforms |-> 0,
  buffer |-> <<>> ]

-----------------------------------------------------------------------------
\* Mutant of Rol: without the mask, as if a uint32 had 32 bits.
RolUnmasked(value, bits) ==
  Low(ShiftLeft(value, bits), WordBits) \cup ShiftRight(value, 32 - bits)

\* SHA1_ROL: what is above bit 31 goes further up and is left there.
Rol(value, bits) ==
  Low(ShiftLeft(value, bits), WordBits) \cup ShiftRight(Low(value, 32), 32 - bits)

\* Each word is put together as an int, and its sign is extended when it
\* becomes a uint32.
BufferToBlock(buffer) ==
  [i \in 0 .. BLOCK_INTS - 1 |->
    LET int == UNION {ShiftLeft(BitsOf(buffer[4 * i + 1 + j]), 8 * (3 - j)) : j \in 0 .. 3}
    IN  IF 31 \in int THEN int \cup (32 .. WordBits - 1) ELSE int]

Plus(a, b) == Add(a, b, WordBits)

\* One of the 80 lines of transform().  The five working words change their
\* parts from one line to the next; here they move along instead.
Line(s, block, mixed, constant) ==
  [ i |-> s.i + 1,
    v |-> Plus(s.z, Plus(Plus(Plus(mixed, block[s.i % 16]), constant), Rol(s.v, 5))),
    w |-> s.v,
    x |-> Rol(s.w, 30),
    y |-> s.x,
    z |-> s.y,
    block |-> block ]

Choice(w, x, y) == Xor(w \cap Xor(x, y), y)
Parity(w, x, y) == Xor(Xor(w, x), y)
Majority(w, x, y) == ((w \cup x) \cap y) \cup (w \cap x)

\* SHA1_BLK: the block is a ring of the last 16 words.
NextWord(i, block) ==
  Rol(Xor(Xor(Xor(block[(i + 13) % 16], block[(i + 8) % 16]), block[(i + 2) % 16]),
          block[i % 16]), 1)

\* SHA1_R0 to SHA1_R4.
Round(s) ==
  LET block == IF s.i < 16 THEN s.block
               ELSE [s.block EXCEPT ![s.i % 16] = NextWord(s.i, s.block)]
  IN  CASE s.i \in 0 .. 19 -> Line(s, block, Choice(s.w, s.x, s.y), Word(\h5a82, \h7999))
        [] s.i \in 20 .. 39 -> Line(s, block, Parity(s.w, s.x, s.y), Word(\h6ed9, \heba1))
        [] s.i \in 40 .. 59 -> Line(s, block, Majority(s.w, s.x, s.y), Word(\h8f1b, \hbcdc))
        [] s.i \in 60 .. 79 -> Line(s, block, Parity(s.w, s.x, s.y), Word(\hca62, \hc1d6))

\* transform(): the digest, with one block of 16 words worked into it.
Transform(digest, block) ==
  LET start == [ i |-> 0, v |-> digest[1], w |-> digest[2], x |-> digest[3], y |-> digest[4],
                 z |-> digest[5], block |-> block ]
      after[n \in 0 .. 80] == IF n = 0 THEN start ELSE Round(after[n - 1])
      last == after[80]
      work == <<last.v, last.w, last.x, last.y, last.z>>
  IN  [k \in 1 .. 5 |-> Plus(digest[k], work[k])]

-----------------------------------------------------------------------------
\* The loop of update(): the piece fills the buffer up, which is transformed as
\* often as there was enough to fill it; the rest stays there.
Absorb(context, piece) ==
  LET bytes == context.buffer \o piece
      turns == Len(bytes) \div BLOCK_BYTES
      filled(n) == SubSeq(bytes, BLOCK_BYTES * (n - 1) + 1, BLOCK_BYTES * n)
      digest[n \in 0 .. turns] ==
        IF n = 0 THEN context.digest ELSE Transform(digest[n - 1], BufferToBlock(filled(n)))
  IN  [ digest |-> digest[turns],
        transforms |-> context.transforms + turns,
        buffer |-> SubSeq(bytes, BLOCK_BYTES * turns + 1, Len(bytes)) ]

\* The digest that final() prints.  total_bits, below 2^16 here, goes into the
\* last two words of a block; when the padding leaves no room for them, of a
\* block of their own.
Padded(context) ==
  LET size == Len(context.buffer) + 1
      block == BufferToBlock(context.buffer \o <<128>> \o [i \in 1 .. BLOCK_BYTES - size |-> 0])
      bits == (context.transforms * BLOCK_BYTES + Len(context.buffer)) * 8
      length(words) == [words EXCEPT ![14] = {}, ![15] = BitsOf(bits)]
  IN  IF size > BLOCK_BYTES - 8
      THEN Transform(Transform(context.digest, block), length([i \in 0 .. 15 |-> {}]))
      ELSE Transform(context.digest, length(block))

-----------------------------------------------------------------------------
Sha1Init ==
  /\ sha1Context = FreshContext
  /\ hashed = <<>>
  /\ sha1Hash = <<>>

\* The message so far: final() has reset the context.
Current == IF sha1Hash = <<>> THEN hashed ELSE <<>>

Sha1Update(n) ==
  /\ Len(Current) + n <= MaxLength
  /\ LET piece == [i \in 1 .. n |-> Byte(Len(Current) + i)] IN
       /\ sha1Context' = Absorb(sha1Context, piece)
       /\ hashed' = Current \o piece
  /\ sha1Hash' = <<>>

\* final() returns the digest and resets the context.  (hashed is kept for as
\* long as the digest is looked at.)
Sha1Final ==
  /\ LET digest == Padded(sha1Context) IN sha1Hash' = [i \in 1 .. 5 |-> Low(digest[i], 32)]
  /\ sha1Context' = FreshContext
  /\ hashed' = Current

\* sha1(): a context of its own, one update(), final().
Sha1Function(n) ==
  /\ sha1Context = FreshContext
  /\ LET message == [i \in 1 .. n |-> Byte(i)]
         digest == Padded(Absorb(FreshContext, message)) IN
       /\ sha1Hash' = [i \in 1 .. 5 |-> Low(digest[i], 32)]
       /\ hashed' = message
  /\ UNCHANGED sha1Context

Sha1Next ==
  \/ Sha1Final
  \/ \E n \in PieceSizes : Sha1Update(n)

-----------------------------------------------------------------------------
Standard == INSTANCE Sha1Standard

(***************************************************************************)
(* The digest is SHA-1 of the whole message, whatever the lengths of the   *)
(* pieces it came in, whatever was hashed before, and whatever the words   *)
(* hold above the 32 bits that SHA-1 knows of.                             *)
(***************************************************************************)
DigestIsStandard == sha1Hash # <<>> => sha1Hash = Standard!Sha1Of(hashed)
=============================================================================
