-------------------------------- MODULE Vmac ---------------------------------
(***************************************************************************)
(* vmac.c: a message is hashed block by block into a polynomial of its     *)
(* blocks (vhash_update), the rest of it and its length are added, and a   *)
(* pad that only depends on the nonce makes a tag of the hash (vmac).      *)
(*                                                                         *)
(* NH, the polynomial and the final hash are free terms here: equal terms  *)
(* are equal numbers, and different terms different ones but for a         *)
(* collision.  The 128 bits of a tag come from two such computations side  *)
(* by side, with keys of their own; one stands for both.                   *)
(***************************************************************************)
EXTENDS Integers, Sequences

CONSTANTS
  NHBYTES,        \* VMAC_NHBYTES: the length of a block
  Pieces,         \* how many blocks are given to one vhash_update()
  MaxBytes        \* bound on the length of a message

ASSUME VmacAssumption ==
  /\ NHBYTES \in Nat \ {0} /\ NHBYTES % 16 = 0
  /\ Pieces \subseteq Nat \ {0}
  /\ MaxBytes \in Nat

VARIABLES
  vmacContext,    \* of the members of vmac_ctx_t, polytmp and first_block_processed
  authenticated,  \* history: the number of bytes of the message so far
  vmacHash,       \* the tag; NoTag while there is none
  behind          \* history: what followed the message in memory, for that tag

vmacVars == <<vmacContext, authenticated, vmacHash, behind>>

NoTag == <<>>

-----------------------------------------------------------------------------
\* The bytes of a message are all different: the one at position i is i.
Zero == 0
Leftover == -1

\* What a pointer to the message leads to.  vmac.h asks for zeroes up to the
\* next multiple of 16 bytes.  A std::string has one, and what was in its
\* memory before behind it.
Memory(length, following, i) ==
  IF i <= length THEN i
  ELSE IF following = "zeroes" \/ i = length + 1 THEN Zero
  ELSE Leftover

\* nh_16, nh_16_2, nh_vmac_nhbytes and nh_vmac_nhbytes_2: all words from a
\* position on, each with the key of its place.
Nh(length, following, from, bytes) ==
  [i \in 1 .. bytes |-> Memory(length, following, from + i)]

\* polykey, which is where polytmp starts.
PolyKey == <<>>

\* ADD128 puts the first block into the polynomial, poly_step every other one.
AddFirst(poly, nh) == Append(poly, [step |-> "add", block |-> nh])
PolySteps(poly, blocks) ==
  poly \o [b \in DOMAIN blocks |-> [step |-> "poly", block |-> blocks[b]]]

L3hash(poly, bits) == <<poly, bits>>

\* vhash_abort() and the end of vmac_set_key().
AbortedContext == [polytmp |-> PolyKey, first_block_processed |-> FALSE]

-----------------------------------------------------------------------------
\* Mutant of UpdatedContext: that a block has been processed is not recorded.
UpdatedContextUnmarked(context, blocks) ==
  [context EXCEPT
     !.polytmp = IF context.first_block_processed THEN PolySteps(@, blocks)
                 ELSE PolySteps(AddFirst(@, Head(blocks)), Tail(blocks))]

\* vhash_update() of some blocks, at least one.
UpdatedContext(context, blocks) ==
  [polytmp |-> IF context.first_block_processed THEN PolySteps(context.polytmp, blocks)
               ELSE PolySteps(AddFirst(context.polytmp, Head(blocks)), Tail(blocks)),
   first_block_processed |-> TRUE]

\* What vhash() reads of the rest of a message that has length bytes in all,
\* of which the last mbytes are passed: its whole blocks, and then as many
\* times 16 bytes as hold what remains.
BlocksOf(length, following, mbytes) ==
  LET start == length - mbytes
      whole == mbytes \div NHBYTES
      remaining == mbytes % NHBYTES
  IN  [b \in 1 .. whole |-> Nh(length, following, start + (b - 1) * NHBYTES, NHBYTES)]
      \o IF remaining = 0 THEN <<>>
         ELSE << Nh(length, following, start + whole * NHBYTES,
                    16 * ((remaining + 15) \div 16)) >>

\* vhash(): the context is used if it has seen a block, and otherwise the
\* first block is added to the key.
Vhash(context, length, following, mbytes) ==
  LET blocks == BlocksOf(length, following, mbytes)
      poly == IF context.first_block_processed THEN PolySteps(context.polytmp, blocks)
              ELSE IF blocks = <<>> THEN PolyKey
              ELSE PolySteps(AddFirst(PolyKey, Head(blocks)), Tail(blocks))
  IN  L3hash(poly, 8 * (mbytes % NHBYTES))

-----------------------------------------------------------------------------
VmacInit ==
  /\ vmacContext = AbortedContext
  /\ authenticated = 0
  /\ vmacHash = NoTag
  /\ behind = "zeroes"

\* The part of the message that has gone into the context.
Prefix == IF vmacHash = NoTag THEN authenticated ELSE 0

\* vhash_update() wants a positive multiple of NHBYTES.
VhashUpdate(n) ==
  LET length == Prefix + n * NHBYTES IN
    /\ length <= MaxBytes
    /\ vmacContext' = UpdatedContext(vmacContext, BlocksOf(length, "zeroes", n * NHBYTES))
    /\ authenticated' = length
    /\ vmacHash' = NoTag
    /\ behind' = "zeroes"

\* vmac() of the remainder.
Authenticate(mbytes, following) ==
  LET length == Prefix + mbytes IN
    /\ length <= MaxBytes
    /\ vmacHash' = Vhash(vmacContext, length, following, mbytes)
    /\ authenticated' = length
    /\ behind' = following
    /\ vmacContext' = AbortedContext

VmacNext ==
  \/ \E n \in Pieces : VhashUpdate(n)
  \/ \E mbytes \in 0 .. MaxBytes, following \in {"zeroes", "string"} :
       Authenticate(mbytes, following)

-----------------------------------------------------------------------------
\* The tag of a message, by definition: with zeroes up to a multiple of 16
\* bytes, cut into blocks of which the last may be shorter.
TagOf(length) ==
  LET padded == [i \in 1 .. 16 * ((length + 15) \div 16) |-> IF i <= length THEN i ELSE Zero]
      blocks == [b \in 1 .. (Len(padded) + NHBYTES - 1) \div NHBYTES |->
                   SubSeq(padded, (b - 1) * NHBYTES + 1,
                          IF b * NHBYTES <= Len(padded) THEN b * NHBYTES ELSE Len(padded))]
  IN  << [b \in DOMAIN blocks |->
            [step |-> IF b = 1 THEN "add" ELSE "poly", block |-> blocks[b]]],
         8 * (length % NHBYTES) >>

\* The end of a message and its one zero fill the last 16 bytes.
NeedsNoPadding(length) == length % 16 \in {0, 15}

(***************************************************************************)
(* A tag says something about the message and nothing else, whatever the   *)
(* context was used for before and in whichever pieces the message came,   *)
(* exactly if the zeroes that vmac.h asks for are there: with c_str(),     *)
(* which MessageSender::send() passes, for the lengths just below or at a  *)
(* multiple of 16.  (MessageSender neither sends nor compares its tags.)   *)
(***************************************************************************)
TagOfMessageIffPadded ==
  vmacHash # NoTag =>
    (vmacHash = TagOf(authenticated)
      <=> behind = "zeroes" \/ NeedsNoPadding(authenticated))
=============================================================================
