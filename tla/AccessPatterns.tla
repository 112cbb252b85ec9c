--------------------------- MODULE AccessPatterns ----------------------------
(***************************************************************************)
(* What the access patterns make of their configuration and of a random    *)
(* number: Random (and OCDB, which is the same code), ReadOnly and         *)
(* WriteOnly.  A configuration c is a record with the fields of            *)
(* Configuration that they read; the ratio, a double, is in hundredths.    *)
(***************************************************************************)
EXTENDS Integers

CONSTANT RandMax    \* RAND_MAX

ASSUME PatternAssumption == RandMax \in Nat \ {0}

KnownPatterns == {"Random", "ReadOnly", "WriteOnly"}

\* The constructors read the ratio into an int.
ReadWriteRatio(c) == c.ratio \div 100

\* A division by zero when there is a single key.
DividesByZero(c) == c.maxKey = c.minKey
NextKey(c, rand) == (rand % (c.maxKey - c.minKey)) + c.minKey

\* getNext() of the three classes, with the numbers r and s that rand() gives.
\* r / RAND_MAX <= readWriteBorder has both sides multiplied out.
RandomNext(c, r, s) ==
  [read |-> r * (1 + ReadWriteRatio(c)) <= ReadWriteRatio(c) * RandMax, key |-> NextKey(c, s)]
ReadOnlyNext(c, s) == [read |-> TRUE, key |-> NextKey(c, s)]
WriteOnlyNext(c, s) == [read |-> FALSE, key |-> NextKey(c, s)]

NextAccess(c, r, s) ==
  CASE c.pattern = "ReadOnly"  -> ReadOnlyNext(c, s)
    [] c.pattern = "WriteOnly" -> WriteOnlyNext(c, s)
    [] OTHER                   -> RandomNext(c, r, s)

\* Mutant of InitialisationKeys: the first key is left out.
InitialisationKeysAfterFirst(c) == c.minKey + 1 .. c.maxKey

InitialisationKeys(c) == c.minKey .. c.maxKey
=============================================================================
