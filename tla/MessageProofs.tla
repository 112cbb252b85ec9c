---------------------------- MODULE MessageProofs ----------------------------
(***************************************************************************)
(* Proofs about what is sent and written: for any characters, keys and     *)
(* values, which maps survive a file or a message of key=value lines; for  *)
(* any message, in any pieces, that its digest is SHA-1; and for any       *)
(* length of message and of block, which tags are those of the message.    *)
(* The two models share nothing but their readers.                         *)
(***************************************************************************)
EXTENDS ResultStrings, MessageHashes, WellFoundedInduction, SequenceTheorems, TLAPS

-----------------------------------------------------------------------------
(***************************************************************************)
(* Induction, and the functions it defines.                                *)
(***************************************************************************)

\* Induction on the natural numbers: for a set instead of a predicate, so that
\* the provers can instantiate it.
LEMMA SetInduction ==
  ASSUME NEW T, 0 \in T, \A n \in Nat : n \in T => n + 1 \in T
  PROVE  Nat \subseteq T
<1> DEFINE Less == OpToRel(<, Nat)
           Rest == Nat \ T
<1>1. SUFFICES ASSUME Rest # {} PROVE FALSE
  OBVIOUS
<1>2. IsWellFoundedOn(Less, Nat)
  BY NatLessThanWellFounded
<1>3. PICK x \in Rest : \A y \in Rest : <<y, x>> \notin Less
  <2> HIDE DEF Less
  <2> QED
    BY <1>1, <1>2, WFMin
<1>4. x \in Nat /\ x - 1 \in Rest
  OBVIOUS
<1>5. <<x - 1, x>> \in Less
  BY <1>4 DEF OpToRel
<1> QED
  BY <1>3, <1>4, <1>5

\* The least element of a set of numbers.
LEMMA MinOfSet ==
  ASSUME NEW T \in SUBSET Nat, T # {}
  PROVE  Min(T) \in T /\ \A y \in T : Min(T) <= y
<1> DEFINE Bound == {n \in Nat : \A y \in T : y >= n}
<1>1. \E x \in T : \A y \in T : x <= y
  <2>1. SUFFICES ASSUME \A x \in T : \E y \in T : ~(x <= y) PROVE FALSE
    OBVIOUS
  <2>2. \A n \in Nat : n \in Bound => n + 1 \in Bound
    BY <2>1
  <2>3. Nat \subseteq Bound
    <3> HIDE DEF Bound
    <3>1. 0 \in Bound
      BY DEF Bound
    <3> QED
      BY <2>2, <3>1, SetInduction
  <2>4. PICK x \in T : TRUE
    OBVIOUS
  <2>5. x + 1 \in Bound
    BY <2>3
  <2> QED
    BY <2>4, <2>5
<1> QED
  BY <1>1 DEF Min

\* The greatest element of a bounded one.
LEMMA MaxOfSet ==
  ASSUME NEW T \in SUBSET Nat, T # {}, NEW b \in Nat, \A x \in T : x <= b
  PROVE  Max(T) \in T /\ \A y \in T : y <= Max(T)
<1> DEFINE Below == {b - x : x \in T}
<1>1. Below \in SUBSET Nat /\ Below # {}
  <2>1. \A x \in T : b - x \in Nat
    OBVIOUS
  <2> QED
    BY <2>1
<1>2. PICK l \in Below : \A y \in Below : l <= y
  <2> HIDE DEF Below
  <2> QED
    BY <1>1, MinOfSet
<1>3. PICK x \in T : l = b - x
  BY <1>2
<1>4. \A y \in T : y <= x
  BY <1>2, <1>3
<1>5. \E z \in T : \A y \in T : z >= y
  BY <1>3, <1>4
<1>6. Max(T) \in T /\ \A y \in T : Max(T) >= y
  BY <1>5 DEF Max
<1> QED
  BY <1>6

-----------------------------------------------------------------------------
\* f is defined by recursion over an interval, with a step that is a function.
Recursive(f, S, first, N, Step) ==
  /\ f \in [0 .. N -> S]
  /\ f[0] = first
  /\ \A n \in 1 .. N : f[n] = Step[<<f[n - 1], n>>]

\* There is such a function.
LEMMA RecursionExists ==
  ASSUME NEW S, NEW first \in S, NEW N \in Nat, NEW Step \in [S \X Nat -> S]
  PROVE  \E f : Recursive(f, S, first, N, Step)
<1> DEFINE Upto(n, f) == Recursive(f, S, first, n, Step)
           Good == {n \in Nat : \E f : Upto(n, f)}
<1> USE DEF Recursive
<1>1. 0 \in Good
  <2>1. Upto(0, [i \in 0 .. 0 |-> first])
    OBVIOUS
  <2> QED
    BY <2>1
<1>2. ASSUME NEW n \in Nat, n \in Good
      PROVE  n + 1 \in Good
  <2>1. PICK f : Upto(n, f)
    BY <1>2
  <2> DEFINE g == [i \in 0 .. n + 1 |-> IF i = n + 1 THEN Step[<<f[n], n + 1>>] ELSE f[i]]
  <2>2. f[n] \in S /\ Step[<<f[n], n + 1>>] \in S
    BY <2>1
  <2>3. g \in [0 .. n + 1 -> S]
    BY <2>1, <2>2
  <2>4. g[0] = first
    BY <2>1
  <2>5. \A i \in 1 .. n + 1 : g[i] = Step[<<g[i - 1], i>>]
    BY <2>1
  <2>6. Upto(n + 1, g)
    BY <2>3, <2>4, <2>5
  <2> HIDE DEF Upto
  <2> QED
    BY <2>6
<1>3. N \in Good
  <2> HIDE DEF Good
  <2> QED
    BY <1>1, <1>2, SetInduction
<1> QED
  BY <1>3

-----------------------------------------------------------------------------
String == Seq(Characters)
KeyCount == Len(SortedKeys)

\* A map from strings to strings.
IsMap(m) == m \in [DOMAIN m -> String] /\ DOMAIN m \subseteq String

\* The text with one entry more, if the map has the key.
Extended(m, text, k) ==
  IF k \notin DOMAIN m THEN text
  ELSE IF text = <<>> THEN Entry(m, k)
  ELSE text \o <<NewLine>> \o Entry(m, k)

LEMMA Literals == /\ {"=", "#", NewLine} \subseteq Characters
                  /\ <<"=">> \in String /\ <<NewLine>> \in String /\ <<>> \in String
                  /\ KeyCount \in Nat
                  /\ \A i \in 1 .. KeyCount : SortedKeys[i] \in String
BY StringsAssumption DEF String, KeyCount, NewLine

LEMMA EntryIsString ==
  ASSUME NEW m, IsMap(m), NEW k \in DOMAIN m
  PROVE  /\ Entry(m, k) \in String
         /\ Len(Entry(m, k)) = Len(k) + 1 + Len(m[k])
         /\ \A i \in 1 .. Len(Entry(m, k)) :
              Entry(m, k)[i] = IF i <= Len(k) THEN k[i]
                               ELSE IF i = Len(k) + 1 THEN "="
                               ELSE m[k][i - Len(k) - 1]
<1>1. k \in String /\ m[k] \in String
  BY DEF IsMap
<1>2. Entry(m, k) = k \o <<"=">> \o m[k]
  BY DEF Entry
<1> QED
  BY <1>1, <1>2, Literals DEF String

LEMMA ExtendedIsString ==
  ASSUME NEW m, IsMap(m), NEW text \in String, NEW k
  PROVE  Extended(m, text, k) \in String
<1>1. CASE k \notin DOMAIN m
  BY <1>1 DEF Extended
<1>2. CASE k \in DOMAIN m
  BY <1>2, EntryIsString, Literals DEF Extended, String
<1> QED
  BY <1>1, <1>2

\* The texts after each of the keys.
IsTextOf(text, m) ==
  /\ text \in [0 .. KeyCount -> String]
  /\ text[0] = <<>>
  /\ \A n \in 1 .. KeyCount : text[n] = Extended(m, text[n - 1], SortedKeys[n])

\* writeString() goes through the keys one by one.
LEMMA WriteStringStepwise ==
  ASSUME NEW m, IsMap(m)
  PROVE  \E text : IsTextOf(text, m) /\ WriteString(m) = text[KeyCount]
<1> DEFINE Step == [x \in String \X Nat |->
                      IF x[2] \in 1 .. KeyCount THEN Extended(m, x[1], SortedKeys[x[2]]) ELSE <<>>]
           Equation(f) == f = [n \in 0 .. Len(SortedKeys) |->
             IF n = 0 THEN <<>>
             ELSE IF SortedKeys[n] \notin DOMAIN m THEN f[n - 1]
             ELSE IF f[n - 1] = <<>> THEN Entry(m, SortedKeys[n])
             ELSE f[n - 1] \o <<NewLine>> \o Entry(m, SortedKeys[n])]
           TheText == CHOOSE f : Equation(f)
<1>1. Step \in [String \X Nat -> String]
  BY ExtendedIsString, Literals
<1>2. PICK f : Recursive(f, String, <<>>, KeyCount, Step)
  <2>1. <<>> \in String /\ KeyCount \in Nat
    BY Literals
  <2> HIDE DEF Step
  <2> QED
    BY <1>1, <2>1, RecursionExists
<1>3. /\ f \in [0 .. KeyCount -> String]
      /\ f[0] = <<>>
      /\ \A n \in 1 .. KeyCount : f[n] = Extended(m, f[n - 1], SortedKeys[n])
  <2>1. \A n \in 1 .. KeyCount : n - 1 \in 0 .. KeyCount /\ n \in Nat
    BY Literals
  <2> QED
    BY <1>2, <2>1 DEF Recursive
<1>4. Equation(f)
  <2>1. \A n \in 0 .. KeyCount : f[n] =
             IF n = 0 THEN <<>>
             ELSE IF SortedKeys[n] \notin DOMAIN m THEN f[n - 1]
             ELSE IF f[n - 1] = <<>> THEN Entry(m, SortedKeys[n])
             ELSE f[n - 1] \o <<NewLine>> \o Entry(m, SortedKeys[n])
    <3>1. TAKE n \in 0 .. KeyCount
    <3>2. CASE n = 0
      BY <3>2, <1>3
    <3>3. CASE n \in 1 .. KeyCount
      <4>1. f[n] = Extended(m, f[n - 1], SortedKeys[n]) /\ n # 0
        BY <3>3, <1>3
      <4> QED
        BY <4>1 DEF Extended
    <3> QED
      BY <3>2, <3>3, Literals
  <2>2. f = [n \in 0 .. KeyCount |-> f[n]]
    BY <1>3
  <2> QED
    BY <2>1, <2>2 DEF KeyCount
<1>5. Equation(TheText)
  <2> HIDE DEF Equation
  <2> QED
    BY <1>4
<1>6. WriteString(m) = TheText[KeyCount]
  BY DEF WriteString, KeyCount
<1>7. IsTextOf(TheText, m)
  <2> HIDE DEF TheText
  <2> DEFINE Types(n) == n <= KeyCount => TheText[n] \in String
  <2>1. \A n \in 0 .. KeyCount : TheText[n] =
             IF n = 0 THEN <<>>
             ELSE IF SortedKeys[n] \notin DOMAIN m THEN TheText[n - 1]
             ELSE IF TheText[n - 1] = <<>> THEN Entry(m, SortedKeys[n])
             ELSE TheText[n - 1] \o <<NewLine>> \o Entry(m, SortedKeys[n])
    BY <1>5 DEF KeyCount
  <2>2. TheText[0] = <<>>
    BY <2>1, Literals
  <2>3. \A n \in 1 .. KeyCount : TheText[n] = Extended(m, TheText[n - 1], SortedKeys[n])
    BY <2>1, Literals DEF Extended
  <2>4. \A n \in 0 .. KeyCount : TheText[n] \in String
    <3> DEFINE Good == {n \in Nat : n <= KeyCount => TheText[n] \in String}
    <3>1. 0 \in Good
      BY <2>2, Literals
    <3>2. ASSUME NEW n \in Nat, n \in Good PROVE n + 1 \in Good
      BY <3>2, <2>3, ExtendedIsString, Literals
    <3>3. Nat \subseteq Good
      <4> HIDE DEF Good
      <4> QED
        BY <3>1, <3>2, SetInduction
    <3> QED
      BY <3>3, Literals
  <2>5. TheText = [n \in 0 .. KeyCount |-> TheText[n]]
    BY <1>5 DEF KeyCount
  <2> QED
    BY <2>2, <2>3, <2>4, <2>5 DEF IsTextOf
<1> QED
  BY <1>6, <1>7

-----------------------------------------------------------------------------
\* e is where the line that starts at i ends.
EndsAt(text, i, e) ==
  /\ e \in i .. Len(text) + 1
  /\ e = Len(text) + 1 \/ text[e] = NewLine
  /\ \A j \in i .. e - 1 : text[j] # NewLine

\* A line goes to the next line break or to the end.
LEMMA LineEnds ==
  ASSUME NEW text \in String, NEW i \in 1 .. Len(text)
  PROVE  \E e : EndsAt(text, i, e) /\ LineAt(text, i) = SubSeq(text, i, e - 1)
<1> DEFINE Ends == {j \in i .. Len(text) : text[j] = NewLine} \cup {Len(text) + 1}
<1>1. Len(text) \in Nat
  BY DEF String
<1>2. Ends \in SUBSET Nat /\ Ends # {}
  BY <1>1
<1>3. Min(Ends) \in Ends /\ \A y \in Ends : Min(Ends) <= y
  <2> HIDE DEF Ends
  <2> QED
    BY <1>2, MinOfSet
<1>4. EndsAt(text, i, Min(Ends))
  <2>1. Min(Ends) \in i .. Len(text) + 1 /\ (Min(Ends) = Len(text) + 1 \/ text[Min(Ends)] = NewLine)
    BY <1>1, <1>3
  <2>2. ASSUME NEW j \in i .. Min(Ends) - 1, text[j] = NewLine PROVE FALSE
    <3>1. j \in Ends /\ j < Min(Ends)
      BY <1>1, <2>1, <2>2
    <3> QED
      BY <3>1, <1>3, <1>2, <1>1
  <2> QED
    BY <2>1, <2>2 DEF EndsAt
<1> QED
  BY <1>4 DEF LineAt

LEMMA EndUnique ==
  ASSUME NEW text \in String, NEW i \in 1 .. Len(text),
         NEW d, EndsAt(text, i, d), NEW e, EndsAt(text, i, e)
  PROVE  d = e
<1>1. d \in Int /\ e \in Int /\ Len(text) \in Nat
  BY DEF EndsAt, String
<1>2. ~ d < e
  BY <1>1 DEF EndsAt
<1>3. ~ e < d
  BY <1>1 DEF EndsAt
<1> QED
  BY <1>1, <1>2, <1>3

LEMMA LineIs ==
  ASSUME NEW text \in String, NEW i \in 1 .. Len(text), NEW e, EndsAt(text, i, e)
  PROVE  LineAt(text, i) = SubSeq(text, i, e - 1)
BY LineEnds, EndUnique

\* Part of a string.
LEMMA PartOfString ==
  ASSUME NEW s \in String, NEW a \in 1 .. Len(s) + 1, NEW b \in a - 1 .. Len(s)
  PROVE  /\ SubSeq(s, a, b) \in String
         /\ Len(SubSeq(s, a, b)) = b - a + 1
         /\ \A j \in 1 .. b - a + 1 : SubSeq(s, a, b)[j] = s[a + j - 1]
<1>1. \A j \in a .. b : s[j] \in Characters
  BY DEF String
<1> QED
  BY <1>1, SubSeqProperties DEF String

\* A line is a string without line breaks.
LEMMA LineHasNoBreak ==
  ASSUME NEW text \in String, NEW i \in 1 .. Len(text)
  PROVE  /\ LineAt(text, i) \in String
         /\ \A j \in 1 .. Len(LineAt(text, i)) : LineAt(text, i)[j] # NewLine
<1>1. PICK e : EndsAt(text, i, e) /\ LineAt(text, i) = SubSeq(text, i, e - 1)
  BY LineEnds
<1>2. /\ e \in Int /\ Len(text) \in Nat
      /\ i \in 1 .. Len(text) + 1 /\ e - 1 \in i - 1 .. Len(text)
  BY <1>1 DEF EndsAt, String
<1>3. /\ LineAt(text, i) \in String
      /\ Len(LineAt(text, i)) = e - i
      /\ \A j \in 1 .. e - i : LineAt(text, i)[j] = text[i + j - 1]
  <2>1. (e - 1) - i + 1 = e - i
    BY <1>2
  <2> QED
    BY <1>1, <1>2, <2>1, PartOfString
<1> QED
  BY <1>1, <1>2, <1>3 DEF EndsAt

\* The separator is the first "=".
LEMMA SplitIsFirst ==
  ASSUME NEW line \in String
  PROVE  /\ Split(line) \in 0 .. Len(line)
         /\ Split(line) # 0 => line[Split(line)] = "="
         /\ \A j \in 1 .. Len(line) : line[j] = "=" => Split(line) # 0 /\ Split(line) <= j
<1> DEFINE Found == {j \in 1 .. Len(line) : line[j] = "="}
<1>1. Len(line) \in Nat
  BY DEF String
<1>2. Split(line) = IF Found # {} THEN Min(Found) ELSE 0
  BY DEF Split, SelectInSeq
<1>3. Found # {} => Min(Found) \in Found /\ \A y \in Found : Min(Found) <= y
  <2>1. Found \in SUBSET Nat
    BY <1>1
  <2> HIDE DEF Found
  <2> QED
    BY <2>1, MinOfSet
<1>4. CASE Found = {}
  BY <1>1, <1>2, <1>4
<1>5. CASE Found # {}
  <2>1. Split(line) \in Found /\ \A y \in Found : Split(line) <= y
    BY <1>2, <1>3, <1>5
  <2> HIDE DEF Found
  <2>2. Split(line) \in 1 .. Len(line) /\ line[Split(line)] = "="
    BY <2>1 DEF Found
  <2>3. \A j \in 1 .. Len(line) : line[j] = "=" => Split(line) <= j
    BY <2>1 DEF Found
  <2> QED
    BY <1>1, <2>2, <2>3
<1> QED
  BY <1>4, <1>5

LEMMA SplitUnique ==
  ASSUME NEW line \in String, NEW p \in 1 .. Len(line), line[p] = "=",
         \A j \in 1 .. p - 1 : line[j] # "="
  PROVE  Split(line) = p
<1>1. Len(line) \in Nat /\ Split(line) \in Nat
  BY SplitIsFirst DEF String
<1> QED
  BY <1>1, SplitIsFirst

-----------------------------------------------------------------------------
\* A map that can be sent.
Clean(m) == \A k \in DOMAIN m : CleanKey(k) /\ CleanValue(m[k])

\* What is in front of the separator of a line is a clean key, and what is
\* behind it a clean value.
LEMMA LineIsClean ==
  ASSUME NEW line \in String, \A j \in 1 .. Len(line) : line[j] # NewLine,
         ~ IsComment(line), Split(line) # 0
  PROVE  /\ KeyOf(line) \in String /\ ValueOf(line) \in String
         /\ CleanKey(KeyOf(line)) /\ CleanValue(ValueOf(line))
<1> DEFINE p == Split(line)
<1>1. Len(line) \in Nat /\ p \in 1 .. Len(line) /\ line[p] = "="
  BY SplitIsFirst DEF String
<1>2. \A j \in 1 .. p - 1 : line[j] # "="
  BY <1>1, SplitIsFirst
<1> HIDE DEF p
<1>3. /\ KeyOf(line) \in String
      /\ Len(KeyOf(line)) = p - 1
      /\ \A j \in 1 .. p - 1 : KeyOf(line)[j] = line[j]
  <2>1. 1 \in 1 .. Len(line) + 1 /\ p - 1 \in 1 - 1 .. Len(line)
    BY <1>1
  <2>2. (p - 1) - 1 + 1 = p - 1 /\ \A j \in 1 .. p - 1 : 1 + j - 1 = j
    BY <1>1
  <2> QED
    BY <2>1, <2>2, PartOfString DEF KeyOf, p
<1>4. /\ ValueOf(line) \in String
      /\ Len(ValueOf(line)) = Len(line) - p
      /\ \A j \in 1 .. Len(line) - p : ValueOf(line)[j] = line[p + j]
  <2>1. p + 1 \in 1 .. Len(line) + 1 /\ Len(line) \in (p + 1) - 1 .. Len(line)
    BY <1>1
  <2>2. Len(line) - (p + 1) + 1 = Len(line) - p /\ \A j \in 1 .. Len(line) - p : (p + 1) + j - 1 = p + j
    BY <1>1
  <2> QED
    BY <2>1, <2>2, PartOfString DEF ValueOf, p
<1>5. DOMAIN KeyOf(line) = 1 .. p - 1 /\ DOMAIN ValueOf(line) = 1 .. Len(line) - p
  BY <1>3, <1>4 DEF String
<1>6. ToSet(KeyOf(line)) \cap {"=", NewLine} = {}
  BY <1>1, <1>2, <1>3, <1>5 DEF ToSet
<1>7. ~ IsComment(KeyOf(line))
  <2>1. SUFFICES ASSUME KeyOf(line) # <<>>, Head(KeyOf(line)) = "#" PROVE FALSE
    BY DEF IsComment
  <2>2. Len(KeyOf(line)) # 0
    BY <1>3, <2>1 DEF String
  <2>3. Head(KeyOf(line)) = line[1]
    BY <1>1, <1>3, <2>1, <2>2 DEF String
  <2>4. line # <<>> /\ Head(line) = line[1]
    BY <1>1 DEF String
  <2> QED
    BY <2>1, <2>3, <2>4 DEF IsComment
<1>8. NewLine \notin ToSet(ValueOf(line))
  BY <1>1, <1>4, <1>5 DEF ToSet
<1> QED
  BY <1>3, <1>4, <1>6, <1>7, <1>8 DEF CleanKey, CleanValue

\* readString() makes a clean map of any string.
LEMMA ReadIsClean ==
  ASSUME NEW text \in String
  PROVE  IsMap(ReadString(text)) /\ Clean(ReadString(text))
<1> DEFINE Of(k) == {i \in Assigning(text) : KeyOf(LineAt(text, i)) = k}
<1>1. Len(text) \in Nat /\ \A i \in Assigning(text) : i \in 1 .. Len(text)
  BY DEF String, Assigning, LineStarts
<1>2. ASSUME NEW i \in Assigning(text)
      PROVE  LET line == LineAt(text, i)
             IN  /\ KeyOf(line) \in String /\ ValueOf(line) \in String
                 /\ CleanKey(KeyOf(line)) /\ CleanValue(ValueOf(line))
  <2>1. /\ LineAt(text, i) \in String
        /\ \A j \in 1 .. Len(LineAt(text, i)) : LineAt(text, i)[j] # NewLine
    BY <1>1, LineHasNoBreak
  <2>2. ~ IsComment(LineAt(text, i)) /\ Split(LineAt(text, i)) # 0
    BY DEF Assigning
  <2> QED
    BY <2>1, <2>2, LineIsClean
<1>3. ASSUME NEW k \in DOMAIN ReadString(text)
      PROVE  /\ Max(Of(k)) \in Of(k)
             /\ ReadString(text)[k] = ValueOf(LineAt(text, Max(Of(k))))
  <2>1. Of(k) \in SUBSET Nat /\ Of(k) # {} /\ \A i \in Of(k) : i <= Len(text)
    BY <1>1, <1>3 DEF ReadString
  <2>2. Max(Of(k)) \in Of(k)
    <3> HIDE DEF Of
    <3> QED
      BY <1>1, <2>1, MaxOfSet
  <2> QED
    BY <2>2, <1>3 DEF ReadString
<1>4. \A k \in DOMAIN ReadString(text) :
        /\ k \in String /\ ReadString(text)[k] \in String
        /\ CleanKey(k) /\ CleanValue(ReadString(text)[k])
  BY <1>2, <1>3
<1>5. ReadString(text) = [k \in DOMAIN ReadString(text) |-> ReadString(text)[k]]
  BY DEF ReadString
<1> QED
  BY <1>4, <1>5 DEF IsMap, Clean

-----------------------------------------------------------------------------
\* A string that is one line.
OneLine(e) == e \in String /\ e # <<>> /\ \A j \in 1 .. Len(e) : e[j] # NewLine

LEMMA LinesOfOne ==
  ASSUME NEW e, OneLine(e)
  PROVE  LineStarts(e) = {1} /\ LineAt(e, 1) = e
<1>1. e \in String /\ Len(e) \in Nat /\ Len(e) # 0 /\ \A j \in 1 .. Len(e) : e[j] # NewLine
  BY DEF OneLine, String
<1>2. LineStarts(e) = {1}
  <2>1. \A i \in 1 .. Len(e) : i # 1 => i - 1 \in 1 .. Len(e)
    BY <1>1
  <2> QED
    BY <1>1, <2>1 DEF LineStarts
<1>3. EndsAt(e, 1, Len(e) + 1)
  BY <1>1 DEF EndsAt
<1>4. LineAt(e, 1) = SubSeq(e, 1, (Len(e) + 1) - 1)
  BY <1>1, <1>3, LineIs
<1>5. SubSeq(e, 1, Len(e)) = e
  BY <1>1, SubSeqFull DEF String
<1> QED
  BY <1>1, <1>2, <1>4, <1>5

\* The lines of a text and one more.
OneMoreLine(more, text, e) ==
  /\ more # <<>> /\ more[Len(more)] # NewLine
  /\ LineStarts(more) = LineStarts(text) \cup {Len(text) + 2}
  /\ \A i \in LineStarts(text) : LineAt(more, i) = LineAt(text, i)
  /\ LineAt(more, Len(text) + 2) = e

\* A line more leaves the others as they are.
LEMMA LinesOfMore ==
  ASSUME NEW text \in String, text # <<>>, text[Len(text)] # NewLine,
         NEW e, OneLine(e), NEW more, more = text \o <<NewLine>> \o e
  PROVE  OneMoreLine(more, text, e)
<1> DEFINE t == Len(text)
           l == Len(e)
<1>1. /\ t \in Nat /\ l \in Nat /\ t # 0 /\ l # 0
      /\ e \in String /\ \A j \in 1 .. l : e[j] # NewLine
  BY DEF OneLine, String
<1>2. /\ more \in String
      /\ Len(more) = t + 1 + l
      /\ \A j \in 1 .. t + 1 + l :
           more[j] = IF j <= t THEN text[j] ELSE IF j = t + 1 THEN NewLine ELSE e[j - t - 1]
  BY <1>1, Literals DEF String
<1> HIDE DEF t, l
<1>3. /\ \A j \in 1 .. t : more[j] = text[j]
      /\ more[t + 1] = NewLine
      /\ \A j \in 1 .. l : more[t + 1 + j] = e[j]
  <2>1. \A j \in 1 .. l : t + 1 + j \in 1 .. t + 1 + l /\ ~ t + 1 + j <= t /\ (t + 1 + j) - t - 1 = j
    BY <1>1
  <2> QED
    BY <1>1, <1>2, <2>1
<1>4. more # <<>> /\ more[Len(more)] # NewLine
  BY <1>1, <1>2, <1>3
<1>5. LineStarts(more) = LineStarts(text) \cup {t + 2}
  <2>1. ASSUME NEW i \in 1 .. t PROVE i \in LineStarts(more) <=> i \in LineStarts(text)
    <3>1. i # 1 => i - 1 \in 1 .. t
      BY <1>1
    <3> QED
      BY <1>1, <1>2, <1>3, <3>1 DEF LineStarts, t
  <2>2. t + 1 \notin LineStarts(more)
    BY <1>1, <1>3 DEF LineStarts, t
  <2>3. t + 2 \in LineStarts(more)
    BY <1>1, <1>2, <1>3 DEF LineStarts
  <2>4. ASSUME NEW i \in t + 3 .. t + 1 + l PROVE i \notin LineStarts(more)
    <3>1. i - 1 = t + 1 + (i - t - 2) /\ i - t - 2 \in 1 .. l /\ i # 1
      BY <1>1
    <3> QED
      BY <1>1, <1>3, <3>1 DEF LineStarts
  <2>5. /\ LineStarts(more) \subseteq 1 .. t + 1 + l
        /\ LineStarts(text) \subseteq 1 .. t
    BY <1>2 DEF LineStarts, t
  <2>6. \A i \in 1 .. t + 1 + l : i \in 1 .. t \/ i = t + 1 \/ i = t + 2 \/ i \in t + 3 .. t + 1 + l
    BY <1>1
  <2> QED
    BY <2>1, <2>2, <2>3, <2>4, <2>5, <2>6
<1>6. ASSUME NEW i \in LineStarts(text) PROVE LineAt(more, i) = LineAt(text, i)
  <2>1. i \in 1 .. t /\ i \in 1 .. Len(more)
    BY <1>1, <1>2 DEF LineStarts, t
  <2>2. PICK d : EndsAt(text, i, d) /\ LineAt(text, i) = SubSeq(text, i, d - 1)
    BY <2>1, LineEnds DEF t
  <2>3. d \in i .. t + 1 /\ (d = t + 1 \/ text[d] = NewLine) /\ \A j \in i .. d - 1 : text[j] # NewLine
    BY <2>2 DEF EndsAt, t
  <2>4. EndsAt(more, i, d)
    BY <1>1, <1>2, <1>3, <2>1, <2>3, SMTT(30) DEF EndsAt
  <2>5. LineAt(more, i) = SubSeq(more, i, d - 1)
    BY <1>2, <2>1, <2>4, LineIs
  <2>6. SubSeq(more, i, d - 1) = SubSeq(text, i, d - 1)
    <3>1. /\ i \in 1 .. Len(more) + 1 /\ d - 1 \in i - 1 .. Len(more)
          /\ i \in 1 .. Len(text) + 1 /\ d - 1 \in i - 1 .. Len(text)
          /\ \A j \in 1 .. (d - 1) - i + 1 : i + j - 1 \in 1 .. t
      BY <1>1, <1>2, <2>1, <2>3 DEF t
    <3>2. /\ SubSeq(more, i, d - 1) \in String
          /\ Len(SubSeq(more, i, d - 1)) = (d - 1) - i + 1
          /\ \A j \in 1 .. (d - 1) - i + 1 : SubSeq(more, i, d - 1)[j] = more[i + j - 1]
      BY <1>2, <3>1, PartOfString
    <3>3. /\ SubSeq(text, i, d - 1) \in String
          /\ Len(SubSeq(text, i, d - 1)) = (d - 1) - i + 1
          /\ \A j \in 1 .. (d - 1) - i + 1 : SubSeq(text, i, d - 1)[j] = text[i + j - 1]
      BY <3>1, PartOfString
    <3> QED
      BY <1>3, <3>1, <3>2, <3>3, SeqEqual, SMTT(30) DEF String
  <2> QED
    BY <2>2, <2>5, <2>6
<1>7. LineAt(more, t + 2) = e
  <2>1. EndsAt(more, t + 2, Len(more) + 1)
    <3>1. ASSUME NEW j \in t + 2 .. t + 1 + l PROVE more[j] # NewLine
      <4>1. j = t + 1 + (j - t - 1) /\ j - t - 1 \in 1 .. l
        BY <1>1
      <4> QED
        BY <1>1, <1>3, <4>1
    <3> QED
      BY <1>1, <1>2, <3>1 DEF EndsAt
  <2>2. LineAt(more, t + 2) = SubSeq(more, t + 2, t + 1 + l)
    <3>1. t + 2 \in 1 .. Len(more) /\ (Len(more) + 1) - 1 = t + 1 + l
      BY <1>1, <1>2
    <3> QED
      BY <1>2, <2>1, <3>1, LineIs, ZenonT(40)
  <2>3. /\ SubSeq(more, t + 2, t + 1 + l) \in String
        /\ Len(SubSeq(more, t + 2, t + 1 + l)) = l
        /\ \A j \in 1 .. l : SubSeq(more, t + 2, t + 1 + l)[j] = more[t + 1 + j]
    <3>1. /\ t + 2 \in 1 .. Len(more) + 1 /\ t + 1 + l \in (t + 2) - 1 .. Len(more)
          /\ (t + 1 + l) - (t + 2) + 1 = l /\ \A j \in 1 .. l : (t + 2) + j - 1 = t + 1 + j
      BY <1>1, <1>2
    <3>2. /\ SubSeq(more, t + 2, t + 1 + l) \in String
          /\ Len(SubSeq(more, t + 2, t + 1 + l)) = (t + 1 + l) - (t + 2) + 1
          /\ \A j \in 1 .. (t + 1 + l) - (t + 2) + 1 :
               SubSeq(more, t + 2, t + 1 + l)[j] = more[(t + 2) + j - 1]
      BY <1>2, <3>1, PartOfString
    <3> QED
      BY <3>1, <3>2
  <2>4. \A j \in 1 .. l : SubSeq(more, t + 2, t + 1 + l)[j] = e[j]
    BY <1>3, <2>3
  <2>5. SubSeq(more, t + 2, t + 1 + l) = e
    BY <1>1, <2>3, <2>4, SeqEqual DEF String, l
  <2> QED
    BY <2>2, <2>5
<1> QED
  BY <1>4, <1>5, <1>6, <1>7 DEF t, OneMoreLine

-----------------------------------------------------------------------------
\* The entry of a clean key and value is one line, which is read as it was
\* written.
LEMMA EntryIsLine ==
  ASSUME NEW m, IsMap(m), Clean(m), NEW k \in DOMAIN m
  PROVE  /\ OneLine(Entry(m, k))
         /\ Entry(m, k)[Len(Entry(m, k))] # NewLine
         /\ ~ IsComment(Entry(m, k)) /\ Split(Entry(m, k)) # 0
         /\ KeyOf(Entry(m, k)) = k /\ ValueOf(Entry(m, k)) = m[k]
<1> DEFINE e == Entry(m, k)
           l == Len(k)
           v == m[k]
<1>1. /\ k \in String /\ v \in String /\ l \in Nat /\ Len(v) \in Nat
      /\ CleanKey(k) /\ CleanValue(v)
  BY DEF IsMap, Clean, String
<1>2. /\ \A j \in 1 .. l : k[j] # "=" /\ k[j] # NewLine
      /\ \A j \in 1 .. Len(v) : v[j] # NewLine
  <2>1. DOMAIN k = 1 .. l /\ DOMAIN v = 1 .. Len(v)
    BY <1>1 DEF String
  <2> QED
    BY <1>1, <2>1 DEF CleanKey, CleanValue, ToSet
<1>3. /\ e \in String
      /\ Len(e) = l + 1 + Len(v)
      /\ \A j \in 1 .. Len(e) :
           e[j] = IF j <= l THEN k[j] ELSE IF j = l + 1 THEN "=" ELSE v[j - l - 1]
  BY EntryIsString
<1> HIDE DEF e, v, l
<1>4. /\ \A j \in 1 .. l : e[j] = k[j]
      /\ e[l + 1] = "="
      /\ \A j \in 1 .. Len(v) : e[l + 1 + j] = v[j]
  <2>1. \A j \in 1 .. Len(v) : /\ l + 1 + j \in 1 .. Len(e) /\ ~ l + 1 + j <= l /\ l + 1 + j # l + 1
                               /\ (l + 1 + j) - l - 1 = j
    BY <1>1, <1>3
  <2> QED
    BY <1>1, <1>3, <2>1
<1>5. \A j \in 1 .. Len(e) : e[j] # NewLine
  <2>1. ASSUME NEW j \in 1 .. Len(e) PROVE j \in 1 .. l \/ j = l + 1 \/ j - l - 1 \in 1 .. Len(v)
    BY <1>1, <1>3
  <2>2. NewLine # "="
    BY DEF NewLine
  <2> QED
    BY <1>1, <1>2, <1>3, <2>1, <2>2
<1>6. e # <<>> /\ Len(e) \in 1 .. Len(e)
  BY <1>1, <1>3 DEF String
<1>7. ~ IsComment(e)
  <2>1. Head(e) = e[1]
    BY <1>3, <1>6 DEF String
  <2>2. CASE l = 0
    BY <1>4, <2>1, <2>2 DEF IsComment
  <2>3. CASE l # 0
    <3>1. Head(k) = k[1] /\ k # <<>>
      BY <1>1, <2>3 DEF String, l
    <3>2. k[1] # "#"
      BY <1>1, <3>1 DEF CleanKey, IsComment
    <3> QED
      BY <1>1, <1>4, <2>1, <2>3, <3>2 DEF IsComment
  <2> QED
    BY <2>2, <2>3
<1>8. Split(e) = l + 1
  <2>1. l + 1 \in 1 .. Len(e) /\ \A j \in 1 .. (l + 1) - 1 : e[j] # "="
    BY <1>1, <1>2, <1>3, <1>4
  <2> QED
    BY <1>3, <1>4, <2>1, SplitUnique
<1>9. KeyOf(e) = k
  <2>1. 1 \in 1 .. Len(e) + 1 /\ l \in 1 - 1 .. Len(e) /\ l - 1 + 1 = l /\ (l + 1) - 1 = l
    BY <1>1, <1>3
  <2>2. /\ SubSeq(e, 1, l) \in String
        /\ Len(SubSeq(e, 1, l)) = l - 1 + 1
        /\ \A j \in 1 .. l - 1 + 1 : SubSeq(e, 1, l)[j] = e[1 + j - 1]
    BY <1>3, <2>1, PartOfString
  <2>3. Len(SubSeq(e, 1, l)) = l /\ \A j \in 1 .. l : SubSeq(e, 1, l)[j] = k[j]
    BY <1>1, <1>4, <2>1, <2>2
  <2>4. SubSeq(e, 1, l) = k
    BY <1>1, <2>2, <2>3, SeqEqual DEF String, l
  <2> QED
    BY <1>8, <2>1, <2>4 DEF KeyOf
<1>10. ValueOf(e) = v
  <2>1. /\ (l + 1) + 1 \in 1 .. Len(e) + 1 /\ Len(e) \in ((l + 1) + 1) - 1 .. Len(e)
        /\ Len(e) - ((l + 1) + 1) + 1 = Len(v)
        /\ \A j \in 1 .. Len(v) : ((l + 1) + 1) + j - 1 = l + 1 + j
    BY <1>1, <1>3
  <2> DEFINE w == SubSeq(e, (l + 1) + 1, Len(e))
  <2>2. /\ w \in String
        /\ Len(w) = Len(e) - ((l + 1) + 1) + 1
        /\ \A j \in 1 .. Len(e) - ((l + 1) + 1) + 1 : w[j] = e[((l + 1) + 1) + j - 1]
    BY <1>3, <2>1, PartOfString
  <2> HIDE DEF w
  <2>3. Len(w) = Len(v) /\ \A j \in 1 .. Len(v) : w[j] = v[j]
    BY <1>4, <2>1, <2>2
  <2>4. w = v
    BY <1>1, <2>2, <2>3, SeqEqual DEF String
  <2> QED
    BY <1>8, <2>4 DEF ValueOf, w
<1> QED
  BY <1>1, <1>3, <1>5, <1>6, <1>7, <1>8, <1>9, <1>10 DEF OneLine, e, v, l

\* The keys of the map among the first n, and the lines of a text.
KeysUpto(m, n) == {SortedKeys[h] : h \in 1 .. n} \cap DOMAIN m
LinesOf(text) == {LineAt(text, i) : i \in LineStarts(text)}

\* The lines are the entries of these keys.
HasLines(text, m, n) ==
  /\ text # <<>> => text[Len(text)] # NewLine
  /\ LinesOf(text) = {Entry(m, k) : k \in KeysUpto(m, n)}

\* A text that is written of a clean map has the entries for lines.
LEMMA WrittenLines ==
  ASSUME NEW m, IsMap(m), Clean(m), NEW text, IsTextOf(text, m), NEW n \in 0 .. KeyCount
  PROVE  HasLines(text[n], m, n)
<1> DEFINE Written(i) == HasLines(text[i], m, i)
           Good == {i \in Nat : i <= KeyCount => Written(i)}
<1> USE DEF HasLines
<1>1. 0 \in Good
  <2>1. text[0] = <<>> /\ LineStarts(<<>>) = {}
    BY DEF IsTextOf, LineStarts
  <2>2. KeysUpto(m, 0) = {}
    BY DEF KeysUpto
  <2> QED
    BY <2>1, <2>2 DEF LinesOf
<1>2. ASSUME NEW i \in Nat, i \in Good PROVE i + 1 \in Good
  <2>1. SUFFICES ASSUME i + 1 <= KeyCount PROVE Written(i + 1)
    OBVIOUS
  <2> DEFINE key == SortedKeys[i + 1]
  <2>2. /\ i \in 0 .. KeyCount /\ i + 1 \in 1 .. KeyCount /\ (i + 1) - 1 = i
        /\ text[i] \in String
        /\ text[i + 1] = Extended(m, text[i], key)
    BY <2>1, Literals DEF IsTextOf
  <2>3. Written(i)
    BY <1>2, <2>2
  <2>4. KeysUpto(m, i + 1) = KeysUpto(m, i) \cup ({key} \cap DOMAIN m)
    <3>1. 1 .. i + 1 = (1 .. i) \cup {i + 1}
      OBVIOUS
    <3> QED
      BY <3>1 DEF KeysUpto
  <2> HIDE DEF Written, key
  <2>5. CASE key \notin DOMAIN m
    <3>1. text[i + 1] = text[i] /\ KeysUpto(m, i + 1) = KeysUpto(m, i)
      BY <2>2, <2>4, <2>5 DEF Extended
    <3> QED
      BY <2>3, <3>1 DEF Written
  <2>6. CASE key \in DOMAIN m
    <3> DEFINE e == Entry(m, key)
    <3>1. OneLine(e) /\ e[Len(e)] # NewLine
      BY <2>6, EntryIsLine
    <3>2. KeysUpto(m, i + 1) = KeysUpto(m, i) \cup {key}
      BY <2>4, <2>6
    <3> HIDE DEF e
    <3>3. CASE text[i] = <<>>
      <4>1. text[i + 1] = e
        BY <2>2, <2>6, <3>3 DEF Extended, e
      <4>2. LinesOf(text[i]) = {}
        BY <3>3 DEF LinesOf, LineStarts
      <4>3. KeysUpto(m, i) = {}
        BY <2>3, <4>2 DEF Written
      <4>4. LinesOf(e) = {e}
        BY <3>1, LinesOfOne DEF LinesOf
      <4> QED
        BY <3>1, <3>2, <4>1, <4>3, <4>4 DEF Written, e
    <3>4. CASE text[i] # <<>>
      <4> DEFINE more == text[i + 1]
      <4>1. more = text[i] \o <<NewLine>> \o e
        BY <2>2, <2>6, <3>4 DEF Extended, e
      <4>2. text[i][Len(text[i])] # NewLine
        BY <2>3, <3>4 DEF Written
      <4> HIDE DEF more
      <4>3. OneMoreLine(more, text[i], e)
        BY <2>2, <3>1, <3>4, <4>1, <4>2, LinesOfMore
      <4>4. LinesOf(more) = LinesOf(text[i]) \cup {e}
        BY <4>3 DEF LinesOf, OneMoreLine
      <4>5. LinesOf(more) = {Entry(m, k) : k \in KeysUpto(m, i + 1)}
        BY <2>3, <3>2, <4>4 DEF Written, e
      <4> QED
        BY <4>3, <4>5 DEF Written, more, OneMoreLine
    <3> QED
      BY <3>3, <3>4
  <2> QED
    BY <2>5, <2>6
<1>3. n \in Good
  <2> HIDE DEF Good
  <2> QED
    BY <1>1, <1>2, Literals, SetInduction
<1> QED
  BY <1>3, Literals

LEMMA WriteIsString ==
  ASSUME NEW m, IsMap(m)
  PROVE  WriteString(m) \in String
BY WriteStringStepwise, Literals DEF IsTextOf

\* A clean map is read as it was written.
LEMMA CleanRoundTrip ==
  ASSUME NEW m, IsMap(m), Clean(m), DOMAIN m \subseteq ToSet(SortedKeys)
  PROVE  ReadString(WriteString(m)) = m
<1> DEFINE s == WriteString(m)
           Of(k) == {i \in Assigning(s) : KeyOf(LineAt(s, i)) = k}
<1>1. s \in String /\ Len(s) \in Nat
  BY WriteIsString DEF String
<1>2. LinesOf(s) = {Entry(m, k) : k \in DOMAIN m}
  <2>1. PICK text : IsTextOf(text, m) /\ s = text[KeyCount]
    BY WriteStringStepwise
  <2>2. LinesOf(text[KeyCount]) = {Entry(m, k) : k \in KeysUpto(m, KeyCount)}
    <3>1. KeyCount \in 0 .. KeyCount
      BY Literals
    <3> QED
      BY <2>1, <3>1, WrittenLines DEF HasLines
  <2>3. KeysUpto(m, KeyCount) = DOMAIN m
    <3>1. DOMAIN SortedKeys = 1 .. KeyCount
      BY StringsAssumption DEF KeyCount
    <3> QED
      BY <3>1 DEF KeysUpto, ToSet
  <2> QED
    BY <2>1, <2>2, <2>3
<1> HIDE DEF s
<1>3. /\ \A i \in LineStarts(s) : \E k \in DOMAIN m : LineAt(s, i) = Entry(m, k)
      /\ \A k \in DOMAIN m : \E i \in LineStarts(s) : LineAt(s, i) = Entry(m, k)
  BY <1>2 DEF LinesOf
<1>4. \A k \in DOMAIN m :
        /\ ~ IsComment(Entry(m, k)) /\ Split(Entry(m, k)) # 0
        /\ KeyOf(Entry(m, k)) = k /\ ValueOf(Entry(m, k)) = m[k]
  BY EntryIsLine
<1>5. Assigning(s) = LineStarts(s)
  BY <1>3, <1>4 DEF Assigning
<1>6. \A i \in Assigning(s) : /\ KeyOf(LineAt(s, i)) \in DOMAIN m
                              /\ ValueOf(LineAt(s, i)) = m[KeyOf(LineAt(s, i))]
  BY <1>3, <1>4, <1>5
<1>7. {KeyOf(LineAt(s, i)) : i \in Assigning(s)} = DOMAIN m
  <2>1. \A k \in DOMAIN m : \E i \in Assigning(s) : KeyOf(LineAt(s, i)) = k
    BY <1>3, <1>4, <1>5
  <2> QED
    BY <1>6, <2>1
<1>8. ASSUME NEW k \in DOMAIN m
      PROVE  ValueOf(LineAt(s, Max(Of(k)))) = m[k]
  <2>1. Of(k) \in SUBSET Nat /\ Of(k) # {} /\ \A i \in Of(k) : i <= Len(s)
    BY <1>1, <1>7 DEF Assigning, LineStarts
  <2>2. Max(Of(k)) \in Of(k)
    <3> HIDE DEF Of
    <3> QED
      BY <1>1, <2>1, MaxOfSet
  <2> QED
    BY <1>6, <2>2
<1>9. m = [k \in DOMAIN m |-> m[k]]
  BY DEF IsMap
<1>10. ReadString(s) = [k \in DOMAIN m |-> m[k]]
  <2>1. ReadString(s) = [k \in DOMAIN m |-> ValueOf(LineAt(s, Max(Of(k))))]
    BY <1>7 DEF ReadString
  <2> HIDE DEF Of
  <2> QED
    BY <1>8, <2>1
<1> QED
  BY <1>9, <1>10 DEF s

-----------------------------------------------------------------------------
\* What of a text has no separator and no line break in it may be a key.
Parted(s) ==
  \A a \in 1 .. Len(s) : \A b \in a .. Len(s) :
    (\A j \in a .. b : s[j] \notin {"=", NewLine}) => SubSeq(s, a, b) \in ToSet(SortedKeys)

\* Two strings that agree on a stretch have the same part there.
LEMMA SamePart ==
  ASSUME NEW s \in String, NEW t \in String, NEW d \in Int,
         NEW a \in 1 .. Len(s), NEW b \in a .. Len(s),
         a - d \in 1 .. Len(t), b - d \in a - d .. Len(t),
         \A j \in a .. b : s[j] = t[j - d]
  PROVE  SubSeq(s, a, b) = SubSeq(t, a - d, b - d)
<1>1. Len(s) \in Nat /\ Len(t) \in Nat
  BY DEF String
<1>2. /\ SubSeq(s, a, b) \in String
      /\ Len(SubSeq(s, a, b)) = b - a + 1
      /\ \A j \in 1 .. b - a + 1 : SubSeq(s, a, b)[j] = s[a + j - 1]
  <2>1. a \in 1 .. Len(s) + 1 /\ b \in a - 1 .. Len(s)
    BY <1>1
  <2> QED
    BY <2>1, PartOfString
<1>3. /\ SubSeq(t, a - d, b - d) \in String
      /\ Len(SubSeq(t, a - d, b - d)) = (b - d) - (a - d) + 1
      /\ \A j \in 1 .. (b - d) - (a - d) + 1 : SubSeq(t, a - d, b - d)[j] = t[(a - d) + j - 1]
  <2>1. a - d \in 1 .. Len(t) + 1 /\ b - d \in (a - d) - 1 .. Len(t)
    BY <1>1
  <2> QED
    BY <2>1, PartOfString
<1>4. (b - d) - (a - d) + 1 = b - a + 1
  BY <1>1
<1>5. ASSUME NEW j \in 1 .. b - a + 1 PROVE s[a + j - 1] = t[(a - d) + j - 1]
  <2>1. a + j - 1 \in a .. b /\ (a + j - 1) - d = (a - d) + j - 1
    BY <1>1
  <2> QED
    BY <2>1
<1>6. \A j \in 1 .. b - a + 1 : SubSeq(s, a, b)[j] = SubSeq(t, a - d, b - d)[j]
  BY <1>2, <1>3, <1>4, <1>5
<1> QED
  BY <1>2, <1>3, <1>4, <1>6, SeqEqual DEF String

\* A part of an entry is one of the key or of the value.
LEMMA EntryParted ==
  ASSUME NEW m \in Maps, IsMap(m), NEW k \in DOMAIN m
  PROVE  Parted(Entry(m, k))
<1> DEFINE e == Entry(m, k)
           l == Len(k)
           v == m[k]
<1>1. k \in String /\ v \in String /\ l \in Nat /\ Len(v) \in Nat
  BY DEF IsMap, String
<1>2. /\ e \in String
      /\ Len(e) = l + 1 + Len(v)
      /\ \A j \in 1 .. Len(e) :
           e[j] = IF j <= l THEN k[j] ELSE IF j = l + 1 THEN "=" ELSE v[j - l - 1]
  BY EntryIsString
<1>3. /\ \A a \in 1 .. Len(k) : \A b \in a .. Len(k) : SubSeq(k, a, b) \in ToSet(SortedKeys)
      /\ \A a \in 1 .. Len(v) : \A b \in a .. Len(v) : SubSeq(v, a, b) \in ToSet(SortedKeys)
  <2>1. ASSUME NEW s \in {k, v}, NEW a \in 1 .. Len(s), NEW b \in a .. Len(s)
        PROVE  SubSeq(s, a, b) \in ToSet(SortedKeys)
    <3>1. a - 1 \in 0 .. Len(s) /\ b \in 0 .. Len(s) /\ (a - 1) + 1 = a
      BY <1>1
    <3>2. SubSeq(s, (a - 1) + 1, b) \in ToSet(SortedKeys)
      BY <3>1, SortedKeysAssumption
    <3> QED
      BY <3>1, <3>2
  <2> QED
    BY <2>1
<1> HIDE DEF e, l, v
<1>4. SUFFICES ASSUME NEW a \in 1 .. Len(e), NEW b \in a .. Len(e),
                      \A j \in a .. b : e[j] \notin {"=", NewLine}
               PROVE  SubSeq(e, a, b) \in ToSet(SortedKeys)
  BY DEF Parted, e
<1>5. b <= l \/ a > l + 1
  <2>1. SUFFICES ASSUME ~ b <= l, ~ a > l + 1 PROVE FALSE
    OBVIOUS
  <2>2. l + 1 \in a .. b /\ l + 1 \in 1 .. Len(e)
    BY <1>1, <1>2, <2>1
  <2>3. e[l + 1] = "="
    BY <1>1, <1>2, <2>2
  <2> QED
    BY <1>4, <2>2, <2>3
<1>6. CASE b <= l
  <2>1. a - 0 \in 1 .. Len(k) /\ b - 0 \in a - 0 .. Len(k) /\ a - 0 = a /\ b - 0 = b /\ 0 \in Int
    BY <1>1, <1>2, <1>6 DEF l
  <2>2. \A j \in a .. b : e[j] = k[j - 0]
    BY <1>1, <1>2, <1>6
  <2>3. SubSeq(e, a, b) = SubSeq(k, a - 0, b - 0)
    BY <1>1, <1>2, <2>1, <2>2, SamePart
  <2> QED
    BY <1>3, <2>1, <2>3
<1>7. CASE a > l + 1
  <2> DEFINE d == l + 1
  <2>1. a - d \in 1 .. Len(v) /\ b - d \in a - d .. Len(v) /\ d \in Int
    BY <1>1, <1>2, <1>7
  <2>2. \A j \in a .. b : e[j] = v[j - d]
    <3>1. \A j \in a .. b : j \in 1 .. Len(e) /\ ~ j <= l /\ j # l + 1 /\ j - l - 1 = j - d
      BY <1>1, <1>2, <1>7
    <3> QED
      BY <1>2, <3>1
  <2> HIDE DEF d
  <2>3. SubSeq(e, a, b) = SubSeq(v, a - d, b - d)
    BY <1>1, <1>2, <2>1, <2>2, SamePart
  <2> QED
    BY <1>3, <2>1, <2>3
<1> QED
  BY <1>5, <1>6, <1>7

\* A part of two texts with a line break in between is one of either.
LEMMA MoreParted ==
  ASSUME NEW s \in String, NEW e \in String, Parted(s), Parted(e),
         NEW more, more = s \o <<NewLine>> \o e
  PROVE  Parted(more)
<1> DEFINE l == Len(s)
<1>1. l \in Nat /\ Len(e) \in Nat
  BY DEF String
<1>2. /\ more \in String
      /\ Len(more) = l + 1 + Len(e)
      /\ \A j \in 1 .. l + 1 + Len(e) :
           more[j] = IF j <= l THEN s[j] ELSE IF j = l + 1 THEN NewLine ELSE e[j - l - 1]
  BY <1>1, Literals DEF String
<1> HIDE DEF l
<1>3. SUFFICES ASSUME NEW a \in 1 .. Len(more), NEW b \in a .. Len(more),
                      \A j \in a .. b : more[j] \notin {"=", NewLine}
               PROVE  SubSeq(more, a, b) \in ToSet(SortedKeys)
  BY DEF Parted
<1>4. b <= l \/ a > l + 1
  <2>1. SUFFICES ASSUME ~ b <= l, ~ a > l + 1 PROVE FALSE
    OBVIOUS
  <2>2. l + 1 \in a .. b /\ l + 1 \in 1 .. Len(more)
    BY <1>1, <1>2, <2>1
  <2>3. more[l + 1] = NewLine
    BY <1>1, <1>2, <2>2
  <2> QED
    BY <1>3, <2>2, <2>3
<1>5. CASE b <= l
  <2>1. a - 0 \in 1 .. Len(s) /\ b - 0 \in a - 0 .. Len(s) /\ a - 0 = a /\ b - 0 = b /\ 0 \in Int
    BY <1>1, <1>2, <1>5 DEF l
  <2>2. \A j \in a .. b : more[j] = s[j - 0] /\ j - 0 = j
    BY <1>1, <1>2, <1>5
  <2>3. SubSeq(more, a, b) = SubSeq(s, a - 0, b - 0)
    BY <1>2, <2>1, <2>2, SamePart
  <2>4. \A j \in a .. b : s[j] \notin {"=", NewLine}
    BY <1>3, <2>2
  <2> QED
    BY <2>1, <2>3, <2>4 DEF Parted
<1>6. CASE a > l + 1
  <2> DEFINE d == l + 1
  <2>1. a - d \in 1 .. Len(e) /\ b - d \in a - d .. Len(e) /\ d \in Int
    BY <1>1, <1>2, <1>6
  <2>2. \A j \in a .. b : more[j] = e[j - d]
    <3>1. \A j \in a .. b : /\ j \in 1 .. l + 1 + Len(e) /\ ~ j <= l /\ j # l + 1
                            /\ j - l - 1 = j - d
      BY <1>1, <1>2, <1>6
    <3> QED
      BY <1>2, <3>1
  <2>3. \A j \in a - d .. b - d : e[j] \notin {"=", NewLine}
    <3>1. \A j \in a - d .. b - d : j + d \in a .. b /\ (j + d) - d = j
      BY <1>1, <1>2, <1>6
    <3> QED
      BY <1>3, <2>2, <3>1
  <2> HIDE DEF d
  <2>4. SubSeq(more, a, b) = SubSeq(e, a - d, b - d)
    BY <1>2, <2>1, <2>2, SamePart
  <2> QED
    BY <2>1, <2>3, <2>4 DEF Parted
<1> QED
  BY <1>4, <1>5, <1>6

LEMMA MapsAreMaps ==
  ASSUME NEW m \in Maps
  PROVE  IsMap(m) /\ DOMAIN m \subseteq ToSet(SortedKeys)
<1>1. IsMap(m)
  BY StringsAssumption, SortedKeysAssumption DEF IsMap, String
<1>2. ASSUME NEW k \in DOMAIN m PROVE k \in ToSet(SortedKeys)
  <2>1. k \in Seq(Characters) /\ 0 \in 0 .. Len(k) /\ Len(k) \in 0 .. Len(k)
    BY <1>1 DEF IsMap, String
  <2>2. SubSeq(k, 0 + 1, Len(k)) \in ToSet(SortedKeys)
    BY <2>1, SortedKeysAssumption
  <2>3. SubSeq(k, 0 + 1, Len(k)) = k
    BY <2>1, SubSeqFull
  <2> QED
    BY <2>2, <2>3
<1> QED
  BY <1>1, <1>2

LEMMA WrittenParted ==
  ASSUME NEW m \in Maps
  PROVE  Parted(WriteString(m))
<1>1. IsMap(m)
  BY MapsAreMaps
<1>2. PICK text : IsTextOf(text, m) /\ WriteString(m) = text[KeyCount]
  BY <1>1, WriteStringStepwise
<1> DEFINE Good == {i \in Nat : i <= KeyCount => Parted(text[i])}
<1>3. 0 \in Good
  BY <1>2 DEF IsTextOf, Parted
<1>4. ASSUME NEW i \in Nat, i \in Good PROVE i + 1 \in Good
  <2>1. SUFFICES ASSUME i + 1 <= KeyCount PROVE Parted(text[i + 1])
    OBVIOUS
  <2> DEFINE key == SortedKeys[i + 1]
  <2>2. /\ i \in 0 .. KeyCount /\ i + 1 \in 1 .. KeyCount /\ (i + 1) - 1 = i
        /\ text[i] \in String
        /\ text[i + 1] = Extended(m, text[i], key)
    BY <1>2, <2>1, Literals DEF IsTextOf
  <2>3. Parted(text[i])
    BY <1>4, <2>2, Literals
  <2> HIDE DEF key
  <2>4. CASE key \notin DOMAIN m
    BY <2>2, <2>3, <2>4 DEF Extended
  <2>5. CASE key \in DOMAIN m
    <3>1. Parted(Entry(m, key)) /\ Entry(m, key) \in String
      BY <1>1, <2>5, EntryParted, EntryIsString
    <3>2. CASE text[i] = <<>>
      BY <2>2, <2>5, <3>1, <3>2 DEF Extended
    <3>3. CASE text[i] # <<>>
      <4>1. text[i + 1] = text[i] \o <<NewLine>> \o Entry(m, key)
        BY <2>2, <2>5, <3>3 DEF Extended
      <4> QED
        BY <2>2, <2>3, <3>1, <4>1, MoreParted
    <3> QED
      BY <3>2, <3>3
  <2> QED
    BY <2>4, <2>5
<1>5. KeyCount \in Good
  <2> HIDE DEF Good
  <2> QED
    BY <1>3, <1>4, Literals, SetInduction
<1> QED
  BY <1>2, <1>5, Literals

\* A key that is read is among the sorted ones.
LEMMA ReadKeysAreSorted ==
  ASSUME NEW m \in Maps
  PROVE  DOMAIN ReadString(WriteString(m)) \subseteq ToSet(SortedKeys)
<1> DEFINE s == WriteString(m)
<1>1. s \in String /\ Len(s) \in Nat /\ Parted(s)
  BY MapsAreMaps, WriteIsString, WrittenParted DEF String
<1>2. DOMAIN m # {} \/ s = <<>>
  <2>1. SUFFICES ASSUME DOMAIN m = {} PROVE s = <<>>
    OBVIOUS
  <2>2. PICK text : IsTextOf(text, m) /\ s = text[KeyCount]
    BY MapsAreMaps, WriteStringStepwise
  <2> DEFINE Good == {i \in Nat : i <= KeyCount => text[i] = <<>>}
  <2>3. 0 \in Good
    BY <2>2 DEF IsTextOf
  <2>4. ASSUME NEW i \in Nat, i \in Good PROVE i + 1 \in Good
    <3>1. SUFFICES ASSUME i + 1 <= KeyCount PROVE text[i + 1] = <<>>
      OBVIOUS
    <3>2. i + 1 \in 1 .. KeyCount /\ (i + 1) - 1 = i /\ text[i] = <<>>
      BY <2>4, <3>1, Literals
    <3>3. text[i + 1] = Extended(m, text[i], SortedKeys[i + 1])
      BY <2>2, <3>2 DEF IsTextOf
    <3> QED
      BY <2>1, <3>2, <3>3 DEF Extended
  <2>5. KeyCount \in Good
    <3> HIDE DEF Good
    <3> QED
      BY <2>3, <2>4, Literals, SetInduction
  <2> QED
    BY <2>2, <2>5, Literals
<1> HIDE DEF s
<1>3. SUFFICES ASSUME NEW i \in Assigning(s)
               PROVE  KeyOf(LineAt(s, i)) \in ToSet(SortedKeys)
  BY DEF ReadString, s
<1> DEFINE line == LineAt(s, i)
           p == Split(line)
<1>4. i \in 1 .. Len(s)
  BY DEF Assigning, LineStarts
<1>5. PICK e : EndsAt(s, i, e) /\ line = SubSeq(s, i, e - 1)
  BY <1>1, <1>4, LineEnds
<1>6. e \in i .. Len(s) + 1 /\ \A j \in i .. e - 1 : s[j] # NewLine
  BY <1>5 DEF EndsAt
<1>7. line \in String /\ Len(line) = e - i /\ \A j \in 1 .. e - i : line[j] = s[i + j - 1]
  <2>1. i \in 1 .. Len(s) + 1 /\ e - 1 \in i - 1 .. Len(s) /\ (e - 1) - i + 1 = e - i
    BY <1>1, <1>4, <1>6
  <2> QED
    BY <1>1, <1>5, <2>1, PartOfString
<1>8. p \in 1 .. e - i /\ \A j \in 1 .. p - 1 : line[j] # "="
  <2>1. p \in 0 .. Len(line) /\ \A j \in 1 .. Len(line) : line[j] = "=" => p <= j
    BY <1>7, SplitIsFirst
  <2>2. p # 0
    BY DEF Assigning
  <2> QED
    BY <1>4, <1>6, <1>7, <2>1, <2>2
<1>9. KeyOf(line) = SubSeq(line, 1, p - 1)
  BY DEF KeyOf
<1> HIDE DEF line, p
<1>10. CASE p = 1
  <2>1. s # <<>>
    BY <1>1, <1>4
  <2>2. PICK k \in DOMAIN m : TRUE
    BY <1>2, <2>1
  <2>3. 0 \in 0 .. Len(k)
    BY MapsAreMaps DEF IsMap, String
  <2>4. SubSeq(k, 0 + 1, 0) \in ToSet(SortedKeys)
    BY <2>2, <2>3, SortedKeysAssumption
  <2>5. SubSeq(k, 0 + 1, 0) = <<>> /\ SubSeq(line, 1, p - 1) = <<>>
    BY <1>10, SubSeqEmpty
  <2> QED
    BY <1>9, <2>4, <2>5 DEF line
<1>11. CASE p # 1
  <2> DEFINE d == 1 - i
  <2>1. /\ 1 \in 1 .. Len(line) /\ p - 1 \in 1 .. Len(line) /\ d \in Int
        /\ 1 - d \in 1 .. Len(s) /\ (p - 1) - d \in 1 - d .. Len(s)
    BY <1>1, <1>4, <1>6, <1>7, <1>8, <1>11
  <2>2. \A j \in 1 .. p - 1 : line[j] = s[j - d]
    <3>1. \A j \in 1 .. p - 1 : j \in 1 .. e - i /\ j - d = i + j - 1
      BY <1>4, <1>6, <1>8
    <3> QED
      BY <1>7, <3>1
  <2>3. \A j \in 1 - d .. (p - 1) - d : s[j] \notin {"=", NewLine}
    <3>1. ASSUME NEW j \in 1 - d .. (p - 1) - d
          PROVE  j + d \in 1 .. p - 1 /\ (j + d) - d = j /\ j \in i .. e - 1
      BY <1>4, <1>6, <1>8
    <3> QED
      BY <1>6, <1>8, <2>2, <3>1
  <2> HIDE DEF d
  <2>4. SubSeq(line, 1, p - 1) = SubSeq(s, 1 - d, (p - 1) - d)
    BY <1>1, <1>7, <2>1, <2>2, SamePart
  <2>5. SubSeq(s, 1 - d, (p - 1) - d) \in ToSet(SortedKeys)
    BY <1>1, <2>1, <2>3 DEF Parted
  <2> QED
    BY <1>9, <2>4, <2>5 DEF line
<1> QED
  BY <1>10, <1>11

-----------------------------------------------------------------------------
\* What is on its way was written of the map at the node, and what was read is
\* what the reader makes of that.
OnItsWay ==
  /\ entries \in Maps
  /\ pc = "send" => buffer = WriteString(entries)
  /\ pc = "file" => file = WriteString(entries)
  /\ pc = "done" => received = ReadString(WriteString(entries))

LEMMA OnItsWayHolds == Spec => []OnItsWay
<1>1. Init => OnItsWay
  BY DEF Init, OnItsWay
<1>2. OnItsWay /\ [Next]_vars => OnItsWay'
  <2> SUFFICES ASSUME OnItsWay, [Next]_vars PROVE OnItsWay'
    OBVIOUS
  <2> USE DEF OnItsWay
  <2>1. CASE Write
    BY <2>1 DEF Write
  <2>2. CASE Read
    BY <2>2 DEF Read
  <2>3. CASE WriteFile
    BY <2>3 DEF WriteFile
  <2>4. CASE ReadFile
    BY <2>4 DEF ReadFile
  <2>5. CASE UNCHANGED vars
    BY <2>5 DEF vars
  <2> QED
    BY <2>1, <2>2, <2>3, <2>4, <2>5 DEF Next
<1> QED
  BY <1>1, <1>2, PTL DEF Spec

(***************************************************************************)
(* For maps of any size and strings of any length over any characters:     *)
(* readString() gives back the map that writeString() wrote exactly when   *)
(* no key has a separator or a line break in it or looks like a comment,   *)
(* and no value has a line break.                                          *)
(***************************************************************************)
THEOREM RoundTrip == Spec => []RoundTripIffClean
<1>1. OnItsWay => RoundTripIffClean
  <2>1. SUFFICES ASSUME OnItsWay, pc = "done" PROVE received = entries <=> Clean(entries)
    BY DEF RoundTripIffClean, Clean
  <2>2. entries \in Maps /\ received = ReadString(WriteString(entries))
    BY <2>1 DEF OnItsWay
  <2>3. IsMap(entries) /\ DOMAIN entries \subseteq ToSet(SortedKeys)
    BY <2>2, MapsAreMaps
  <2>4. Clean(received)
    BY <2>2, <2>3, WriteIsString, ReadIsClean
  <2>5. Clean(entries) => received = entries
    BY <2>2, <2>3, CleanRoundTrip
  <2> QED
    BY <2>4, <2>5
<1> QED
  BY <1>1, OnItsWayHolds, PTL

(***************************************************************************)
(* Whatever was sent, what was read can be written and read again: a map   *)
(* that has been through readString() is clean.                            *)
(***************************************************************************)
THEOREM StableOnceRead == Spec => []ReadingIsStable
<1>1. OnItsWay => ReadingIsStable
  <2>1. SUFFICES ASSUME OnItsWay, pc = "done" PROVE ReadString(WriteString(received)) = received
    BY DEF ReadingIsStable
  <2>2. entries \in Maps /\ received = ReadString(WriteString(entries))
    BY <2>1 DEF OnItsWay
  <2>3. IsMap(received) /\ Clean(received)
    BY <2>2, MapsAreMaps, WriteIsString, ReadIsClean
  <2>4. DOMAIN received \subseteq ToSet(SortedKeys)
    BY <2>2, ReadKeysAreSorted
  <2> QED
    BY <2>3, <2>4, CleanRoundTrip
<1> QED
  BY <1>1, OnItsWayHolds, PTL

-----------------------------------------------------------------------------
(***************************************************************************)
(* Tags.                                                                   *)
(***************************************************************************)

\* Quotient and remainder are those of the one way to divide.
LEMMA Division ==
  ASSUME NEW a \in Int, NEW k \in Int, NEW M \in Nat \ {0}, NEW r \in 0 .. M - 1,
         a = M * k + r
  PROVE  a \div M = k /\ a % M = r
<1> DEFINE q == a \div M
           s == a % M
<1>1. q \in Int /\ s \in 0 .. M - 1 /\ a = M * q + s
  OBVIOUS
<1> HIDE DEF q, s
<1>2. CASE q = k
  BY <1>1, <1>2 DEF q, s
<1>3. CASE q >= k + 1
  <2>1. M * q >= M * (k + 1)
    BY <1>1, <1>3
  <2> QED
    BY <1>1, <2>1
<1>4. CASE q <= k - 1
  <2>1. M * q <= M * (k - 1)
    BY <1>1, <1>4
  <2> QED
    BY <1>1, <2>1
<1> QED
  BY <1>1, <1>2, <1>3, <1>4

\* The bytes of the rest of a message, up to a multiple of 16.
Rounded(r) == 16 * ((r + 15) \div 16)

\* A block has a multiple of 16 bytes.
LEMMA BlockSize == NHBYTES \in Nat \ {0} /\ \E c \in Nat : NHBYTES = 16 * c
<1>1. NHBYTES \in Nat \ {0} /\ NHBYTES % 16 = 0
  BY VmacAssumption
<1>2. NHBYTES = 16 * (NHBYTES \div 16) /\ NHBYTES \div 16 \in Nat
  BY <1>1
<1> QED
  BY <1>1, <1>2

\* How long the last block is, and when it has more than one byte too many.
LEMMA RoundedUp ==
  ASSUME NEW r \in 0 .. NHBYTES - 1
  PROVE  /\ Rounded(r) \in r .. NHBYTES
         /\ Rounded(r) = 0 <=> r = 0
         /\ NeedsNoPadding(r) <=> Rounded(r) <= r + 1
<1>1. NHBYTES \in Nat \ {0}
  BY BlockSize
<1>2. PICK c \in Nat : NHBYTES = 16 * c
  BY BlockSize
<1> QED
  BY <1>1, <1>2 DEF Rounded, NeedsNoPadding

\* A message of n blocks and r bytes.
LEMMA Lengths ==
  ASSUME NEW n \in Nat, NEW r \in 0 .. NHBYTES - 1
  PROVE  LET length == NHBYTES * n + r IN
         /\ length \in Nat
         /\ length \div NHBYTES = n /\ length % NHBYTES = r
         /\ 16 * ((length + 15) \div 16) = NHBYTES * n + Rounded(r)
         /\ (NHBYTES * n + Rounded(r) + NHBYTES - 1) \div NHBYTES = IF r = 0 THEN n ELSE n + 1
         /\ NeedsNoPadding(length) <=> NeedsNoPadding(r)
<1> DEFINE length == NHBYTES * n + r
<1>1. NHBYTES \in Nat \ {0}
  BY BlockSize
<1>2. PICK c \in Nat : NHBYTES = 16 * c
  BY BlockSize
<1>3. NHBYTES * n \in Nat /\ length \in Nat
  BY <1>1
<1>4. length \div NHBYTES = n /\ length % NHBYTES = r
  BY <1>1, <1>3, Division
<1>5. PICK d \in Nat : NHBYTES * n = 16 * d
  <2>1. c * n \in Nat /\ 16 * c * n = 16 * (c * n)
    BY <1>2
  <2> QED
    BY <1>2, <2>1
<1> HIDE DEF length
<1>6. 16 * ((length + 15) \div 16) = NHBYTES * n + Rounded(r)
  BY <1>1, <1>3, <1>5 DEF Rounded, length
<1>7. NeedsNoPadding(length) <=> NeedsNoPadding(r)
  BY <1>1, <1>3, <1>5 DEF NeedsNoPadding, length
<1>8. (NHBYTES * n + Rounded(r) + NHBYTES - 1) \div NHBYTES = IF r = 0 THEN n ELSE n + 1
  <2>1. Rounded(r) \in r .. NHBYTES /\ (Rounded(r) = 0 <=> r = 0)
    BY RoundedUp
  <2>2. CASE r = 0
    <3>1. NHBYTES * n + Rounded(r) + NHBYTES - 1 = NHBYTES * n + (NHBYTES - 1)
      BY <1>1, <1>3, <2>1, <2>2
    <3>2. (NHBYTES * n + (NHBYTES - 1)) \div NHBYTES = n
      <4>1. NHBYTES - 1 \in 0 .. NHBYTES - 1
        BY <1>1
      <4> QED
        BY <1>1, <1>3, <4>1, Division
    <3> QED
      BY <2>2, <3>1, <3>2
  <2>3. CASE r # 0
    <3>1. NHBYTES * n + Rounded(r) + NHBYTES - 1 = NHBYTES * (n + 1) + (Rounded(r) - 1)
      BY <1>1, <1>3, <2>1, <2>3
    <3>2. (NHBYTES * (n + 1) + (Rounded(r) - 1)) \div NHBYTES = n + 1
      <4>1. Rounded(r) - 1 \in 0 .. NHBYTES - 1 /\ n + 1 \in Int
        BY <1>1, <2>1, <2>3
      <4>2. NHBYTES * (n + 1) + (Rounded(r) - 1) \in Int
        BY <1>1, <4>1
      <4> QED
        BY <1>1, <4>1, <4>2, Division
    <3> QED
      BY <2>3, <3>1, <3>2
  <2> QED
    BY <2>2, <2>3
<1> QED
  BY <1>3, <1>4, <1>6, <1>7, <1>8 DEF length

-----------------------------------------------------------------------------
\* Block b of a message of n whole blocks and r bytes, and all of them.
MessageBlock(n, r, following, b) ==
  [i \in 1 .. (IF b <= n THEN NHBYTES ELSE Rounded(r)) |->
     Memory(NHBYTES * n + r, following, (b - 1) * NHBYTES + i)]
MessageBlocks(n, r, following) ==
  [b \in 1 .. (IF r = 0 THEN n ELSE n + 1) |-> MessageBlock(n, r, following, b)]

\* The polynomial of a sequence of blocks.
Chain(blocks) ==
  [b \in DOMAIN blocks |-> [step |-> IF b = 1 THEN "add" ELSE "poly", block |-> blocks[b]]]

\* The tag by definition is that of the blocks with zeroes behind them.
LEMMA TagIsChain ==
  ASSUME NEW n \in Nat, NEW r \in 0 .. NHBYTES - 1
  PROVE  TagOf(NHBYTES * n + r) = << Chain(MessageBlocks(n, r, "zeroes")), 8 * r >>
<1> DEFINE length == NHBYTES * n + r
           size == NHBYTES * n + Rounded(r)
           count == IF r = 0 THEN n ELSE n + 1
           padded == [i \in 1 .. size |-> IF i <= length THEN i ELSE Zero]
           End(b) == IF b * NHBYTES <= Len(padded) THEN b * NHBYTES ELSE Len(padded)
           blocks == [b \in 1 .. count |-> SubSeq(padded, (b - 1) * NHBYTES + 1, End(b))]
<1>1. /\ NHBYTES \in Nat \ {0} /\ NHBYTES * n \in Nat /\ length \in Nat /\ count \in Nat
      /\ Rounded(r) \in r .. NHBYTES /\ (Rounded(r) = 0 <=> r = 0)
  BY BlockSize, RoundedUp
<1>2. size \in Nat /\ padded \in Seq(Nat) /\ Len(padded) = size
  BY <1>1 DEF Zero
<1>3. /\ 16 * ((length + 15) \div 16) = size
      /\ (size + NHBYTES - 1) \div NHBYTES = count
      /\ length % NHBYTES = r
  BY Lengths
<1>4. TagOf(length) =
        << [b \in DOMAIN blocks |->
              [step |-> IF b = 1 THEN "add" ELSE "poly", block |-> blocks[b]]], 8 * r >>
  <2> HIDE DEF length
  <2> QED
    BY <1>2, <1>3 DEF TagOf
<1>5. ASSUME NEW b \in 1 .. count
      PROVE  SubSeq(padded, (b - 1) * NHBYTES + 1, End(b)) = MessageBlock(n, r, "zeroes", b)
  <2> DEFINE from == (b - 1) * NHBYTES
             bytes == IF b <= n THEN NHBYTES ELSE Rounded(r)
  <2>1. from \in Nat /\ bytes \in Nat /\ from + bytes <= size /\ End(b) = from + bytes
    <3>1. b * NHBYTES = from + NHBYTES /\ from \in Nat
      BY <1>1
    <3>2. CASE b <= n
      <4>1. b * NHBYTES <= NHBYTES * n
        BY <1>1, <3>2
      <4> QED
        BY <1>1, <1>2, <3>1, <3>2, <4>1, SMTT(30)
    <3>3. CASE b = n + 1 /\ r # 0
      <4>1. from = NHBYTES * n
        BY <1>1, <3>3
      <4> QED
        BY <1>1, <1>2, <3>1, <3>3, <4>1, SMTT(30)
    <3>4. b <= n \/ (b = n + 1 /\ r # 0)
      BY <1>1
    <3> QED
      BY <3>2, <3>3, <3>4
  <2> HIDE DEF from, bytes, padded, size
  <2>2. \A i \in 1 .. bytes : from + i \in 1 .. size
    BY <2>1, <1>2
  <2>3. \A i \in 1 .. bytes : padded[from + i] = Memory(length, "zeroes", from + i)
    BY <2>2 DEF padded, Memory, size
  <2>4. SubSeq(padded, from + 1, from + bytes) = [i \in 1 .. bytes |-> padded[from + i]]
    <3>1. (from + bytes) - (from + 1) + 1 = bytes /\ \A i \in 1 .. bytes : (from + 1) + i - 1 = from + i
      BY <2>1
    <3> QED
      BY <3>1, <2>1, <2>2, <1>2
  <2>5. SubSeq(padded, from + 1, from + bytes) = [i \in 1 .. bytes |-> Memory(length, "zeroes", from + i)]
    BY <2>3, <2>4
  <2> QED
    BY <2>1, <2>5 DEF MessageBlock, from, bytes
<1>6. blocks = MessageBlocks(n, r, "zeroes")
  BY <1>5 DEF MessageBlocks
<1> HIDE DEF blocks
<1> QED
  BY <1>4, <1>6 DEF Chain

\* A block of a message is a sequence of numbers.
LEMMA BlockIsSeq ==
  ASSUME NEW n \in Nat, NEW r \in 0 .. NHBYTES - 1, NEW following, NEW b \in Nat
  PROVE  MessageBlock(n, r, following, b) \in Seq(Int)
<1>1. NHBYTES \in Nat /\ Rounded(r) \in Nat /\ (b - 1) * NHBYTES \in Int
  BY BlockSize, RoundedUp
<1>2. \A i \in Int : Memory(NHBYTES * n + r, following, (b - 1) * NHBYTES + i) \in Int
  BY <1>1 DEF Memory, Zero, Leftover
<1> DEFINE bytes == IF b <= n THEN NHBYTES ELSE Rounded(r)
<1>3. bytes \in Nat
  BY <1>1
<1>4. MessageBlock(n, r, following, b) \in [1 .. bytes -> Int]
  BY <1>2, <1>3 DEF MessageBlock
<1> HIDE DEF bytes
<1> QED
  BY <1>3, <1>4, SeqDef

\* What follows a string is noticed unless it needs no padding.
LEMMA PaddingNoticed ==
  ASSUME NEW n \in Nat, NEW r \in 0 .. NHBYTES - 1
  PROVE  MessageBlocks(n, r, "string") = MessageBlocks(n, r, "zeroes") <=> NeedsNoPadding(r)
<1> DEFINE length == NHBYTES * n + r
           size == NHBYTES * n + Rounded(r)
<1>1. /\ NHBYTES \in Nat \ {0} /\ NHBYTES * n \in Nat
      /\ Rounded(r) \in r .. NHBYTES /\ (Rounded(r) = 0 <=> r = 0)
      /\ NeedsNoPadding(r) <=> Rounded(r) <= r + 1
  BY BlockSize, RoundedUp
<1>2. ASSUME NeedsNoPadding(r)
      PROVE  MessageBlocks(n, r, "string") = MessageBlocks(n, r, "zeroes")
  <2>1. ASSUME NEW b \in 1 .. (IF r = 0 THEN n ELSE n + 1)
        PROVE  MessageBlock(n, r, "string", b) = MessageBlock(n, r, "zeroes", b)
    <3>1. ASSUME NEW i \in 1 .. (IF b <= n THEN NHBYTES ELSE Rounded(r))
          PROVE  (b - 1) * NHBYTES + i <= length + 1 /\ (b - 1) * NHBYTES + i \in Int
      <4>1. CASE b <= n
        <5>1. (b - 1) * NHBYTES + NHBYTES <= NHBYTES * n
          BY <1>1, <4>1
        <5> QED
          BY <1>1, <3>1, <4>1, <5>1
      <4>2. CASE b = n + 1
        <5>1. (b - 1) * NHBYTES = NHBYTES * n
          BY <1>1, <4>2
        <5> QED
          BY <1>1, <1>2, <3>1, <4>2, <5>1
      <4> QED
        BY <4>1, <4>2
    <3>2. \A i \in 1 .. (IF b <= n THEN NHBYTES ELSE Rounded(r)) :
            Memory(length, "string", (b - 1) * NHBYTES + i) = Memory(length, "zeroes", (b - 1) * NHBYTES + i)
      <4> HIDE DEF length
      <4>1. length \in Int
        BY <1>1 DEF length
      <4> QED
        BY <3>1, <4>1 DEF Memory
    <3> QED
      BY <3>2 DEF MessageBlock
  <2> QED
    BY <2>1 DEF MessageBlocks
<1>3. ASSUME ~ NeedsNoPadding(r)
      PROVE  MessageBlocks(n, r, "string") # MessageBlocks(n, r, "zeroes")
  <2>1. r # 0 /\ Rounded(r) > r + 1
    BY <1>1, <1>3
  <2> DEFINE b == n + 1
             i == r + 2
  <2>2. b \in 1 .. n + 1 /\ ~ b <= n /\ i \in 1 .. Rounded(r) /\ (b - 1) * NHBYTES + i = length + 2
    <3>1. (b - 1) * NHBYTES = NHBYTES * n
      BY <1>1
    <3> QED
      BY <1>1, <2>1, <3>1
  <2>3. \A f : MessageBlocks(n, r, f)[b][i] = Memory(length, f, length + 2)
    BY <2>1, <2>2 DEF MessageBlocks, MessageBlock
  <2>4. Memory(length, "string", length + 2) # Memory(length, "zeroes", length + 2)
    BY <1>1 DEF Memory, Zero, Leftover
  <2> HIDE DEF b, i, length
  <2> QED
    BY <2>3, <2>4
<1> QED
  BY <1>2, <1>3

-----------------------------------------------------------------------------
\* What vhash() reads when q of the blocks have been passed before.
LEMMA BlocksRead ==
  ASSUME NEW q \in Nat, NEW w \in Nat, NEW r \in 0 .. NHBYTES - 1, NEW following
  PROVE  BlocksOf(NHBYTES * (q + w) + r, following, NHBYTES * w + r)
           = [b \in 1 .. (IF r = 0 THEN w ELSE w + 1) |-> MessageBlock(q + w, r, following, q + b)]
<1> DEFINE mbytes == NHBYTES * w + r
           length == NHBYTES * (q + w) + r
           start == length - mbytes
<1>1. /\ NHBYTES \in Nat \ {0} /\ NHBYTES * w \in Nat /\ NHBYTES * q \in Nat
      /\ Rounded(r) \in Nat /\ (Rounded(r) = 0 <=> r = 0)
  BY BlockSize, RoundedUp
<1>2. mbytes \div NHBYTES = w /\ mbytes % NHBYTES = r
  BY Lengths
<1>3. start = NHBYTES * q
  BY <1>1
<1> DEFINE whole == [b \in 1 .. w |-> Nh(length, following, start + (b - 1) * NHBYTES, NHBYTES)]
           rest == IF r = 0 THEN <<>>
                   ELSE << Nh(length, following, start + w * NHBYTES, Rounded(r)) >>
           blocks == [b \in 1 .. (IF r = 0 THEN w ELSE w + 1) |->
                        MessageBlock(q + w, r, following, q + b)]
<1>4. BlocksOf(length, following, mbytes) = whole \o rest
  <2> HIDE DEF length, mbytes
  <2> QED
    BY <1>2 DEF BlocksOf, Rounded
<1>5. ASSUME NEW b \in 1 .. w + 1
      PROVE  Nh(length, following, start + (b - 1) * NHBYTES, IF b <= w THEN NHBYTES ELSE Rounded(r))
               = MessageBlock(q + w, r, following, q + b)
  <2>1. start + (b - 1) * NHBYTES = ((q + b) - 1) * NHBYTES
    BY <1>1, <1>3
  <2>2. q + b <= q + w <=> b <= w
    OBVIOUS
  <2> HIDE DEF length
  <2>3. [i \in 1 .. (IF b <= w THEN NHBYTES ELSE Rounded(r)) |->
           Memory(length, following, ((q + b) - 1) * NHBYTES + i)]
        = MessageBlock(q + w, r, following, q + b)
    BY <2>2 DEF MessageBlock, length
  <2> HIDE DEF start
  <2> QED
    BY <2>1, <2>3 DEF Nh
<1> HIDE DEF length, mbytes, start
<1>6. \A b \in 1 .. w : whole[b] = MessageBlock(q + w, r, following, q + b)
  BY <1>5
<1>7. r # 0 => Nh(length, following, start + w * NHBYTES, Rounded(r))
                 = MessageBlock(q + w, r, following, q + (w + 1))
  <2>1. w + 1 \in 1 .. w + 1 /\ ~ w + 1 <= w /\ (w + 1) - 1 = w
    OBVIOUS
  <2> QED
    BY <1>5, <2>1
<1>8. whole \in Seq(Seq(Int)) /\ Len(whole) = w /\ blocks \in Seq(Seq(Int))
  <2>1. \A b \in 1 .. w + 1 : MessageBlock(q + w, r, following, q + b) \in Seq(Int)
    BY BlockIsSeq
  <2>2. whole \in [1 .. w -> Seq(Int)]
    <3>1. \A b \in 1 .. w : b \in 1 .. w + 1
      OBVIOUS
    <3> DEFINE Block(b) == Nh(length, following, start + (b - 1) * NHBYTES, NHBYTES)
    <3>2. \A b \in 1 .. w : Block(b) \in Seq(Int)
      BY <1>6, <2>1, <3>1
    <3> HIDE DEF Block
    <3>3. [b \in 1 .. w |-> Block(b)] \in [1 .. w -> Seq(Int)]
      BY <3>2
    <3> QED
      BY <3>3 DEF Block
  <2>3. blocks \in [1 .. (IF r = 0 THEN w ELSE w + 1) -> Seq(Int)]
    BY <2>1
  <2> HIDE DEF whole, blocks
  <2> QED
    BY <2>2, <2>3, SeqDef
<1>9. CASE r = 0
  <2>1. whole \o rest = whole
    BY <1>8, <1>9
  <2>2. whole = blocks
    BY <1>6, <1>9
  <2> QED
    BY <1>4, <2>1, <2>2 DEF length, mbytes
<1>10. CASE r # 0
  <2> DEFINE last == MessageBlock(q + w, r, following, q + (w + 1))
  <2>1. rest = <<last>> /\ last \in Seq(Int)
    BY <1>7, <1>10, BlockIsSeq
  <2> HIDE DEF whole, rest, last
  <2>2. /\ whole \o rest \in Seq(Seq(Int))
        /\ Len(whole \o rest) = w + 1
        /\ \A b \in 1 .. w + 1 : (whole \o rest)[b] = IF b <= w THEN whole[b] ELSE last
    BY <1>8, <2>1
  <2>3. \A b \in 1 .. w + 1 : (whole \o rest)[b] = blocks[b]
    <3>1. SUFFICES ASSUME NEW b \in 1 .. w + 1 PROVE (whole \o rest)[b] = blocks[b]
      OBVIOUS
    <3>2. blocks[b] = MessageBlock(q + w, r, following, q + b)
      BY <1>10
    <3>3. CASE b \in 1 .. w
      BY <1>6, <2>2, <3>2, <3>3
    <3>4. CASE b = w + 1
      BY <2>2, <3>2, <3>4 DEF last
    <3>5. b \in 1 .. w \/ b = w + 1
      OBVIOUS
    <3> QED
      BY <3>3, <3>4, <3>5
  <2>4. Len(blocks) = w + 1
    BY <1>10
  <2> HIDE DEF blocks
  <2>5. whole \o rest = blocks
    BY <1>8, <2>2, <2>3, <2>4, SeqEqual
  <2> QED
    BY <1>4, <2>5 DEF length, mbytes, blocks
<1> QED
  BY <1>9, <1>10

-----------------------------------------------------------------------------
\* Going on with a polynomial, and starting one.
LEMMA ChainContinued ==
  ASSUME NEW x \in Seq(Seq(Int)), x # <<>>, NEW y \in Seq(Seq(Int))
  PROVE  PolySteps(Chain(x), y) = Chain(x \o y)
<1> DEFINE Entries == [step : {"add", "poly"}, block : Seq(Int)]
           more == [b \in DOMAIN y |-> [step |-> "poly", block |-> y[b]]]
<1>1. /\ Len(x) \in Nat \ {0} /\ Len(y) \in Nat /\ DOMAIN x = 1 .. Len(x) /\ DOMAIN y = 1 .. Len(y)
      /\ x \o y \in Seq(Seq(Int)) /\ Len(x \o y) = Len(x) + Len(y)
      /\ \A b \in 1 .. Len(x) + Len(y) : (x \o y)[b] = IF b <= Len(x) THEN x[b] ELSE y[b - Len(x)]
      /\ DOMAIN (x \o y) = 1 .. Len(x) + Len(y)
  OBVIOUS
<1>2. /\ Chain(x) \in [1 .. Len(x) -> Entries] /\ more \in [1 .. Len(y) -> Entries]
      /\ Chain(x \o y) \in [1 .. Len(x) + Len(y) -> Entries]
  BY <1>1 DEF Chain
<1>3. /\ Chain(x) \in Seq(Entries) /\ Len(Chain(x)) = Len(x)
      /\ more \in Seq(Entries) /\ Len(more) = Len(y)
      /\ Chain(x \o y) \in Seq(Entries) /\ Len(Chain(x \o y)) = Len(x) + Len(y)
  <2> HIDE DEF Entries, more
  <2>1. \A l \in Nat : \A f \in [1 .. l -> Entries] : f \in Seq(Entries) /\ Len(f) = l
    BY SeqDef
  <2>2. Len(x) \in Nat /\ Len(y) \in Nat /\ Len(x) + Len(y) \in Nat
    BY <1>1
  <2> QED
    BY <1>2, <2>1, <2>2
<1>4. ASSUME NEW b \in 1 .. Len(x) + Len(y)
      PROVE  (Chain(x) \o more)[b] = Chain(x \o y)[b]
  <2>1. (Chain(x) \o more)[b] = IF b <= Len(x) THEN Chain(x)[b] ELSE more[b - Len(x)]
    <3> HIDE DEF Entries, more
    <3> QED
      BY <1>1, <1>3
  <2>2. CASE b <= Len(x)
    BY <1>1, <2>1, <2>2 DEF Chain
  <2>3. CASE ~ b <= Len(x)
    <3>1. b - Len(x) \in 1 .. Len(y) /\ b # 1
      BY <1>1, <2>3
    <3>2. (x \o y)[b] = y[b - Len(x)]
      BY <1>1, <2>3
    <3> QED
      BY <1>1, <2>1, <2>3, <3>1, <3>2 DEF Chain
  <2> QED
    BY <2>2, <2>3
<1>5. Chain(x) \o more = Chain(x \o y)
  <2> HIDE DEF Entries, more
  <2>1. /\ Chain(x) \o more \in Seq(Entries)
        /\ Len(Chain(x) \o more) = Len(x) + Len(y)
    BY <1>1, <1>3
  <2> QED
    BY <1>1, <1>3, <1>4, <2>1, SeqEqual
<1> QED
  BY <1>5 DEF PolySteps

LEMMA ChainStarted ==
  ASSUME NEW y \in Seq(Seq(Int)), y # <<>>
  PROVE  PolySteps(AddFirst(PolyKey, Head(y)), Tail(y)) = Chain(y)
<1>1. /\ Head(y) \in Seq(Int) /\ Tail(y) \in Seq(Seq(Int)) /\ Len(y) \in Nat \ {0}
      /\ <<Head(y)>> \in Seq(Seq(Int)) /\ <<Head(y)>> # <<>> /\ DOMAIN <<Head(y)>> = {1}
  OBVIOUS
<1>2. AddFirst(PolyKey, Head(y)) = Chain(<<Head(y)>>)
  <2>1. AddFirst(PolyKey, Head(y)) = << [step |-> "add", block |-> Head(y)] >>
    BY DEF AddFirst, PolyKey
  <2>2. Chain(<<Head(y)>>) = [b \in 1 .. 1 |-> [step |-> "add", block |-> Head(y)]]
    BY <1>1 DEF Chain
  <2> QED
    BY <2>1, <2>2
<1>3. <<Head(y)>> \o Tail(y) = y
  OBVIOUS
<1> QED
  BY <1>1, <1>2, <1>3, ChainContinued

-----------------------------------------------------------------------------
LEMMA BlocksAreSeqs ==
  ASSUME NEW n \in Nat, NEW r \in 0 .. NHBYTES - 1, NEW following
  PROVE  /\ MessageBlocks(n, r, following) \in Seq(Seq(Int))
         /\ Len(MessageBlocks(n, r, following)) = IF r = 0 THEN n ELSE n + 1
<1> DEFINE count == IF r = 0 THEN n ELSE n + 1
<1>1. \A b \in 1 .. count : MessageBlock(n, r, following, b) \in Seq(Int)
  BY BlockIsSeq
<1>2. MessageBlocks(n, r, following) \in [1 .. count -> Seq(Int)] /\ count \in Nat
  BY <1>1 DEF MessageBlocks
<1> HIDE DEF count
<1>3. MessageBlocks(n, r, following) \in Seq(Seq(Int))
  BY <1>2, SeqDef
<1> QED
  BY <1>2, <1>3 DEF count

\* The whole blocks so far.
Passed(q) == MessageBlocks(q, 0, "zeroes")

\* They and what is read next are the blocks of the message.
LEMMA BlocksJoined ==
  ASSUME NEW q \in Nat, NEW w \in Nat, NEW r \in 0 .. NHBYTES - 1, NEW following
  PROVE  LET next == BlocksOf(NHBYTES * (q + w) + r, following, NHBYTES * w + r) IN
         /\ next \in Seq(Seq(Int))
         /\ Len(next) = IF r = 0 THEN w ELSE w + 1
         /\ Passed(q) \o next = MessageBlocks(q + w, r, following)
<1> DEFINE next == BlocksOf(NHBYTES * (q + w) + r, following, NHBYTES * w + r)
           count == IF r = 0 THEN w ELSE w + 1
           whole == MessageBlocks(q + w, r, following)
<1>1. next = [b \in 1 .. count |-> MessageBlock(q + w, r, following, q + b)]
  BY BlocksRead
<1>2. /\ count \in Nat /\ q + w \in Nat /\ NHBYTES \in Nat \ {0} /\ 0 \in 0 .. NHBYTES - 1
      /\ IF r = 0 THEN q + w = q + count ELSE (q + w) + 1 = q + count
  BY BlockSize
<1> HIDE DEF next, count
<1>3. next \in Seq(Seq(Int)) /\ Len(next) = count
  <2>1. \A b \in 1 .. count : MessageBlock(q + w, r, following, q + b) \in Seq(Int)
    BY <1>2, BlockIsSeq
  <2>2. next \in [1 .. count -> Seq(Int)]
    BY <1>1, <2>1
  <2> QED
    BY <1>2, <2>2, SeqDef
<1>4. Passed(q) \in Seq(Seq(Int)) /\ Len(Passed(q)) = q
  BY <1>2, BlocksAreSeqs DEF Passed
<1>5. whole \in Seq(Seq(Int)) /\ Len(whole) = q + count
  BY <1>2, BlocksAreSeqs
<1>6. ASSUME NEW b \in 1 .. q PROVE Passed(q)[b] = whole[b]
  <2>1. b \in 1 .. (IF 0 = 0 THEN q ELSE q + 1) /\ b \in 1 .. (IF r = 0 THEN q + w ELSE (q + w) + 1)
    BY <1>2
  <2>2. Passed(q)[b] = MessageBlock(q, 0, "zeroes", b)
    BY <2>1 DEF Passed, MessageBlocks
  <2>3. whole[b] = MessageBlock(q + w, r, following, b)
    BY <2>1 DEF MessageBlocks
  <2>4. ASSUME NEW i \in 1 .. NHBYTES
        PROVE  Memory(NHBYTES * q + 0, "zeroes", (b - 1) * NHBYTES + i)
                 = Memory(NHBYTES * (q + w) + r, following, (b - 1) * NHBYTES + i)
    <3>1. (b - 1) * NHBYTES + NHBYTES <= NHBYTES * q /\ NHBYTES * (q + w) = NHBYTES * q + NHBYTES * w
      BY <1>2
    <3>2. NHBYTES * w \in Nat /\ NHBYTES * q \in Nat /\ (b - 1) * NHBYTES \in Int
      BY <1>2
    <3> DEFINE place == (b - 1) * NHBYTES + i
    <3>3. place \in Int /\ place <= NHBYTES * q + 0 /\ place <= NHBYTES * (q + w) + r
      BY <1>2, <3>1, <3>2
    <3> HIDE DEF place
    <3>4. Memory(NHBYTES * q + 0, "zeroes", place) = place
      BY <3>3 DEF Memory
    <3>5. Memory(NHBYTES * (q + w) + r, following, place) = place
      BY <3>3 DEF Memory
    <3> QED
      BY <3>4, <3>5 DEF place
  <2>5. b <= q /\ b <= q + w
    OBVIOUS
  <2>6. MessageBlock(q, 0, "zeroes", b) = MessageBlock(q + w, r, following, b)
    BY <2>4, <2>5 DEF MessageBlock
  <2> QED
    BY <2>2, <2>3, <2>6
<1>7. ASSUME NEW b \in 1 .. count PROVE next[b] = whole[q + b]
  <2>1. q + b \in 1 .. (IF r = 0 THEN q + w ELSE (q + w) + 1)
    BY <1>2
  <2> QED
    BY <1>1, <2>1 DEF MessageBlocks
<1> HIDE DEF whole
<1>8. Passed(q) \o next = whole
  <2>1. /\ Passed(q) \o next \in Seq(Seq(Int))
        /\ Len(Passed(q) \o next) = q + count
        /\ \A b \in 1 .. q + count :
             (Passed(q) \o next)[b] = IF b <= q THEN Passed(q)[b] ELSE next[b - q]
    <3>1. \A x, y \in Seq(Seq(Int)) :
            /\ x \o y \in Seq(Seq(Int))
            /\ Len(x \o y) = Len(x) + Len(y)
            /\ \A b \in 1 .. Len(x) + Len(y) :
                 (x \o y)[b] = IF b <= Len(x) THEN x[b] ELSE y[b - Len(x)]
      OBVIOUS
    <3> DEFINE x == Passed(q)
    <3>2. x \in Seq(Seq(Int)) /\ next \in Seq(Seq(Int)) /\ Len(x) = q /\ Len(next) = count
      BY <1>3, <1>4
    <3> HIDE DEF x
    <3>3. /\ x \o next \in Seq(Seq(Int))
          /\ Len(x \o next) = Len(x) + Len(next)
          /\ \A b \in 1 .. Len(x) + Len(next) :
               (x \o next)[b] = IF b <= Len(x) THEN x[b] ELSE next[b - Len(x)]
      BY <3>1, <3>2
    <3>4. /\ x \o next \in Seq(Seq(Int))
          /\ Len(x \o next) = q + count
          /\ \A b \in 1 .. q + count : (x \o next)[b] = IF b <= q THEN x[b] ELSE next[b - q]
      BY <3>2, <3>3
    <3> QED
      BY <3>4 DEF x
  <2>2. \A b \in 1 .. q + count : IF b <= q THEN b \in 1 .. q
                                  ELSE b - q \in 1 .. count /\ q + (b - q) = b
    BY <1>2
  <2>3. \A b \in 1 .. q + count : (Passed(q) \o next)[b] = whole[b]
    BY <1>6, <1>7, <2>1, <2>2
  <2> QED
    BY <1>5, <2>1, <2>3, SeqEqual
<1> QED
  BY <1>3, <1>8 DEF next, count, whole

\* The context when q blocks have been passed.
ContextAt(q) == [polytmp |-> Chain(Passed(q)), first_block_processed |-> q # 0]

LEMMA NothingPassed == Passed(0) = <<>> /\ Chain(Passed(0)) = PolyKey /\ ContextAt(0) = AbortedContext
<1>1. Passed(0) = <<>>
  BY DEF Passed, MessageBlocks
<1>2. Chain(<<>>) = <<>>
  BY DEF Chain
<1> QED
  BY <1>1, <1>2 DEF PolyKey, ContextAt, AbortedContext

\* What has gone into a polynomial after the blocks that are given next.
LEMMA PolynomialOf ==
  ASSUME NEW q \in Nat, NEW next \in Seq(Seq(Int))
  PROVE  /\ q # 0 => PolySteps(ContextAt(q).polytmp, next) = Chain(Passed(q) \o next)
         /\ q = 0 /\ next # <<>> =>
              PolySteps(AddFirst(PolyKey, Head(next)), Tail(next)) = Chain(Passed(q) \o next)
<1>1. 0 \in 0 .. NHBYTES - 1
  BY BlockSize
<1>2. Passed(q) \in Seq(Seq(Int)) /\ Len(Passed(q)) = q
  BY <1>1, BlocksAreSeqs DEF Passed
<1>3. CASE q # 0
  <2>1. Passed(q) # <<>>
    BY <1>2, <1>3
  <2> QED
    BY <1>2, <1>3, <2>1, ChainContinued DEF ContextAt
<1>4. CASE q = 0
  <2>1. Passed(q) \o next = next
    BY <1>4, NothingPassed
  <2> QED
    BY <1>4, <2>1, ChainStarted
<1> QED
  BY <1>3, <1>4

LEMMA ContextUpdated ==
  ASSUME NEW q \in Nat, NEW n \in Nat \ {0}
  PROVE  UpdatedContext(ContextAt(q), BlocksOf(NHBYTES * (q + n), "zeroes", NHBYTES * n))
           = ContextAt(q + n)
<1> DEFINE next == BlocksOf(NHBYTES * (q + n), "zeroes", NHBYTES * n)
<1>1. 0 \in 0 .. NHBYTES - 1 /\ NHBYTES * (q + n) + 0 = NHBYTES * (q + n) /\ NHBYTES * n + 0 = NHBYTES * n
  BY BlockSize
<1>2. next \in Seq(Seq(Int)) /\ Len(next) = n /\ Passed(q) \o next = Passed(q + n)
  <2> DEFINE Joined(next0, r) ==
        /\ next0 \in Seq(Seq(Int))
        /\ Len(next0) = IF r = 0 THEN n ELSE n + 1
        /\ Passed(q) \o next0 = MessageBlocks(q + n, r, "zeroes")
  <2>1. Joined(BlocksOf(NHBYTES * (q + n) + 0, "zeroes", NHBYTES * n + 0), 0)
    BY <1>1, BlocksJoined
  <2>2. Joined(next, 0)
    <3> HIDE DEF Joined
    <3> QED
      BY <1>1, <2>1
  <2> QED
    BY <2>2 DEF Passed
<1> HIDE DEF next
<1>3. next # <<>> /\ q + n # 0
  BY <1>2
<1>4. UpdatedContext(ContextAt(q), next)
        = [polytmp |-> Chain(Passed(q) \o next), first_block_processed |-> TRUE]
  <2>1. CASE q = 0
    BY <1>2, <1>3, <2>1, PolynomialOf, NothingPassed DEF UpdatedContext, ContextAt, AbortedContext
  <2>2. CASE q # 0
    BY <1>2, <2>2, PolynomialOf DEF UpdatedContext, ContextAt
  <2> QED
    BY <2>1, <2>2
<1> QED
  BY <1>2, <1>3, <1>4 DEF ContextAt, next

LEMMA HashOfMessage ==
  ASSUME NEW q \in Nat, NEW w \in Nat, NEW r \in 0 .. NHBYTES - 1, NEW following
  PROVE  Vhash(ContextAt(q), NHBYTES * (q + w) + r, following, NHBYTES * w + r)
           = << Chain(MessageBlocks(q + w, r, following)), 8 * r >>
<1> DEFINE next == BlocksOf(NHBYTES * (q + w) + r, following, NHBYTES * w + r)
           poly == IF ContextAt(q).first_block_processed THEN PolySteps(ContextAt(q).polytmp, next)
                   ELSE IF next = <<>> THEN PolyKey
                   ELSE PolySteps(AddFirst(PolyKey, Head(next)), Tail(next))
<1>1. next \in Seq(Seq(Int)) /\ Passed(q) \o next = MessageBlocks(q + w, r, following)
  BY BlocksJoined
<1>2. (NHBYTES * w + r) % NHBYTES = r
  BY Lengths
<1>3. Vhash(ContextAt(q), NHBYTES * (q + w) + r, following, NHBYTES * w + r) = << poly, 8 * r >>
  <2> DEFINE length == NHBYTES * (q + w) + r
             mbytes == NHBYTES * w + r
  <2>1. mbytes % NHBYTES = r
    BY <1>2
  <2> HIDE DEF length, mbytes
  <2>2. Vhash(ContextAt(q), length, following, mbytes) =
          << IF ContextAt(q).first_block_processed
             THEN PolySteps(ContextAt(q).polytmp, BlocksOf(length, following, mbytes))
             ELSE IF BlocksOf(length, following, mbytes) = <<>> THEN PolyKey
             ELSE PolySteps(AddFirst(PolyKey, Head(BlocksOf(length, following, mbytes))),
                            Tail(BlocksOf(length, following, mbytes))), 8 * r >>
    BY <2>1 DEF Vhash, L3hash
  <2> QED
    BY <2>2 DEF length, mbytes
<1> HIDE DEF next
<1>4. poly = Chain(Passed(q) \o next)
  <2>1. CASE q # 0
    BY <1>1, <2>1, PolynomialOf DEF ContextAt
  <2>2. CASE q = 0 /\ next # <<>>
    BY <1>1, <2>2, PolynomialOf DEF ContextAt
  <2>3. CASE q = 0 /\ next = <<>>
    <3>1. Passed(q) \o next = Passed(q) /\ Chain(Passed(q)) = PolyKey
      BY <2>3, NothingPassed
    <3> QED
      BY <2>3, <3>1 DEF ContextAt
  <2> QED
    BY <2>1, <2>2, <2>3
<1> HIDE DEF poly
<1> QED
  BY <1>1, <1>3, <1>4

-----------------------------------------------------------------------------
\* The tag that vmac() makes of n blocks and r bytes.
HashAt(n, r, following) == << Chain(MessageBlocks(n, r, following)), 8 * r >>

LEMMA HashIsATag == \A n, r, following : HashAt(n, r, following) # NoTag
  BY DEF HashAt, NoTag

\* A polynomial tells its blocks.
LEMMA ChainInjective ==
  ASSUME NEW x \in Seq(Seq(Int)), NEW y \in Seq(Seq(Int)), Chain(x) = Chain(y)
  PROVE  x = y
<1>1. DOMAIN Chain(x) = 1 .. Len(x) /\ DOMAIN Chain(y) = 1 .. Len(y) /\ Len(x) \in Nat /\ Len(y) \in Nat
  BY DEF Chain
<1>2. 1 .. Len(x) = 1 .. Len(y)
  BY <1>1
<1>3. Len(x) = Len(y)
  BY <1>1, <1>2
<1>4. ASSUME NEW b \in 1 .. Len(x) PROVE x[b] = y[b]
  <2>1. b \in DOMAIN x /\ b \in DOMAIN y
    BY <1>1, <1>3
  <2>2. Chain(x)[b].block = x[b] /\ Chain(y)[b].block = y[b]
    BY <2>1 DEF Chain
  <2> QED
    BY <2>2
<1> QED
  BY <1>3, <1>4, SeqEqual

\* Which tags are those by definition.
LEMMA TagNoticed ==
  ASSUME NEW n \in Nat, NEW r \in 0 .. NHBYTES - 1, NEW following \in {"zeroes", "string"}
  PROVE  HashAt(n, r, following) = TagOf(NHBYTES * n + r)
           <=> following = "zeroes" \/ NeedsNoPadding(NHBYTES * n + r)
<1>1. TagOf(NHBYTES * n + r) = HashAt(n, r, "zeroes")
  BY TagIsChain DEF HashAt
<1>2. NeedsNoPadding(NHBYTES * n + r) <=> NeedsNoPadding(r)
  BY Lengths
<1>3. MessageBlocks(n, r, "string") = MessageBlocks(n, r, "zeroes") <=> NeedsNoPadding(r)
  BY PaddingNoticed
<1>4. /\ MessageBlocks(n, r, "string") \in Seq(Seq(Int))
      /\ MessageBlocks(n, r, "zeroes") \in Seq(Seq(Int))
  BY BlocksAreSeqs
<1>5. HashAt(n, r, "string") = HashAt(n, r, "zeroes")
        <=> MessageBlocks(n, r, "string") = MessageBlocks(n, r, "zeroes")
  <2>1. HashAt(n, r, "string") = HashAt(n, r, "zeroes")
          => Chain(MessageBlocks(n, r, "string")) = Chain(MessageBlocks(n, r, "zeroes"))
    BY DEF HashAt
  <2>2. MessageBlocks(n, r, "string") = MessageBlocks(n, r, "zeroes")
          => HashAt(n, r, "string") = HashAt(n, r, "zeroes")
    BY DEF HashAt
  <2> QED
    BY <1>4, <2>1, <2>2, ChainInjective
<1> QED
  BY <1>1, <1>2, <1>3, <1>5

-----------------------------------------------------------------------------
\* Until there is a tag, whole blocks have been passed and the context holds
\* them; a tag is that of whole blocks and a rest, and leaves nothing behind
\* in the context.
VmacInv ==
  /\ vmacHash = NoTag =>
       \E q \in Nat : authenticated = NHBYTES * q /\ vmacContext = ContextAt(q)
  /\ vmacHash # NoTag =>
       /\ vmacContext = AbortedContext
       /\ behind \in {"zeroes", "string"}
       /\ \E n \in Nat, r \in 0 .. NHBYTES - 1 :
            authenticated = NHBYTES * n + r /\ vmacHash = HashAt(n, r, behind)

\* What the two operations find.
LEMMA PrefixPassed ==
  ASSUME VmacInv
  PROVE  \E q \in Nat : Prefix = NHBYTES * q /\ vmacContext = ContextAt(q)
<1>1. CASE vmacHash = NoTag
  BY <1>1 DEF VmacInv, Prefix
<1>2. CASE vmacHash # NoTag
  <2>1. Prefix = NHBYTES * 0 /\ vmacContext = ContextAt(0)
    <3>1. NHBYTES * 0 = 0
      BY BlockSize
    <3> QED
      BY <1>2, <3>1, NothingPassed DEF VmacInv, Prefix
  <2> QED
    BY <2>1
<1> QED
  BY <1>1, <1>2

LEMMA VmacInvInit == VmacInit => VmacInv
<1> SUFFICES ASSUME VmacInit PROVE VmacInv
  OBVIOUS
<1>1. NHBYTES * 0 = 0
  BY BlockSize
<1>2. authenticated = NHBYTES * 0 /\ vmacContext = ContextAt(0)
  BY <1>1, NothingPassed DEF VmacInit
<1> QED
  BY <1>2 DEF VmacInit, VmacInv

LEMMA VmacInvNext == VmacInv /\ [VmacNext]_vmacVars => VmacInv'
<1> SUFFICES ASSUME VmacInv, [VmacNext]_vmacVars PROVE VmacInv'
  OBVIOUS
<1>1. PICK q \in Nat : Prefix = NHBYTES * q /\ vmacContext = ContextAt(q)
  BY PrefixPassed
<1>2. NHBYTES \in Nat \ {0}
  BY BlockSize
<1>3. ASSUME NEW n \in Pieces, VhashUpdate(n)
      PROVE  VmacInv'
  <2>1. n \in Nat \ {0} /\ q + n \in Nat
    BY VmacAssumption
  <2>2. Prefix + n * NHBYTES = NHBYTES * (q + n) /\ n * NHBYTES = NHBYTES * n
    BY <1>1, <1>2, <2>1
  <2>3. authenticated' = NHBYTES * (q + n) /\ vmacHash' = NoTag
    BY <1>3, <2>2 DEF VhashUpdate
  <2>4. vmacContext' = UpdatedContext(ContextAt(q), BlocksOf(NHBYTES * (q + n), "zeroes", NHBYTES * n))
    BY <1>1, <1>3, <2>2 DEF VhashUpdate
  <2>5. vmacContext' = ContextAt(q + n)
    BY <2>1, <2>4, ContextUpdated
  <2> QED
    BY <2>1, <2>3, <2>5 DEF VmacInv
<1>4. ASSUME NEW mbytes \in 0 .. MaxBytes, NEW following \in {"zeroes", "string"},
             Authenticate(mbytes, following)
      PROVE  VmacInv'
  <2> DEFINE w == mbytes \div NHBYTES
             r == mbytes % NHBYTES
  <2>1. w \in Nat /\ r \in 0 .. NHBYTES - 1 /\ mbytes = NHBYTES * w + r /\ q + w \in Nat
    BY <1>2, VmacAssumption
  <2> HIDE DEF w, r
  <2>2. Prefix + mbytes = NHBYTES * (q + w) + r
    BY <1>1, <1>2, <2>1
  <2>3. authenticated' = NHBYTES * (q + w) + r /\ behind' = following /\ vmacContext' = AbortedContext
    BY <1>4, <2>2 DEF Authenticate
  <2>4. vmacHash' = Vhash(ContextAt(q), NHBYTES * (q + w) + r, following, NHBYTES * w + r)
    BY <1>1, <1>4, <2>1, <2>2 DEF Authenticate
  <2>5. vmacHash' = HashAt(q + w, r, following)
    BY <2>1, <2>4, HashOfMessage DEF HashAt
  <2>6. vmacHash' # NoTag
    BY <2>5, HashIsATag
  <2> QED
    BY <2>1, <2>3, <2>5, <2>6 DEF VmacInv
<1>5. CASE UNCHANGED vmacVars
  BY <1>5 DEF vmacVars, VmacInv
<1> QED
  BY <1>3, <1>4, <1>5 DEF VmacNext

LEMMA VmacInvImplies == VmacInv => TagOfMessageIffPadded
<1> SUFFICES ASSUME VmacInv, vmacHash # NoTag
             PROVE  vmacHash = TagOf(authenticated)
                      <=> behind = "zeroes" \/ NeedsNoPadding(authenticated)
  BY DEF TagOfMessageIffPadded
<1>1. PICK n \in Nat, r \in 0 .. NHBYTES - 1 :
        authenticated = NHBYTES * n + r /\ vmacHash = HashAt(n, r, behind)
  BY DEF VmacInv
<1>2. behind \in {"zeroes", "string"}
  BY DEF VmacInv
<1> QED
  BY <1>1, <1>2, TagNoticed

-----------------------------------------------------------------------------
(***************************************************************************)
(* SHA-1.  The code's words have WordBits bits and the standard's 32: the  *)
(* lower 32 bits of what the code computes are what the standard computes. *)
(* This takes that an addition carries upwards only, and, as the two add   *)
(* in different orders, that addition is associative, which it is because  *)
(* it is the addition of the numbers that the words stand for.             *)
(***************************************************************************)

\* The places of 0 .. w into which a carry goes, and the sum it makes.
IsCarry(K, a, b, w) ==
  /\ K \subseteq 0 .. w
  /\ 0 \notin K
  /\ \A i \in 0 .. w - 1 : i + 1 \in K <=> IF i \in a <=> i \in b THEN i \in a ELSE i \in K
SumWith(K, a, b, w) == {i \in 0 .. w - 1 : (i \in a <=> i \in b) <=> i \in K}

LEMMA AddHasCarry ==
  ASSUME NEW a, NEW b, NEW w \in Nat
  PROVE  \E K : IsCarry(K, a, b, w) /\ Add(a, b, w) = SumWith(K, a, b, w)
<1> DEFINE Next0(c, n) == IF (n - 1 \in a) = (n - 1 \in b) THEN n - 1 \in a ELSE c
           Step == [x \in BOOLEAN \X Nat |-> Next0(x[1], x[2])]
           Equation(f) == f = [i \in 0 .. w |->
             IF i = 0 THEN FALSE
             ELSE IF (i - 1 \in a) = (i - 1 \in b) THEN i - 1 \in a
             ELSE f[i - 1]]
           carry == CHOOSE f : Equation(f)
<1>1. Step \in [BOOLEAN \X Nat -> BOOLEAN]
  <2>1. \A c \in BOOLEAN, n \in Nat : Next0(c, n) \in BOOLEAN
    <3>1. TAKE c \in BOOLEAN, n \in Nat
    <3>2. (n - 1 \in a) \in BOOLEAN
      OBVIOUS
    <3>3. CASE (n - 1 \in a) = (n - 1 \in b)
      BY <3>2, <3>3, Zenon
    <3>4. CASE (n - 1 \in a) # (n - 1 \in b)
      BY <3>4, Zenon
    <3> QED
      BY <3>3, <3>4, Zenon
  <2> HIDE DEF Next0
  <2> QED
    BY <2>1
<1>2. PICK f : Recursive(f, BOOLEAN, FALSE, w, Step)
  <2>1. FALSE \in BOOLEAN
    OBVIOUS
  <2> HIDE DEF Step
  <2> QED
    BY <1>1, <2>1, RecursionExists
<1>3. Equation(f)
  <2>1. f \in [0 .. w -> BOOLEAN] /\ f[0] = FALSE
    BY <1>2 DEF Recursive
  <2>2. \A n \in 1 .. w : f[n] = Next0(f[n - 1], n)
    <3>1. \A n \in 1 .. w : f[n - 1] \in BOOLEAN /\ n \in Nat
      BY <2>1
    <3>2. \A n \in 1 .. w : f[n] = Step[<<f[n - 1], n>>]
      BY <1>2 DEF Recursive
    <3> HIDE DEF Next0
    <3> QED
      BY <3>1, <3>2
  <2>3. \A n \in 0 .. w : f[n] = IF n = 0 THEN FALSE ELSE Next0(f[n - 1], n)
    <3>1. \A n \in 0 .. w : n = 0 \/ n \in 1 .. w
      OBVIOUS
    <3> HIDE DEF Next0
    <3> QED
      BY <2>1, <2>2, <3>1
  <2> QED
    BY <2>1, <2>3
<1>4. Equation(carry)
  <2> HIDE DEF Equation
  <2> QED
    BY <1>3
<1>5. Add(a, b, w) = {i \in 0 .. w - 1 : ((i \in a) = (i \in b)) = carry[i]}
  BY DEF Add
<1> HIDE DEF carry
<1>6. carry[0] = FALSE
  BY <1>4
<1>7. \A i \in 0 .. w - 1 : carry[i + 1] = IF (i \in a) = (i \in b) THEN i \in a ELSE carry[i]
  <2>1. \A i \in 0 .. w - 1 : i + 1 \in 0 .. w /\ i + 1 # 0 /\ (i + 1) - 1 = i
    OBVIOUS
  <2> QED
    BY <1>4, <2>1
<1>8. \A i \in 0 .. w : carry[i] \in BOOLEAN
  <2> DEFINE Good == {i \in Nat : i <= w => carry[i] \in BOOLEAN}
  <2>1. 0 \in Good
    BY <1>6
  <2>2. ASSUME NEW i \in Nat, i \in Good PROVE i + 1 \in Good
    <3>1. SUFFICES ASSUME i + 1 <= w PROVE carry[i + 1] \in BOOLEAN
      OBVIOUS
    <3>2. i \in 0 .. w - 1 /\ carry[i] \in BOOLEAN
      BY <2>2, <3>1
    <3>3. carry[i + 1] = IF (i \in a) = (i \in b) THEN i \in a ELSE carry[i]
      BY <1>7, <3>2
    <3>4. (i \in a) \in BOOLEAN
      OBVIOUS
    <3>5. CASE (i \in a) = (i \in b)
      BY <3>3, <3>4, <3>5, Zenon
    <3>6. CASE (i \in a) # (i \in b)
      BY <3>2, <3>3, <3>6, Zenon
    <3> QED
      BY <3>5, <3>6, Zenon
  <2>3. Nat \subseteq Good
    <3> HIDE DEF Good
    <3> QED
      BY <2>1, <2>2, SetInduction
  <2> QED
    BY <2>3
<1> DEFINE K == {i \in 0 .. w : carry[i]}
<1>9. IsCarry(K, a, b, w)
  BY <1>6, <1>7, <1>8 DEF IsCarry
<1>10. Add(a, b, w) = SumWith(K, a, b, w)
  BY <1>5, <1>8 DEF SumWith
<1> QED
  BY <1>9, <1>10

\* Words that are the same below a place carry the same up to there.
LEMMA SameCarry ==
  ASSUME NEW a, NEW b, NEW w \in Nat, NEW K, IsCarry(K, a, b, w),
         NEW c, NEW d, NEW v \in Nat, NEW L, IsCarry(L, c, d, v),
         v <= w, \A i \in 0 .. v - 1 : (i \in a <=> i \in c) /\ (i \in b <=> i \in d)
  PROVE  \A i \in 0 .. v : i \in K <=> i \in L
<1> DEFINE Good == {i \in Nat : i <= v => (i \in K <=> i \in L)}
<1>1. 0 \in Good
  BY DEF IsCarry
<1>2. ASSUME NEW i \in Nat, i \in Good PROVE i + 1 \in Good
  <2>1. SUFFICES ASSUME i + 1 <= v PROVE i + 1 \in K <=> i + 1 \in L
    OBVIOUS
  <2>2. i \in 0 .. v - 1 /\ i \in 0 .. w - 1 /\ (i \in K <=> i \in L)
    BY <1>2, <2>1
  <2>3. i + 1 \in K <=> IF i \in a <=> i \in b THEN i \in a ELSE i \in K
    BY <2>2 DEF IsCarry
  <2>4. i + 1 \in L <=> IF i \in c <=> i \in d THEN i \in c ELSE i \in L
    BY <2>2 DEF IsCarry
  <2> QED
    BY <2>2, <2>3, <2>4
<1>3. Nat \subseteq Good
  <2> HIDE DEF Good
  <2> QED
    BY <1>1, <1>2, SetInduction
<1> QED
  BY <1>3

LEMMA AddTyped ==
  ASSUME NEW a, NEW b, NEW w \in Nat
  PROVE  Add(a, b, w) \in SUBSET (0 .. w - 1)
BY AddHasCarry DEF SumWith

\* The lower bits of a sum are those of the lower bits.
LEMMA LowOfAdd ==
  ASSUME NEW a, NEW b, NEW w \in Nat, NEW v \in Nat, v <= w
  PROVE  Low(Add(a, b, w), v) = Add(Low(a, v), Low(b, v), v)
<1>1. PICK K : IsCarry(K, a, b, w) /\ Add(a, b, w) = SumWith(K, a, b, w)
  BY AddHasCarry
<1>2. PICK L : /\ IsCarry(L, Low(a, v), Low(b, v), v)
               /\ Add(Low(a, v), Low(b, v), v) = SumWith(L, Low(a, v), Low(b, v), v)
  BY AddHasCarry
<1>3. \A i \in 0 .. v - 1 : (i \in a <=> i \in Low(a, v)) /\ (i \in b <=> i \in Low(b, v))
  BY DEF Low
<1>4. \A i \in 0 .. v : i \in K <=> i \in L
  BY <1>1, <1>2, <1>3, SameCarry
<1>5. \A i \in 0 .. v - 1 : i \in 0 .. w - 1 /\ i \in 0 .. v
  OBVIOUS
<1>6. Low(SumWith(K, a, b, w), v) = SumWith(L, Low(a, v), Low(b, v), v)
  BY <1>3, <1>4, <1>5 DEF SumWith, Low
<1> QED
  BY <1>1, <1>2, <1>6

LEMMA AddCommutes ==
  ASSUME NEW a, NEW b, NEW w \in Nat
  PROVE  Add(a, b, w) = Add(b, a, w)
<1>1. PICK K : IsCarry(K, a, b, w) /\ Add(a, b, w) = SumWith(K, a, b, w)
  BY AddHasCarry
<1>2. PICK L : IsCarry(L, b, a, w) /\ Add(b, a, w) = SumWith(L, b, a, w)
  BY AddHasCarry
<1>3. IsCarry(L, a, b, w)
  BY <1>2 DEF IsCarry
<1>4. \A i \in 0 .. w : i \in K <=> i \in L
  BY <1>1, <1>3, SameCarry
<1>5. \A i \in 0 .. w - 1 : i \in 0 .. w
  OBVIOUS
<1>6. SumWith(K, a, b, w) = SumWith(L, b, a, w)
  BY <1>4, <1>5 DEF SumWith
<1> QED
  BY <1>1, <1>2, <1>6

-----------------------------------------------------------------------------
\* p gives the powers of two, and v the numbers that the lower bits of a stand for.
ArePowers(p, w) ==
  /\ p \in [0 .. w -> Nat]
  /\ p[0] = 1
  /\ \A i \in 0 .. w - 1 : p[i + 1] = p[i] + p[i]
AreValues(v, p, a, w) ==
  /\ v \in [0 .. w -> Nat]
  /\ v[0] = 0
  /\ \A i \in 0 .. w - 1 : v[i + 1] = IF i \in a THEN v[i] + p[i] ELSE v[i]

LEMMA PowersExist ==
  ASSUME NEW w \in Nat
  PROVE  \E p : ArePowers(p, w)
<1> DEFINE Step == [x \in Nat \X Nat |-> x[1] + x[1]]
<1>1. Step \in [Nat \X Nat -> Nat]
  OBVIOUS
<1>2. PICK p : Recursive(p, Nat, 1, w, Step)
  <2> HIDE DEF Step
  <2> QED
    BY <1>1, RecursionExists
<1>3. p \in [0 .. w -> Nat] /\ p[0] = 1
  BY <1>2 DEF Recursive
<1>4. ASSUME NEW i \in 0 .. w - 1 PROVE p[i + 1] = p[i] + p[i]
  <2>1. i + 1 \in 1 .. w /\ (i + 1) - 1 = i /\ p[i] \in Nat /\ i + 1 \in Nat
    BY <1>3
  <2>2. p[i + 1] = Step[<<p[i], i + 1>>]
    <3>1. p[i + 1] = Step[<<p[(i + 1) - 1], i + 1>>]
      BY <1>2, <2>1 DEF Recursive
    <3> QED
      BY <2>1, <3>1
  <2> QED
    BY <2>1, <2>2
<1> QED
  BY <1>3, <1>4 DEF ArePowers

LEMMA ValuesExist ==
  ASSUME NEW w \in Nat, NEW p, ArePowers(p, w), NEW a
  PROVE  \E v : AreValues(v, p, a, w)
<1> DEFINE Step == [x \in Nat \X Nat |->
                      IF x[2] \in 1 .. w /\ x[2] - 1 \in a THEN x[1] + p[x[2] - 1] ELSE x[1]]
<1>1. Step \in [Nat \X Nat -> Nat]
  BY DEF ArePowers
<1>2. PICK v : Recursive(v, Nat, 0, w, Step)
  <2> HIDE DEF Step
  <2> QED
    BY <1>1, RecursionExists
<1>3. v \in [0 .. w -> Nat] /\ v[0] = 0
  BY <1>2 DEF Recursive
<1>4. ASSUME NEW i \in 0 .. w - 1 PROVE v[i + 1] = IF i \in a THEN v[i] + p[i] ELSE v[i]
  <2>1. i + 1 \in 1 .. w /\ (i + 1) - 1 = i /\ v[i] \in Nat /\ i + 1 \in Nat
    BY <1>3
  <2>2. v[i + 1] = Step[<<v[i], i + 1>>]
    <3>1. v[i + 1] = Step[<<v[(i + 1) - 1], i + 1>>]
      BY <1>2, <2>1 DEF Recursive
    <3> QED
      BY <2>1, <3>1
  <2>3. Step[<<v[i], i + 1>>] = IF i \in a THEN v[i] + p[i] ELSE v[i]
    BY <2>1
  <2> QED
    BY <2>2, <2>3
<1> QED
  BY <1>3, <1>4 DEF AreValues

\* The lower i bits stand for a number below the i-th power.
LEMMA ValueBelow ==
  ASSUME NEW w \in Nat, NEW p, ArePowers(p, w), NEW a, NEW v, AreValues(v, p, a, w)
  PROVE  \A i \in 0 .. w : v[i] < p[i]
<1> DEFINE Good == {i \in Nat : i <= w => v[i] < p[i]}
<1>1. 0 \in Good
  BY DEF ArePowers, AreValues
<1>2. ASSUME NEW i \in Nat, i \in Good PROVE i + 1 \in Good
  <2>1. SUFFICES ASSUME i + 1 <= w PROVE v[i + 1] < p[i + 1]
    OBVIOUS
  <2>2. /\ i \in 0 .. w - 1 /\ v[i] \in Nat /\ p[i] \in Nat /\ v[i] < p[i]
        /\ p[i + 1] = p[i] + p[i] /\ v[i + 1] = IF i \in a THEN v[i] + p[i] ELSE v[i]
    BY <1>2, <2>1 DEF ArePowers, AreValues
  <2> QED
    BY <2>2
<1>3. Nat \subseteq Good
  <2> HIDE DEF Good
  <2> QED
    BY <1>1, <1>2, SetInduction
<1> QED
  BY <1>3

\* Words of the same value are the same.
LEMMA ValueTells ==
  ASSUME NEW w \in Nat, NEW p, ArePowers(p, w), NEW a, NEW v, AreValues(v, p, a, w),
         NEW b, NEW u, AreValues(u, p, b, w), v[w] = u[w]
  PROVE  \A i \in 0 .. w - 1 : i \in a <=> i \in b
<1> DEFINE Good == {i \in Nat : i <= w /\ v[i] = u[i] => \A j \in 0 .. i - 1 : j \in a <=> j \in b}
<1>1. 0 \in Good
  OBVIOUS
<1>2. ASSUME NEW i \in Nat, i \in Good PROVE i + 1 \in Good
  <2>1. SUFFICES ASSUME i + 1 <= w, v[i + 1] = u[i + 1]
                 PROVE  \A j \in 0 .. i : j \in a <=> j \in b
    OBVIOUS
  <2>2. /\ i \in 0 .. w - 1 /\ i \in 0 .. w
        /\ v[i + 1] = IF i \in a THEN v[i] + p[i] ELSE v[i]
        /\ u[i + 1] = IF i \in b THEN u[i] + p[i] ELSE u[i]
        /\ v[i] \in Nat /\ u[i] \in Nat /\ p[i] \in Nat
    BY <2>1 DEF AreValues, ArePowers
  <2>3. v[i] < p[i] /\ u[i] < p[i]
    BY <2>2, ValueBelow
  <2>4. (i \in a <=> i \in b) /\ v[i] = u[i]
    <3>1. CASE i \in a /\ i \in b
      <4>1. v[i] + p[i] = u[i] + p[i]
        BY <2>1, <2>2, <3>1
      <4>2. v[i] \in Nat /\ u[i] \in Nat /\ p[i] \in Nat
        BY <2>2
      <4>3. v[i] = u[i]
        BY <4>1, <4>2
      <4> QED
        BY <3>1, <4>3
    <3>2. CASE i \in a /\ i \notin b
      <4>1. v[i] + p[i] = u[i]
        BY <2>1, <2>2, <3>2
      <4> QED
        BY <2>2, <2>3, <4>1
    <3>3. CASE i \notin a /\ i \in b
      <4>1. v[i] = u[i] + p[i]
        BY <2>1, <2>2, <3>3
      <4> QED
        BY <2>2, <2>3, <4>1
    <3>4. CASE i \notin a /\ i \notin b
      BY <2>1, <2>2, <3>4
    <3> QED
      BY <3>1, <3>2, <3>3, <3>4
  <2>5. \A j \in 0 .. i - 1 : j \in a <=> j \in b
    BY <1>2, <2>1, <2>4
  <2>6. \A j \in 0 .. i : j = i \/ j \in 0 .. i - 1
    OBVIOUS
  <2> QED
    BY <2>4, <2>5, <2>6
<1>3. Nat \subseteq Good
  <2> HIDE DEF Good
  <2> QED
    BY <1>1, <1>2, SetInduction
<1>4. w \in Good
  <2> HIDE DEF Good
  <2> QED
    BY <1>3
<1> QED
  BY <1>4

\* A sum stands for the sum, but for the carry out of the word.
LEMMA ValueOfSum ==
  ASSUME NEW w \in Nat, NEW p, ArePowers(p, w), NEW a, NEW v, AreValues(v, p, a, w),
         NEW b, NEW u, AreValues(u, p, b, w), NEW s, AreValues(s, p, Add(a, b, w), w)
  PROVE  s[w] = v[w] + u[w] \/ s[w] + p[w] = v[w] + u[w]
<1>1. PICK K : IsCarry(K, a, b, w) /\ Add(a, b, w) = SumWith(K, a, b, w)
  BY AddHasCarry
<1> DEFINE Carried(i) == IF i \in K THEN p[i] ELSE 0
           Good == {i \in Nat : i <= w => s[i] + Carried(i) = v[i] + u[i]}
<1>2. 0 \in Good
  BY <1>1 DEF IsCarry, AreValues
<1>3. ASSUME NEW i \in Nat, i \in Good PROVE i + 1 \in Good
  <2>1. SUFFICES ASSUME i + 1 <= w
                 PROVE  s[i + 1] + Carried(i + 1) = v[i + 1] + u[i + 1]
    OBVIOUS
  <2>2. /\ i \in 0 .. w - 1
        /\ v[i] \in Nat /\ u[i] \in Nat /\ s[i] \in Nat /\ p[i] \in Nat /\ p[i + 1] = p[i] + p[i]
        /\ v[i + 1] = IF i \in a THEN v[i] + p[i] ELSE v[i]
        /\ u[i + 1] = IF i \in b THEN u[i] + p[i] ELSE u[i]
        /\ s[i + 1] = IF i \in Add(a, b, w) THEN s[i] + p[i] ELSE s[i]
    BY <2>1 DEF AreValues, ArePowers
  <2>3. i \in Add(a, b, w) <=> ((i \in a <=> i \in b) <=> i \in K)
    BY <1>1, <2>2 DEF SumWith
  <2>4. i + 1 \in K <=> IF i \in a <=> i \in b THEN i \in a ELSE i \in K
    BY <1>1, <2>2 DEF IsCarry
  <2>5. s[i] + Carried(i) = v[i] + u[i]
    BY <1>3, <2>1
  <2> QED
    BY <2>2, <2>3, <2>4, <2>5
<1>4. Nat \subseteq Good
  <2> HIDE DEF Good
  <2> QED
    BY <1>2, <1>3, SetInduction
<1>5. s[w] + Carried(w) = v[w] + u[w]
  BY <1>4
<1> QED
  BY <1>5 DEF AreValues

LEMMA AddAssociates ==
  ASSUME NEW a, NEW b, NEW c, NEW w \in Nat
  PROVE  Add(Add(a, b, w), c, w) = Add(a, Add(b, c, w), w)
<1> DEFINE left == Add(Add(a, b, w), c, w)
           right == Add(a, Add(b, c, w), w)
<1>1. PICK p : ArePowers(p, w)
  BY PowersExist
<1>2. PICK va : AreValues(va, p, a, w)
  BY <1>1, ValuesExist
<1>3. PICK vb : AreValues(vb, p, b, w)
  BY <1>1, ValuesExist
<1>4. PICK vc : AreValues(vc, p, c, w)
  BY <1>1, ValuesExist
<1>5. PICK ab : AreValues(ab, p, Add(a, b, w), w)
  BY <1>1, ValuesExist
<1>6. PICK bc : AreValues(bc, p, Add(b, c, w), w)
  BY <1>1, ValuesExist
<1>7. PICK vl : AreValues(vl, p, left, w)
  BY <1>1, ValuesExist
<1>8. PICK vr : AreValues(vr, p, right, w)
  BY <1>1, ValuesExist
<1>9. /\ ab[w] = va[w] + vb[w] \/ ab[w] + p[w] = va[w] + vb[w]
      /\ bc[w] = vb[w] + vc[w] \/ bc[w] + p[w] = vb[w] + vc[w]
      /\ vl[w] = ab[w] + vc[w] \/ vl[w] + p[w] = ab[w] + vc[w]
      /\ vr[w] = va[w] + bc[w] \/ vr[w] + p[w] = va[w] + bc[w]
  BY <1>1, <1>2, <1>3, <1>4, <1>5, <1>6, <1>7, <1>8, ValueOfSum
<1>10. vl[w] < p[w] /\ vr[w] < p[w]
  BY <1>1, <1>7, <1>8, ValueBelow
<1>11. /\ va[w] \in Nat /\ vb[w] \in Nat /\ vc[w] \in Nat /\ ab[w] \in Nat /\ bc[w] \in Nat
       /\ vl[w] \in Nat /\ vr[w] \in Nat /\ p[w] \in Nat
  BY <1>1, <1>2, <1>3, <1>4, <1>5, <1>6, <1>7, <1>8 DEF AreValues, ArePowers
<1>12. vl[w] = vr[w]
  BY <1>9, <1>10, <1>11
<1>13. \A i \in 0 .. w - 1 : i \in left <=> i \in right
  BY <1>1, <1>7, <1>8, <1>12, ValueTells
<1>14. left \in SUBSET (0 .. w - 1) /\ right \in SUBSET (0 .. w - 1)
  BY AddTyped
<1> HIDE DEF left, right
<1>15. left = right
  BY <1>13, <1>14
<1> QED
  BY <1>15 DEF left, right

-----------------------------------------------------------------------------
\* The words of the code, and those of the standard, which are their lower bits.
CodeWords == SUBSET (0 .. WordBits - 1)
StandardWords == SUBSET (0 .. 31)
Lower(a) == Low(a, 32)

LEMMA WordSizes == WordBits \in Nat /\ WordBits >= 32
BY Sha1Assumption

LEMMA StandardIsWords ==
  /\ \A a, b : Standard!Plus(a, b) = Add(a, b, 32)
  /\ \A a, b : Standard!Xor(a, b) = Xor(a, b)
  /\ \A a, k : Standard!ShiftLeft(a, k) = ShiftLeft(a, k)
  /\ \A n : Standard!BitsOf(n) = BitsOf(n)
  /\ \A h, l : Standard!Word(h, l) = Word(h, l)
<1>1. \A a, b : Standard!Plus(a, b) = Add(a, b, 32)
  BY DEF Standard!Plus, Standard!Size, Standard!Add, Add
<1>2. \A a, b : Standard!Xor(a, b) = Xor(a, b)
  BY DEF Standard!Xor, Xor
<1>3. \A a, k : Standard!ShiftLeft(a, k) = ShiftLeft(a, k)
  BY DEF Standard!ShiftLeft, ShiftLeft
<1>4. \A n : Standard!BitsOf(n) = BitsOf(n)
  BY DEF Standard!BitsOf, BitsOf
<1>5. \A h, l : Standard!Word(h, l) = Word(h, l)
  BY <1>3, <1>4 DEF Standard!Word, Word
<1> QED
  BY <1>1, <1>2, <1>3, <1>4, <1>5

LEMMA LowerTyped == \A a : Lower(a) \in StandardWords
BY DEF Lower, Low, StandardWords

LEMMA LowerOfLower == \A a \in StandardWords : Lower(a) = a /\ a \in CodeWords
<1>1. \A x \in 0 .. 31 : x \in 0 .. WordBits - 1
  BY WordSizes
<1>2. ASSUME NEW a \in StandardWords
      PROVE  Lower(a) = a
  <2>1. \A x : x \in a => x \in 0 .. 31
    BY DEF StandardWords
  <2>2. \A x : x \in Lower(a) <=> x \in a
    BY <2>1 DEF Lower, Low
  <2> QED
    BY <2>2
<1> QED
  BY <1>1, <1>2 DEF StandardWords, CodeWords

LEMMA PlusLower ==
  ASSUME NEW a, NEW b
  PROVE  Plus(a, b) \in CodeWords /\ Lower(Plus(a, b)) = Standard!Plus(Lower(a), Lower(b))
<1>1. Plus(a, b) \in CodeWords
  BY AddTyped, WordSizes DEF Plus, CodeWords
<1>2. Lower(Plus(a, b)) = Add(Lower(a), Lower(b), 32)
  BY LowOfAdd, WordSizes DEF Plus, Lower
<1> QED
  BY <1>1, <1>2, StandardIsWords

LEMMA XorLower ==
  ASSUME NEW a \in CodeWords, NEW b \in CodeWords
  PROVE  Xor(a, b) \in CodeWords /\ Lower(Xor(a, b)) = Standard!Xor(Lower(a), Lower(b))
<1>1. Xor(a, b) \in CodeWords
  BY DEF Xor, CodeWords
<1>2. Lower(Xor(a, b)) = Xor(Lower(a), Lower(b))
  BY DEF Xor, Lower, Low
<1> QED
  BY <1>1, <1>2, StandardIsWords

\* What SHA1_ROL leaves above bit 31 does not come back.
LEMMA RolLower ==
  ASSUME NEW a \in CodeWords, NEW k \in 1 .. 31
  PROVE  Rol(a, k) \in CodeWords /\ Lower(Rol(a, k)) = Standard!RotateLeft(Lower(a), k)
<1> DEFINE up == Low(ShiftLeft(a, k), WordBits)
           round == ShiftRight(Low(a, 32), 32 - k)
<1>1. up = {x \in 0 .. WordBits - 1 : x - k \in a}
  BY WordSizes DEF ShiftLeft, Low, CodeWords
<1>2. round = {x \in 0 .. k - 1 : x + (32 - k) \in a}
  <2>1. \A x : x \in round => x \in 0 .. k - 1 /\ x + (32 - k) \in a
    BY DEF ShiftRight, Low
  <2>2. \A x \in 0 .. k - 1 : x + (32 - k) \in a => x \in round
    <3>1. TAKE x \in 0 .. k - 1
    <3>2. HAVE x + (32 - k) \in a
    <3>3. x + (32 - k) \in Low(a, 32) /\ x + (32 - k) >= 32 - k /\ (x + (32 - k)) - (32 - k) = x
      BY <3>2 DEF Low
    <3> QED
      BY <3>3 DEF ShiftRight
  <2> HIDE DEF round
  <2> QED
    BY <2>1, <2>2
<1>3. Rol(a, k) = up \cup round
  BY DEF Rol
<1>4. Rol(a, k) \in CodeWords
  BY <1>1, <1>2, <1>3, WordSizes DEF CodeWords
<1> DEFINE rotated == {(b + k) % 32 : b \in Lower(a)}
<1>5. Standard!RotateLeft(Lower(a), k) = rotated
  BY DEF Standard!RotateLeft, Standard!Size
<1>6. \A b \in 0 .. 31 : (b + k) % 32 = IF b + k < 32 THEN b + k ELSE b + k - 32
  OBVIOUS
<1>7. ASSUME NEW x \in 0 .. 31
      PROVE  x \in rotated <=> (x - k \in a /\ x >= k) \/ (x + (32 - k) \in a /\ x < k)
  <2>1. ASSUME NEW b \in Lower(a), x = (b + k) % 32
        PROVE  (x - k \in a /\ x >= k) \/ (x + (32 - k) \in a /\ x < k)
    <3>1. b \in 0 .. 31 /\ b \in a
      BY DEF Lower, Low
    <3>2. CASE b + k < 32
      <4>1. x = b + k
        BY <1>6, <2>1, <3>1, <3>2
      <4>2. x - k = b /\ x >= k
        BY <3>1, <4>1
      <4> QED
        BY <3>1, <4>2
    <3>3. CASE ~ b + k < 32
      <4>1. x = b + k - 32
        BY <1>6, <2>1, <3>1, <3>3
      <4>2. x + (32 - k) = b /\ x < k
        BY <3>1, <4>1
      <4> QED
        BY <3>1, <4>2
    <3> QED
      BY <3>2, <3>3
  <2>2. ASSUME x - k \in a, x >= k PROVE x \in rotated
    <3>1. x - k \in Lower(a) /\ x - k \in 0 .. 31 /\ (x - k) + k = x
      BY <2>2 DEF Lower, Low
    <3>2. ((x - k) + k) % 32 = x
      BY <3>1
    <3> QED
      BY <3>1, <3>2
  <2>3. ASSUME x + (32 - k) \in a, x < k PROVE x \in rotated
    <3> DEFINE b == x + (32 - k)
    <3>1. b \in Lower(a) /\ b \in 0 .. 31 /\ b + k = x + 32
      BY <2>3 DEF Lower, Low
    <3> HIDE DEF b
    <3>2. (b + k) % 32 = x
      BY <1>6, <3>1
    <3> QED
      BY <3>1, <3>2
  <2> QED
    BY <2>1, <2>2, <2>3
<1>8. rotated \subseteq 0 .. 31
  BY <1>6 DEF Lower, Low
<1> HIDE DEF rotated, up, round
<1>9. ASSUME NEW x \in 0 .. 31
      PROVE  x \in Rol(a, k) <=> (x - k \in a /\ x >= k) \/ (x + (32 - k) \in a /\ x < k)
  <2>1. x \in up <=> x - k \in a /\ x >= k
    <3>1. x - k \in a => x - k >= 0
      BY WordSizes DEF CodeWords
    <3> QED
      BY <1>1, <3>1, WordSizes
  <2>2. x \in round <=> x + (32 - k) \in a /\ x < k
    BY <1>2
  <2> QED
    BY <1>3, <2>1, <2>2
<1>10. Lower(Rol(a, k)) = rotated
  <2>1. \A x : x \in Lower(Rol(a, k)) <=> x \in 0 .. 31 /\ x \in Rol(a, k)
    BY DEF Lower, Low
  <2>2. \A x \in 0 .. 31 : x \in Rol(a, k) <=> x \in rotated
    BY <1>7, <1>9
  <2> HIDE DEF rotated
  <2>3. \A x : x \in Lower(Rol(a, k)) <=> x \in rotated
    BY <1>8, <2>1, <2>2
  <2> QED
    BY <2>3
<1> QED
  BY <1>4, <1>5, <1>10

\* The functions of the rounds.
LEMMA ChoiceLower ==
  ASSUME NEW a \in CodeWords, NEW b \in CodeWords, NEW c \in CodeWords
  PROVE  Choice(a, b, c) \in CodeWords /\ Lower(Choice(a, b, c)) = Standard!Ch(Lower(a), Lower(b), Lower(c))
BY DEF Choice, Xor, Lower, Low, CodeWords, Standard!Ch, Standard!Not, Standard!Size

LEMMA MajorityLower ==
  ASSUME NEW a \in CodeWords, NEW b \in CodeWords, NEW c \in CodeWords
  PROVE  Majority(a, b, c) \in CodeWords /\ Lower(Majority(a, b, c)) = Standard!Maj(Lower(a), Lower(b), Lower(c))
BY DEF Majority, Lower, Low, CodeWords, Standard!Maj

LEMMA ParityLower ==
  ASSUME NEW a \in CodeWords, NEW b \in CodeWords, NEW c \in CodeWords
  PROVE  Parity(a, b, c) \in CodeWords
         /\ Lower(Parity(a, b, c)) = Standard!Xor(Lower(a), Standard!Xor(Lower(b), Lower(c)))
BY DEF Parity, Xor, Lower, Low, CodeWords, Standard!Xor

-----------------------------------------------------------------------------
\* The places of a round, in the code and in the standard.
CodeStates == [i : Nat, v : CodeWords, w : CodeWords, x : CodeWords, y : CodeWords,
               z : CodeWords, block : [0 .. 15 -> CodeWords]]
StandardStates == [t : Nat, a : StandardWords, b : StandardWords, c : StandardWords,
                   d : StandardWords, e : StandardWords, words : Seq(StandardWords)]

\* They are at the same round, with the same working words.
InStep(s, r) ==
  /\ s.i = r.t
  /\ Lower(s.v) = r.a
  /\ Lower(s.w) = r.b
  /\ Lower(s.x) = r.c
  /\ Lower(s.y) = r.d
  /\ Lower(s.z) = r.e

LEMMA WordTyped ==
  ASSUME NEW high, NEW low
  PROVE  Word(high, low) \in StandardWords
<1>1. \A n : BitsOf(n) \subseteq 0 .. 15
  BY DEF BitsOf
<1>2. \A x \in BitsOf(high) : x + 16 \in 0 .. 31
  BY <1>1
<1> QED
  BY <1>1, <1>2 DEF Word, ShiftLeft, StandardWords

LEMMA StandardPlusTyped == \A a, b : Standard!Plus(a, b) \in StandardWords
BY AddTyped, StandardIsWords DEF StandardWords

LEMMA StandardRotateTyped ==
  ASSUME NEW a \in StandardWords, NEW k \in Nat
  PROVE  Standard!RotateLeft(a, k) \in StandardWords
<1>1. \A b \in a : (b + k) % 32 \in 0 .. 31
  BY DEF StandardWords
<1> QED
  BY <1>1 DEF Standard!RotateLeft, Standard!Size, StandardWords

\* The order in which the code and the standard add up a round.
LEMMA SameSum ==
  ASSUME NEW r, NEW f, NEW e, NEW k, NEW m
  PROVE  Standard!Plus(e, Standard!Plus(Standard!Plus(Standard!Plus(f, m), k), r))
           = Standard!Plus(Standard!Plus(Standard!Plus(Standard!Plus(r, f), e), k), m)
<1> DEFINE Sum(x, y) == Standard!Plus(x, y)
<1>1. \A x, y : Sum(x, y) = Sum(y, x)
  BY AddCommutes, StandardIsWords
<1>2. \A x, y, z : Sum(Sum(x, y), z) = Sum(x, Sum(y, z))
  BY AddAssociates, StandardIsWords
<1> HIDE DEF Sum
<1>3. Sum(e, Sum(Sum(Sum(f, m), k), r)) = Sum(Sum(Sum(f, m), k), Sum(r, e))
  BY <1>1, <1>2
<1>4. Sum(Sum(Sum(f, m), k), Sum(r, e)) = Sum(Sum(f, Sum(k, m)), Sum(r, e))
  BY <1>1, <1>2
<1>5. Sum(Sum(f, Sum(k, m)), Sum(r, e)) = Sum(Sum(Sum(r, e), f), Sum(k, m))
  BY <1>1, <1>2
<1>6. Sum(Sum(r, e), f) = Sum(Sum(r, f), e)
  BY <1>1, <1>2
<1>7. Sum(Sum(Sum(r, f), e), Sum(k, m)) = Sum(Sum(Sum(Sum(r, f), e), k), m)
  BY <1>2
<1>8. Sum(e, Sum(Sum(Sum(f, m), k), r)) = Sum(Sum(Sum(Sum(r, f), e), k), m)
  BY <1>3, <1>4, <1>5, <1>6, <1>7
<1> QED
  BY <1>8 DEF Sum

\* One line of transform() is one step of the standard.
LEMMA LineLower ==
  ASSUME NEW s \in CodeStates, NEW r \in StandardStates, InStep(s, r),
         NEW block \in [0 .. 15 -> CodeWords], Lower(block[s.i % 16]) = r.words[1],
         NEW mixed \in CodeWords, NEW constant \in StandardWords
  PROVE  /\ Line(s, block, mixed, constant) \in CodeStates
         /\ Line(s, block, mixed, constant).i = s.i + 1
         /\ Line(s, block, mixed, constant).block = block
         /\ InStep(Line(s, block, mixed, constant), Standard!Step(r, Lower(mixed), constant))
<1> DEFINE m == block[s.i % 16]
           sum == Plus(s.z, Plus(Plus(Plus(mixed, m), constant), Rol(s.v, 5)))
<1>1. s.i \in Nat /\ s.v \in CodeWords /\ s.w \in CodeWords /\ s.x \in CodeWords /\ s.y \in CodeWords /\ s.z \in CodeWords
  BY DEF CodeStates
<1>2. sum \in CodeWords
  BY PlusLower
<1>3. Lower(sum) = Standard!Plus(Lower(s.z), Standard!Plus(Standard!Plus(Standard!Plus(Lower(mixed), Lower(m)), Lower(constant)), Lower(Rol(s.v, 5))))
  BY PlusLower
<1>4. Lower(constant) = constant
  BY LowerOfLower
<1>5. /\ Lower(Rol(s.v, 5)) = Standard!RotateLeft(Lower(s.v), 5)
      /\ Rol(s.w, 30) \in CodeWords
      /\ Lower(Rol(s.w, 30)) = Standard!RotateLeft(Lower(s.w), 30)
  <2>1. 5 \in 1 .. 31 /\ 30 \in 1 .. 31
    OBVIOUS
  <2> QED
    BY <1>1, <2>1, RolLower
<1>6. Lower(sum) = Standard!Plus(Standard!Plus(Standard!Plus(Standard!Plus(Standard!RotateLeft(r.a, 5), Lower(mixed)), r.e), constant), r.words[1])
  BY <1>3, <1>4, <1>5, SameSum DEF InStep
<1> HIDE DEF m, sum
<1>7. Line(s, block, mixed, constant) = [i |-> s.i + 1, v |-> sum, w |-> s.v, x |-> Rol(s.w, 30), y |-> s.x, z |-> s.y, block |-> block]
  BY DEF Line, sum, m
<1>8. Line(s, block, mixed, constant) \in CodeStates
  BY <1>1, <1>2, <1>5, <1>7 DEF CodeStates
<1> DEFINE q == Standard!Step(r, Lower(mixed), constant)
<1>9. /\ q.t = r.t + 1 /\ q.b = r.a /\ q.c = Standard!RotateLeft(r.b, 30) /\ q.d = r.c /\ q.e = r.d
      /\ q.a = Standard!Plus(Standard!Plus(Standard!Plus(Standard!Plus(Standard!RotateLeft(r.a, 5), Lower(mixed)), r.e), constant), r.words[1])
  BY DEF Standard!Step
<1> HIDE DEF q
<1>10. InStep(Line(s, block, mixed, constant), q)
  BY <1>5, <1>6, <1>7, <1>9 DEF InStep
<1> QED
  BY <1>7, <1>8, <1>10 DEF q

\* Sixteen words, moved on by one.
LEMMA WindowTail ==
  ASSUME NEW S, NEW q \in Seq(S), Len(q) = 16
  PROVE  \E rest \in Seq(S) : rest = Tail(q) /\ Len(rest) = 15 /\ \A j \in 1 .. 15 : rest[j] = q[j + 1]
<1>1. q # <<>>
  <2>1. Len(<<>>) = 0
    OBVIOUS
  <2>2. Len(q) # 0
    OBVIOUS
  <2> QED
    BY <2>1, <2>2, Zenon
<1>2. Tail(q) \in Seq(S)
  BY <1>1, HeadTailProperties
<1>3. Len(Tail(q)) = Len(q) - 1
  BY <1>1, HeadTailProperties
<1>4. \A j \in 1 .. Len(Tail(q)) : Tail(q)[j] = q[j + 1]
  BY <1>1, HeadTailProperties
<1>5. PICK rest \in Seq(S) : rest = Tail(q)
  BY <1>2
<1>6. Len(rest) = Len(q) - 1
  BY <1>3, <1>5
<1>7. Len(rest) = 15
  BY <1>6
<1>8. \A j \in 1 .. Len(rest) : rest[j] = q[j + 1]
  BY <1>4, <1>5, Zenon
<1>9. \A j \in 1 .. 15 : rest[j] = q[j + 1]
  BY <1>7, <1>8
<1> QED
  BY <1>5, <1>7, <1>9, Zenon

LEMMA WindowTyped ==
  ASSUME NEW S, NEW q \in Seq(S), Len(q) = 16, NEW x \in S
  PROVE  Append(Tail(q), x) \in Seq(S) /\ Len(Append(Tail(q), x)) = 16
<1>1. PICK rest \in Seq(S) : rest = Tail(q) /\ Len(rest) = 15 /\ \A j \in 1 .. 15 : rest[j] = q[j + 1]
  BY WindowTail
<1>2. Append(rest, x) \in Seq(S) /\ Len(Append(rest, x)) = Len(rest) + 1
  OBVIOUS
<1> QED
  BY <1>1, <1>2

LEMMA WindowRest ==
  ASSUME NEW S, NEW q \in Seq(S), Len(q) = 16, NEW x \in S, NEW j \in 1 .. 15
  PROVE  Append(Tail(q), x)[j] = q[j + 1]
<1>1. PICK rest \in Seq(S) : rest = Tail(q) /\ Len(rest) = 15 /\ \A i \in 1 .. 15 : rest[i] = q[i + 1]
  BY WindowTail
<1>2. \A i \in 1 .. Len(rest) : Append(rest, x)[i] = rest[i]
  OBVIOUS
<1>3. Append(rest, x)[j] = q[j + 1]
  BY <1>1, <1>2
<1> QED
  BY <1>1, <1>3, Zenon

LEMMA WindowLast ==
  ASSUME NEW S, NEW q \in Seq(S), Len(q) = 16, NEW x \in S
  PROVE  Append(Tail(q), x)[16] = x
<1>1. PICK rest \in Seq(S) : rest = Tail(q) /\ Len(rest) = 15 /\ \A j \in 1 .. 15 : rest[j] = q[j + 1]
  BY WindowTail
<1>2. Append(rest, x)[Len(rest) + 1] = x
  OBVIOUS
<1>3. Len(rest) + 1 = 16
  BY <1>1
<1>4. Append(rest, x)[16] = x
  BY <1>2, <1>3
<1> QED
  BY <1>1, <1>4, Zenon

\* A step of the standard.
LEMMA StepTyped ==
  ASSUME NEW r \in StandardStates, Len(r.words) = 16, NEW f, NEW k
  PROVE  /\ Standard!Step(r, f, k) \in StandardStates
         /\ Len(Standard!Step(r, f, k).words) = 16
         /\ \A j \in 1 .. 15 : Standard!Step(r, f, k).words[j] = r.words[j + 1]
         /\ Standard!Step(r, f, k).words[16] =
              Standard!RotateLeft(Standard!Xor(Standard!Xor(r.words[1], r.words[3]),
                                               Standard!Xor(r.words[9], r.words[14])), 1)
<1> DEFINE last == Standard!RotateLeft(Standard!Xor(Standard!Xor(r.words[1], r.words[3]),
                                                    Standard!Xor(r.words[9], r.words[14])), 1)
           words == Append(Tail(r.words), last)
           sum == Standard!Plus(Standard!Plus(Standard!Plus(Standard!Plus(Standard!RotateLeft(r.a, 5), f), r.e), k), r.words[1])
<1>1. /\ r.t \in Nat /\ r.a \in StandardWords /\ r.b \in StandardWords /\ r.c \in StandardWords
      /\ r.d \in StandardWords /\ r.words \in Seq(StandardWords)
  BY DEF StandardStates
<1>2. Standard!RotateLeft(r.b, 30) \in StandardWords
  BY <1>1, StandardRotateTyped
<1>3. sum \in StandardWords
  BY StandardPlusTyped
<1>4. last \in StandardWords
  <2>1. \A j \in 1 .. 16 : r.words[j] \in StandardWords
    BY <1>1
  <2>2. \A a, b \in StandardWords : Standard!Xor(a, b) \in StandardWords
    BY DEF Standard!Xor, StandardWords
  <2>3. Standard!Xor(Standard!Xor(r.words[1], r.words[3]), Standard!Xor(r.words[9], r.words[14])) \in StandardWords
    BY <2>1, <2>2
  <2> QED
    BY <2>3, StandardRotateTyped
<1> HIDE DEF last, sum
<1>w. r.words \in Seq(StandardWords) /\ Len(r.words) = 16 /\ words = Append(Tail(r.words), last)
  BY <1>1
<1> HIDE DEF words
<1>5. /\ words \in Seq(StandardWords) /\ Len(words) = 16
      /\ \A j \in 1 .. 15 : words[j] = r.words[j + 1]
      /\ words[16] = last
  <2>1. words \in Seq(StandardWords) /\ Len(words) = 16
    BY <1>w, <1>4, WindowTyped
  <2>2. words[16] = last
    BY <1>w, <1>4, WindowLast
  <2>3. \A j \in 1 .. 15 : words[j] = r.words[j + 1]
    BY <1>w, <1>4, WindowRest
  <2> QED
    BY <2>1, <2>2, <2>3
<1>6. Standard!Step(r, f, k) = [t |-> r.t + 1, a |-> sum, b |-> r.a, c |-> Standard!RotateLeft(r.b, 30),
                                d |-> r.c, e |-> r.d, words |-> words]
  BY DEF Standard!Step, sum, last, words
<1>7. Standard!Step(r, f, k) \in StandardStates
  BY <1>1, <1>2, <1>3, <1>5, <1>6, SMTT(30) DEF StandardStates
<1> QED
  BY <1>5, <1>6, <1>7 DEF last

\* What a round does to the block.
BlockAfter(s) ==
  IF s.i < 16 THEN s.block ELSE [s.block EXCEPT ![s.i % 16] = NextWord(s.i, s.block)]

\* The standard's words after a round, which has one of four functions.
LEMMA RoundIsLine ==
  ASSUME NEW s \in CodeStates, s.i \in 0 .. 79, NEW r \in StandardStates, InStep(s, r)
  PROVE  \E mixed \in CodeWords, constant \in StandardWords :
           /\ Round(s) = Line(s, BlockAfter(s), mixed, constant)
           /\ Standard!StepOf(r) = Standard!Step(r, Lower(mixed), constant)
<1>1. s.w \in CodeWords /\ s.x \in CodeWords /\ s.y \in CodeWords
  BY DEF CodeStates
<1>2. r.t = s.i /\ r.b = Lower(s.w) /\ r.c = Lower(s.x) /\ r.d = Lower(s.y)
  BY DEF InStep
<1>3. CASE s.i \in 0 .. 19
  <2>1. Round(s) = Line(s, BlockAfter(s), Choice(s.w, s.x, s.y), Word(\h5a82, \h7999))
    BY <1>3 DEF Round, BlockAfter
  <2>2. Standard!StepOf(r) = Standard!Step(r, Standard!Ch(r.b, r.c, r.d), Standard!Word(\h5a82, \h7999))
    BY <1>2, <1>3 DEF Standard!StepOf
  <2> QED
    BY <1>1, <1>2, <2>1, <2>2, ChoiceLower, StandardIsWords, WordTyped
<1>4. CASE s.i \in 20 .. 39
  <2>1. Round(s) = Line(s, BlockAfter(s), Parity(s.w, s.x, s.y), Word(\h6ed9, \heba1))
    BY <1>4 DEF Round, BlockAfter
  <2>2. Standard!StepOf(r) = Standard!Step(r, Standard!Xor(r.b, Standard!Xor(r.c, r.d)), Standard!Word(\h6ed9, \heba1))
    BY <1>2, <1>4 DEF Standard!StepOf
  <2> QED
    BY <1>1, <1>2, <2>1, <2>2, ParityLower, StandardIsWords, WordTyped
<1>5. CASE s.i \in 40 .. 59
  <2>1. Round(s) = Line(s, BlockAfter(s), Majority(s.w, s.x, s.y), Word(\h8f1b, \hbcdc))
    BY <1>5 DEF Round, BlockAfter
  <2>2. Standard!StepOf(r) = Standard!Step(r, Standard!Maj(r.b, r.c, r.d), Standard!Word(\h8f1b, \hbcdc))
    BY <1>2, <1>5 DEF Standard!StepOf
  <2> QED
    BY <1>1, <1>2, <2>1, <2>2, MajorityLower, StandardIsWords, WordTyped
<1>6. CASE s.i \in 60 .. 79
  <2>1. Round(s) = Line(s, BlockAfter(s), Parity(s.w, s.x, s.y), Word(\hca62, \hc1d6))
    BY <1>6 DEF Round, BlockAfter
  <2>2. Standard!StepOf(r) = Standard!Step(r, Standard!Xor(r.b, Standard!Xor(r.c, r.d)), Standard!Word(\hca62, \hc1d6))
    BY <1>2, <1>6 DEF Standard!StepOf
  <2> QED
    BY <1>1, <1>2, <2>1, <2>2, ParityLower, StandardIsWords, WordTyped
<1> QED
  BY <1>3, <1>4, <1>5, <1>6

-----------------------------------------------------------------------------
\* The message schedule of the standard: each word from the sixteen before it.
IsSchedule(W) ==
  /\ W \in [0 .. 80 -> StandardWords]
  /\ \A j \in 16 .. 80 :
       W[j] = Standard!RotateLeft(Standard!Xor(Standard!Xor(W[j - 16], W[j - 14]),
                                               Standard!Xor(W[j - 8], W[j - 3])), 1)

\* The block of the code holds sixteen of them, the last of which is the one
\* that was put there last.
RingTop(n) == IF n < 16 THEN 16 ELSE n
Ring(s, W) == \A j \in RingTop(s.i) - 16 .. RingTop(s.i) - 1 : Lower(s.block[j % 16]) = W[j]

LEMMA NextWordLower ==
  ASSUME NEW s \in CodeStates, s.i \in 16 .. 79, NEW W, IsSchedule(W), Ring(s, W)
  PROVE  NextWord(s.i, s.block) \in CodeWords /\ Lower(NextWord(s.i, s.block)) = W[s.i]
<1> DEFINE n == s.i
           B(k) == s.block[(n + k) % 16]
<1>1. n \in 16 .. 79 /\ s.block \in [0 .. 15 -> CodeWords]
  BY DEF CodeStates
<1>2. /\ \A k : (n + k) % 16 = (n + k) % 16
      /\ (n + 13) % 16 = (n - 3) % 16 /\ (n + 8) % 16 = (n - 8) % 16
      /\ (n + 2) % 16 = (n - 14) % 16 /\ n % 16 = (n - 16) % 16
  BY <1>1
<1>3. \A j \in n - 16 .. n - 1 : Lower(s.block[j % 16]) = W[j]
  BY <1>1 DEF Ring, RingTop
<1>4. /\ Lower(B(13)) = W[n - 3] /\ Lower(B(8)) = W[n - 8]
      /\ Lower(B(2)) = W[n - 14] /\ Lower(s.block[n % 16]) = W[n - 16]
  <2>1. n - 3 \in n - 16 .. n - 1 /\ n - 8 \in n - 16 .. n - 1 /\ n - 14 \in n - 16 .. n - 1 /\ n - 16 \in n - 16 .. n - 1
    BY <1>1
  <2> QED
    BY <1>2, <1>3, <2>1
<1>5. /\ B(13) \in CodeWords /\ B(8) \in CodeWords /\ B(2) \in CodeWords /\ s.block[n % 16] \in CodeWords
  <2>1. \A j \in Nat : s.block[j % 16] \in CodeWords
    BY <1>1
  <2> QED
    BY <1>1, <2>1
<1> DEFINE x == Xor(Xor(Xor(B(13), B(8)), B(2)), s.block[n % 16])
<1>6. x \in CodeWords /\ Lower(x) = Standard!Xor(Standard!Xor(Standard!Xor(W[n - 3], W[n - 8]), W[n - 14]), W[n - 16])
  <2> HIDE DEF B
  <2>1. /\ Xor(B(13), B(8)) \in CodeWords
        /\ Lower(Xor(B(13), B(8))) = Standard!Xor(W[n - 3], W[n - 8])
    BY <1>4, <1>5, XorLower
  <2>2. /\ Xor(Xor(B(13), B(8)), B(2)) \in CodeWords
        /\ Lower(Xor(Xor(B(13), B(8)), B(2))) = Standard!Xor(Standard!Xor(W[n - 3], W[n - 8]), W[n - 14])
    BY <1>4, <1>5, <2>1, XorLower
  <2> QED
    BY <1>4, <1>5, <2>2, XorLower
<1>7. NextWord(n, s.block) = Rol(x, 1)
  BY DEF NextWord
<1> HIDE DEF x
<1>8. Rol(x, 1) \in CodeWords /\ Lower(Rol(x, 1)) = Standard!RotateLeft(Lower(x), 1)
  <2>1. 1 \in 1 .. 31
    OBVIOUS
  <2> QED
    BY <1>6, <2>1, RolLower
<1>9. \A a, b, c, d : Standard!Xor(Standard!Xor(Standard!Xor(a, b), c), d) = Standard!Xor(Standard!Xor(d, c), Standard!Xor(b, a))
  BY DEF Standard!Xor
<1>10. W[n] = Standard!RotateLeft(Standard!Xor(Standard!Xor(W[n - 16], W[n - 14]), Standard!Xor(W[n - 8], W[n - 3])), 1)
  BY <1>1 DEF IsSchedule
<1>11. Lower(x) = Standard!Xor(Standard!Xor(W[n - 16], W[n - 14]), Standard!Xor(W[n - 8], W[n - 3]))
  BY <1>6, <1>9
<1> QED
  BY <1>7, <1>8, <1>10, <1>11

LEMMA BlockAfterLower ==
  ASSUME NEW s \in CodeStates, s.i \in 0 .. 79, NEW W, IsSchedule(W), Ring(s, W)
  PROVE  /\ BlockAfter(s) \in [0 .. 15 -> CodeWords]
         /\ \A j \in RingTop(s.i + 1) - 16 .. RingTop(s.i + 1) - 1 : Lower(BlockAfter(s)[j % 16]) = W[j]
         /\ Lower(BlockAfter(s)[s.i % 16]) = W[s.i]
<1>1. s.block \in [0 .. 15 -> CodeWords]
  BY DEF CodeStates
<1>2. CASE s.i < 16
  <2>1. BlockAfter(s) = s.block
    BY <1>2 DEF BlockAfter
  <2>2. RingTop(s.i) = 16 /\ RingTop(s.i + 1) = 16
    BY <1>2 DEF RingTop
  <2>3. s.i \in 16 - 16 .. 16 - 1
    BY <1>2
  <2> QED
    BY <1>1, <2>1, <2>2, <2>3 DEF Ring
<1>3. CASE s.i \in 16 .. 79
  <2> DEFINE n == s.i
             next == NextWord(n, s.block)
  <2>1. next \in CodeWords /\ Lower(next) = W[n]
    BY <1>3, NextWordLower
  <2>2. BlockAfter(s) = [s.block EXCEPT ![n % 16] = next]
    BY <1>3 DEF BlockAfter
  <2>3. \A j \in n - 16 .. n - 1 : Lower(s.block[j % 16]) = W[j]
    BY <1>3 DEF Ring, RingTop
  <2>4. RingTop(n + 1) = n + 1 /\ n \in 16 .. 79
    BY <1>3 DEF RingTop
  <2> HIDE DEF next
  <2>5. n % 16 \in 0 .. 15
    BY <2>4
  <2>6. BlockAfter(s)[n % 16] = next /\ \A m \in 0 .. 15 : m # n % 16 => BlockAfter(s)[m] = s.block[m]
    BY <1>1, <2>2, <2>5
  <2>7. \A j \in n - 15 .. n - 1 : j % 16 \in 0 .. 15 /\ j % 16 # n % 16
    BY <2>4
  <2>8. BlockAfter(s) \in [0 .. 15 -> CodeWords]
    BY <1>1, <2>1, <2>2
  <2>9. \A j \in n - 15 .. n : Lower(BlockAfter(s)[j % 16]) = W[j]
    <3>1. TAKE j \in n - 15 .. n
    <3>2. CASE j = n
      BY <2>1, <2>6, <3>2
    <3>3. CASE j \in n - 15 .. n - 1
      <4>1. j \in n - 16 .. n - 1
        BY <2>4, <3>3
      <4> QED
        BY <2>3, <2>6, <2>7, <3>3, <4>1
    <3> QED
      BY <2>4, <3>2, <3>3
  <2> QED
    BY <2>1, <2>4, <2>6, <2>8, <2>9
<1> QED
  BY <1>2, <1>3

\* One round.
LEMMA RoundLower ==
  ASSUME NEW s \in CodeStates, s.i \in 0 .. 79, NEW r \in StandardStates, InStep(s, r),
         NEW W, IsSchedule(W), Ring(s, W), r.words[1] = W[s.i]
  PROVE  /\ Round(s) \in CodeStates
         /\ Round(s).i = s.i + 1
         /\ InStep(Round(s), Standard!StepOf(r))
         /\ Ring(Round(s), W)
<1>1. PICK mixed \in CodeWords, constant \in StandardWords :
        /\ Round(s) = Line(s, BlockAfter(s), mixed, constant)
        /\ Standard!StepOf(r) = Standard!Step(r, Lower(mixed), constant)
  BY RoundIsLine
<1>2. /\ BlockAfter(s) \in [0 .. 15 -> CodeWords]
      /\ \A j \in RingTop(s.i + 1) - 16 .. RingTop(s.i + 1) - 1 : Lower(BlockAfter(s)[j % 16]) = W[j]
      /\ Lower(BlockAfter(s)[s.i % 16]) = r.words[1]
  BY BlockAfterLower
<1>3. /\ Round(s) \in CodeStates
      /\ Round(s).i = s.i + 1
      /\ Round(s).block = BlockAfter(s)
      /\ InStep(Round(s), Standard!StepOf(r))
  BY <1>1, <1>2, LineLower
<1> QED
  BY <1>2, <1>3 DEF Ring

-----------------------------------------------------------------------------
\* The rounds one after the other, of the standard first.
Windows == {r \in StandardStates : Len(r.words) = 16}

LEMMA StepOfTyped ==
  ASSUME NEW r \in Windows, r.t \in 0 .. 79
  PROVE  /\ Standard!StepOf(r) \in Windows
         /\ Standard!StepOf(r).t = r.t + 1
         /\ \A j \in 1 .. 15 : Standard!StepOf(r).words[j] = r.words[j + 1]
         /\ Standard!StepOf(r).words[16] =
              Standard!RotateLeft(Standard!Xor(Standard!Xor(r.words[1], r.words[3]),
                                               Standard!Xor(r.words[9], r.words[14])), 1)
<1>1. \E f, k : Standard!StepOf(r) = Standard!Step(r, f, k)
  <2>1. CASE r.t \in 0 .. 19
    BY <2>1 DEF Standard!StepOf
  <2>2. CASE r.t \in 20 .. 39
    BY <2>2 DEF Standard!StepOf
  <2>3. CASE r.t \in 40 .. 59
    BY <2>3 DEF Standard!StepOf
  <2>4. CASE r.t \in 60 .. 79
    BY <2>4 DEF Standard!StepOf
  <2> QED
    BY <2>1, <2>2, <2>3, <2>4
<1>2. PICK f, k : Standard!StepOf(r) = Standard!Step(r, f, k)
  BY <1>1
<1>3. r \in StandardStates /\ Len(r.words) = 16
  BY DEF Windows
<1>4. Standard!Step(r, f, k).t = r.t + 1
  BY DEF Standard!Step
<1> QED
  BY <1>2, <1>3, <1>4, StepTyped DEF Windows

IsStandardTrace(u, start) ==
  /\ u[0] = start
  /\ \A n \in 1 .. 80 : u[n - 1] \in Windows /\ u[n - 1].t = n - 1 => u[n] = Standard!StepOf(u[n - 1])

LEMMA StandardTraceTyped ==
  ASSUME NEW start \in Windows, start.t = 0, NEW u, IsStandardTrace(u, start)
  PROVE  \A n \in 0 .. 80 : u[n] \in Windows /\ u[n].t = n
<1> DEFINE Good == {n \in Nat : n <= 80 => u[n] \in Windows /\ u[n].t = n}
<1>1. 0 \in Good
  BY DEF IsStandardTrace
<1>2. ASSUME NEW n \in Nat, n \in Good PROVE n + 1 \in Good
  <2>1. SUFFICES ASSUME n + 1 <= 80 PROVE u[n + 1] \in Windows /\ u[n + 1].t = n + 1
    OBVIOUS
  <2>2. u[n] \in Windows /\ u[n].t = n /\ n \in 0 .. 79
    BY <1>2, <2>1
  <2>3. n + 1 \in 1 .. 80 /\ (n + 1) - 1 = n
    BY <2>2
  <2>4. u[n + 1] = Standard!StepOf(u[n])
    BY <2>2, <2>3 DEF IsStandardTrace
  <2> QED
    BY <2>2, <2>4, StepOfTyped
<1>3. Nat \subseteq Good
  <2> HIDE DEF Good
  <2> QED
    BY <1>1, <1>2, SetInduction
<1> QED
  BY <1>3

\* The function by which Block is defined.
StandardAfter(start) ==
  CHOOSE f : f = [t \in 0 .. 80 |-> IF t = 0 THEN start ELSE Standard!StepOf(f[t - 1])]

LEMMA StandardAfterIsTrace ==
  ASSUME NEW start \in Windows, start.t = 0
  PROVE  IsStandardTrace(StandardAfter(start), start)
<1> DEFINE Next0(r) == IF r.t \in 0 .. 79 THEN Standard!StepOf(r) ELSE r
           Step == [x \in Windows \X Nat |-> Next0(x[1])]
           Equation(f) == f = [t \in 0 .. 80 |-> IF t = 0 THEN start ELSE Standard!StepOf(f[t - 1])]
<1>1. Step \in [Windows \X Nat -> Windows]
  <2>1. \A r \in Windows : Next0(r) \in Windows
    BY StepOfTyped
  <2> HIDE DEF Next0
  <2> QED
    BY <2>1
<1>2. PICK f : Recursive(f, Windows, start, 80, Step)
  <2> HIDE DEF Step
  <2> QED
    BY <1>1, RecursionExists
<1>3. f \in [0 .. 80 -> Windows] /\ f[0] = start
  BY <1>2 DEF Recursive
<1>4. \A n \in 1 .. 80 : f[n - 1] \in Windows /\ f[n] = Next0(f[n - 1])
  <2>1. TAKE n \in 1 .. 80
  <2>2. f[n - 1] \in Windows /\ n \in Nat
    BY <1>3
  <2>3. f[n] = Step[<<f[n - 1], n>>]
    BY <1>2 DEF Recursive
  <2> HIDE DEF Next0
  <2> QED
    BY <2>2, <2>3
<1>5. IsStandardTrace(f, start)
  <2>1. ASSUME NEW n \in 1 .. 80, f[n - 1].t = n - 1
        PROVE  f[n] = Standard!StepOf(f[n - 1])
    <3>1. f[n - 1].t \in 0 .. 79
      BY <2>1
    <3> QED
      BY <1>4, <3>1
  <2> QED
    BY <1>3, <2>1 DEF IsStandardTrace
<1>6. \A n \in 0 .. 80 : f[n].t = n
  BY <1>5, StandardTraceTyped
<1>7. \A n \in 1 .. 80 : f[n] = Standard!StepOf(f[n - 1])
  <2>1. TAKE n \in 1 .. 80
  <2>2. n - 1 \in 0 .. 80 /\ n - 1 \in 0 .. 79
    OBVIOUS
  <2>3. f[n - 1].t \in 0 .. 79
    BY <1>6, <2>2
  <2> QED
    BY <1>4, <2>3
<1>8. Equation(f)
  <2>1. \A n \in 0 .. 80 : f[n] = IF n = 0 THEN start ELSE Standard!StepOf(f[n - 1])
    <3>1. TAKE n \in 0 .. 80
    <3>2. n = 0 \/ n \in 1 .. 80
      OBVIOUS
    <3> QED
      BY <1>3, <1>7, <3>2
  <2> QED
    BY <1>3, <2>1
<1>9. Equation(StandardAfter(start))
  <2> DEFINE c == CHOOSE g : Equation(g)
  <2>1. Equation(c)
    <3> HIDE DEF Equation
    <3> QED
      BY <1>8
  <2>2. c = StandardAfter(start)
    BY DEF StandardAfter
  <2> HIDE DEF c, Equation
  <2> QED
    BY <2>1, <2>2
<1>10. \A n \in 1 .. 80 : n \in 0 .. 80 /\ n # 0
  OBVIOUS
<1> QED
  BY <1>9, <1>10 DEF IsStandardTrace

\* The schedule slides through the windows.
LEMMA WindowsShowSchedule ==
  ASSUME NEW start \in Windows, start.t = 0, NEW u, IsStandardTrace(u, start)
  PROVE  /\ IsSchedule([n \in 0 .. 80 |-> u[n].words[1]])
         /\ \A k \in 1 .. 16 : start.words[k] = u[k - 1].words[1]
<1>1. \A n \in 0 .. 80 : u[n] \in Windows /\ u[n].t = n
  BY StandardTraceTyped
<1>2. \A n \in 0 .. 79 : u[n + 1] = Standard!StepOf(u[n])
  <2>1. \A n \in 0 .. 79 : n + 1 \in 1 .. 80 /\ (n + 1) - 1 = n
    OBVIOUS
  <2> QED
    BY <1>1, <2>1 DEF IsStandardTrace
<1> DEFINE At(n, k) == u[n].words[k]
<1>3. ASSUME NEW n \in 0 .. 79
      PROVE  /\ \A j \in 1 .. 15 : At(n + 1, j) = At(n, j + 1)
             /\ At(n + 1, 16) =
                  Standard!RotateLeft(Standard!Xor(Standard!Xor(At(n, 1), At(n, 3)),
                                                   Standard!Xor(At(n, 9), At(n, 14))), 1)
  <2>1. n \in 0 .. 80
    OBVIOUS
  <2>2. u[n] \in Windows /\ u[n].t = n
    BY <1>1, <2>1
  <2>3. PICK r \in Windows : r = u[n] /\ r.t = n
    BY <2>2
  <2>4. u[n + 1] = Standard!StepOf(r)
    BY <1>2, <2>3
  <2>5. r.t \in 0 .. 79
    BY <2>3
  <2>6. \A j \in 1 .. 15 : Standard!StepOf(r).words[j] = r.words[j + 1]
    BY <2>5, StepOfTyped
  <2>7. Standard!StepOf(r).words[16] =
          Standard!RotateLeft(Standard!Xor(Standard!Xor(r.words[1], r.words[3]),
                                           Standard!Xor(r.words[9], r.words[14])), 1)
    BY <2>5, StepOfTyped
  <2>8. \A j \in 1 .. 15 : At(n + 1, j) = At(n, j + 1)
    BY <2>3, <2>4, <2>6, Zenon
  <2>9. At(n + 1, 16) = Standard!RotateLeft(Standard!Xor(Standard!Xor(At(n, 1), At(n, 3)),
                                                         Standard!Xor(At(n, 9), At(n, 14))), 1)
    BY <2>3, <2>4, <2>7, Zenon
  <2> QED
    BY <2>8, <2>9
<1>t. ASSUME NEW n \in 0 .. 80 PROVE At(n, 1) \in StandardWords
  <2>1. u[n].words \in Seq(StandardWords) /\ Len(u[n].words) = 16
    BY <1>1 DEF Windows, StandardStates
  <2> QED
    BY <2>1
<1>s. ASSUME NEW k PROVE At(0, k) = start.words[k]
  BY DEF IsStandardTrace
<1> HIDE DEF At
<1> DEFINE Good == {d \in Nat : d <= 15 =>
                      \A n \in 0 .. 80 : n + d <= 80 => At(n, d + 1) = At(n + d, 1)}
<1>4. 0 \in Good
  OBVIOUS
<1>5. ASSUME NEW d \in Nat, d \in Good PROVE d + 1 \in Good
  <2>1. SUFFICES ASSUME d + 1 <= 15, NEW n \in 0 .. 80, n + (d + 1) <= 80
                 PROVE  At(n, (d + 1) + 1) = At(n + (d + 1), 1)
    OBVIOUS
  <2>2. n \in 0 .. 79 /\ n + 1 \in 0 .. 80 /\ (n + 1) + d <= 80 /\ d + 1 \in 1 .. 15
    BY <2>1
  <2>3. At(n + 1, d + 1) = At((n + 1) + d, 1)
    BY <1>5, <2>1, <2>2
  <2>4. At(n + 1, d + 1) = At(n, (d + 1) + 1)
    BY <1>3, <2>2
  <2>5. (n + 1) + d = n + (d + 1)
    BY <2>2
  <2> QED
    BY <2>3, <2>4, <2>5
<1>6. Nat \subseteq Good
  <2> HIDE DEF Good
  <2> QED
    BY <1>4, <1>5, SetInduction
<1>7. ASSUME NEW d \in 0 .. 15, NEW n \in 0 .. 80, n + d <= 80
      PROVE  At(n, d + 1) = At(n + d, 1)
  <2>1. d \in Good /\ d <= 15
    BY <1>6
  <2> QED
    BY <1>7, <2>1
<1> HIDE DEF Good
<1> DEFINE W == [n \in 0 .. 80 |-> u[n].words[1]]
<1>8. W \in [0 .. 80 -> StandardWords] /\ \A n \in 0 .. 80 : W[n] = At(n, 1)
  BY <1>t DEF At
<1>9. ASSUME NEW j \in 16 .. 80
      PROVE  W[j] = Standard!RotateLeft(Standard!Xor(Standard!Xor(W[j - 16], W[j - 14]),
                                                     Standard!Xor(W[j - 8], W[j - 3])), 1)
  <2>1. PICK n \in 0 .. 64 : j = n + 16
    BY Z3
  <2> HIDE DEF W
  <2>2. At(n, 3) = At(n + 2, 1) /\ At(n, 9) = At(n + 8, 1) /\ At(n, 14) = At(n + 13, 1)
    <3>1. At(n, 2 + 1) = At(n + 2, 1) /\ At(n, 8 + 1) = At(n + 8, 1) /\ At(n, 13 + 1) = At(n + 13, 1)
      BY <1>7
    <3>2. 2 + 1 = 3 /\ 8 + 1 = 9 /\ 13 + 1 = 14
      OBVIOUS
    <3> QED
      BY <3>1, <3>2
  <2>3. At(n + 1, 16) = At(j, 1)
    <3>1. At(n + 1, 15 + 1) = At((n + 1) + 15, 1)
      BY <1>7
    <3>2. 15 + 1 = 16 /\ (n + 1) + 15 = j
      BY <2>1
    <3> QED
      BY <3>1, <3>2
  <2>4. /\ W[j] = At(j, 1) /\ W[n] = At(n, 1) /\ W[n + 2] = At(n + 2, 1)
        /\ W[n + 8] = At(n + 8, 1) /\ W[n + 13] = At(n + 13, 1)
    BY <1>8
  <2>5. j - 16 = n /\ j - 14 = n + 2 /\ j - 8 = n + 8 /\ j - 3 = n + 13
    BY <2>1
  <2>6. At(n + 1, 16) = Standard!RotateLeft(Standard!Xor(Standard!Xor(At(n, 1), At(n, 3)),
                                                         Standard!Xor(At(n, 9), At(n, 14))), 1)
    BY <1>3
  <2> QED
    BY <2>2, <2>3, <2>4, <2>5, <2>6
<1>10. IsSchedule(W)
  <2> HIDE DEF W
  <2> QED
    BY <1>8, <1>9 DEF IsSchedule
<1>11. ASSUME NEW k \in 1 .. 16 PROVE start.words[k] = u[k - 1].words[1]
  <2>1. k - 1 \in 0 .. 15 /\ 0 + (k - 1) = k - 1 /\ (k - 1) + 1 = k
    OBVIOUS
  <2>2. At(0, (k - 1) + 1) = At(0 + (k - 1), 1)
    BY <1>7, <2>1
  <2>3. start.words[k] = At(k - 1, 1)
    BY <1>s, <2>1, <2>2
  <2> QED
    BY <2>3 DEF At
<1> QED
  BY <1>10, <1>11

-----------------------------------------------------------------------------
\* The rounds of the code.
LEMMA BlockAfterTyped ==
  ASSUME NEW s \in CodeStates
  PROVE  BlockAfter(s) \in [0 .. 15 -> CodeWords]
<1>1. s.block \in [0 .. 15 -> CodeWords] /\ s.i \in Nat
  BY DEF CodeStates
<1>2. NextWord(s.i, s.block) \in CodeWords
  <2>1. \A k \in Nat : s.block[k % 16] \in CodeWords
    BY <1>1
  <2>2. \A a, b \in CodeWords : Xor(a, b) \in CodeWords
    BY XorLower
  <2> DEFINE x == Xor(Xor(Xor(s.block[(s.i + 13) % 16], s.block[(s.i + 8) % 16]), s.block[(s.i + 2) % 16]),
                      s.block[s.i % 16])
  <2>3. x \in CodeWords
    BY <1>1, <2>1, <2>2
  <2>4. 1 \in 1 .. 31
    OBVIOUS
  <2>5. NextWord(s.i, s.block) = Rol(x, 1)
    BY DEF NextWord
  <2> HIDE DEF x
  <2> QED
    BY <2>3, <2>4, <2>5, RolLower
<1> QED
  BY <1>1, <1>2 DEF BlockAfter

LEMMA RoundTyped ==
  ASSUME NEW s \in CodeStates, s.i \in 0 .. 79
  PROVE  Round(s) \in CodeStates /\ Round(s).i = s.i + 1
<1> DEFINE word == Lower(BlockAfter(s)[s.i % 16])
           r == [t |-> s.i, a |-> Lower(s.v), b |-> Lower(s.w), c |-> Lower(s.x), d |-> Lower(s.y),
                 e |-> Lower(s.z), words |-> <<word>>]
<1>1. word \in StandardWords
  BY LowerTyped
<1> HIDE DEF word
<1>2. r \in StandardStates
  BY <1>1, LowerTyped DEF StandardStates, CodeStates
<1>3. InStep(s, r) /\ r.words[1] = word
  BY DEF InStep
<1> HIDE DEF r
<1>4. PICK mixed \in CodeWords, constant \in StandardWords : Round(s) = Line(s, BlockAfter(s), mixed, constant)
  BY <1>2, <1>3, RoundIsLine
<1>5. word = Lower(BlockAfter(s)[s.i % 16])
  BY DEF word
<1>6. BlockAfter(s) \in [0 .. 15 -> CodeWords]
  BY BlockAfterTyped
<1>7. Lower(BlockAfter(s)[s.i % 16]) = r.words[1]
  BY <1>3, <1>5, Zenon
<1> HIDE DEF word
<1> QED
  BY <1>2, <1>3, <1>4, <1>6, <1>7, LineLower

IsCodeTrace(f, start) ==
  /\ f[0] = start
  /\ \A n \in 1 .. 80 : f[n - 1] \in CodeStates /\ f[n - 1].i = n - 1 => f[n] = Round(f[n - 1])

LEMMA CodeTraceTyped ==
  ASSUME NEW start \in CodeStates, start.i = 0, NEW f, IsCodeTrace(f, start)
  PROVE  \A n \in 0 .. 80 : f[n] \in CodeStates /\ f[n].i = n
<1> DEFINE Good == {n \in Nat : n <= 80 => f[n] \in CodeStates /\ f[n].i = n}
<1>1. 0 \in Good
  BY DEF IsCodeTrace
<1>2. ASSUME NEW n \in Nat, n \in Good PROVE n + 1 \in Good
  <2>1. SUFFICES ASSUME n + 1 <= 80 PROVE f[n + 1] \in CodeStates /\ f[n + 1].i = n + 1
    OBVIOUS
  <2>2. f[n] \in CodeStates /\ f[n].i = n /\ n \in 0 .. 79
    BY <1>2, <2>1
  <2>3. n + 1 \in 1 .. 80 /\ (n + 1) - 1 = n
    BY <2>2
  <2>4. f[n + 1] = Round(f[n])
    BY <2>2, <2>3 DEF IsCodeTrace
  <2> QED
    BY <2>2, <2>4, RoundTyped
<1>3. Nat \subseteq Good
  <2> HIDE DEF Good
  <2> QED
    BY <1>1, <1>2, SetInduction
<1> QED
  BY <1>3

\* The function by which Transform is defined.
CodeAfter(start) ==
  CHOOSE f : f = [n \in 0 .. 80 |-> IF n = 0 THEN start ELSE Round(f[n - 1])]

LEMMA CodeAfterIsTrace ==
  ASSUME NEW start \in CodeStates, start.i = 0
  PROVE  IsCodeTrace(CodeAfter(start), start)
<1> DEFINE Next0(s) == IF s.i \in 0 .. 79 THEN Round(s) ELSE s
           Step == [x \in CodeStates \X Nat |-> Next0(x[1])]
           Equation(f) == f = [n \in 0 .. 80 |-> IF n = 0 THEN start ELSE Round(f[n - 1])]
<1>1. Step \in [CodeStates \X Nat -> CodeStates]
  <2>1. \A s \in CodeStates : Next0(s) \in CodeStates
    BY RoundTyped
  <2> HIDE DEF Next0
  <2> QED
    BY <2>1
<1>2. PICK f : Recursive(f, CodeStates, start, 80, Step)
  <2> HIDE DEF Step
  <2> QED
    BY <1>1, RecursionExists
<1>3. f \in [0 .. 80 -> CodeStates] /\ f[0] = start
  BY <1>2 DEF Recursive
<1>4. \A n \in 1 .. 80 : f[n - 1] \in CodeStates /\ f[n] = Next0(f[n - 1])
  <2>1. TAKE n \in 1 .. 80
  <2>2. f[n - 1] \in CodeStates /\ n \in Nat
    BY <1>3
  <2>3. f[n] = Step[<<f[n - 1], n>>]
    BY <1>2 DEF Recursive
  <2> HIDE DEF Next0
  <2> QED
    BY <2>2, <2>3
<1>5. IsCodeTrace(f, start)
  <2>1. ASSUME NEW n \in 1 .. 80, f[n - 1].i = n - 1
        PROVE  f[n] = Round(f[n - 1])
    <3>1. f[n - 1].i \in 0 .. 79
      BY <2>1
    <3> QED
      BY <1>4, <3>1
  <2> QED
    BY <1>3, <2>1 DEF IsCodeTrace
<1>6. \A n \in 0 .. 80 : f[n].i = n
  BY <1>5, CodeTraceTyped
<1>7. \A n \in 1 .. 80 : f[n] = Round(f[n - 1])
  <2>1. TAKE n \in 1 .. 80
  <2>2. n - 1 \in 0 .. 80 /\ n - 1 \in 0 .. 79
    OBVIOUS
  <2>3. f[n - 1].i \in 0 .. 79
    BY <1>6, <2>2
  <2> QED
    BY <1>4, <2>3
<1>8. Equation(f)
  <2>1. \A n \in 0 .. 80 : f[n] = IF n = 0 THEN start ELSE Round(f[n - 1])
    <3>1. TAKE n \in 0 .. 80
    <3>2. n = 0 \/ n \in 1 .. 80
      OBVIOUS
    <3> QED
      BY <1>3, <1>7, <3>2
  <2> QED
    BY <1>3, <2>1
<1>9. Equation(CodeAfter(start))
  <2> DEFINE c == CHOOSE g : Equation(g)
  <2>1. Equation(c)
    <3> HIDE DEF Equation
    <3> QED
      BY <1>8
  <2>2. c = CodeAfter(start)
    BY DEF CodeAfter
  <2> HIDE DEF c, Equation
  <2> QED
    BY <2>1, <2>2
<1>10. \A n \in 1 .. 80 : n \in 0 .. 80 /\ n # 0
  OBVIOUS
<1> QED
  BY <1>9, <1>10 DEF IsCodeTrace

\* After every round the working words are the same.
LEMMA RoundsInStep ==
  ASSUME NEW s \in CodeStates, s.i = 0, NEW r \in Windows, r.t = 0, InStep(s, r),
         \A k \in 1 .. 16 : Lower(s.block[k - 1]) = r.words[k]
  PROVE  /\ CodeAfter(s)[80] \in CodeStates
         /\ StandardAfter(r)[80] \in StandardStates
         /\ InStep(CodeAfter(s)[80], StandardAfter(r)[80])
<1>1. PICK f : f = CodeAfter(s) /\ IsCodeTrace(f, s)
  BY CodeAfterIsTrace
<1>2. PICK u : u = StandardAfter(r) /\ IsStandardTrace(u, r)
  BY StandardAfterIsTrace
<1>3. \A n \in 0 .. 80 : f[n] \in CodeStates /\ f[n].i = n
  BY <1>1, CodeTraceTyped
<1>4. \A n \in 0 .. 80 : u[n] \in Windows /\ u[n].t = n
  BY <1>2, StandardTraceTyped
<1>5. \A n \in 0 .. 80 : u[n] \in StandardStates
  BY <1>4 DEF Windows
<1> DEFINE W == [n \in 0 .. 80 |-> u[n].words[1]]
<1>6. /\ IsSchedule(W)
      /\ \A k \in 1 .. 16 : r.words[k] = u[k - 1].words[1]
  BY <1>2, WindowsShowSchedule
<1>7. \A n \in 0 .. 80 : W[n] = u[n].words[1]
  OBVIOUS
<1> HIDE DEF W
<1> DEFINE Good == {n \in Nat : n <= 80 => InStep(f[n], u[n]) /\ Ring(f[n], W)}
<1>8. 0 \in Good
  <2>1. f[0] = s /\ u[0] = r
    BY <1>1, <1>2 DEF IsCodeTrace, IsStandardTrace
  <2>2. ASSUME NEW j \in 0 .. 15 PROVE Lower(s.block[j % 16]) = W[j]
    <3>1. j % 16 = j /\ j + 1 \in 1 .. 16 /\ (j + 1) - 1 = j /\ j \in 0 .. 80
      OBVIOUS
    <3>2. Lower(s.block[(j + 1) - 1]) = r.words[j + 1] /\ r.words[j + 1] = u[(j + 1) - 1].words[1]
      BY <1>6, <3>1
    <3> QED
      BY <1>7, <3>1, <3>2
  <2>3. RingTop(s.i) - 16 = 0 /\ RingTop(s.i) - 1 = 15
    BY DEF RingTop
  <2>4. Ring(s, W)
    BY <2>2, <2>3 DEF Ring
  <2> QED
    BY <2>1, <2>4
<1>9. ASSUME NEW n \in Nat, n \in Good PROVE n + 1 \in Good
  <2>1. SUFFICES ASSUME n + 1 <= 80 PROVE InStep(f[n + 1], u[n + 1]) /\ Ring(f[n + 1], W)
    OBVIOUS
  <2>2. n \in 0 .. 79 /\ n \in 0 .. 80 /\ n + 1 \in 1 .. 80 /\ (n + 1) - 1 = n
    BY <2>1
  <2>3. InStep(f[n], u[n]) /\ Ring(f[n], W)
    BY <1>9, <2>1
  <2>4. f[n] \in CodeStates /\ f[n].i = n /\ u[n] \in StandardStates /\ u[n] \in Windows /\ u[n].t = n
    BY <1>3, <1>4, <1>5, <2>2
  <2>5. f[n + 1] = Round(f[n])
    BY <1>1, <2>2, <2>4 DEF IsCodeTrace
  <2>6. u[n + 1] = Standard!StepOf(u[n])
    BY <1>2, <2>2, <2>4 DEF IsStandardTrace
  <2>7. u[n].words[1] = W[f[n].i]
    BY <1>7, <2>2, <2>4
  <2>8. f[n].i \in 0 .. 79
    BY <2>2, <2>4
  <2> QED
    BY <1>6, <2>3, <2>4, <2>5, <2>6, <2>7, <2>8, RoundLower
<1>10. Nat \subseteq Good
  <2> HIDE DEF Good
  <2> QED
    BY <1>8, <1>9, SetInduction
<1>11. InStep(f[80], u[80])
  BY <1>10
<1> QED
  BY <1>1, <1>2, <1>3, <1>5, <1>11

-----------------------------------------------------------------------------
\* A block.
CodeDigests == [1 .. 5 -> CodeWords]
StandardHashes == [1 .. 5 -> StandardWords]
LowerAll(digest) == [k \in 1 .. 5 |-> Lower(digest[k])]
SameBlock(block, bytes) ==
  /\ block \in [0 .. 15 -> CodeWords]
  /\ \A k \in 1 .. 16 : Lower(block[k - 1]) = Standard!BigEndian(SubSeq(bytes, 4 * k - 3, 4 * k))

LEMMA TransformTyped ==
  ASSUME NEW digest, NEW block
  PROVE  Transform(digest, block) \in CodeDigests
<1> DEFINE start == [ i |-> 0, v |-> digest[1], w |-> digest[2], x |-> digest[3],
                      y |-> digest[4], z |-> digest[5], block |-> block ]
           last == CodeAfter(start)[80]
           work == <<last.v, last.w, last.x, last.y, last.z>>
<1>1. Transform(digest, block) = [k \in 1 .. 5 |-> Plus(digest[k], work[k])]
  BY DEF Transform, CodeAfter
<1> HIDE DEF work
<1> QED
  BY <1>1, PlusLower DEF CodeDigests

LEMMA TransformLower ==
  ASSUME NEW digest \in CodeDigests, NEW block, NEW bytes, SameBlock(block, bytes)
  PROVE  LowerAll(Transform(digest, block)) = Standard!Block(LowerAll(digest), bytes)
<1> DEFINE hash == LowerAll(digest)
           start == [ i |-> 0, v |-> digest[1], w |-> digest[2], x |-> digest[3],
                      y |-> digest[4], z |-> digest[5], block |-> block ]
           words == [k \in 1 .. 16 |-> Standard!BigEndian(SubSeq(bytes, 4 * k - 3, 4 * k))]
           first == [t |-> 0, a |-> hash[1], b |-> hash[2], c |-> hash[3], d |-> hash[4], e |-> hash[5],
                     words |-> words]
           last == CodeAfter(start)[80]
           end == StandardAfter(first)[80]
           work == <<last.v, last.w, last.x, last.y, last.z>>
           worked == <<end.a, end.b, end.c, end.d, end.e>>
<1>1. Transform(digest, block) = [k \in 1 .. 5 |-> Plus(digest[k], work[k])]
  BY DEF Transform, CodeAfter
<1>2. Standard!Block(hash, bytes) = [k \in 1 .. 5 |-> Standard!Plus(hash[k], worked[k])]
  BY DEF Standard!Block, StandardAfter
<1>3. \A k \in 1 .. 5 : digest[k] \in CodeWords /\ hash[k] = Lower(digest[k]) /\ hash[k] \in StandardWords
  BY LowerTyped DEF CodeDigests, LowerAll
<1> HIDE DEF hash
<1>4. start \in CodeStates /\ start.i = 0
  BY <1>3 DEF CodeStates, SameBlock
<1>5. words \in Seq(StandardWords) /\ Len(words) = 16 /\ \A k \in 1 .. 16 : words[k] = Lower(block[k - 1])
  <2>1. \A k \in 1 .. 16 : words[k] = Lower(block[k - 1])
    BY DEF SameBlock
  <2>2. \A k \in 1 .. 16 : words[k] \in StandardWords
    BY <2>1, LowerTyped
  <2>3. words \in [1 .. 16 -> StandardWords]
    BY <2>2
  <2>4. words \in Seq(StandardWords)
    BY <2>3
  <2>5. Len(words) = 16
    OBVIOUS
  <2> HIDE DEF words
  <2> QED
    BY <2>1, <2>4, <2>5
<1> HIDE DEF words
<1>6. first \in Windows /\ first.t = 0
  BY <1>3, <1>5 DEF Windows, StandardStates
<1>7. InStep(start, first)
  BY <1>3 DEF InStep
<1>8. \A k \in 1 .. 16 : Lower(start.block[k - 1]) = first.words[k]
  BY <1>5
<1> HIDE DEF start, first
<1>9. last \in CodeStates /\ end \in StandardStates /\ InStep(last, end)
  BY <1>4, <1>6, <1>7, <1>8, RoundsInStep
<1> HIDE DEF last, end
<1>10. \A k \in 1 .. 5 : Lower(work[k]) = worked[k]
  BY <1>9 DEF InStep
<1> HIDE DEF work, worked
<1>11. \A k \in 1 .. 5 : Lower(Plus(digest[k], work[k])) = Standard!Plus(hash[k], worked[k])
  BY <1>3, <1>10, PlusLower
<1>12. \A k \in 1 .. 5 : Lower(Transform(digest, block)[k]) = Standard!Plus(hash[k], worked[k])
  BY <1>1, <1>11
<1>13. LowerAll(Transform(digest, block)) = [k \in 1 .. 5 |-> Standard!Plus(hash[k], worked[k])]
  BY <1>12 DEF LowerAll
<1> QED
  BY <1>2, <1>13 DEF hash

LEMMA BlockTyped ==
  ASSUME NEW hash, NEW bytes
  PROVE  Standard!Block(hash, bytes) \in StandardHashes
<1> DEFINE words == [k \in 1 .. 16 |-> Standard!BigEndian(SubSeq(bytes, 4 * k - 3, 4 * k))]
           first == [t |-> 0, a |-> hash[1], b |-> hash[2], c |-> hash[3], d |-> hash[4], e |-> hash[5],
                     words |-> words]
           end == StandardAfter(first)[80]
           worked == <<end.a, end.b, end.c, end.d, end.e>>
<1>1. Standard!Block(hash, bytes) = [k \in 1 .. 5 |-> Standard!Plus(hash[k], worked[k])]
  BY DEF Standard!Block, StandardAfter
<1> HIDE DEF worked
<1> QED
  BY <1>1, StandardPlusTyped DEF StandardHashes

-----------------------------------------------------------------------------
\* Bytes, and the words that four of them make.
Bytes == 0 .. 255
WordAt(bytes, k) == UNION {ShiftLeft(BitsOf(bytes[4 * k - 3 + j]), 8 * (3 - j)) : j \in 0 .. 3}

LEMMA ByteBits ==
  ASSUME NEW n \in Bytes
  PROVE  BitsOf(n) \subseteq 0 .. 7
<1>1. n \div 2 ^ 8 = 0 /\ n \div 2 ^ 9 = 0 /\ n \div 2 ^ 10 = 0 /\ n \div 2 ^ 11 = 0
  BY DEF Bytes
<1>2. n \div 2 ^ 12 = 0 /\ n \div 2 ^ 13 = 0 /\ n \div 2 ^ 14 = 0 /\ n \div 2 ^ 15 = 0
  BY DEF Bytes
<1>3. ASSUME NEW b \in 8 .. 15 PROVE n \div 2 ^ b = 0
  <2>1. b = 8 \/ b = 9 \/ b = 10 \/ b = 11 \/ b = 12 \/ b = 13 \/ b = 14 \/ b = 15
    OBVIOUS
  <2> QED
    BY <1>1, <1>2, <2>1
<1>4. ASSUME NEW b \in 8 .. 15 PROVE b \notin BitsOf(n)
  <2>1. (n \div 2 ^ b) % 2 # 1
    <3>1. 0 % 2 # 1
      OBVIOUS
    <3> QED
      BY <1>3, <3>1, Zenon
  <2> QED
    BY <2>1, Zenon DEF BitsOf
<1>5. BitsOf(n) \subseteq 0 .. 15
  BY DEF BitsOf
<1> QED
  BY <1>4, <1>5

LEMMA WordAtTyped ==
  ASSUME NEW bytes, NEW k \in 1 .. 16, \A j \in 1 .. 64 : bytes[j] \in Bytes
  PROVE  WordAt(bytes, k) \in StandardWords
<1>1. ASSUME NEW j \in 0 .. 3
      PROVE  ShiftLeft(BitsOf(bytes[4 * k - 3 + j]), 8 * (3 - j)) \subseteq 0 .. 31
  <2>1. 4 * k - 3 + j \in 1 .. 64
    OBVIOUS
  <2>2. BitsOf(bytes[4 * k - 3 + j]) \subseteq 0 .. 7
    BY <2>1, ByteBits
  <2>3. \A b \in 0 .. 7 : b + 8 * (3 - j) \in 0 .. 31
    OBVIOUS
  <2> QED
    BY <2>2, <2>3 DEF ShiftLeft
<1> QED
  BY <1>1 DEF WordAt, StandardWords

\* The bytes of a buffer are put together as the standard says; and extending
\* the sign changes nothing below.
LEMMA BufferLower ==
  ASSUME NEW held, \A j \in 1 .. 64 : held[j] \in Bytes
  PROVE  /\ BufferToBlock(held) \in [0 .. 15 -> CodeWords]
         /\ \A k \in 1 .. 16 : Lower(BufferToBlock(held)[k - 1]) = WordAt(held, k)
<1> DEFINE Int0(i) == UNION {ShiftLeft(BitsOf(held[4 * i + 1 + j]), 8 * (3 - j)) : j \in 0 .. 3}
           Sign(i) == IF 31 \in Int0(i) THEN Int0(i) \cup (32 .. WordBits - 1) ELSE Int0(i)
<1>1. BufferToBlock(held) = [i \in 0 .. 15 |-> Sign(i)]
  BY DEF BufferToBlock, BLOCK_INTS
<1>2. ASSUME NEW k \in 1 .. 16 PROVE Int0(k - 1) = WordAt(held, k)
  <2>1. \A j \in 0 .. 3 : 4 * (k - 1) + 1 + j = 4 * k - 3 + j
    OBVIOUS
  <2> QED
    BY <2>1 DEF WordAt
<1> HIDE DEF Int0
<1>3. ASSUME NEW k \in 1 .. 16
      PROVE  Sign(k - 1) \in CodeWords /\ Lower(Sign(k - 1)) = WordAt(held, k)
  <2>1. Int0(k - 1) \in StandardWords /\ Int0(k - 1) = WordAt(held, k)
    BY <1>2, WordAtTyped
  <2>2. Lower(Int0(k - 1)) = WordAt(held, k) /\ Int0(k - 1) \in CodeWords
    BY <2>1, LowerOfLower
  <2>3. (32 .. WordBits - 1) \subseteq 0 .. WordBits - 1
    BY WordSizes
  <2>4. Lower(Int0(k - 1) \cup (32 .. WordBits - 1)) = Lower(Int0(k - 1))
    BY WordSizes DEF Lower, Low
  <2> QED
    BY <2>2, <2>3, <2>4 DEF CodeWords
<1>4. \A i \in 0 .. 15 : Sign(i) \in CodeWords /\ Lower(Sign(i)) = WordAt(held, i + 1)
  <2>1. TAKE i \in 0 .. 15
  <2>2. i + 1 \in 1 .. 16 /\ (i + 1) - 1 = i
    OBVIOUS
  <2> HIDE DEF Sign
  <2> QED
    BY <1>3, <2>2
<1> HIDE DEF Sign
<1>5. \A k \in 1 .. 16 : k - 1 \in 0 .. 15 /\ (k - 1) + 1 = k
  OBVIOUS
<1> QED
  BY <1>1, <1>4, <1>5

LEMMA BigEndianIsWordAt ==
  ASSUME NEW bytes \in Seq(Bytes), Len(bytes) = 64, NEW k \in 1 .. 16
  PROVE  Standard!BigEndian(SubSeq(bytes, 4 * k - 3, 4 * k)) = WordAt(bytes, k)
<1> DEFINE four == SubSeq(bytes, 4 * k - 3, 4 * k)
<1>1. ASSUME NEW i \in 1 .. 4 PROVE four[i] = bytes[4 * k - 4 + i]
  <2>1. \A n \in 1 .. (4 * k) - (4 * k - 3) + 1 : four[n] = bytes[(4 * k - 3) + n - 1]
    <3>1. ASSUME NEW a \in 1 .. 64, NEW b \in 1 .. 64
          PROVE  \A n \in 1 .. b - a + 1 : SubSeq(bytes, a, b)[n] = bytes[a + n - 1]
      <4>1. \A n \in a .. b : n \in 1 .. Len(bytes)
        OBVIOUS
      <4>2. \A n \in a .. b : bytes[n] \in Bytes
        BY <4>1, ElementOfSeq
      <4>3. a \in Int /\ b \in Int
        OBVIOUS
      <4> QED
        BY <4>2, <4>3, SubSeqProperties
    <3>2. 4 * k - 3 \in 1 .. 64 /\ 4 * k \in 1 .. 64
      OBVIOUS
    <3> QED
      BY <3>1, <3>2, Zenon
  <2> HIDE DEF four
  <2>2. i \in 1 .. (4 * k) - (4 * k - 3) + 1 /\ (4 * k - 3) + i - 1 = 4 * k - 4 + i
    OBVIOUS
  <2> QED
    BY <2>1, <2>2
<1> HIDE DEF four
<1>2. Standard!BigEndian(four) = UNION {ShiftLeft(BitsOf(four[i]), 8 * (4 - i)) : i \in 1 .. 4}
  BY StandardIsWords DEF Standard!BigEndian
<1> DEFINE Piece(j) == ShiftLeft(BitsOf(bytes[4 * k - 3 + j]), 8 * (3 - j))
<1>3. ASSUME NEW i \in 1 .. 4
      PROVE  ShiftLeft(BitsOf(four[i]), 8 * (4 - i)) = Piece(i - 1)
  <2>1. 4 * k - 4 + i = 4 * k - 3 + (i - 1) /\ 8 * (4 - i) = 8 * (3 - (i - 1))
    OBVIOUS
  <2> QED
    BY <1>1, <2>1
<1>4. WordAt(bytes, k) = UNION {Piece(j) : j \in 0 .. 3}
  BY DEF WordAt
<1> HIDE DEF Piece
<1>5. Standard!BigEndian(four) = UNION {Piece(i - 1) : i \in 1 .. 4}
  BY <1>2, <1>3
<1>6. {Piece(i - 1) : i \in 1 .. 4} = {Piece(j) : j \in 0 .. 3}
  <2>1. \A i \in 1 .. 4 : i - 1 \in 0 .. 3
    OBVIOUS
  <2>2. \A j \in 0 .. 3 : j + 1 \in 1 .. 4 /\ (j + 1) - 1 = j
    OBVIOUS
  <2> QED
    BY <2>1, <2>2
<1> QED
  BY <1>4, <1>5, <1>6 DEF four

LEMMA BufferIsBlock ==
  ASSUME NEW bytes \in Seq(Bytes), Len(bytes) = 64
  PROVE  SameBlock(BufferToBlock(bytes), bytes)
<1>1. \A j \in 1 .. 64 : bytes[j] \in Bytes
  BY ElementOfSeq
<1>2. /\ BufferToBlock(bytes) \in [0 .. 15 -> CodeWords]
      /\ \A k \in 1 .. 16 : Lower(BufferToBlock(bytes)[k - 1]) = WordAt(bytes, k)
  BY <1>1, BufferLower
<1> QED
  BY <1>2, BigEndianIsWordAt DEF SameBlock

\* Zeros make an empty word, and a number below 2^16 the one that the code puts.
LEMMA NoBits == BitsOf(0) = {}
<1>1. ASSUME NEW b \in 0 .. 7 PROVE (0 \div 2 ^ b) % 2 # 1
  <2>1. b = 0 \/ b = 1 \/ b = 2 \/ b = 3 \/ b = 4 \/ b = 5 \/ b = 6 \/ b = 7
    OBVIOUS
  <2>2. /\ (0 \div 2 ^ 0) % 2 # 1 /\ (0 \div 2 ^ 1) % 2 # 1 /\ (0 \div 2 ^ 2) % 2 # 1
        /\ (0 \div 2 ^ 3) % 2 # 1 /\ (0 \div 2 ^ 4) % 2 # 1 /\ (0 \div 2 ^ 5) % 2 # 1
        /\ (0 \div 2 ^ 6) % 2 # 1 /\ (0 \div 2 ^ 7) % 2 # 1
    OBVIOUS
  <2> QED
    BY <2>1, <2>2, Zenon
<1>2. \A b \in 0 .. 7 : b \notin BitsOf(0)
  BY <1>1, Zenon DEF BitsOf
<1>3. BitsOf(0) \subseteq 0 .. 7
  <2>1. 0 \in Bytes
    BY DEF Bytes
  <2> QED
    BY <2>1, ByteBits
<1> QED
  BY <1>2, <1>3

LEMMA BitsOfBytes ==
  ASSUME NEW h \in Bytes, NEW l \in Bytes
  PROVE  BitsOf(256 * h + l) = ShiftLeft(BitsOf(h), 8) \cup BitsOf(l)
<1> DEFINE n == 256 * h + l
<1>1. ASSUME NEW b \in 0 .. 7 PROVE (n \div 2 ^ b) % 2 = (l \div 2 ^ b) % 2
  <2>1. CASE b = 0
    BY <2>1 DEF Bytes
  <2>2. CASE b = 1
    BY <2>2 DEF Bytes
  <2>3. CASE b = 2
    BY <2>3 DEF Bytes
  <2>4. CASE b = 3
    BY <2>4 DEF Bytes
  <2>5. CASE b = 4
    BY <2>5 DEF Bytes
  <2>6. CASE b = 5
    BY <2>6 DEF Bytes
  <2>7. CASE b = 6
    BY <2>7 DEF Bytes
  <2>8. CASE b = 7
    BY <2>8 DEF Bytes
  <2> QED
    BY <2>1, <2>2, <2>3, <2>4, <2>5, <2>6, <2>7, <2>8
<1>2. ASSUME NEW b \in 0 .. 7 PROVE (n \div 2 ^ (b + 8)) % 2 = (h \div 2 ^ b) % 2
  <2>1. CASE b = 0
    BY <2>1 DEF Bytes
  <2>2. CASE b = 1
    BY <2>2 DEF Bytes
  <2>3. CASE b = 2
    BY <2>3 DEF Bytes
  <2>4. CASE b = 3
    BY <2>4 DEF Bytes
  <2>5. CASE b = 4
    BY <2>5 DEF Bytes
  <2>6. CASE b = 5
    BY <2>6 DEF Bytes
  <2>7. CASE b = 6
    BY <2>7 DEF Bytes
  <2>8. CASE b = 7
    BY <2>8 DEF Bytes
  <2> QED
    BY <2>1, <2>2, <2>3, <2>4, <2>5, <2>6, <2>7, <2>8
<1> HIDE DEF n
<1>3. BitsOf(h) \subseteq 0 .. 7 /\ BitsOf(l) \subseteq 0 .. 7
  BY ByteBits
<1>4. \A b \in 0 .. 7 : b \in BitsOf(n) <=> b \in BitsOf(l)
  BY <1>1 DEF BitsOf
<1>5. ASSUME NEW b \in 0 .. 7
      PROVE  b + 8 \in BitsOf(n) <=> b \in BitsOf(h)
  <2>1. b \in 0 .. 15 /\ b + 8 \in 0 .. 15
    OBVIOUS
  <2> QED
    BY <1>2, <2>1, Zenon DEF BitsOf
<1>6. BitsOf(n) \subseteq 0 .. 15
  BY DEF BitsOf
<1>7. ASSUME NEW x \in 0 .. 15
      PROVE  x \in BitsOf(n) <=> x \in ShiftLeft(BitsOf(h), 8) \cup BitsOf(l)
  <2>1. CASE x \in 0 .. 7
    <3>1. x \notin ShiftLeft(BitsOf(h), 8)
      BY <1>3, <2>1 DEF ShiftLeft
    <3> QED
      BY <1>4, <2>1, <3>1
  <2>2. CASE x \in 8 .. 15
    <3>1. PICK b \in 0 .. 7 : x = b + 8
      <4>1. x - 8 \in 0 .. 7 /\ x = (x - 8) + 8
        BY <2>2
      <4> QED
        BY <4>1
    <3>2. x \in ShiftLeft(BitsOf(h), 8) <=> b \in BitsOf(h)
      BY <1>3, <3>1 DEF ShiftLeft
    <3>3. x \notin BitsOf(l)
      BY <1>3, <2>2
    <3> QED
      BY <1>5, <3>1, <3>2, <3>3
  <2> QED
    BY <2>1, <2>2
<1>8. ShiftLeft(BitsOf(h), 8) \cup BitsOf(l) \subseteq 0 .. 15
  BY <1>3 DEF ShiftLeft
<1> QED
  BY <1>6, <1>7, <1>8 DEF n

-----------------------------------------------------------------------------
\* The hash of the standard, block after block.
FullBlocks(bytes) == Len(bytes) \div 64
NthBlock(bytes, i) == SubSeq(bytes, 64 * i - 63, 64 * i)
IsHash(h, bytes) ==
  /\ h \in [0 .. FullBlocks(bytes) -> StandardHashes]
  /\ h[0] = Standard!InitialHash
  /\ \A i \in 1 .. FullBlocks(bytes) : h[i] = Standard!Block(h[i - 1], NthBlock(bytes, i))

LEMMA InitialHashTyped == Standard!InitialHash \in StandardHashes
<1>1. \A high, low : Standard!Word(high, low) \in StandardWords
  BY WordTyped, StandardIsWords
<1> QED
  BY <1>1 DEF Standard!InitialHash, StandardHashes

LEMMA BlocksNatural ==
  ASSUME NEW bytes \in Seq(Bytes)
  PROVE  FullBlocks(bytes) \in Nat /\ 64 * FullBlocks(bytes) <= Len(bytes) /\ Len(bytes) < 64 * FullBlocks(bytes) + 64
<1>1. Len(bytes) \in Nat
  OBVIOUS
<1> QED
  BY <1>1 DEF FullBlocks

LEMMA HashStepwise ==
  ASSUME NEW bytes \in Seq(Bytes)
  PROVE  \E h : IsHash(h, bytes) /\ Standard!HashOf(bytes) = h[FullBlocks(bytes)]
<1> DEFINE N == FullBlocks(bytes)
           Step == [x \in StandardHashes \X Nat |-> Standard!Block(x[1], NthBlock(bytes, x[2]))]
           Equation(f) == f = [i \in 0 .. N |->
             IF i = 0 THEN Standard!InitialHash ELSE Standard!Block(f[i - 1], NthBlock(bytes, i))]
           c == CHOOSE f : Equation(f)
<1>1. Step \in [StandardHashes \X Nat -> StandardHashes]
  BY BlockTyped
<1>2. N \in Nat
  BY BlocksNatural
<1> HIDE DEF N
<1>3. PICK f : Recursive(f, StandardHashes, Standard!InitialHash, N, Step)
  <2> HIDE DEF Step
  <2> QED
    BY <1>1, <1>2, InitialHashTyped, RecursionExists
<1>4. f \in [0 .. N -> StandardHashes] /\ f[0] = Standard!InitialHash
  BY <1>3 DEF Recursive
<1>5. \A i \in 1 .. N : f[i] = Standard!Block(f[i - 1], NthBlock(bytes, i))
  <2>1. TAKE i \in 1 .. N
  <2>2. f[i - 1] \in StandardHashes /\ i \in Nat
    BY <1>2, <1>4
  <2>3. f[i] = Step[<<f[i - 1], i>>]
    BY <1>3 DEF Recursive
  <2> QED
    BY <2>2, <2>3
<1>6. Equation(f)
  <2>1. \A i \in 0 .. N : f[i] = IF i = 0 THEN Standard!InitialHash ELSE Standard!Block(f[i - 1], NthBlock(bytes, i))
    <3>1. TAKE i \in 0 .. N
    <3>2. i = 0 \/ i \in 1 .. N
      BY <1>2
    <3> QED
      BY <1>4, <1>5, <3>2
  <2> QED
    BY <1>4, <2>1
<1>7. Equation(c)
  <2> HIDE DEF Equation
  <2> QED
    BY <1>6
<1>8. Standard!HashOf(bytes) = c[N]
  BY DEF Standard!HashOf, NthBlock, FullBlocks, N
<1> HIDE DEF c
<1>9. \A i \in 0 .. N : c[i] = IF i = 0 THEN Standard!InitialHash ELSE Standard!Block(c[i - 1], NthBlock(bytes, i))
  BY <1>7
<1>10. \A i \in 0 .. N : c[i] \in StandardHashes
  BY <1>9, BlockTyped, InitialHashTyped
<1>11. c \in [0 .. N -> StandardHashes]
  <2>1. c = [i \in 0 .. N |-> c[i]]
    BY <1>7
  <2> QED
    BY <1>10, <2>1
<1>12. \A i \in 1 .. N : i \in 0 .. N /\ i # 0
  BY <1>2
<1>13. IsHash(c, bytes)
  BY <1>2, <1>9, <1>11, <1>12 DEF IsHash, N
<1> QED
  BY <1>8, <1>13 DEF N

\* Messages with the same first blocks have the same hashes up to there.
LEMMA HashOfPrefix ==
  ASSUME NEW x \in Seq(Bytes), NEW h, IsHash(h, x),
         NEW y \in Seq(Bytes), NEW g, IsHash(g, y),
         NEW n \in Nat, n <= FullBlocks(x), n <= FullBlocks(y),
         \A j \in 1 .. 64 * n : x[j] = y[j]
  PROVE  \A i \in 0 .. n : h[i] = g[i]
<1>1. /\ FullBlocks(x) \in Nat /\ 64 * FullBlocks(x) <= Len(x)
      /\ FullBlocks(y) \in Nat /\ 64 * FullBlocks(y) <= Len(y)
  BY BlocksNatural
<1> DEFINE Good == {i \in Nat : i <= n => h[i] = g[i]}
<1>2. 0 \in Good
  BY DEF IsHash
<1>3. ASSUME NEW i \in Nat, i \in Good PROVE i + 1 \in Good
  <2>1. SUFFICES ASSUME i + 1 <= n PROVE h[i + 1] = g[i + 1]
    OBVIOUS
  <2>2. i + 1 \in 1 .. FullBlocks(x) /\ i + 1 \in 1 .. FullBlocks(y) /\ (i + 1) - 1 = i
    BY <1>1, <2>1
  <2>3. /\ h[i + 1] = Standard!Block(h[i], NthBlock(x, i + 1))
        /\ g[i + 1] = Standard!Block(g[i], NthBlock(y, i + 1))
    BY <2>2 DEF IsHash
  <2>4. NthBlock(x, i + 1) = NthBlock(y, i + 1)
    <3> DEFINE first == 64 * (i + 1) - 63
               last == 64 * (i + 1)
    <3>1. first \in Int /\ last \in Int /\ first <= last
      OBVIOUS
    <3>2. \A j \in first .. last : j \in 1 .. 64 * n /\ j \in 1 .. Len(x) /\ j \in 1 .. Len(y)
      BY <1>1, <2>1
    <3> HIDE DEF first, last
    <3>3. \A j \in first .. last : x[j] = y[j] /\ x[j] \in Bytes /\ y[j] \in Bytes
      BY <3>2, ElementOfSeq
    <3>4. /\ SubSeq(x, first, last) \in Seq(Bytes)
          /\ Len(SubSeq(x, first, last)) = last - first + 1
          /\ \A j \in 1 .. last - first + 1 : SubSeq(x, first, last)[j] = x[first + j - 1]
      BY <3>1, <3>3, SubSeqProperties
    <3>5. /\ SubSeq(y, first, last) \in Seq(Bytes)
          /\ Len(SubSeq(y, first, last)) = last - first + 1
          /\ \A j \in 1 .. last - first + 1 : SubSeq(y, first, last)[j] = y[first + j - 1]
      BY <3>1, <3>3, SubSeqProperties
    <3>6. \A j \in 1 .. last - first + 1 : SubSeq(x, first, last)[j] = SubSeq(y, first, last)[j]
      <4>1. \A j \in 1 .. last - first + 1 : first + j - 1 \in first .. last
        BY <3>1
      <4> QED
        BY <3>3, <3>4, <3>5, <4>1
    <3>7. SubSeq(x, first, last) = SubSeq(y, first, last)
      BY <3>4, <3>5, <3>6, SeqEqual
    <3> QED
      BY <3>7 DEF NthBlock, first, last
  <2> QED
    BY <1>3, <2>1, <2>3, <2>4
<1>4. Nat \subseteq Good
  <2> HIDE DEF Good
  <2> QED
    BY <1>2, <1>3, SetInduction
<1> QED
  BY <1>4

-----------------------------------------------------------------------------
\* The context is that of a message.
Matches(context, message) ==
  /\ context.digest \in CodeDigests
  /\ context.buffer \in Seq(Bytes)
  /\ context.transforms = FullBlocks(message)
  /\ Len(context.buffer) = Len(message) - 64 * FullBlocks(message)
  /\ \A j \in 1 .. Len(context.buffer) : context.buffer[j] = message[64 * FullBlocks(message) + j]
  /\ LowerAll(context.digest) = Standard!HashOf(message)

\* The loop of update().
Filled(bytes, n) == SubSeq(bytes, 64 * (n - 1) + 1, 64 * n)
IsLoop(d, digest, bytes) ==
  /\ d \in [0 .. FullBlocks(bytes) -> CodeDigests]
  /\ d[0] = digest
  /\ \A n \in 1 .. FullBlocks(bytes) : d[n] = Transform(d[n - 1], BufferToBlock(Filled(bytes, n)))

LEMMA AbsorbStepwise ==
  ASSUME NEW context, context.digest \in CodeDigests, NEW piece,
         NEW bytes \in Seq(Bytes), bytes = context.buffer \o piece
  PROVE  \E d : /\ IsLoop(d, context.digest, bytes)
                /\ Absorb(context, piece) =
                     [ digest |-> d[FullBlocks(bytes)],
                       transforms |-> context.transforms + FullBlocks(bytes),
                       buffer |-> SubSeq(bytes, 64 * FullBlocks(bytes) + 1, Len(bytes)) ]
<1> DEFINE N == FullBlocks(bytes)
           first == context.digest
           Step == [x \in CodeDigests \X Nat |-> Transform(x[1], BufferToBlock(Filled(bytes, x[2])))]
           Equation(f) == f = [n \in 0 .. N |->
             IF n = 0 THEN first ELSE Transform(f[n - 1], BufferToBlock(Filled(bytes, n)))]
           c == CHOOSE f : Equation(f)
<1>1. Step \in [CodeDigests \X Nat -> CodeDigests]
  BY TransformTyped
<1>2. N \in Nat
  BY BlocksNatural
<1>3. Absorb(context, piece) = [ digest |-> c[N], transforms |-> context.transforms + N,
                                 buffer |-> SubSeq(bytes, 64 * N + 1, Len(bytes)) ]
  BY DEF Absorb, BLOCK_BYTES, FullBlocks, Filled
<1> HIDE DEF N, first
<1>4. PICK f : Recursive(f, CodeDigests, first, N, Step)
  <2>1. first \in CodeDigests
    BY DEF first
  <2> HIDE DEF Step
  <2> QED
    BY <1>1, <1>2, <2>1, RecursionExists
<1>5. f \in [0 .. N -> CodeDigests] /\ f[0] = first
  BY <1>4 DEF Recursive
<1>6. \A n \in 1 .. N : f[n] = Transform(f[n - 1], BufferToBlock(Filled(bytes, n)))
  <2>1. TAKE n \in 1 .. N
  <2>2. f[n - 1] \in CodeDigests /\ n \in Nat
    BY <1>2, <1>5
  <2>3. f[n] = Step[<<f[n - 1], n>>]
    BY <1>4 DEF Recursive
  <2> QED
    BY <2>2, <2>3
<1>7. Equation(f)
  <2>1. \A n \in 0 .. N : f[n] = IF n = 0 THEN first ELSE Transform(f[n - 1], BufferToBlock(Filled(bytes, n)))
    <3>1. TAKE n \in 0 .. N
    <3>2. n = 0 \/ n \in 1 .. N
      BY <1>2
    <3> QED
      BY <1>5, <1>6, <3>2
  <2> QED
    BY <1>5, <2>1
<1>8. Equation(c)
  <2> HIDE DEF Equation
  <2> QED
    BY <1>7
<1> HIDE DEF c
<1>9. \A n \in 0 .. N : c[n] = IF n = 0 THEN first ELSE Transform(c[n - 1], BufferToBlock(Filled(bytes, n)))
  BY <1>8
<1>10. \A n \in 0 .. N : c[n] \in CodeDigests
  <2>1. first \in CodeDigests
    BY DEF first
  <2> QED
    BY <1>9, <2>1, TransformTyped
<1>11. c \in [0 .. N -> CodeDigests]
  <2>1. c = [n \in 0 .. N |-> c[n]]
    BY <1>8
  <2> QED
    BY <1>10, <2>1
<1>12. \A n \in 1 .. N : n \in 0 .. N /\ n # 0
  BY <1>2
<1>13. IsLoop(c, first, bytes)
  BY <1>2, <1>9, <1>11, <1>12 DEF IsLoop, N
<1> QED
  BY <1>3, <1>13 DEF N, first

\* A part of a message, byte by byte.
LEMMA Part ==
  ASSUME NEW x \in Seq(Bytes), NEW first \in Nat \ {0}, NEW size \in Nat,
         NEW last \in Int, last = first + size - 1, last <= Len(x),
         NEW part, part = SubSeq(x, first, last)
  PROVE  /\ part \in Seq(Bytes)
         /\ Len(part) = size
         /\ \A j \in 1 .. size : part[j] = x[first + j - 1]
<1>1. \A j \in first .. last : j \in 1 .. Len(x)
  OBVIOUS
<1>2. \A j \in first .. last : x[j] \in Bytes
  BY <1>1, ElementOfSeq
<1>3. /\ part \in Seq(Bytes)
      /\ Len(part) = IF first <= last THEN last - first + 1 ELSE 0
      /\ \A j \in 1 .. last - first + 1 : part[j] = x[first + j - 1]
  BY <1>2, SubSeqProperties
<1>4. last - first + 1 = size
  OBVIOUS
<1> QED
  BY <1>3, <1>4

\* Update() keeps the context that of the message.
LEMMA AbsorbMatches ==
  ASSUME NEW message \in Seq(Bytes), NEW context, Matches(context, message), NEW piece \in Seq(Bytes)
  PROVE  Matches(Absorb(context, piece), message \o piece)
<1> DEFINE all == message \o piece
           bytes == context.buffer \o piece
           T == FullBlocks(message)
           N == FullBlocks(bytes)
           M == FullBlocks(all)
<1>1. /\ all \in Seq(Bytes) /\ Len(all) = Len(message) + Len(piece)
      /\ \A j \in 1 .. Len(message) + Len(piece) :
           all[j] = IF j <= Len(message) THEN message[j] ELSE piece[j - Len(message)]
  BY ConcatProperties
<1>2. /\ bytes \in Seq(Bytes) /\ Len(bytes) = Len(context.buffer) + Len(piece)
      /\ \A j \in 1 .. Len(context.buffer) + Len(piece) :
           bytes[j] = IF j <= Len(context.buffer) THEN context.buffer[j] ELSE piece[j - Len(context.buffer)]
  BY ConcatProperties DEF Matches
<1>3. bytes = context.buffer \o piece
  OBVIOUS
<1> HIDE DEF all, bytes
<1>4. /\ Len(message) \in Nat /\ Len(piece) \in Nat /\ Len(context.buffer) \in Nat
      /\ Len(all) \in Nat /\ Len(bytes) \in Nat
  BY <1>1, <1>2 DEF Matches
<1>5. /\ T \in Nat /\ 64 * T <= Len(message) /\ Len(message) < 64 * T + 64
      /\ N \in Nat /\ 64 * N <= Len(bytes) /\ Len(bytes) < 64 * N + 64
      /\ M \in Nat /\ 64 * M <= Len(all) /\ Len(all) < 64 * M + 64
  BY <1>1, <1>2, BlocksNatural
<1>6. Len(context.buffer) = Len(message) - 64 * T /\ Len(bytes) = Len(all) - 64 * T
  BY <1>1, <1>2, <1>4, <1>5 DEF Matches
<1> HIDE DEF T, N, M
<1>7. M = T + N
  BY <1>4, <1>5, <1>6
<1>8. ASSUME NEW j \in 1 .. Len(bytes) PROVE bytes[j] = all[64 * T + j]
  <2>1. 64 * T + j \in 1 .. Len(message) + Len(piece) /\ j \in 1 .. Len(context.buffer) + Len(piece)
    BY <1>1, <1>2, <1>4, <1>5, <1>6
  <2>2. CASE j <= Len(context.buffer)
    <3>1. j \in 1 .. Len(context.buffer) /\ 64 * T + j <= Len(message)
      BY <1>4, <1>5, <1>6, <2>2
    <3>2. context.buffer[j] = message[64 * T + j]
      BY <3>1 DEF Matches, T
    <3> QED
      BY <1>1, <1>2, <2>1, <2>2, <3>1, <3>2
  <2>3. CASE ~ j <= Len(context.buffer)
    <3>1. ~ 64 * T + j <= Len(message) /\ (64 * T + j) - Len(message) = j - Len(context.buffer)
      BY <1>4, <1>5, <1>6, <2>3
    <3> QED
      BY <1>1, <1>2, <2>1, <2>3, <3>1
  <2> QED
    BY <2>2, <2>3
<1>9. PICK h : IsHash(h, all) /\ Standard!HashOf(all) = h[M]
  BY <1>1, HashStepwise DEF M
<1>10. PICK g : IsHash(g, message) /\ Standard!HashOf(message) = g[T]
  BY HashStepwise DEF T
<1>11. g[T] = h[T]
  <2>1. \A j \in 1 .. 64 * T : message[j] = all[j]
    BY <1>1, <1>4, <1>5
  <2>2. T <= M /\ T \in 0 .. T
    BY <1>5, <1>7
  <2>3. T <= FullBlocks(all) /\ T <= FullBlocks(message)
    BY <1>5, <2>2 DEF M, T
  <2>4. IsHash(g, message) /\ IsHash(h, all) /\ T \in Nat /\ all \in Seq(Bytes)
    BY <1>1, <1>5, <1>9, <1>10, Zenon
  <2> QED
    BY <2>1, <2>2, <2>3, <2>4, HashOfPrefix
<1>12. PICK d : /\ IsLoop(d, context.digest, bytes)
                /\ Absorb(context, piece) = [ digest |-> d[N], transforms |-> context.transforms + N,
                                              buffer |-> SubSeq(bytes, 64 * N + 1, Len(bytes)) ]
  <2>1. context.digest \in CodeDigests
    BY DEF Matches
  <2> QED
    BY <1>2, <1>3, <2>1, AbsorbStepwise, ZenonT(40) DEF N
<1>13. \A n \in 0 .. N : d[n] \in CodeDigests
  BY <1>12 DEF IsLoop, N
<1>14. ASSUME NEW n \in 1 .. N
       PROVE  /\ Filled(bytes, n) \in Seq(Bytes) /\ Len(Filled(bytes, n)) = 64
              /\ Filled(bytes, n) = NthBlock(all, T + n)
  <2> DEFINE first == 64 * (n - 1) + 1
             last == 64 * n
             later == 64 * (T + n) - 63
             latest == 64 * (T + n)
  <2>1. /\ first \in Nat \ {0} /\ last \in Int /\ last <= Len(bytes) /\ last = first + 64 - 1
        /\ later \in Nat \ {0} /\ latest \in Int /\ latest <= Len(all) /\ latest = later + 64 - 1
        /\ later = 64 * T + first
    BY <1>4, <1>5, <1>6
  <2>2. Filled(bytes, n) = SubSeq(bytes, first, last) /\ NthBlock(all, T + n) = SubSeq(all, later, latest)
    BY DEF Filled, NthBlock
  <2> HIDE DEF first, last, later, latest
  <2>0. all \in Seq(Bytes) /\ later \in Nat \ {0} /\ latest \in Int /\ latest <= Len(all) /\ latest = later + 64 - 1
    BY <1>1, <2>1
  <2>3. PICK x : x = SubSeq(bytes, first, last)
    OBVIOUS
  <2>4. PICK y : y = SubSeq(all, later, latest)
    OBVIOUS
  <2>5. x \in Seq(Bytes) /\ y \in Seq(Bytes)
    <3>1. x \in Seq(Bytes)
      BY <1>2, <2>1, <2>3, Part, SMTT(30)
    <3>2. y \in Seq(Bytes)
      BY <2>0, <2>4, Part
    <3> QED
      BY <3>1, <3>2
  <2>6. Len(x) = 64 /\ Len(y) = 64
    <3>1. Len(x) = 64
      BY <1>2, <2>1, <2>3, Part
    <3>2. Len(y) = 64
      BY <2>0, <2>4, Part
    <3> QED
      BY <3>1, <3>2
  <2>7. ASSUME NEW j \in 1 .. 64 PROVE x[j] = y[j]
    <3>1. x[j] = bytes[first + j - 1]
      BY <1>2, <2>1, <2>3, Part
    <3>2. y[j] = all[later + j - 1]
      BY <2>0, <2>4, Part
    <3>3. first + j - 1 \in 1 .. Len(bytes) /\ 64 * T + (first + j - 1) = later + j - 1
      BY <1>4, <1>5, <2>1
    <3>4. bytes[first + j - 1] = all[64 * T + (first + j - 1)]
      BY <1>8, <3>3
    <3> QED
      BY <3>1, <3>2, <3>3, <3>4
  <2>8. \A j \in 1 .. Len(x) : x[j] = y[j]
    BY <2>6, <2>7
  <2>9. x = y
    <3>1. Len(x) = Len(y)
      BY <2>6
    <3> QED
      BY <2>5, <2>8, <3>1, SeqEqual, Zenon
  <2> QED
    BY <2>2, <2>3, <2>4, <2>5, <2>6, <2>9
<1> DEFINE Good == {n \in Nat : n <= N => LowerAll(d[n]) = h[T + n]}
<1>15. 0 \in Good
  <2>1. LowerAll(d[0]) = h[T]
    BY <1>10, <1>11, <1>12 DEF Matches, IsLoop
  <2> QED
    BY <1>5, <2>1
<1>16. ASSUME NEW n \in Nat, n \in Good PROVE n + 1 \in Good
  <2>1. SUFFICES ASSUME n + 1 <= N PROVE LowerAll(d[n + 1]) = h[T + (n + 1)]
    OBVIOUS
  <2>2. n \in 0 .. N /\ n + 1 \in 1 .. N /\ (n + 1) - 1 = n
    BY <1>5, <2>1
  <2>3. LowerAll(d[n]) = h[T + n] /\ d[n] \in CodeDigests
    BY <1>13, <1>16, <2>1, <2>2
  <2>4. d[n + 1] = Transform(d[n], BufferToBlock(Filled(bytes, n + 1)))
    BY <1>12, <2>2 DEF IsLoop, N
  <2>5. SameBlock(BufferToBlock(Filled(bytes, n + 1)), NthBlock(all, T + (n + 1)))
    BY <1>14, <2>2, BufferIsBlock
  <2>6. LowerAll(d[n + 1]) = Standard!Block(h[T + n], NthBlock(all, T + (n + 1)))
    BY <2>3, <2>4, <2>5, TransformLower
  <2>7. T + (n + 1) \in 1 .. M /\ (T + (n + 1)) - 1 = T + n
    BY <1>5, <1>7, <2>1
  <2>8. h[T + (n + 1)] = Standard!Block(h[T + n], NthBlock(all, T + (n + 1)))
    BY <1>9, <2>7 DEF IsHash, M
  <2> QED
    BY <2>6, <2>8
<1>17. Nat \subseteq Good
  <2> HIDE DEF Good
  <2> QED
    BY <1>15, <1>16, SetInduction
<1>18. LowerAll(d[N]) = Standard!HashOf(all)
  BY <1>5, <1>7, <1>9, <1>17
<1> DEFINE rest == SubSeq(bytes, 64 * N + 1, Len(bytes))
<1>19. /\ rest \in Seq(Bytes)
       /\ Len(rest) = Len(bytes) - 64 * N
       /\ \A j \in 1 .. Len(bytes) - 64 * N : rest[j] = bytes[64 * N + j]
  <2> DEFINE first == 64 * N + 1
             size == Len(bytes) - 64 * N
  <2>1. first \in Nat \ {0} /\ size \in Nat /\ Len(bytes) = first + size - 1 /\ Len(bytes) \in Int /\ Len(bytes) <= Len(bytes)
    BY <1>4, <1>5
  <2>2. first = 64 * N + 1 /\ N \in Nat
    BY <1>5
  <2>3. rest = SubSeq(bytes, first, Len(bytes))
    OBVIOUS
  <2> HIDE DEF first, size, rest
  <2>4. rest \in Seq(Bytes)
    BY <1>2, <2>1, <2>3, Part
  <2>5. Len(rest) = size
    BY <1>2, <2>1, <2>3, Part
  <2>6. ASSUME NEW j \in 1 .. size PROVE rest[j] = bytes[64 * N + j]
    <3>1. rest[j] = bytes[first + j - 1]
      BY <1>2, <2>1, <2>3, Part
    <3>2. first + j - 1 = 64 * N + j
      BY <2>1, <2>2
    <3> QED
      BY <3>1, <3>2
  <2> QED
    BY <2>4, <2>5, <2>6 DEF size
<1> HIDE DEF rest
<1>20. Len(rest) = Len(all) - 64 * M
  BY <1>4, <1>5, <1>6, <1>7, <1>19
<1>21. ASSUME NEW j \in 1 .. Len(rest) PROVE rest[j] = all[64 * M + j]
  <2>1. j \in 1 .. Len(bytes) - 64 * N /\ 64 * N + j \in 1 .. Len(bytes) /\ 64 * T + (64 * N + j) = 64 * M + j
    BY <1>4, <1>5, <1>7, <1>19
  <2> QED
    BY <1>8, <1>19, <2>1
<1>22. Absorb(context, piece) = [digest |-> d[N], transforms |-> M, buffer |-> rest]
  <2>1. context.transforms + N = M
    BY <1>5, <1>7 DEF Matches, T
  <2> QED
    BY <1>12, <2>1 DEF rest
<1>23. d[N] \in CodeDigests
  BY <1>5, <1>13
<1>24. Matches(Absorb(context, piece), all)
  BY <1>18, <1>19, <1>20, <1>21, <1>22, <1>23 DEF Matches, M
<1> QED
  BY <1>24 DEF all

-----------------------------------------------------------------------------
\* The padding of the standard, byte by byte.  (Short is a definition so that
\* the provers do not count to its bound.)
Short(n) == n \in Nat /\ n <= 65535

LEMMA ShortBytes ==
  ASSUME NEW n, Short(n)
  PROVE  /\ (n \div 256 ^ 3) % 256 = 0 /\ (n \div 256 ^ 2) % 256 = 0
         /\ (n \div 256 ^ 1) % 256 = n \div 256 /\ (n \div 256 ^ 0) % 256 = n % 256
         /\ n \div 256 \in Bytes /\ n % 256 \in Bytes /\ n = 256 * (n \div 256) + (n % 256)
<1>1. n \in Nat /\ n <= 65535
  BY DEF Short
<1>2. (n \div 256 ^ 3) % 256 = 0
  BY <1>1
<1>3. (n \div 256 ^ 2) % 256 = 0
  BY <1>1
<1>4. (n \div 256 ^ 1) % 256 = n \div 256
  BY <1>1
<1>5. (n \div 256 ^ 0) % 256 = n % 256
  <2>1. 256 ^ 0 = 1
    OBVIOUS
  <2>2. (n \div 1) % 256 = n % 256
    BY <1>1
  <2> QED
    BY <2>1, <2>2, Zenon
<1>6. n \div 256 \in Bytes
  <2>1. n \div 256 < 256 /\ n \div 256 >= 0 /\ n \div 256 \in Int
    BY <1>1
  <2> QED
    BY <2>1 DEF Bytes
<1>7. n % 256 \in Bytes
  BY <1>1 DEF Bytes
<1>8. n = 256 * (n \div 256) + (n % 256)
  BY <1>1
<1> QED
  BY <1>2, <1>3, <1>4, <1>5, <1>6, <1>7, <1>8

LEMMA LengthAt ==
  ASSUME NEW n, NEW length, length = [i \in 1 .. 4 |-> (n \div 256 ^ (4 - i)) % 256]
  PROVE  /\ length = [i \in 1 .. 4 |-> length[i]]
         /\ length[1] = (n \div 256 ^ 3) % 256 /\ length[2] = (n \div 256 ^ 2) % 256
         /\ length[3] = (n \div 256 ^ 1) % 256 /\ length[4] = (n \div 256 ^ 0) % 256
<1>1. \A i \in 1 .. 4 : length[i] = (n \div 256 ^ (4 - i)) % 256
  OBVIOUS
<1>2. length = [i \in 1 .. 4 |-> length[i]]
  OBVIOUS
<1>3. 4 - 1 = 3 /\ 4 - 2 = 2 /\ 4 - 3 = 1 /\ 4 - 4 = 0
  OBVIOUS
<1>4. 1 \in 1 .. 4 /\ 2 \in 1 .. 4 /\ 3 \in 1 .. 4 /\ 4 \in 1 .. 4
  OBVIOUS
<1>5. /\ length[1] = (n \div 256 ^ (4 - 1)) % 256 /\ length[2] = (n \div 256 ^ (4 - 2)) % 256
      /\ length[3] = (n \div 256 ^ (4 - 3)) % 256 /\ length[4] = (n \div 256 ^ (4 - 4)) % 256
  BY <1>1, <1>4, Zenon
<1> QED
  BY <1>2, <1>3, <1>5, ZenonT(40)

LEMMA LengthBytes ==
  ASSUME NEW n, Short(n), NEW length, length = [i \in 1 .. 4 |-> (n \div 256 ^ (4 - i)) % 256]
  PROVE  /\ length \in Seq(Bytes) /\ Len(length) = 4
         /\ length[1] = 0 /\ length[2] = 0 /\ length[3] = n \div 256 /\ length[4] = n % 256
<1>1. PICK word : word = length
  OBVIOUS
<1>2. word = [i \in 1 .. 4 |-> word[i]]
  BY <1>1, LengthAt, Zenon
<1>3. word[1] = 0 /\ word[2] = 0 /\ word[3] = n \div 256 /\ word[4] = n % 256
  <2>1. /\ length[1] = (n \div 256 ^ 3) % 256 /\ length[2] = (n \div 256 ^ 2) % 256
        /\ length[3] = (n \div 256 ^ 1) % 256 /\ length[4] = (n \div 256 ^ 0) % 256
    BY LengthAt
  <2>2. /\ (n \div 256 ^ 3) % 256 = 0 /\ (n \div 256 ^ 2) % 256 = 0
        /\ (n \div 256 ^ 1) % 256 = n \div 256 /\ (n \div 256 ^ 0) % 256 = n % 256
    BY ShortBytes
  <2> QED
    BY <1>1, <2>1, <2>2, ZenonT(40)
<1>4. ASSUME NEW w, w = [i \in 1 .. 4 |-> w[i]], w[1] \in Bytes, w[2] \in Bytes, w[3] \in Bytes, w[4] \in Bytes
      PROVE  w \in Seq(Bytes) /\ Len(w) = 4
  <2>1. \A i \in 1 .. 4 : i = 1 \/ i = 2 \/ i = 3 \/ i = 4
    OBVIOUS
  <2>2. w \in [1 .. 4 -> Bytes]
    <3>1. \A i \in 1 .. 4 : w[i] \in Bytes
      BY <1>4, <2>1
    <3>2. [i \in 1 .. 4 |-> w[i]] \in [1 .. 4 -> Bytes]
      BY <3>1
    <3> QED
      BY <1>4, <3>2, Zenon
  <2>3. w \in Seq(Bytes)
    BY <2>2, SeqDef
  <2>4. DOMAIN w = 1 .. 4
    BY <2>2
  <2>5. Len(w) = 4
    BY <2>3, <2>4
  <2> QED
    BY <2>3, <2>5
<1>5. 0 \in Bytes /\ n \div 256 \in Bytes /\ n % 256 \in Bytes
  <2>1. 0 \in Bytes
    BY SMT DEF Bytes
  <2> QED
    BY <2>1, ShortBytes, ZenonT(40)
<1>6. word \in Seq(Bytes) /\ Len(word) = 4
  BY <1>2, <1>3, <1>4, <1>5, Zenon
<1> QED
  BY <1>1, <1>3, <1>6, Zenon

\* What two sequences one after the other have at each place.
Joins(u, s, m, t, n) ==
  /\ u \in Seq(Bytes) /\ Len(u) = m + n
  /\ \A j \in 1 .. m : u[j] = s[j]
  /\ \A j \in 1 .. n : u[m + j] = t[j]

LEMMA Joined ==
  ASSUME NEW s \in Seq(Bytes), NEW t \in Seq(Bytes), NEW m \in Nat, NEW n \in Nat,
         Len(s) = m, Len(t) = n, NEW u, u = s \o t
  PROVE  Joins(u, s, m, t, n)
<1>1. u \in Seq(Bytes)
  BY ConcatProperties
<1>2. Len(u) = m + n
  BY ConcatProperties
<1>3. \A i \in 1 .. m + n : u[i] = IF i <= m THEN s[i] ELSE t[i - m]
  BY ConcatProperties
<1>4. ASSUME NEW j \in 1 .. m PROVE u[j] = s[j]
  <2>1. j \in 1 .. m + n /\ j <= m
    OBVIOUS
  <2> QED
    BY <1>3, <2>1
<1>5. ASSUME NEW j \in 1 .. n PROVE u[m + j] = t[j]
  <2>1. m + j \in 1 .. m + n /\ ~ m + j <= m /\ (m + j) - m = j
    OBVIOUS
  <2> QED
    BY <1>3, <2>1
<1> QED
  BY <1>1, <1>2, <1>4, <1>5 DEF Joins

PadShaped(padded, message, L, S, length) ==
  /\ padded \in Seq(Bytes)
  /\ Len(padded) = S + 4
  /\ \A j \in 1 .. L : padded[j] = message[j]
  /\ padded[L + 1] = 128
  /\ \A j \in L + 2 .. S : padded[j] = 0
  /\ \A i \in 1 .. 4 : padded[S + i] = length[i]

LEMMA PadShape ==
  ASSUME NEW message \in Seq(Bytes), NEW L \in Nat, Len(message) = L, NEW z \in Nat,
         NEW zeros, zeros = [i \in 1 .. z |-> 0], NEW length \in Seq(Bytes), Len(length) = 4,
         NEW padded, padded = message \o << 128 >> \o zeros \o length,
         NEW S \in Nat, S = L + 1 + z
  PROVE  PadShaped(padded, message, L, S, length)
<1>1. 0 \in Bytes /\ 128 \in Bytes
  BY DEF Bytes
<1>2. zeros \in Seq(Bytes) /\ Len(zeros) = z /\ \A i \in 1 .. z : zeros[i] = 0
  BY <1>1
<1>3. PICK mark : mark = << 128 >>
  OBVIOUS
<1>4. mark \in Seq(Bytes) /\ Len(mark) = 1 /\ mark[1] = 128
  BY <1>1, <1>3
<1>5. PICK one : one = message \o mark
  OBVIOUS
<1>6. /\ one \in Seq(Bytes) /\ Len(one) = L + 1
      /\ \A j \in 1 .. L : one[j] = message[j]
      /\ \A j \in 1 .. 1 : one[L + j] = mark[j]
  <2>1. L \in Nat /\ 1 \in Nat
    OBVIOUS
  <2>2. Joins(one, message, L, mark, 1)
    BY <1>4, <1>5, <2>1, Joined, ZenonT(40)
  <2> QED
    BY <2>2, Zenon DEF Joins
<1>7. PICK two : two = one \o zeros
  OBVIOUS
<1>8. L + 1 \in Nat /\ (L + 1) + z = S
  OBVIOUS
<1>9. /\ two \in Seq(Bytes) /\ Len(two) = (L + 1) + z
      /\ \A j \in 1 .. L + 1 : two[j] = one[j]
      /\ \A j \in 1 .. z : two[(L + 1) + j] = zeros[j]
  <2>1. Joins(two, one, L + 1, zeros, z)
    BY <1>2, <1>6, <1>7, <1>8, Joined, Zenon
  <2> QED
    BY <2>1, Zenon DEF Joins
<1>10. padded = two \o length
  BY <1>3, <1>5, <1>7, Zenon
<1>11. /\ padded \in Seq(Bytes) /\ Len(padded) = S + 4
       /\ \A j \in 1 .. S : padded[j] = two[j]
       /\ \A j \in 1 .. 4 : padded[S + j] = length[j]
  <2>1. Len(two) = S /\ 4 \in Nat
    BY <1>8, <1>9
  <2>2. Joins(padded, two, S, length, 4)
    BY <1>9, <1>10, <2>1, Joined, Zenon
  <2> QED
    BY <2>2, Zenon DEF Joins
<1>12. ASSUME NEW j \in 1 .. L PROVE padded[j] = message[j]
  <2>1. j \in 1 .. L + 1 /\ j \in 1 .. S
    BY <1>8
  <2>2. one[j] = message[j]
    BY <1>6
  <2>3. two[j] = one[j]
    BY <1>9, <2>1
  <2> QED
    BY <1>11, <2>1, <2>2, <2>3
<1>13. padded[L + 1] = 128
  <2>1. L + 1 \in 1 .. L + 1 /\ L + 1 \in 1 .. S /\ 1 \in 1 .. 1
    BY <1>8
  <2>2. one[L + 1] = mark[1]
    BY <1>6, <2>1
  <2>3. two[L + 1] = one[L + 1]
    BY <1>9, <2>1
  <2> QED
    BY <1>4, <1>11, <2>1, <2>2, <2>3
<1>14. ASSUME NEW j \in L + 2 .. S PROVE padded[j] = 0
  <2>1. PICK k \in 1 .. z : j = (L + 1) + k
    BY <1>8
  <2>2. j \in 1 .. S
    BY <1>8
  <2>3. two[(L + 1) + k] = zeros[k]
    BY <1>9
  <2> QED
    BY <1>2, <1>11, <2>1, <2>2, <2>3
<1> QED
  BY <1>11, <1>12, <1>13, <1>14 DEF PadShaped

\* How long the padding is.
PadsTo(z, L, T) ==
  /\ z \in Nat
  /\ L - 64 * T <= 55 => L + 1 + (z + 4) + 4 = 64 * T + 64
  /\ ~ L - 64 * T <= 55 => L + 1 + (z + 4) + 4 = 64 * T + 128

LEMMA PadLength ==
  ASSUME NEW L \in Nat, NEW T \in Nat, 64 * T <= L, L < 64 * T + 64,
         NEW z, z = (119 - (L % 64)) % 64
  PROVE  PadsTo(z, L, T)
<1>1. PICK r \in Nat : r <= 63 /\ L = 64 * T + r
  <2>1. L - 64 * T \in Nat /\ L - 64 * T <= 63 /\ L = 64 * T + (L - 64 * T)
    OBVIOUS
  <2> QED
    BY <2>1
<1>2. L % 64 = r
  BY <1>1
<1>3. z = (119 - r) % 64
  BY <1>2
<1>4. CASE r <= 55
  <2>1. z = 55 - r
    BY <1>1, <1>3, <1>4
  <2> QED
    BY <1>1, <1>4, <2>1 DEF PadsTo
<1>5. CASE r >= 56
  <2>1. z = 119 - r
    BY <1>1, <1>3, <1>5
  <2> QED
    BY <1>1, <1>5, <2>1 DEF PadsTo
<1> QED
  BY <1>1, <1>4, <1>5 DEF PadsTo

\* The message, its last block and its length.
PadShows(padded, message, L, size) ==
  /\ padded \in Seq(Bytes)
  /\ Len(padded) = size
  /\ \A j \in 1 .. L : padded[j] = message[j]
  /\ padded[L + 1] = 128
  /\ \A j \in L + 2 .. size - 2 : padded[j] = 0
  /\ padded[size - 1] = (8 * L) \div 256
  /\ padded[size] = (8 * L) % 256

LEMMA PadBytes ==
  ASSUME NEW message \in Seq(Bytes), NEW L, L = Len(message), Short(8 * L),
         NEW T, T = FullBlocks(message), NEW padded, padded = Standard!Pad(message),
         NEW size, size = IF L - 64 * T <= 55 THEN 64 * T + 64 ELSE 64 * T + 128
  PROVE  PadShows(padded, message, L, size)
<1>1. L \in Nat /\ T \in Nat /\ 64 * T <= L /\ L < 64 * T + 64
  BY BlocksNatural
<1>2. PICK z : z = (119 - (L % 64)) % 64
  OBVIOUS
<1>3. PICK S : S = L + 1 + (z + 4)
  OBVIOUS
<1>4. z \in Nat /\ size = S + 4
  <2>1. PadsTo(z, L, T)
    BY <1>1, <1>2, PadLength, Zenon
  <2> QED
    BY <1>3, <2>1, Zenon DEF PadsTo
<1>5. ASSUME NEW a \in Nat, NEW b \in Nat PROVE b + 4 \in Nat /\ a + 1 + (b + 4) \in Nat
  OBVIOUS
<1>6. S \in Nat /\ z + 4 \in Nat
  BY <1>1, <1>3, <1>4, <1>5, Zenon
<1>7. PICK zeros : zeros = [i \in 1 .. z + 4 |-> 0]
  OBVIOUS
<1>8. PICK length : length = [i \in 1 .. 4 |-> ((8 * L) \div 256 ^ (4 - i)) % 256]
  OBVIOUS
<1>9. padded = message \o << 128 >> \o zeros \o length
  BY <1>2, <1>7, <1>8 DEF Standard!Pad
<1>10. PICK n : n = 8 * L
  OBVIOUS
<1>11. /\ length \in Seq(Bytes) /\ Len(length) = 4
       /\ length[1] = 0 /\ length[2] = 0 /\ length[3] = n \div 256 /\ length[4] = n % 256
  <2>1. Short(n)
    BY <1>10
  <2>2. length = [i \in 1 .. 4 |-> (n \div 256 ^ (4 - i)) % 256]
    BY <1>8, <1>10, Zenon
  <2> QED
    BY <2>1, <2>2, LengthBytes
<1>12. /\ padded \in Seq(Bytes)
       /\ Len(padded) = S + 4
       /\ \A j \in 1 .. L : padded[j] = message[j]
       /\ padded[L + 1] = 128
       /\ \A j \in L + 2 .. S : padded[j] = 0
       /\ \A i \in 1 .. 4 : padded[S + i] = length[i]
  <2>1. PadShaped(padded, message, L, S, length)
    BY <1>1, <1>3, <1>6, <1>7, <1>9, <1>11, PadShape, Zenon
  <2> QED
    BY <2>1, Zenon DEF PadShaped
<1>13. /\ padded[S + 1] = 0 /\ padded[S + 2] = 0
       /\ padded[S + 3] = n \div 256 /\ padded[S + 4] = n % 256
  <2>1. 1 \in 1 .. 4 /\ 2 \in 1 .. 4 /\ 3 \in 1 .. 4 /\ 4 \in 1 .. 4
    OBVIOUS
  <2> QED
    BY <1>11, <1>12, <2>1, Zenon
<1>14. ASSUME NEW a \in Nat, NEW s \in Nat
      PROVE  /\ (s + 4) - 1 = s + 3
             /\ \A j \in a + 2 .. (s + 4) - 2 : j \in a + 2 .. s \/ j = s + 1 \/ j = s + 2
  OBVIOUS
<1>15. ASSUME NEW j \in L + 2 .. size - 2 PROVE padded[j] = 0
  BY <1>1, <1>4, <1>6, <1>12, <1>13, <1>14, Zenon
<1>16. size - 1 = S + 3
  BY <1>1, <1>4, <1>6, <1>14, Zenon
<1> QED
  BY <1>4, <1>10, <1>12, <1>13, <1>15, <1>16, Zenon DEF PadShows

LEMMA ShiftNothing ==
  /\ \A k : ShiftLeft({}, k) = {}
  /\ \A a : a \subseteq Nat => ShiftLeft(a, 0) = a
<1>1. ASSUME NEW k PROVE ShiftLeft({}, k) = {}
  BY DEF ShiftLeft
<1>2. ASSUME NEW a, a \subseteq Nat PROVE ShiftLeft(a, 0) = a
  <2>1. \A b \in a : b + 0 = b
    BY <1>2
  <2> QED
    BY <2>1, Zenon DEF ShiftLeft
<1> QED
  BY <1>1, <1>2

\* A word of the length: its bytes are put together as any other's are.
LEMMA LengthWords ==
  ASSUME NEW bytes, NEW n, Short(n),
         \A j \in 57 .. 62 : bytes[j] = 0, bytes[63] = n \div 256, bytes[64] = n % 256
  PROVE  WordAt(bytes, 15) = {} /\ WordAt(bytes, 16) = BitsOf(n)
<1>1. WordAt(bytes, 15) = {}
  <2>1. ASSUME NEW j \in 0 .. 3 PROVE ShiftLeft(BitsOf(bytes[4 * 15 - 3 + j]), 8 * (3 - j)) = {}
    <3>1. 4 * 15 - 3 + j \in 57 .. 62
      OBVIOUS
    <3>2. bytes[4 * 15 - 3 + j] = 0
      BY <3>1, Zenon
    <3> QED
      BY <3>2, NoBits, ShiftNothing, Zenon
  <2> QED
    BY <2>1, Zenon DEF WordAt
<1>2. PICK part : part = [j \in 0 .. 3 |-> ShiftLeft(BitsOf(bytes[4 * 16 - 3 + j]), 8 * (3 - j))]
  OBVIOUS
<1>3. WordAt(bytes, 16) = part[0] \cup part[1] \cup part[2] \cup part[3]
  <2>1. WordAt(bytes, 16) = UNION {part[j] : j \in 0 .. 3}
    BY <1>2, Zenon DEF WordAt
  <2>2. \A j : j \in 0 .. 3 <=> j = 0 \/ j = 1 \/ j = 2 \/ j = 3
    OBVIOUS
  <2>3. ASSUME NEW x
        PROVE  x \in UNION {part[j] : j \in 0 .. 3} <=> x \in part[0] \cup part[1] \cup part[2] \cup part[3]
    <3>1. x \in UNION {part[j] : j \in 0 .. 3} <=> \E j \in 0 .. 3 : x \in part[j]
      BY ZenonT(40)
    <3>2. (\E j \in 0 .. 3 : x \in part[j]) <=> x \in part[0] \/ x \in part[1] \/ x \in part[2] \/ x \in part[3]
      BY <2>2, ZenonT(40)
    <3> QED
      BY <3>1, <3>2, Zenon
  <2> QED
    BY <2>1, <2>3, Zenon
<1>4. part[0] = {} /\ part[1] = {}
  <2>1. 4 * 16 - 3 + 0 = 61 /\ 4 * 16 - 3 + 1 = 62 /\ 0 \in 0 .. 3 /\ 1 \in 0 .. 3
    OBVIOUS
  <2>2. bytes[61] = 0 /\ bytes[62] = 0
    OBVIOUS
  <2>3. part[0] = ShiftLeft(BitsOf(bytes[61]), 8 * (3 - 0)) /\ part[1] = ShiftLeft(BitsOf(bytes[62]), 8 * (3 - 1))
    BY <1>2, <2>1, Zenon
  <2>4. BitsOf(bytes[61]) = {} /\ BitsOf(bytes[62]) = {}
    BY <2>2, NoBits, Zenon
  <2>5. part[0] = ShiftLeft({}, 8 * (3 - 0)) /\ part[1] = ShiftLeft({}, 8 * (3 - 1))
    BY <2>3, <2>4, Zenon
  <2> QED
    BY <2>5, ShiftNothing, Zenon
<1>5. part[2] = ShiftLeft(BitsOf(n \div 256), 8) /\ part[3] = ShiftLeft(BitsOf(n % 256), 0)
  <2>1. /\ 4 * 16 - 3 + 2 = 63 /\ 4 * 16 - 3 + 3 = 64 /\ 2 \in 0 .. 3 /\ 3 \in 0 .. 3
        /\ 8 * (3 - 2) = 8 /\ 8 * (3 - 3) = 0
    OBVIOUS
  <2> QED
    BY <1>2, <2>1, Zenon
<1>6. part[3] = BitsOf(n % 256)
  <2>1. BitsOf(n % 256) \subseteq Nat
    BY DEF BitsOf
  <2> QED
    BY <1>5, <2>1, ShiftNothing, ZenonT(40)
<1>7. n \div 256 \in Bytes /\ n % 256 \in Bytes /\ n = 256 * (n \div 256) + (n % 256)
  BY ShortBytes
<1>8. BitsOf(n) = ShiftLeft(BitsOf(n \div 256), 8) \cup BitsOf(n % 256)
  <2>1. BitsOf(256 * (n \div 256) + (n % 256)) = ShiftLeft(BitsOf(n \div 256), 8) \cup BitsOf(n % 256)
    <3>1. PICK h : h = n \div 256
      OBVIOUS
    <3>2. PICK l : l = n % 256
      OBVIOUS
    <3>3. h \in Bytes /\ l \in Bytes
      BY <1>7, <3>1, <3>2, Zenon
    <3>4. BitsOf(256 * h + l) = ShiftLeft(BitsOf(h), 8) \cup BitsOf(l)
      BY <3>3, BitsOfBytes, Zenon
    <3> QED
      BY <3>1, <3>2, <3>4, Zenon
  <2> QED
    BY <1>7, <2>1, Zenon
<1> QED
  <2>1. WordAt(bytes, 16) = {} \cup {} \cup ShiftLeft(BitsOf(n \div 256), 8) \cup BitsOf(n % 256)
    BY <1>3, <1>4, <1>5, <1>6, Zenon
  <2>2. WordAt(bytes, 16) = ShiftLeft(BitsOf(n \div 256), 8) \cup BitsOf(n % 256)
    BY <2>1, ZenonT(40)
  <2> QED
    BY <1>1, <1>8, <2>2, Zenon

\* What the last words of a block hold is the length.
LEMMA LengthBlock ==
  ASSUME NEW block \in [0 .. 15 -> CodeWords], NEW bytes \in Seq(Bytes), Len(bytes) = 64,
         \A k \in 1 .. 14 : Lower(block[k - 1]) = WordAt(bytes, k),
         NEW n, Short(n),
         \A j \in 57 .. 62 : bytes[j] = 0, bytes[63] = n \div 256, bytes[64] = n % 256
  PROVE  SameBlock([block EXCEPT ![14] = {}, ![15] = BitsOf(n)], bytes)
<1>1. PICK last : last = [block EXCEPT ![14] = {}, ![15] = BitsOf(n)]
  OBVIOUS
<1>2. {} \in CodeWords /\ BitsOf(n) \in CodeWords
  <2>1. BitsOf(n) \subseteq 0 .. 15
    BY Zenon DEF BitsOf
  <2>2. 0 .. 15 \subseteq 0 .. WordBits - 1
    BY WordSizes
  <2>3. BitsOf(n) \subseteq 0 .. WordBits - 1
    BY <2>1, <2>2, Zenon
  <2> QED
    BY <2>3, Zenon DEF CodeWords
<1>3. last \in [0 .. 15 -> CodeWords]
  BY <1>1, <1>2, Zenon
<1>4. last[14] = {} /\ last[15] = BitsOf(n) /\ \A k \in 1 .. 14 : last[k - 1] = block[k - 1]
  <2>1. ASSUME NEW k \in 1 .. 14 PROVE k - 1 \in 0 .. 15 /\ k - 1 # 14 /\ k - 1 # 15
    OBVIOUS
  <2>2. 14 \in 0 .. 15 /\ 15 \in 0 .. 15 /\ 14 # 15
    OBVIOUS
  <2> QED
    BY <1>1, <2>1, <2>2, ZenonT(40)
<1>5. Lower({}) = {} /\ Lower(BitsOf(n)) = BitsOf(n)
  BY SMTT(30) DEF Lower, Low, BitsOf
<1>6. WordAt(bytes, 15) = {} /\ WordAt(bytes, 16) = BitsOf(n)
  BY LengthWords, ZenonT(40)
<1>7. ASSUME NEW k \in 1 .. 16 PROVE Lower(last[k - 1]) = WordAt(bytes, k)
  <2>1. k \in 1 .. 14 \/ (k = 15 /\ k - 1 = 14) \/ (k = 16 /\ k - 1 = 15)
    OBVIOUS
  <2> QED
    BY <1>4, <1>5, <1>6, <2>1, Zenon
<1>8. ASSUME NEW k \in 1 .. 16
      PROVE  Lower(last[k - 1]) = Standard!BigEndian(SubSeq(bytes, 4 * k - 3, 4 * k))
  BY <1>7, BigEndianIsWordAt, Zenon
<1> QED
  BY <1>1, <1>3, <1>8, Zenon DEF SameBlock

IsBlockAt(block, bytes, i) ==
  /\ block \in Seq(Bytes) /\ Len(block) = 64
  /\ \A j \in 1 .. 64 : block[j] = bytes[64 * i + j]

LEMMA BlockAt ==
  ASSUME NEW bytes \in Seq(Bytes), NEW size, Len(bytes) = size, NEW i \in Nat, 64 * i + 64 <= size
  PROVE  IsBlockAt(NthBlock(bytes, i + 1), bytes, i)
<1>1. PICK block : block = SubSeq(bytes, 64 * i + 1, 64 * i + 64)
  OBVIOUS
<1>2. block = NthBlock(bytes, i + 1)
  <2>1. 64 * (i + 1) - 63 = 64 * i + 1 /\ 64 * (i + 1) = 64 * i + 64
    OBVIOUS
  <2> QED
    BY <1>1, <2>1, Zenon DEF NthBlock
<1>3. /\ 64 * i + 1 \in Nat \ {0} /\ 64 \in Nat /\ 64 * i + 64 \in Int
      /\ 64 * i + 64 = (64 * i + 1) + 64 - 1 /\ 64 * i + 64 <= Len(bytes)
  OBVIOUS
<1>4. /\ block \in Seq(Bytes)
      /\ Len(block) = 64
      /\ \A j \in 1 .. 64 : block[j] = bytes[(64 * i + 1) + j - 1]
  BY <1>1, <1>3, Part
<1>5. ASSUME NEW j \in 1 .. 64 PROVE block[j] = bytes[64 * i + j]
  <2>1. (64 * i + 1) + j - 1 = 64 * i + j
    OBVIOUS
  <2> QED
    BY <1>4, <2>1, Zenon
<1> QED
  BY <1>2, <1>4, <1>5, Zenon DEF IsBlockAt

\* final()'s buffer, filled up.
IsFull(full, held, r) ==
  /\ full \in Seq(Bytes) /\ Len(full) = 64
  /\ \A j \in 1 .. r : full[j] = held[j]
  /\ full[r + 1] = 128
  /\ \A j \in r + 2 .. 64 : full[j] = 0

LEMMA FullBuffer ==
  ASSUME NEW held \in Seq(Bytes), NEW r \in Nat, Len(held) = r, r <= 63
  PROVE  IsFull(held \o << 128 >> \o [i \in 1 .. 64 - (r + 1) |-> 0], held, r)
<1>1. PICK z \in Nat : z = 64 - (r + 1)
  OBVIOUS
<1>2. PICK zeros : zeros = [i \in 1 .. z |-> 0]
  OBVIOUS
<1>3. zeros \in Seq(Bytes) /\ Len(zeros) = z /\ \A i \in 1 .. z : zeros[i] = 0
  BY <1>2 DEF Bytes
<1>4. PICK mark : mark = << 128 >>
  OBVIOUS
<1>5. mark \in Seq(Bytes) /\ Len(mark) = 1 /\ mark[1] = 128
  BY <1>4 DEF Bytes
<1>6. PICK one : one = held \o mark
  OBVIOUS
<1>7. Joins(one, held, r, mark, 1)
  <2>1. 1 \in Nat
    OBVIOUS
  <2>2. ASSUME NEW s \in Seq(Bytes), Len(s) = r, NEW t \in Seq(Bytes), Len(t) = 1
        PROVE  Joins(s \o t, s, r, t, 1)
    BY <2>1, <2>2, Joined, Zenon
  <2> QED
    BY <1>5, <1>6, <2>2, Zenon
<1>8. PICK full : full = one \o zeros
  OBVIOUS
<1>9. Joins(full, one, r + 1, zeros, z)
  <2>1. r + 1 \in Nat
    OBVIOUS
  <2>2. one \in Seq(Bytes) /\ Len(one) = r + 1
    BY <1>7, Zenon DEF Joins
  <2> QED
    BY <1>3, <1>8, <2>1, <2>2, Joined, Zenon
<1>10. (r + 1) + z = 64
  BY <1>1
<1>11. ASSUME NEW j \in 1 .. r PROVE full[j] = held[j]
  <2>1. j \in 1 .. r + 1
    OBVIOUS
  <2> QED
    BY <1>7, <1>9, <2>1, Zenon DEF Joins
<1>12. full[r + 1] = 128
  <2>1. r + 1 \in 1 .. r + 1 /\ 1 \in 1 .. 1
    OBVIOUS
  <2> QED
    BY <1>5, <1>7, <1>9, <2>1, ZenonT(40) DEF Joins
<1>13. ASSUME NEW j \in r + 2 .. 64 PROVE full[j] = 0
  <2>1. PICK k \in 1 .. z : j = (r + 1) + k
    <3>1. j - (r + 1) \in 1 .. z /\ j = (r + 1) + (j - (r + 1))
      BY <1>10
    <3> QED
      BY <3>1, Zenon
  <2> QED
    BY <1>3, <1>9, <2>1, Zenon DEF Joins
<1>14. full = held \o << 128 >> \o [i \in 1 .. 64 - (r + 1) |-> 0]
  BY <1>1, <1>2, <1>4, <1>6, <1>8, Zenon
<1>15. IsFull(full, held, r)
  BY <1>9, <1>10, <1>11, <1>12, <1>13, Zenon DEF IsFull, Joins
<1> QED
  BY <1>14, <1>15, Zenon

LEMMA SameWord ==
  ASSUME NEW x, NEW y, NEW k \in 1 .. 16, \A j \in 4 * k - 3 .. 4 * k : x[j] = y[j]
  PROVE  WordAt(x, k) = WordAt(y, k)
<1>1. ASSUME NEW j \in 0 .. 3 PROVE x[4 * k - 3 + j] = y[4 * k - 3 + j]
  <2>1. 4 * k - 3 + j \in 4 * k - 3 .. 4 * k
    OBVIOUS
  <2> QED
    BY <2>1, Zenon
<1> QED
  BY <1>1, Zenon DEF WordAt

LEMMA BytesOfSequence ==
  ASSUME NEW x \in Seq(Bytes), Len(x) = 64
  PROVE  \A j \in 1 .. 64 : x[j] \in Bytes
BY ElementOfSeq, Zenon

LEMMA SameSequence ==
  ASSUME NEW x \in Seq(Bytes), Len(x) = 64, NEW y \in Seq(Bytes), Len(y) = 64,
         \A j \in 1 .. 64 : x[j] = y[j]
  PROVE  x = y
<1>1. Len(x) = Len(y) /\ \A i \in 1 .. Len(x) : x[i] = y[i]
  BY Zenon
<1> QED
  BY <1>1, SeqEqual

\* What remains of a message after its first blocks.
Remains(held, message, L, T, r) ==
  /\ L = 64 * T + r
  /\ \A j \in 1 .. r : held[j] = message[64 * T + j]

AgreeUpTo(x, y, m) == \A j \in 1 .. m : x[j] = y[j]

\* The bytes after the message are the standard's, up to the length.
LEMMA BlockIsFull ==
  ASSUME NEW message, NEW L \in Nat, NEW T \in Nat, NEW r \in Nat, r <= 63,
         NEW held, Remains(held, message, L, T, r),
         NEW P, NEW size \in Nat, PadShows(P, message, L, size), NEW B, IsBlockAt(B, P, T),
         NEW full, IsFull(full, held, r),
         NEW m \in Nat, m <= 64, 64 * T + m <= size - 2
  PROVE  AgreeUpTo(B, full, m)
<1> SUFFICES ASSUME NEW j \in 1 .. m PROVE B[j] = full[j]
  BY Zenon DEF AgreeUpTo
<1>1. PICK p : p = 64 * T + j
  OBVIOUS
<1>2. B[j] = P[p]
  <2>1. j \in 1 .. 64
    OBVIOUS
  <2> QED
    BY <1>1, <2>1, Zenon DEF IsBlockAt
<1>3. \/ j \in 1 .. r /\ p \in 1 .. L
      \/ j = r + 1 /\ p = L + 1
      \/ j \in r + 2 .. 64 /\ p \in L + 2 .. size - 2
  <2>1. L = 64 * T + r
    BY Zenon DEF Remains
  <2> QED
    BY <1>1, <2>1
<1>4. CASE j \in 1 .. r /\ p \in 1 .. L
  <2>1. P[p] = message[p]
    BY <1>4, Zenon DEF PadShows
  <2>2. full[j] = held[j]
    BY <1>4, Zenon DEF IsFull
  <2>3. held[j] = message[p]
    BY <1>1, <1>4, Zenon DEF Remains
  <2> QED
    BY <1>2, <2>1, <2>2, <2>3, Zenon
<1>5. CASE j = r + 1 /\ p = L + 1
  BY <1>2, <1>5, Zenon DEF PadShows, IsFull
<1>6. CASE j \in r + 2 .. 64 /\ p \in L + 2 .. size - 2
  BY <1>2, <1>6, ZenonT(40) DEF PadShows, IsFull
<1> QED
  BY <1>3, <1>4, <1>5, <1>6, Zenon

\* There is room for the length: the block that final() fills up is the last.
LEMMA OneMoreBlock ==
  ASSUME NEW message, NEW L \in Nat, NEW T \in Nat, NEW r \in Nat, r <= 55,
         NEW n, n = 8 * L, Short(n),
         NEW held, Remains(held, message, L, T, r),
         NEW P, PadShows(P, message, L, 64 * T + 64), NEW B, IsBlockAt(B, P, T),
         NEW full, IsFull(full, held, r)
  PROVE  SameBlock([BufferToBlock(full) EXCEPT ![14] = {}, ![15] = BitsOf(n)], B)
<1>1. /\ 64 * T + 64 \in Nat /\ 62 \in Nat /\ 62 <= 64 /\ 64 * T + 62 <= (64 * T + 64) - 2
      /\ r <= 63
  OBVIOUS
<1>2. \A j \in 1 .. 62 : B[j] = full[j]
  <2>1. AgreeUpTo(B, full, 62)
    BY <1>1, BlockIsFull, ZenonT(40)
  <2> QED
    BY <2>1, Zenon DEF AgreeUpTo
<1>3. \A j \in 57 .. 62 : B[j] = 0
  <2>1. \A j \in 57 .. 62 : j \in r + 2 .. 64 /\ j \in 1 .. 62
    OBVIOUS
  <2> QED
    BY <1>2, <2>1, ZenonT(40) DEF IsFull
<1>4. B[63] = n \div 256 /\ B[64] = n % 256
  <2>1. 63 \in 1 .. 64 /\ 64 \in 1 .. 64 /\ 64 * T + 63 = (64 * T + 64) - 1
    OBVIOUS
  <2>2. B[63] = P[64 * T + 63] /\ B[64] = P[64 * T + 64]
    BY <2>1, Zenon DEF IsBlockAt
  <2>3. P[(64 * T + 64) - 1] = (8 * L) \div 256 /\ P[64 * T + 64] = (8 * L) % 256
    BY Zenon DEF PadShows
  <2> QED
    BY <2>1, <2>2, <2>3, Zenon
<1>5. B \in Seq(Bytes) /\ Len(B) = 64
  BY Zenon DEF IsBlockAt
<1>6. \A j \in 1 .. 64 : full[j] \in Bytes
  <2>1. full \in Seq(Bytes) /\ Len(full) = 64
    BY Zenon DEF IsFull
  <2> QED
    BY <2>1, BytesOfSequence, Zenon
<1>7. PICK block : block = BufferToBlock(full)
  OBVIOUS
<1>8. block \in [0 .. 15 -> CodeWords] /\ \A k \in 1 .. 16 : Lower(block[k - 1]) = WordAt(full, k)
  BY <1>6, <1>7, BufferLower, Zenon
<1>9. ASSUME NEW k \in 1 .. 14 PROVE Lower(block[k - 1]) = WordAt(B, k)
  <2>1. k \in 1 .. 16 /\ \A j \in 4 * k - 3 .. 4 * k : j \in 1 .. 62
    OBVIOUS
  <2>2. WordAt(B, k) = WordAt(full, k)
    BY <1>2, <2>1, SameWord, Zenon
  <2> QED
    BY <1>8, <2>1, <2>2, Zenon
<1>10. SameBlock([block EXCEPT ![14] = {}, ![15] = BitsOf(n)], B)
  BY <1>3, <1>4, <1>5, <1>8, <1>9, LengthBlock, Zenon
<1> QED
  BY <1>7, <1>10, Zenon

\* There is none: the block is one of the standard's, and the length has one
\* of its own.
LEMMA TwoMoreBlocks ==
  ASSUME NEW message, NEW L \in Nat, NEW T \in Nat, NEW r \in Nat, r <= 63,
         NEW n, n = 8 * L, Short(n),
         NEW held, Remains(held, message, L, T, r),
         NEW P, PadShows(P, message, L, 64 * T + 128),
         NEW B, IsBlockAt(B, P, T), NEW C, IsBlockAt(C, P, T + 1),
         NEW full, IsFull(full, held, r)
  PROVE  /\ SameBlock(BufferToBlock(full), B)
         /\ SameBlock([[i \in 0 .. 15 |-> {}] EXCEPT ![14] = {}, ![15] = BitsOf(n)], C)
<1>1. /\ 64 * T + 128 \in Nat /\ 64 \in Nat /\ 64 <= 64 /\ 64 * T + 64 <= (64 * T + 128) - 2
  OBVIOUS
<1>2. \A j \in 1 .. 64 : B[j] = full[j]
  <2>1. AgreeUpTo(B, full, 64)
    BY <1>1, BlockIsFull, ZenonT(40)
  <2> QED
    BY <2>1, Zenon DEF AgreeUpTo
<1>3. full \in Seq(Bytes) /\ Len(full) = 64 /\ B \in Seq(Bytes) /\ Len(B) = 64
  BY Zenon DEF IsFull, IsBlockAt
<1>4. B = full
  BY <1>2, <1>3, SameSequence, Zenon
<1>5. SameBlock(BufferToBlock(full), B)
  BY <1>3, <1>4, BufferIsBlock, Zenon
<1>6. C \in Seq(Bytes) /\ Len(C) = 64
  BY Zenon DEF IsBlockAt
<1>7. ASSUME NEW j \in 1 .. 62 PROVE C[j] = 0
  <2>1. L = 64 * T + r
    BY Zenon DEF Remains
  <2>2. j \in 1 .. 64 /\ 64 * (T + 1) + j \in L + 2 .. (64 * T + 128) - 2
    BY <2>1
  <2> QED
    BY <2>2, ZenonT(40) DEF IsBlockAt, PadShows
<1>8. C[63] = n \div 256 /\ C[64] = n % 256
  <2>1. /\ 63 \in 1 .. 64 /\ 64 \in 1 .. 64 /\ 64 * (T + 1) + 63 = (64 * T + 128) - 1
        /\ 64 * (T + 1) + 64 = 64 * T + 128
    OBVIOUS
  <2>2. C[63] = P[64 * (T + 1) + 63] /\ C[64] = P[64 * (T + 1) + 64]
    BY <2>1, Zenon DEF IsBlockAt
  <2>3. P[(64 * T + 128) - 1] = (8 * L) \div 256 /\ P[64 * T + 128] = (8 * L) % 256
    BY Zenon DEF PadShows
  <2> QED
    BY <2>1, <2>2, <2>3, Zenon
<1>9. PICK none : none = [i \in 0 .. 15 |-> {}]
  OBVIOUS
<1>10. none \in [0 .. 15 -> CodeWords]
  <2>1. {} \in CodeWords
    BY Zenon DEF CodeWords
  <2> QED
    BY <1>9, <2>1, Zenon
<1>11. ASSUME NEW k \in 1 .. 14 PROVE Lower(none[k - 1]) = WordAt(C, k)
  <2>1. k - 1 \in 0 .. 15 /\ \A j \in 0 .. 3 : 4 * k - 3 + j \in 1 .. 62
    OBVIOUS
  <2>2. ASSUME NEW j \in 0 .. 3 PROVE ShiftLeft(BitsOf(C[4 * k - 3 + j]), 8 * (3 - j)) = {}
    <3>1. C[4 * k - 3 + j] = 0
      BY <1>7, <2>1, Zenon
    <3> QED
      BY <3>1, NoBits, ShiftNothing, Zenon
  <2>3. WordAt(C, k) = {}
    BY <2>2, Zenon DEF WordAt
  <2>4. Lower(none[k - 1]) = {}
    <3>1. none[k - 1] = {}
      BY <1>9, <2>1, Zenon
    <3> QED
      BY <3>1, Zenon DEF Lower, Low
  <2> QED
    BY <2>3, <2>4, Zenon
<1>12. \A j \in 57 .. 62 : C[j] = 0
  <2>1. \A j \in 57 .. 62 : j \in 1 .. 62
    OBVIOUS
  <2> QED
    BY <1>7, <2>1, Zenon
<1>13. SameBlock([none EXCEPT ![14] = {}, ![15] = BitsOf(n)], C)
  BY <1>6, <1>8, <1>10, <1>11, <1>12, LengthBlock, Zenon
<1> QED
  BY <1>5, <1>9, <1>13, Zenon

LEMMA HashBlocks ==
  ASSUME NEW P \in Seq(Bytes), NEW k \in Nat, Len(P) = 64 * k
  PROVE  FullBlocks(P) = k
BY DEF FullBlocks

\* final() hashes the message and its padding.
LEMMA PaddedIsHash ==
  ASSUME NEW message \in Seq(Bytes), Short(8 * Len(message)), NEW context, Matches(context, message)
  PROVE  LowerAll(Padded(context)) = Standard!Sha1Of(message)
<1>1. PICK L : L = Len(message)
  OBVIOUS
<1>2. PICK T : T = FullBlocks(message)
  OBVIOUS
<1>3. PICK held : held = context.buffer
  OBVIOUS
<1>4. PICK r : r = Len(held)
  OBVIOUS
<1>5. L \in Nat /\ T \in Nat /\ 64 * T <= L /\ L < 64 * T + 64
  BY <1>1, <1>2, BlocksNatural
<1>6. held \in Seq(Bytes) /\ r = L - 64 * T /\ Remains(held, message, L, T, r)
  <2>1. held \in Seq(Bytes) /\ r = L - 64 * T /\ \A j \in 1 .. r : held[j] = message[64 * T + j]
    BY <1>1, <1>2, <1>3, <1>4, Zenon DEF Matches
  <2>2. L = 64 * T + r
    BY <1>5, <2>1
  <2> QED
    BY <2>1, <2>2, Zenon DEF Remains
<1>7. r \in Nat /\ r <= 63
  BY <1>5, <1>6
<1>8. PICK n : n = 8 * L
  OBVIOUS
<1>9. Short(n)
  BY <1>1, <1>8, Zenon
<1>10. PICK P : P = Standard!Pad(message)
  OBVIOUS
<1>11. PICK size : size = IF L - 64 * T <= 55 THEN 64 * T + 64 ELSE 64 * T + 128
  OBVIOUS
<1>12. PadShows(P, message, L, size)
  BY <1>1, <1>2, <1>8, <1>9, <1>10, <1>11, PadBytes, Zenon
<1>13. P \in Seq(Bytes) /\ Len(P) = size
  BY <1>12, Zenon DEF PadShows
<1>14. PICK h : IsHash(h, P) /\ Standard!HashOf(P) = h[FullBlocks(P)]
  BY <1>13, HashStepwise, Zenon
<1>15. Standard!Sha1Of(message) = h[FullBlocks(P)]
  BY <1>10, <1>14, Zenon DEF Standard!Sha1Of
<1>16. PICK digest : digest = context.digest
  OBVIOUS
<1>17. digest \in CodeDigests
  BY <1>16, Zenon DEF Matches
<1>18. ASSUME T <= FullBlocks(P) PROVE h[T] = LowerAll(digest)
  <2>1. PICK g : IsHash(g, message) /\ Standard!HashOf(message) = g[FullBlocks(message)]
    BY HashStepwise, Zenon
  <2>2. T <= FullBlocks(message)
    BY <1>2, <1>5
  <2>3. \A j \in 1 .. 64 * T : P[j] = message[j]
    <3>1. \A j \in 1 .. 64 * T : j \in 1 .. L
      BY <1>5
    <3> QED
      BY <1>12, <3>1, Zenon DEF PadShows
  <2>4. T \in 0 .. T
    BY <1>5
  <2>5. h[T] = g[T]
    <3>1. IsHash(h, P) /\ IsHash(g, message) /\ T \in Nat
      BY <1>5, <1>14, <2>1, Zenon
    <3> QED
      BY <1>13, <1>18, <2>2, <2>3, <2>4, <3>1, HashOfPrefix
  <2> QED
    BY <1>2, <1>16, <2>1, <2>5, Zenon DEF Matches
<1>19. PICK full : full = held \o << 128 >> \o [i \in 1 .. 64 - (r + 1) |-> 0]
  OBVIOUS
<1>20. IsFull(full, held, r)
  <2>1. Len(held) = r
    BY <1>4, Zenon
  <2> QED
    BY <1>6, <1>7, <1>19, <2>1, FullBuffer, Zenon
<1>21. (context.transforms * 64 + Len(context.buffer)) * 8 = n
  <2>1. context.transforms = T /\ Len(context.buffer) = r
    BY <1>2, <1>3, <1>4, Zenon DEF Matches
  <2>2. (T * 64 + r) * 8 = 8 * L
    BY <1>5, <1>6
  <2> QED
    BY <1>8, <2>1, <2>2, Zenon
<1>22. /\ r + 1 > 64 - 8
          => Padded(context) =
               Transform(Transform(digest, BufferToBlock(full)),
                         [[i \in 0 .. 15 |-> {}] EXCEPT ![14] = {}, ![15] = BitsOf(n)])
       /\ ~ r + 1 > 64 - 8
          => Padded(context) = Transform(digest, [BufferToBlock(full) EXCEPT ![14] = {}, ![15] = BitsOf(n)])
  BY <1>3, <1>4, <1>16, <1>19, <1>21, Zenon DEF Padded, BLOCK_BYTES
<1>23. PICK B : B = NthBlock(P, T + 1)
  OBVIOUS
<1>24. CASE r <= 55
  <2>1. size = 64 * T + 64
    BY <1>6, <1>11, <1>24, Zenon
  <2>2. FullBlocks(P) = T + 1 /\ T <= T + 1 /\ T + 1 \in 1 .. T + 1 /\ (T + 1) - 1 = T /\ 64 * T + 64 <= size
    <3>1. T + 1 \in Nat /\ Len(P) = 64 * (T + 1)
      BY <1>5, <1>13, <2>1
    <3>2. FullBlocks(P) = T + 1
      BY <1>13, <3>1, HashBlocks, Zenon
    <3> QED
      BY <1>5, <2>1, <3>2
  <2>3. IsBlockAt(B, P, T)
    BY <1>5, <1>13, <1>23, <2>2, BlockAt, Zenon
  <2>4. PICK block : block = [BufferToBlock(full) EXCEPT ![14] = {}, ![15] = BitsOf(n)]
    OBVIOUS
  <2>5. SameBlock(block, B)
    <3>1. PadShows(P, message, L, 64 * T + 64)
      BY <1>12, <2>1, Zenon
    <3> QED
      BY <1>5, <1>6, <1>7, <1>8, <1>9, <1>20, <1>24, <2>3, <2>4, <3>1, OneMoreBlock, Zenon
  <2>6. LowerAll(Transform(digest, block)) = Standard!Block(h[T], B)
    <3>1. LowerAll(Transform(digest, block)) = Standard!Block(LowerAll(digest), B)
      BY <1>17, <2>5, TransformLower, Zenon
    <3> QED
      BY <1>18, <2>2, <3>1, Zenon
  <2>7. h[T + 1] = Standard!Block(h[T], B)
    BY <1>14, <1>23, <2>2, Zenon DEF IsHash
  <2>8. Padded(context) = Transform(digest, block)
    <3>1. ~ r + 1 > 64 - 8
      BY <1>7, <1>24
    <3> QED
      BY <1>22, <2>4, <3>1, Zenon
  <2> QED
    BY <1>15, <2>2, <2>6, <2>7, <2>8, Zenon
<1>25. CASE r >= 56
  <2>1. size = 64 * T + 128
    <3>1. ~ r <= 55
      BY <1>7, <1>25
    <3> QED
      BY <1>6, <1>11, <3>1, Zenon
  <2>2. /\ FullBlocks(P) = T + 2 /\ T <= T + 2 /\ T + 1 \in 1 .. T + 2 /\ T + 2 \in 1 .. T + 2 /\ (T + 1) - 1 = T
        /\ (T + 2) - 1 = T + 1 /\ 64 * T + 64 <= size /\ 64 * (T + 1) + 64 <= size /\ (T + 1) + 1 = T + 2
        /\ T + 1 \in Nat
    <3>1. T + 2 \in Nat /\ Len(P) = 64 * (T + 2)
      BY <1>5, <1>13, <2>1
    <3>2. FullBlocks(P) = T + 2
      BY <1>13, <3>1, HashBlocks, Zenon
    <3> QED
      BY <1>5, <2>1, <3>2
  <2>3. PICK C : C = NthBlock(P, T + 2)
    OBVIOUS
  <2>4. IsBlockAt(B, P, T)
    BY <1>5, <1>13, <1>23, <2>2, BlockAt, Zenon
  <2>5. IsBlockAt(C, P, T + 1)
    <3>1. IsBlockAt(NthBlock(P, (T + 1) + 1), P, T + 1)
      BY <1>13, <2>2, BlockAt, Zenon
    <3> QED
      BY <2>2, <2>3, <3>1, Zenon
  <2>6. PICK block : block = BufferToBlock(full)
    OBVIOUS
  <2>7. PICK none : none = [[i \in 0 .. 15 |-> {}] EXCEPT ![14] = {}, ![15] = BitsOf(n)]
    OBVIOUS
  <2>8. SameBlock(block, B) /\ SameBlock(none, C)
    <3>1. PadShows(P, message, L, 64 * T + 128)
      BY <1>12, <2>1, Zenon
    <3>2. SameBlock(BufferToBlock(full), B)
      BY <1>5, <1>6, <1>7, <1>8, <1>9, <1>20, <2>4, <2>5, <3>1, TwoMoreBlocks, Zenon
    <3>3. SameBlock([[i \in 0 .. 15 |-> {}] EXCEPT ![14] = {}, ![15] = BitsOf(n)], C)
      BY <1>5, <1>6, <1>7, <1>8, <1>9, <1>20, <2>4, <2>5, <3>1, TwoMoreBlocks, Zenon
    <3> QED
      BY <2>6, <2>7, <3>2, <3>3, Zenon
  <2>9. PICK first : first = Transform(digest, block)
    OBVIOUS
  <2>10. first \in CodeDigests /\ LowerAll(first) = Standard!Block(h[T], B)
    <3>1. LowerAll(first) = Standard!Block(LowerAll(digest), B)
      BY <1>17, <2>8, <2>9, TransformLower, Zenon
    <3>2. first \in CodeDigests
      BY <2>9, TransformTyped, Zenon
    <3> QED
      BY <1>18, <2>2, <3>1, <3>2, Zenon
  <2>11. LowerAll(Transform(first, none)) = Standard!Block(LowerAll(first), C)
    BY <2>8, <2>10, TransformLower, Zenon
  <2>12. h[T + 1] = Standard!Block(h[T], B)
    BY <1>14, <1>23, <2>2, Zenon DEF IsHash
  <2>13. h[T + 2] = Standard!Block(h[T + 1], C)
    BY <1>14, <2>2, <2>3, Zenon DEF IsHash
  <2>14. Padded(context) = Transform(first, none)
    <3>1. r + 1 > 64 - 8
      BY <1>7, <1>25
    <3> QED
      BY <1>22, <2>6, <2>7, <2>9, <3>1, Zenon
  <2> QED
    BY <1>15, <2>2, <2>10, <2>11, <2>12, <2>13, <2>14, Zenon
<1>26. r <= 55 \/ r >= 56
  BY <1>7
<1> QED
  BY <1>24, <1>25, <1>26, Zenon

LEMMA WordsOfCode ==
  ASSUME NEW a \in StandardWords
  PROVE  a \in CodeWords /\ Lower(a) = a
<1>1. 0 .. 31 \subseteq 0 .. WordBits - 1
  BY WordSizes
<1>2. a \subseteq 0 .. 31
  BY Zenon DEF StandardWords
<1>3. a \in CodeWords
  BY <1>1, <1>2, Zenon DEF CodeWords
<1>4. a \cap (0 .. 31) = a
  BY <1>2, Zenon
<1>5. Lower(a) = a \cap (0 .. 31)
  <2>1. 32 - 1 = 31
    OBVIOUS
  <2> QED
    BY <2>1, Zenon DEF Lower, Low
<1> QED
  BY <1>3, <1>4, <1>5, Zenon

LEMMA ShortMessage ==
  ASSUME NEW message \in Seq(Bytes), Len(message) <= MaxLength
  PROVE  Short(8 * Len(message))
<1>1. MaxLength \in Nat /\ MaxLength <= 8191
  BY Sha1Assumption
<1>2. Len(message) \in Nat
  OBVIOUS
<1> QED
  BY <1>1, <1>2 DEF Short

\* A context that has seen nothing.
LEMMA FreshMatches == Matches(FreshContext, <<>>)
<1>1. PICK digest : digest = FreshContext.digest
  OBVIOUS
<1>2. digest = Standard!InitialHash
  <2>1. \A high, low : Standard!Word(high, low) = Word(high, low)
    BY StandardIsWords, Zenon
  <2> QED
    BY <1>1, <2>1 DEF FreshContext, Standard!InitialHash
<1>3. digest \in StandardHashes
  BY <1>2, InitialHashTyped, Zenon
<1>4. \A k \in 1 .. 5 : digest[k] \in CodeWords /\ Lower(digest[k]) = digest[k]
  <2>1. \A k \in 1 .. 5 : digest[k] \in StandardWords
    BY <1>3, Zenon DEF StandardHashes
  <2> QED
    BY <2>1, WordsOfCode, Zenon
<1>5. digest \in CodeDigests /\ LowerAll(digest) = digest
  <2>1. digest = [k \in 1 .. 5 |-> digest[k]]
    BY <1>3, Zenon DEF StandardHashes
  <2>2. [k \in 1 .. 5 |-> digest[k]] \in [1 .. 5 -> CodeWords]
    BY <1>4, Zenon
  <2>3. [k \in 1 .. 5 |-> Lower(digest[k])] = [k \in 1 .. 5 |-> digest[k]]
    BY <1>4, Zenon
  <2> QED
    BY <2>1, <2>2, <2>3, Zenon DEF CodeDigests, LowerAll
<1>6. <<>> \in Seq(Bytes) /\ Len(<<>>) = 0
  OBVIOUS
<1>7. FullBlocks(<<>>) = 0
  BY <1>6 DEF FullBlocks
<1>8. Standard!HashOf(<<>>) = Standard!InitialHash
  <2>1. PICK h : IsHash(h, <<>>) /\ Standard!HashOf(<<>>) = h[FullBlocks(<<>>)]
    BY <1>6, HashStepwise, Zenon
  <2> QED
    BY <1>7, <2>1, Zenon DEF IsHash
<1>9. FreshContext.transforms = 0 /\ FreshContext.buffer = <<>>
  BY DEF FreshContext
<1>10. /\ Len(FreshContext.buffer) = Len(<<>>) - 64 * FullBlocks(<<>>)
       /\ \A j \in 1 .. Len(FreshContext.buffer) : FreshContext.buffer[j] = <<>>[64 * FullBlocks(<<>>) + j]
  <2>1. 0 = 0 - 64 * 0 /\ \A j : j \notin 1 .. 0
    OBVIOUS
  <2> QED
    BY <1>6, <1>7, <1>9, <2>1, Zenon
<1> QED
  BY <1>1, <1>2, <1>5, <1>6, <1>7, <1>8, <1>9, <1>10, Zenon DEF Matches

LEMMA DigestNotEmpty ==
  ASSUME NEW digest
  PROVE  LowerAll(digest) # <<>>
<1>1. DOMAIN LowerAll(digest) = 1 .. 5
  BY DEF LowerAll
<1>2. 1 \in 1 .. 5 /\ 1 \notin DOMAIN <<>>
  OBVIOUS
<1> QED
  BY <1>1, <1>2, Zenon

-----------------------------------------------------------------------------
\* Until final() is called the context and the message match, and then the
\* digest is the standard's and the context as good as new.
Digested ==
  /\ hashed \in Seq(Bytes) /\ Len(hashed) <= MaxLength
  /\ sha1Hash = <<>> => Matches(sha1Context, hashed)
  /\ sha1Hash # <<>> =>
       /\ sha1Context = FreshContext
       /\ sha1Hash = Standard!Sha1Of(hashed)

LEMMA CurrentMatches ==
  ASSUME Digested
  PROVE  /\ Current \in Seq(Bytes) /\ Len(Current) <= MaxLength
         /\ Matches(sha1Context, Current)
<1>1. CASE sha1Hash = <<>>
  BY <1>1, Zenon DEF Digested, Current
<1>2. CASE sha1Hash # <<>>
  <2>1. <<>> \in Seq(Bytes) /\ Len(<<>>) <= MaxLength
    BY Sha1Assumption
  <2> QED
    BY <1>2, <2>1, FreshMatches, Zenon DEF Digested, Current
<1> QED
  BY <1>1, <1>2, Zenon

LEMMA PieceOfBytes ==
  ASSUME NEW m \in Nat, NEW n \in Nat, m + n <= MaxLength
  PROVE  /\ [i \in 1 .. n |-> Byte(m + i)] \in Seq(Bytes)
         /\ Len([i \in 1 .. n |-> Byte(m + i)]) = n
<1>1. ASSUME NEW i \in 1 .. n PROVE Byte(m + i) \in Bytes
  <2>1. m + i \in 1 .. MaxLength
    BY Sha1Assumption
  <2> QED
    BY <2>1, Sha1Assumption DEF Bytes
<1>2. PICK piece : piece = [i \in 1 .. n |-> Byte(m + i)]
  OBVIOUS
<1>3. piece \in [1 .. n -> Bytes]
  BY <1>1, <1>2, Zenon
<1>4. piece \in Seq(Bytes) /\ Len(piece) = n
  BY <1>3
<1> QED
  BY <1>2, <1>4, Zenon

LEMMA UpdateDigested ==
  ASSUME Digested, NEW n \in Nat, Sha1Update(n)
  PROVE  Digested'
<1>1. /\ Current \in Seq(Bytes) /\ Len(Current) <= MaxLength
      /\ Matches(sha1Context, Current)
  BY CurrentMatches, Zenon
<1>2. PICK m : m = Len(Current)
  OBVIOUS
<1>3. m \in Nat
  BY <1>1, <1>2
<1>4. PICK piece : piece = [i \in 1 .. n |-> Byte(m + i)]
  OBVIOUS
<1>5. /\ m + n <= MaxLength /\ sha1Context' = Absorb(sha1Context, piece)
      /\ hashed' = Current \o piece /\ sha1Hash' = <<>>
  BY <1>2, <1>4, Zenon DEF Sha1Update
<1>6. piece \in Seq(Bytes) /\ Len(piece) = n
  BY <1>3, <1>4, <1>5, PieceOfBytes, Zenon
<1>7. hashed' \in Seq(Bytes) /\ Len(hashed') <= MaxLength
  <2>1. Current \o piece \in Seq(Bytes) /\ Len(Current \o piece) = Len(Current) + Len(piece)
    BY <1>1, <1>6, ConcatProperties
  <2> QED
    BY <1>2, <1>5, <1>6, <2>1, Zenon
<1>8. Matches(sha1Context', hashed')
  <2>1. Matches(Absorb(sha1Context, piece), Current \o piece)
    BY <1>1, <1>6, AbsorbMatches, Zenon
  <2> QED
    BY <1>5, <2>1, Zenon
<1> QED
  BY <1>5, <1>7, <1>8, Zenon DEF Digested

LEMMA FinalDigested ==
  ASSUME Digested, Sha1Final
  PROVE  Digested'
<1>1. /\ Current \in Seq(Bytes) /\ Len(Current) <= MaxLength
      /\ Matches(sha1Context, Current)
  BY CurrentMatches, Zenon
<1>2. /\ sha1Hash' = LowerAll(Padded(sha1Context)) /\ sha1Context' = FreshContext
      /\ hashed' = Current
  BY Zenon DEF Sha1Final, LowerAll, Lower
<1>3. LowerAll(Padded(sha1Context)) = Standard!Sha1Of(Current)
  BY <1>1, ShortMessage, PaddedIsHash, Zenon
<1>4. sha1Hash' # <<>>
  BY <1>2, DigestNotEmpty, Zenon
<1> QED
  BY <1>1, <1>2, <1>3, <1>4, Zenon DEF Digested

LEMMA FunctionDigested ==
  ASSUME Digested, NEW n \in Nat, n <= MaxLength, Sha1Function(n)
  PROVE  Digested'
<1>1. PICK message : message = [i \in 1 .. n |-> Byte(i)]
  OBVIOUS
<1>2. message \in Seq(Bytes) /\ Len(message) = n
  <2>1. ASSUME NEW i \in 1 .. n PROVE Byte(0 + i) = Byte(i)
    OBVIOUS
  <2>2. message = [i \in 1 .. n |-> Byte(0 + i)]
    BY <1>1, <2>1, Zenon
  <2>3. 0 \in Nat /\ 0 + n <= MaxLength
    OBVIOUS
  <2> QED
    BY <2>2, <2>3, PieceOfBytes, Zenon
<1>3. /\ sha1Hash' = LowerAll(Padded(Absorb(FreshContext, message)))
      /\ sha1Context' = FreshContext /\ hashed' = message
  BY <1>1, Zenon DEF Sha1Function, LowerAll, Lower
<1>4. Matches(Absorb(FreshContext, message), message)
  <2>1. <<>> \in Seq(Bytes) /\ <<>> \o message = message
    BY <1>2
  <2>2. Matches(Absorb(FreshContext, message), <<>> \o message)
    BY <1>2, <2>1, FreshMatches, AbsorbMatches, Zenon
  <2> QED
    BY <2>1, <2>2, Zenon
<1>5. LowerAll(Padded(Absorb(FreshContext, message))) = Standard!Sha1Of(message)
  <2>1. Len(message) <= MaxLength
    BY <1>2, Zenon
  <2> QED
    BY <1>2, <1>4, <2>1, ShortMessage, PaddedIsHash, Zenon
<1>6. sha1Hash' # <<>>
  BY <1>3, DigestNotEmpty, Zenon
<1> QED
  BY <1>2, <1>3, <1>5, <1>6, Zenon DEF Digested

LEMMA DigestedInit == Sha1Init => Digested
<1>1. <<>> \in Seq(Bytes) /\ Len(<<>>) <= MaxLength
  BY Sha1Assumption
<1> QED
  BY <1>1, FreshMatches, Zenon DEF Sha1Init, Digested

LEMMA DigestedImplies == Digested => DigestIsStandard
BY Zenon DEF Digested, DigestIsStandard

LEMMA DigestedNext == Digested /\ [Sha1Next]_sha1Vars => Digested'
<1> SUFFICES ASSUME Digested, [Sha1Next]_sha1Vars PROVE Digested'
  OBVIOUS
<1>1. ASSUME NEW n \in PieceSizes, Sha1Update(n) PROVE Digested'
  <2>1. n \in Nat
    BY Sha1Assumption
  <2> QED
    BY <1>1, <2>1, UpdateDigested, Zenon
<1>2. CASE Sha1Final
  BY <1>2, FinalDigested, Zenon
<1>3. CASE UNCHANGED sha1Vars
  BY <1>3, Zenon DEF sha1Vars, Digested
<1> QED
  BY <1>1, <1>2, <1>3, Zenon DEF Sha1Next

-----------------------------------------------------------------------------
\* The message that is sent is hashed by one of the two.
LEMMA MessageDigested ==
  ASSUME Digested, NEW n \in MessageLengths, HashMessage(n)
  PROVE  Digested'
<1>1. n \in Nat /\ n <= MaxLength
  BY MessageAssumption, Sha1Assumption
<1>2. CASE security = "sha1"
  <2>1. Sha1Function(n)
    BY <1>2 DEF HashMessage
  <2> QED
    BY <1>1, <2>1, FunctionDigested, Zenon
<1>3. CASE security # "sha1"
  <2>1. UNCHANGED sha1Vars
    BY <1>3 DEF HashMessage
  <2> QED
    BY <2>1, Zenon DEF sha1Vars, Digested
<1> QED
  BY <1>2, <1>3, Zenon

LEMMA DigestedHashNext == Digested /\ [HashNext]_hashVars => Digested'
<1> SUFFICES ASSUME Digested, [HashNext]_hashVars PROVE Digested'
  OBVIOUS
<1>1. CASE UseSha1
  BY <1>1, DigestedNext, Zenon DEF UseSha1
<1>2. CASE UseVmac
  BY <1>2, Zenon DEF UseVmac, sha1Vars, Digested
<1>3. ASSUME NEW n \in MessageLengths, HashMessage(n) PROVE Digested'
  BY <1>3, MessageDigested, Zenon
<1>4. CASE UNCHANGED hashVars
  BY <1>4, Zenon DEF hashVars, sha1Vars, Digested
<1> QED
  BY <1>1, <1>2, <1>3, <1>4, Zenon DEF HashNext

LEMMA MessageAuthenticated ==
  ASSUME VmacInv, NEW n \in MessageLengths, HashMessage(n)
  PROVE  VmacInv'
<1>1. CASE security = "vmac"
  <2>1. Authenticate(n, "string")
    BY <1>1 DEF HashMessage
  <2>2. n \in 0 .. MaxBytes
    <3>1. PICK q \in Nat : Prefix = NHBYTES * q
      BY PrefixPassed
    <3>2. n \in Nat /\ Prefix + n <= MaxBytes /\ MaxBytes \in Nat
      BY <2>1, MessageAssumption, Sha1Assumption, VmacAssumption DEF Authenticate
    <3>3. Prefix \in Nat
      BY <3>1, BlockSize
    <3> QED
      BY <3>2, <3>3
  <2>3. VmacNext
    BY <2>1, <2>2 DEF VmacNext
  <2> QED
    BY <2>3, VmacInvNext
<1>2. CASE security # "vmac"
  <2>1. UNCHANGED vmacVars
    BY <1>2 DEF HashMessage
  <2> QED
    BY <2>1, VmacInvNext
<1> QED
  BY <1>1, <1>2

LEMMA VmacInvHashNext == VmacInv /\ [HashNext]_hashVars => VmacInv'
<1> SUFFICES ASSUME VmacInv, [HashNext]_hashVars PROVE VmacInv'
  OBVIOUS
<1>1. CASE UseSha1
  BY <1>1, VmacInvNext, Zenon DEF UseSha1
<1>2. CASE UseVmac
  BY <1>2, VmacInvNext, Zenon DEF UseVmac
<1>3. ASSUME NEW n \in MessageLengths, HashMessage(n) PROVE VmacInv'
  BY <1>3, MessageAuthenticated, Zenon
<1>4. CASE UNCHANGED hashVars
  <2>1. UNCHANGED vmacVars
    BY <1>4, Zenon DEF hashVars
  <2> QED
    BY <2>1, VmacInvNext, Zenon
<1> QED
  BY <1>1, <1>2, <1>3, <1>4, Zenon DEF HashNext

(***************************************************************************)
(* Whatever the pieces that a message was given to update() in, whatever   *)
(* was hashed before, and whatever the number of bits that a uint32 has    *)
(* above the 32 that it needs: what final() and sha1() return is SHA-1 of  *)
(* the message, as the standard defines it.                                *)
(***************************************************************************)
THEOREM DigestOfMessage == HashSpec => []DigestIsStandard
<1>1. HashInit => Digested
  BY DigestedInit DEF HashInit
<1>2. Digested /\ [HashNext]_hashVars => Digested'
  BY DigestedHashNext
<1>3. Digested => DigestIsStandard
  BY DigestedImplies
<1> QED
  BY <1>1, <1>2, <1>3, PTL DEF HashSpec

(***************************************************************************)
(* Whatever the length of the blocks, in however many pieces a message of  *)
(* any length is given to vhash_update() and vmac(), and whatever the      *)
(* context was used for before: the tag is that of the message by          *)
(* definition exactly if the zeroes that vmac.h asks for follow it, or if  *)
(* its length needs none but the one that ends a string.                   *)
(***************************************************************************)
THEOREM TagOfMessage == HashSpec => []TagOfMessageIffPadded
<1>1. HashInit => VmacInv
  BY VmacInvInit DEF HashInit
<1>2. VmacInv /\ [HashNext]_hashVars => VmacInv'
  BY VmacInvHashNext
<1>3. VmacInv => TagOfMessageIffPadded
  BY VmacInvImplies
<1> QED
  BY <1>1, <1>2, <1>3, PTL DEF HashSpec
=============================================================================
