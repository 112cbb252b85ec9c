---------------------------- MODULE ResultStrings ----------------------------
(***************************************************************************)
(* How results travel: a node turns a map into lines "key=value" with      *)
(* ConfigurationManager::writeString() and copies them into a buffer; the  *)
(* controller makes a map of the buffer with readString().  writeFile()    *)
(* and readFile() do the same by way of a file.  A string is a sequence of *)
(* characters, of which only those matter here that one of the two gives a *)
(* meaning to.                                                             *)
(***************************************************************************)
EXTENDS Integers, SequencesExt

CONSTANTS
  Characters,    \* the type char
  SortedKeys,    \* every string that may be a key, in the order of a std::map
  Maps,          \* the maps that are sent: functions from strings to strings
  BufferSize     \* of the buffer at the node

NewLine == "nl"    \* the character that ends a line

ASSUME StringsAssumption ==
  /\ {"=", "#", NewLine} \subseteq Characters
  /\ SortedKeys \in Seq(Seq(Characters))
  /\ \A i, j \in 1 .. Len(SortedKeys) : SortedKeys[i] = SortedKeys[j] => i = j
  /\ \A m \in Maps : m \in [DOMAIN m -> Seq(Characters)]
  /\ BufferSize \in Nat

\* What a map that is read has for keys are parts of what the other had.
ASSUME SortedKeysAssumption ==
  \A m \in Maps : \A k \in DOMAIN m :
    /\ k \in Seq(Characters)
    /\ \A string \in {k, m[k]} : \A i, j \in 0 .. Len(string) :
         SubSeq(string, i + 1, j) \in ToSet(SortedKeys)

VARIABLES
  pc,
  entries,     \* the map at the node
  buffer,      \* the string that is sent
  file,        \* the contents of the file
  received     \* the map that is read

vars == <<pc, entries, buffer, file, received>>

Init ==
  /\ pc = "write"
  /\ entries \in Maps
  /\ buffer = <<>>
  /\ file = <<>>
  /\ received = <<>>

-----------------------------------------------------------------------------
Entry(m, k) == k \o <<"=">> \o m[k]

\* Mutant of WriteString: a line break after every entry, and none before.
WriteStringUnseparated(m) ==
  LET text[n \in 0 .. Len(SortedKeys)] ==
        IF n = 0 THEN <<>>
        ELSE IF SortedKeys[n] \notin DOMAIN m THEN text[n - 1]
        ELSE text[n - 1] \o Entry(m, SortedKeys[n])
  IN  text[Len(SortedKeys)]

\* writeString(): the entries by their keys, the first one separately, to
\* prevent an extra newline.
WriteString(m) ==
  LET text[n \in 0 .. Len(SortedKeys)] ==
        IF n = 0 THEN <<>>
        ELSE IF SortedKeys[n] \notin DOMAIN m THEN text[n - 1]
        ELSE IF text[n - 1] = <<>> THEN Entry(m, SortedKeys[n])
        ELSE text[n - 1] \o <<NewLine>> \o Entry(m, SortedKeys[n])
  IN  text[Len(SortedKeys)]

\* Where the lines begin that getline() finds: none after a final line break.
\* (readHostFile() makes a list of them.)
LineStarts(text) == {i \in 1 .. Len(text) : i = 1 \/ text[i - 1] = NewLine}

\* The line from there on.
LineAt(text, i) ==
  LET ends == {j \in i .. Len(text) : text[j] = NewLine} \cup {Len(text) + 1}
  IN  SubSeq(text, i, Min(ends) - 1)

IsComment(line) == line # <<>> /\ Head(line) = "#"

\* Mutant of Split: the last "=" of a line separates.
SplitAtLast(line) == SelectLastInSeq(line, LAMBDA c : c = "=")

\* The position of the "=" that separates; 0 when there is none.
Split(line) == SelectInSeq(line, LAMBDA c : c = "=")

KeyOf(line) == SubSeq(line, 1, Split(line) - 1)
ValueOf(line) == SubSeq(line, Split(line) + 1, Len(line))

\* The lines that readString() makes an entry of.
Assigning(text) ==
  {i \in LineStarts(text) : ~IsComment(LineAt(text, i)) /\ Split(LineAt(text, i)) # 0}

\* readString(): a later line overrides an earlier one with the same key.
ReadString(text) ==
  [k \in {KeyOf(LineAt(text, i)) : i \in Assigning(text)} |->
     ValueOf(LineAt(text, Max({i \in Assigning(text) : KeyOf(LineAt(text, i)) = k})))]

-----------------------------------------------------------------------------
\* strcpy() copies the terminating null as well.
Fits(text) == Len(text) < BufferSize

\* writeString() dereferences the first entry before it looks whether there is
\* one, and strcpy() does not look at the size of the buffer: in "undefined"
\* the program has no defined behaviour.
Write ==
  /\ pc = "write"
  /\ IF DOMAIN entries # {} /\ Fits(WriteString(entries))
     THEN pc' = "send" /\ buffer' = WriteString(entries)
     ELSE pc' = "undefined" /\ UNCHANGED buffer
  /\ UNCHANGED <<entries, file, received>>

Read ==
  /\ pc = "send"
  /\ received' = ReadString(buffer)
  /\ pc' = "done"
  /\ UNCHANGED <<entries, buffer, file>>

WriteFile ==
  /\ pc = "write"
  /\ IF DOMAIN entries # {}
     THEN pc' = "file" /\ file' = WriteString(entries)
     ELSE pc' = "undefined" /\ UNCHANGED file
  /\ UNCHANGED <<entries, buffer, received>>

ReadFile ==
  /\ pc = "file"
  /\ received' = ReadString(file)
  /\ pc' = "done"
  /\ UNCHANGED <<entries, buffer, file>>

Next == Write \/ Read \/ WriteFile \/ ReadFile

Spec == Init /\ [][Next]_vars

-----------------------------------------------------------------------------
CleanKey(k) == ToSet(k) \cap {"=", NewLine} = {} /\ ~IsComment(k)
CleanValue(v) == NewLine \notin ToSet(v)

(***************************************************************************)
(* The reader gets the map that was written exactly when no key has a      *)
(* separator in it or looks like a comment and no value goes over a line.  *)
(* (The keys of the results, and the values of the counters, are such; so  *)
(* is a host name.)                                                        *)
(***************************************************************************)
RoundTripIffClean ==
  pc = "done" =>
    (received = entries
      <=> \A k \in DOMAIN entries : CleanKey(k) /\ CleanValue(entries[k]))

(***************************************************************************)
(* What readString() returned can be written and read again without loss:  *)
(* a map that has been through it once is clean.                           *)
(***************************************************************************)
ReadingIsStable ==
  pc = "done" /\ DOMAIN received # {} => ReadString(WriteString(received)) = received
=============================================================================
