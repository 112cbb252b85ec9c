------------------------------ MODULE MCHashes -------------------------------
(***************************************************************************)
(* Messages of every length up to two blocks and a bit: for SHA-1 in       *)
(* pieces that end on, before and after the end of a block and of the room *)
(* for the length; for VMAC in one or two blocks and a remainder.          *)
(***************************************************************************)
EXTENDS MessageHashes

\* All bits of a byte occur, the highest of a word too.
Varied(i) == (37 * i + 200) % 256

Text(bytes) == Standard!Sha1Of(bytes)
abc == <<97, 98, 99>>
\* "abcdbcdecdef...nopq", 56 bytes
abcd56 == [i \in 1 .. 56 |-> 97 + ((i - 1) \div 4) + ((i - 1) % 4)]

\* The test vectors that FIPS 180 and its predecessors give.
ASSUME KnownAnswers ==
  /\ Text(<<>>) = << Word(\hda39, \ha3ee), Word(\h5e6b, \h4b0d), Word(\h3255, \hbfef),
                     Word(\h9560, \h1890), Word(\hafd8, \h0709) >>
  /\ Text(abc) = << Word(\ha999, \h3e36), Word(\h4706, \h816a), Word(\hba3e, \h2571),
                    Word(\h7850, \hc26c), Word(\h9cd0, \hd89d) >>
  /\ Text(abcd56) = << Word(\h8498, \h3e44), Word(\h1c3b, \hd26e), Word(\hbaae, \h4aa1),
                       Word(\hf951, \h29e5), Word(\he546, \h70f1) >>
=============================================================================
