--------------------------- MODULE MoleculeLayout ---------------------------
(***************************************************************************)
(* How the generated classes of packages/godwoken/schemas/index.js lay out *)
(* a message: buffers, which are sequences of bytes, the header of a table *)
(* or of a vector of items of any size, its check and the slices that the  *)
(* getters take, and vectors of items of one size.  Which classes there    *)
(* are, and what their fields mean, is Molecule's matter.                  *)
(***************************************************************************)
EXTENDS Naturals, Sequences, SequencesExt

\* A word of four bytes, little endian.
LittleEndian(n) == <<n % 256, (n \div 256) % 256, (n \div 65536) % 256, n \div 16777216>>

\* DataView.getUint32(at, true).  Every buffer here is shorter than TooLong,
\* so that all larger words behave alike.
TooLong == 65536
WordAt(buf, at) ==
  IF buf[at + 3] = 0 /\ buf[at + 4] = 0 THEN buf[at + 1] + 256 * buf[at + 2] ELSE TooLong

HasWord(buf, at) == at + 4 <= Len(buf)

\* ArrayBuffer.slice(from, to), which clamps its arguments.
Slice(buf, from, to) == SubSeq(buf, from + 1, IF to > Len(buf) THEN Len(buf) ELSE to)

-----------------------------------------------------------------------------
(* Tables, and vectors of items of any size                                *)

\* The total size, one offset per item, then the items.
serializeTable(buffers) ==
  LET header == 4 * (Len(buffers) + 1)
      end(i) == header + Len(FlattenSeq(SubSeq(buffers, 1, i)))
  IN LittleEndian(end(Len(buffers))) \o FlattenSeq([i \in DOMAIN buffers |-> LittleEndian(end(i - 1))])
       \o FlattenSeq(buffers)

Refused == <<>>

\* Mutant: the total size may differ from that of the buffer.
verifyAndExtractOffsetsAnyTotal(buf, expectedFieldCount, compatible) ==
  LET total == WordAt(buf, 0)
      first == WordAt(buf, 4)
      count == (first \div 4) - 1
      offsets == [i \in 1 .. count |-> WordAt(buf, 4 * i)] \o <<total>>
  IN IF ~HasWord(buf, 0) THEN Refused
     ELSE IF total = 4 THEN <<total>>
     ELSE IF \/ total < 8 \/ Len(buf) < 8 \/ first % 4 # 0 \/ first < 8 \/ first > Len(buf)
             \/ count < expectedFieldCount
             \/ ~compatible /\ count > expectedFieldCount
             \/ total < first
             \/ \E i \in 1 .. count : offsets[i] > offsets[i + 1]
          THEN Refused
     ELSE offsets

\* The offsets of the items and the end of the last one, or Refused.
verifyAndExtractOffsets(buf, expectedFieldCount, compatible) ==
  LET total == WordAt(buf, 0)
      first == WordAt(buf, 4)
      count == (first \div 4) - 1
      offsets == [i \in 1 .. count |-> WordAt(buf, 4 * i)] \o <<total>>
  IN IF ~HasWord(buf, 0) \/ total # Len(buf) THEN Refused
     ELSE IF total = 4 THEN <<total>>
     ELSE IF \/ total < 8 \/ first % 4 # 0 \/ first < 8
             \/ count < expectedFieldCount
             \/ ~compatible /\ count > expectedFieldCount
             \/ total < first
             \/ \E i \in 1 .. count : offsets[i] > offsets[i + 1]
          THEN Refused
     ELSE offsets

\* length() of a vector of items of any size.
ItemCount(buf) == IF Len(buf) < 8 THEN 0 ELSE (WordAt(buf, 4) \div 4) - 1

\* The i-th of n fields or items lies between two offsets; the getter of the
\* last one takes everything to the end of the buffer.
ItemAt(buf, i, n) == Slice(buf, WordAt(buf, 4 * i), IF i < n THEN WordAt(buf, 4 * i + 4) ELSE Len(buf))

-----------------------------------------------------------------------------
(* Vectors of items of one size                                            *)

serializeFixVec(items) == LittleEndian(Len(items)) \o FlattenSeq(items)

FixVecOk(buf, size) == HasWord(buf, 0) /\ Len(buf) = WordAt(buf, 0) * size + 4

FixedItemAt(buf, i, size) == Slice(buf, 4 + (i - 1) * size, 4 + i * size)

=============================================================================
