------------------------------ MODULE Molecule ------------------------------
(***************************************************************************)
(* The binary encoding of everything the gateway exchanges with a node:    *)
(* the code generated from the molecule schemas, in                        *)
(* packages/godwoken/schemas/index.js.  A schema is a record that says     *)
(* what kind of type the generated class is; the class's serialiser,       *)
(* validate() and getters are the three operators Serialize, Validate and  *)
(* Read over it.  How their bytes are laid out is in MoleculeLayout.       *)
(*                                                                         *)
(* A value is a byte, a sequence of bytes (arrays), the sequence of its    *)
(* fields (structs and tables) or items (vectors), <<>> or <<v>> for an    *)
(* option, and [item, value] for a union.                                  *)
(***************************************************************************)
EXTENDS MoleculeLayout

\* The kinds of types.  Fields are pairs of a name and a type.
Byte == [kind |-> "byte"]
ByteArray(n) == [kind |-> "array", size |-> n]
Struct(fields) == [kind |-> "struct", fields |-> fields]
Table(fields) == [kind |-> "table", fields |-> fields]
FixVec(item) == [kind |-> "fixvec", item |-> item]
DynVec(item) == [kind |-> "dynvec", item |-> item]
Option(item) == [kind |-> "option", item |-> item]
Union(items) == [kind |-> "union", items |-> items]

-----------------------------------------------------------------------------
(* Sizes                                                                   *)

\* static size() of a class of fixed size.
RECURSIVE Size(_)
Size(type) ==
  CASE type.kind = "byte" -> 1
    [] type.kind = "array" -> type.size
    [] type.kind = "struct" -> FoldLeft(LAMBDA sum, field : sum + Size(field[2]), 0, type.fields)

\* The offset of the i-th field of a struct.
StructOffset(type, i) == Size(Struct(SubSeq(type.fields, 1, i - 1)))

-----------------------------------------------------------------------------
(* Serialisation                                                           *)

RECURSIVE Serialize(_, _)
Serialize(type, value) ==
  LET fields == [i \in DOMAIN type.fields |-> Serialize(type.fields[i][2], value[i])]
      items  == [i \in DOMAIN value |-> Serialize(type.item, value[i])]
  IN CASE type.kind = "byte" -> <<value>>
       [] type.kind = "array" -> value
       [] type.kind = "struct" -> FlattenSeq(fields)
       [] type.kind = "table" -> serializeTable(fields)
       [] type.kind = "fixvec" -> serializeFixVec(items)
       [] type.kind = "dynvec" -> serializeTable(items)
       [] type.kind = "option" -> FlattenSeq(items)
       [] type.kind = "union" ->
            LittleEndian(value.item - 1) \o Serialize(type.items[value.item], value.value)

-----------------------------------------------------------------------------
(* Validation                                                              *)

\* validate().  Every generated class extracts its offsets with 0 expected
\* fields and compatible = true, whatever argument validate() was given: a
\* missing offset is undefined, which slice() takes for a bound it was not
\* given, and an additional field is ignored.
RECURSIVE Validate(_, _)
Validate(type, buf) ==
  LET offsets == verifyAndExtractOffsets(buf, 0, TRUE)
      from(i) == IF i \in DOMAIN offsets THEN offsets[i] ELSE 0
      to(i)   == IF i \in DOMAIN offsets THEN offsets[i] ELSE Len(buf)
      FieldOk(i) ==
        IF type.fields[i][2].kind = "byte"
        THEN i + 1 \in DOMAIN offsets /\ offsets[i + 1] - offsets[i] = 1
        ELSE Validate(type.fields[i][2], Slice(buf, from(i), to(i + 1)))
  IN CASE type.kind \in {"array", "struct"} -> Len(buf) = Size(type)
       [] type.kind = "table" -> offsets # Refused /\ \A i \in DOMAIN type.fields : FieldOk(i)
       [] type.kind = "dynvec" ->
            /\ offsets # Refused
            /\ \A i \in 1 .. Len(offsets) - 1 : Validate(type.item, Slice(buf, from(i), to(i + 1)))
       [] type.kind = "fixvec" -> FixVecOk(buf, Size(type.item))
       [] type.kind = "option" -> buf = <<>> \/ Validate(type.item, buf)
       [] type.kind = "union" ->
            /\ HasWord(buf, 0)
            /\ WordAt(buf, 0) < Len(type.items)
            /\ Validate(type.items[WordAt(buf, 0) + 1], Slice(buf, 4, Len(buf)))

-----------------------------------------------------------------------------
(* Reading: the getters                                                    *)

\* The getter of a table's i-th field.
TableField(type, buf, i) == ItemAt(buf, i, Len(type.fields))

\* length() and indexAt() of a vector.
VectorLength(type, buf) == IF type.kind = "fixvec" THEN WordAt(buf, 0) ELSE ItemCount(buf)

\* Mutant: the items of a vector of fixed size start with its length.
VectorItemFromStart(type, buf, i) ==
  IF type.kind = "fixvec" THEN Slice(buf, (i - 1) * Size(type.item), i * Size(type.item))
  ELSE ItemAt(buf, i, VectorLength(type, buf))

VectorItem(type, buf, i) ==
  IF type.kind = "fixvec" THEN FixedItemAt(buf, i, Size(type.item))
  ELSE ItemAt(buf, i, VectorLength(type, buf))

RECURSIVE Read(_, _)
Read(type, buf) ==
  CASE type.kind = "byte" -> buf[1]
    [] type.kind = "array" -> buf
    [] type.kind = "struct" ->
         [i \in DOMAIN type.fields |->
            Read(type.fields[i][2],
                 Slice(buf, StructOffset(type, i), StructOffset(type, i + 1)))]
    [] type.kind = "table" ->
         [i \in DOMAIN type.fields |-> Read(type.fields[i][2], TableField(type, buf, i))]
    [] type.kind \in {"fixvec", "dynvec"} ->
         [i \in 1 .. VectorLength(type, buf) |-> Read(type.item, VectorItem(type, buf, i))]
    [] type.kind = "option" -> IF buf = <<>> THEN <<>> ELSE <<Read(type.item, buf)>>
    [] type.kind = "union" ->
         [item |-> WordAt(buf, 0) + 1,
          value |-> Read(type.items[WordAt(buf, 0) + 1], Slice(buf, 4, Len(buf)))]

\* Every table in the buffer has as many fields as its class knows.
RECURSIVE ExactFields(_, _)
ExactFields(type, buf) ==
  CASE type.kind = "table" ->
         /\ IF Len(buf) = 4 THEN type.fields = <<>> ELSE WordAt(buf, 4) = 4 * (Len(type.fields) + 1)
         /\ \A i \in DOMAIN type.fields : ExactFields(type.fields[i][2], TableField(type, buf, i))
    [] type.kind = "dynvec" ->
         \A i \in 1 .. VectorLength(type, buf) : ExactFields(type.item, VectorItem(type, buf, i))
    [] type.kind = "option" -> buf = <<>> \/ ExactFields(type.item, buf)
    [] type.kind = "union" -> ExactFields(type.items[WordAt(buf, 0) + 1], Slice(buf, 4, Len(buf)))
    [] OTHER -> TRUE

=============================================================================
