------------------------------ MODULE Molecule ------------------------------
(***************************************************************************)
(* Molecule's tables, dynvecs, Bytes and scripts, as common/utils writes   *)
(* them (molecule.utils.ts) and reads them (molecule-reader.utils.ts), with*)
(* words of WordLength bytes for the schema's u32.  A reader is a predicate*)
(* that says whether it refuses, and an operator for what it returns.      *)
(***************************************************************************)
EXTENDS ArithmeticCoder

CONSTANT WordLength   \* UINT32_LENGTH

(* uint32Le, uint64Le and uint128Le: little-endian. *)
Le(value, length) == [i \in 1 .. length |-> (value \div Base ^ (i - 1)) % Base]

(* readUintLe *)
ReadLe(bytes) == LET v[i \in 1 .. Len(bytes) + 1] == IF i > Len(bytes) THEN 0 ELSE bytes[i] + Base * v[i + 1] IN v[1]

Word(value) == Le(value, WordLength)

(* readUint32Le, at a 0-based offset. *)
WordAt(bytes, offset) == ReadLe(SubSeq(bytes, offset + 1, offset + WordLength))

(* moleculeTable *)
Table(fields) ==
    LET header == WordLength * (Len(fields) + 1)
        bodies == FlattenSeq(fields)
        Offset(i) == header + Len(FlattenSeq(SubSeq(fields, 1, i - 1)))
    IN  Word(header + Len(bodies)) \o FlattenSeq([i \in DOMAIN fields |-> Word(Offset(i))]) \o bodies

(* moleculeDynvec *)
Dynvec(items) == IF items = <<>> THEN Word(WordLength) ELSE Table(items)

(* moleculeBytes *)
WithLength(data) == Word(Len(data)) \o data

(* moleculeScript *)
ScriptTable(script) == Table(<<script.codeHash, <<script.hashType>>, WithLength(script.args)>>)

-----------------------------------------------------------------------------
(* readHeaderCount: the size is the length, and the header is whole. *)
HeaderReads(bytes) ==
    /\ Len(bytes) >= WordLength /\ WordAt(bytes, 0) = Len(bytes)
    /\ Len(bytes) # WordLength =>
          /\ Len(bytes) >= 2 * WordLength
          /\ LET first == WordAt(bytes, WordLength)
             IN  first % WordLength = 0 /\ first \in 2 * WordLength .. Len(bytes)

HeaderCount(bytes) ==
    IF Len(bytes) = WordLength THEN 0 ELSE WordAt(bytes, WordLength) \div WordLength - 1

(* offsetAt, of the i-th item. *)
OffsetAt(bytes, i) ==
    IF i <= HeaderCount(bytes) THEN WordAt(bytes, WordLength * i) ELSE Len(bytes)

(* readMoleculeDynvec, splitAtOffsets: the offsets are in order. *)
DynvecReads(bytes) ==
    HeaderReads(bytes) /\ \A i \in 1 .. HeaderCount(bytes) : OffsetAt(bytes, i) <= OffsetAt(bytes, i + 1)

Items(bytes) ==
    [i \in 1 .. HeaderCount(bytes) |-> SubSeq(bytes, OffsetAt(bytes, i) + 1, OffsetAt(bytes, i + 1))]

(* readMoleculeTable *)
TableReads(bytes, fields) == HeaderReads(bytes) /\ HeaderCount(bytes) = fields /\ DynvecReads(bytes)

(* readMoleculeBytes *)
BytesRead(bytes) == Len(bytes) >= WordLength /\ WordAt(bytes, 0) = Len(bytes) - WordLength

DataOf(bytes) == SubSeq(bytes, WordLength + 1, Len(bytes))

(* readMoleculeUnion: the id selects one of `items` items. *)
UnionReads(bytes, items) == Len(bytes) >= WordLength /\ WordAt(bytes, 0) < items

(* readMoleculeScript: the hash type is one CKB defines. *)
ScriptReads(bytes, hashLength, hashTypes) ==
    /\ TableReads(bytes, 3)
    /\ LET f == Items(bytes)
       IN  Len(f[1]) = hashLength /\ Len(f[2]) = 1 /\ f[2][1] \in hashTypes /\ BytesRead(f[3])

ScriptOf(bytes) ==
    LET f == Items(bytes) IN [codeHash |-> f[1], hashType |-> f[2][1], args |-> DataOf(f[3])]

=============================================================================
