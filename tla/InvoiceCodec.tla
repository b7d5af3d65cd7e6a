---------------------------- MODULE InvoiceCodec ----------------------------
(***************************************************************************)
(* Signed invoices (src/invoice): the molecule data of one                 *)
(* (invoice-data.ts), its string (invoice.ts, bech32m.ts) and the reading  *)
(* of a string some node hands over, symbol by symbol.                     *)
(*                                                                         *)
(* An invoice is its currency, its amount's digits (none lets the payer    *)
(* choose), the timestamp, the payment hash, the attributes and the        *)
(* signature.  A string is what decodeInvoiceBech32m makes of it: whether  *)
(* it is lowercase and its checksum holds, the human-readable part, the    *)
(* flag, the groups of the compressed stream and the signature.            *)
(***************************************************************************)
EXTENDS Molecule

CONSTANTS
    TimeLength, HashLength,   \* of a number and of a hash, in bytes
    Points,                   \* the byte strings that are compressed public keys
    HashTypes,                \* the bytes of CKB's script hash types
    DigestBlock,              \* DIGEST_BLOCK
    Currencies,
    Signed,                   \* the invoices payees sign, without signatures
    Forger,                   \* the key of a node that writes invoices of its own
    OtherAmounts              \* amounts it may write

ASSUME CodecAssumption ==
    /\ WordLength \in Nat \ {0} /\ DigestBlock \in Nat \ {0}
    /\ Forger \in Points

(* INVOICE_ATTRIBUTE_TYPES, one of each form an item has: a number (also   *)
(* both timeouts, and the payment secret), bytes (also the description and *)
(* the fallback address), a script, a key (also the trampoline hint) and   *)
(* the hash algorithm's byte.                                              *)
AttributeTypes == <<"expiryTime", "feature", "udtScript", "payeePublicKey", "hashAlgorithm">>

-----------------------------------------------------------------------------
(* encodeAttributeItem *)
Item(a) ==
    CASE a.type = "expiryTime" -> Le(a.value, TimeLength)
      [] a.type = "udtScript" -> Table(<<ScriptTable(a.value)>>)
      [] a.type = "hashAlgorithm" -> <<a.value>>
      [] OTHER -> Table(<<WithLength(a.value)>>)

(* decodeAttributeItem *)
ItemReads(type, item) ==
    CASE type = "expiryTime" -> Len(item) = TimeLength
      [] type = "udtScript" -> TableReads(item, 1) /\ ScriptReads(Items(item)[1], HashLength, HashTypes)
      [] type = "hashAlgorithm" -> item \in {<<0>>, <<1>>}
      [] OTHER -> /\ TableReads(item, 1) /\ BytesRead(Items(item)[1])
                  /\ type = "payeePublicKey" => DataOf(Items(item)[1]) \in Points

ItemValue(type, item) ==
    CASE type = "expiryTime" -> ReadLe(item)
      [] type = "udtScript" -> ScriptOf(Items(item)[1])
      [] type = "hashAlgorithm" -> item[1]
      [] OTHER -> DataOf(Items(item)[1])

NoRepeat(attributes) ==
    \A i, j \in DOMAIN attributes : i # j => attributes[i].type # attributes[j].type

(* encodeInvoiceData *)
InvoiceData(d) ==
    LET Union(a) == Word(SelectInSeq(AttributeTypes, LAMBDA t : t = a.type) - 1) \o Item(a)
    IN  Table(<<Le(d.timestamp, TimeLength), d.hash, Dynvec([i \in DOMAIN d.attributes |-> Union(d.attributes[i])])>>)

Writable(d) == NoRepeat(d.attributes) /\ Len(InvoiceData(d)) <= MaxData

(* decodeInvoiceData *)
AttributeOf(union) ==
    LET type == AttributeTypes[WordAt(union, 0) + 1] IN [type |-> type, value |-> ItemValue(type, DataOf(union))]

AttributeReads(union) ==
    UnionReads(union, Len(AttributeTypes)) /\ ItemReads(AttributeTypes[WordAt(union, 0) + 1], DataOf(union))

AttributesOf(dynvec) == [i \in DOMAIN Items(dynvec) |-> AttributeOf(Items(dynvec)[i])]

DataReads(bytes) ==
    /\ TableReads(bytes, 3)
    /\ LET f == Items(bytes)
       IN  /\ Len(f[1]) = TimeLength /\ Len(f[2]) = HashLength
           /\ DynvecReads(f[3])
           /\ \A u \in Range(Items(f[3])) : AttributeReads(u)
           /\ NoRepeat(AttributesOf(f[3]))

DataIn(bytes) ==
    LET f == Items(bytes)
    IN  [timestamp |-> ReadLe(f[1]), hash |-> f[2], attributes |-> AttributesOf(f[3])]

-----------------------------------------------------------------------------
(* A mutant of Digest: the human-readable part is not signed. *)
DigestOfStream(currency, amount, stream) == stream

(* signedDigest: what is hashed, a zero byte after the stream unless its   *)
(* length is a multiple of the block.                                      *)
Digest(currency, amount, stream) ==
    <<currency>> \o amount \o stream \o IF Len(stream) % DigestBlock = 0 THEN <<>> ELSE <<0>>

Sign(key, digest) == [sound |-> TRUE, by |-> key, over |-> digest]

Text(currency, amount, stream, signature) ==
    [lower |-> TRUE, sum |-> TRUE, currency |-> currency, amount |-> amount, flag |-> 1,
     groups |-> BytesToGroups(stream), signature |-> signature]

(* encodeInvoice *)
EncodeInvoice(inv, slips) == Text(inv.currency, inv.amount, Encompress(InvoiceData(inv), slips), inv.signature)

(* parseHrp: a known prefix, then nothing or an amount in plain decimal. *)
HrpReads(t) == t.currency \in Currencies /\ (Len(t.amount) > 1 => t.amount[1] # 0)

(* decodeInvoiceBech32m, and decodeInvoice's own checks. *)
TextReads(t) ==
    /\ t.lower /\ t.sum
    /\ HrpReads(t)
    /\ t.flag = 1 /\ t.groups # <<>> /\ t.groups \in Seq(Groups)
    /\ WholeBytes(t.groups)

(* findInvoiceAttribute *)
PayeeOf(d) == {a.value : a \in {b \in Range(d.attributes) : b.type = "payeePublicKey"}}

(* verifySignature: one over another digest recovers nobody's key. *)
SignatureHolds(signature, digest, payee) ==
    /\ signature.sound
    /\ payee # {} => signature.over = digest /\ payee = {signature.by}

-----------------------------------------------------------------------------
VARIABLES
    signed,       \* the invoice some payee signed
    slips,        \* how f64 rounds shares
    text,         \* the string handed over, or <<>>
    pc,           \* the reading: asked, symbols, data, read or refused
    decoder,      \* arDecompress's state, or <<>>
    result        \* the invoice read, or <<>>

vars == <<signed, slips, text, pc, decoder, result>>

PayeeKey(d) == IF PayeeOf(d) = {} THEN Forger ELSE CHOOSE k \in PayeeOf(d) : TRUE

SignedStream == Encompress(InvoiceData(signed), slips)

(* The invoice with its payee's signature. *)
Genuine ==
    signed @@ ("signature" :> Sign(PayeeKey(signed), Digest(signed.currency, signed.amount, SignedStream)))

Init ==
    /\ signed \in Signed /\ slips \in SUBSET Roundings
    /\ text = <<>> /\ pc = "asked" /\ decoder = <<>> /\ result = <<>>

Hand(t) ==
    /\ pc = "asked"
    /\ text' = t
    /\ IF TextReads(t)
       THEN pc' = "symbols" /\ decoder' = StartDecoder(GroupsToBytes(t.groups))
       ELSE pc' = "refused" /\ UNCHANGED decoder
    /\ UNCHANGED <<signed, slips, result>>

HandGenuine == Hand(EncodeInvoice(Genuine, slips))

(* A character outside the charset. *)
NoGroup == -1

(* A node changes one part of the string, and may sign it anew. *)
TwistedParts(t) ==
    {[t EXCEPT !.lower = FALSE], [t EXCEPT !.sum = FALSE], [t EXCEPT !.flag = 0], [t EXCEPT !.signature.sound = FALSE]}
    \cup {[t EXCEPT !.currency = c] : c \in Currencies \cup {"none"}}
    \cup {[t EXCEPT !.amount = a] : a \in OtherAmounts}
    \cup {[t EXCEPT !.groups[i] = g] : i \in DOMAIN t.groups, g \in Groups \cup {NoGroup}}
    \cup {[t EXCEPT !.groups = Append(@, g)] : g \in Groups}
    \cup {[t EXCEPT !.groups = Front(@)]}

(* The digits of the amount moved into the stream, which keeps the digest. *)
TwistedSplit(t) ==
    {[t EXCEPT !.amount = <<>>, !.groups = BytesToGroups(t.amount \o GroupsToBytes(@))],
     [t EXCEPT !.groups = BytesToGroups(Append(GroupsToBytes(@), 0))]}

Resigned(t) ==
    [t EXCEPT !.signature = Sign(Forger, Digest(t.currency, t.amount, GroupsToBytes(t.groups)))]

HandTwisted ==
    /\ pc = "asked"
    /\ LET genuine == EncodeInvoice(Genuine, slips)
       IN  \E t \in TwistedParts(genuine) \cup TwistedSplit(genuine) : Hand(t) \/ Hand(Resigned(t))

(* Or it compresses and signs data no encoder writes. *)
Edits(s) ==
    {[s EXCEPT ![i] = b] : i \in DOMAIN s, b \in Bytes} \cup {RemoveAt(s, i) : i \in DOMAIN s}
    \cup {Append(s, b) : b \in {0, 1}}

HandForged ==
    /\ pc = "asked"
    /\ \E m \in Edits(InvoiceData(signed)) :
          Hand(Resigned(Text(signed.currency, signed.amount, Encompress(m, slips), <<>>)))

Stream == GroupsToBytes(text.groups)

Refuse == pc' = "refused" /\ UNCHANGED <<decoder, result>>

(* arDecompress, a symbol: the input must last, and the data has a limit. *)
ReadSymbol ==
    /\ pc = "symbols"
    /\ LET symbol == Find(decoder.range, decoder.model, decoder.value, slips)
           next == DecodeSymbol(decoder, symbol, slips)
       IN  IF symbol = EndOfData THEN pc' = "data" /\ UNCHANGED <<decoder, result>>
           ELSE IF InputLasts(next) /\ Len(next.coded) <= MaxData
           THEN decoder' = next /\ UNCHANGED <<pc, result>>
           ELSE Refuse
    /\ UNCHANGED <<signed, slips, text>>

(* A mutant of IsCoders: what follows the end marker is ignored. *)
IsAnyStream(stream, data, s) == TRUE

(* The stream is the one the coder writes. *)
IsCoders(stream, data, s) == Encompress(data, s) = stream

(* decodeInvoice, the rest. *)
ReadData ==
    /\ pc = "data"
    /\ IF /\ IsCoders(Stream, decoder.coded, slips)
          /\ DataReads(decoder.coded)
          /\ SignatureHolds(text.signature, Digest(text.currency, text.amount, Stream), PayeeOf(DataIn(decoder.coded)))
       THEN /\ pc' = "read" /\ UNCHANGED decoder
            /\ result' = DataIn(decoder.coded)
                           @@ [currency |-> text.currency, amount |-> text.amount, signature |-> text.signature]
       ELSE Refuse
    /\ UNCHANGED <<signed, slips, text>>

Next == HandGenuine \/ HandTwisted \/ HandForged \/ ReadSymbol \/ ReadData

Spec == Init /\ [][Next]_vars

-----------------------------------------------------------------------------
(* arDecompress, find: "the current range, which always holds the value",  *)
(* and "the value always lands" in the share of the symbol found, for a    *)
(* stream of any bits; and the range is wide enough to give each symbol a  *)
(* share: an empty one would be doubled for ever.                          *)
ValueInRange ==
    pc = "symbols" =>
        LET range == decoder.range
            share == SubRange(range, decoder.model, Find(range, decoder.model, decoder.value, slips), slips)
        IN  /\ range.low <= share.low /\ share.low <= decoder.value
            /\ decoder.value < share.high /\ share.high <= range.high
            /\ range.high - range.low >= Quarter

(* encodeInvoice, decodeInvoice: an invoice written comes back whole, and  *)
(* is never refused, however f64 rounds the shares.                        *)
GenuineIsRead ==
    (pc \in {"read", "refused"} /\ text = EncodeInvoice(Genuine, slips)) => result = Genuine

(* decodeInvoice: "refusing every string fiber's encoder would not have    *)
(* written for what it carries": an invoice has one string, whoever wrote  *)
(* it, in its groups, its stream, its molecule and its attributes.         *)
OneString ==
    pc = "read" => Writable(result) /\ EncodeInvoice(result, slips) = text

(* verifySignature, signedDigest: an invoice read under a payee's key is   *)
(* the one that payee signed, although the digest takes the human-readable *)
(* part and the stream together, padded.                                   *)
ReadIsSigned ==
    (pc = "read" /\ PayeeOf(result) # {} /\ PayeeOf(result) # {Forger}) => result = Genuine

=============================================================================
