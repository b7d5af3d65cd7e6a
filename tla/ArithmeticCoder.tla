--------------------------- MODULE ArithmeticCoder ---------------------------
(***************************************************************************)
(* invoice/arithmetic-coder.ts: the adaptive arithmetic coder an invoice's *)
(* data is compressed with, and bech32m.ts's regrouping of bits, at smaller*)
(* widths than the code's 8-bit bytes, 5-bit groups and 48-bit precision.  *)
(*                                                                         *)
(* Symbols are 0-based, as in the code.  A CoderModel is the counts below  *)
(* each symbol: counts[s] = model[s + 1] - model[s], and the last is the   *)
(* total.                                                                  *)
(***************************************************************************)
EXTENDS Integers, SequencesExt

CONSTANTS
    ByteBits, GroupBits,
    Precision,    \* PRECISION
    MaxData,      \* MAX_INVOICE_DATA_LENGTH
    Accuracy      \* a product in f64 is off by less than one part in so many

(* Powers of two, as far as the coder goes. *)
Power[n \in 0 .. Precision] == IF n = 0 THEN 1 ELSE 2 * Power[n - 1]

Base == Power[ByteBits]
Bytes == 0 .. Base - 1
Groups == 0 .. Power[GroupBits] - 1

Full == Power[Precision]
Half == Full \div 2
Quarter == Full \div 4
ThreeQuarters == 3 * Quarter

EndOfData == Base
Symbols == Base + 1

(* A range that was rescaled leaves every symbol a share, however f64      *)
(* rounds.                                                                 *)
ASSUME CoderAssumption ==
    /\ GroupBits \in 1 .. ByteBits - 1 /\ ByteBits \in 1 .. Precision /\ Precision \in Nat \ {0, 1}
    /\ MaxData \in Nat /\ 2 * (Symbols + MaxData) < Quarter /\ Accuracy \in Nat \ {0, 1}

-----------------------------------------------------------------------------
(* Bits, most significant first *)

BitsOf(s, width) ==
    [i \in 1 .. Len(s) * width |-> (s[(i - 1) \div width + 1] \div Power[width - 1 - ((i - 1) % width)]) % 2]

Number(bits) == LET v[i \in 0 .. Len(bits)] == IF i = 0 THEN 0 ELSE 2 * v[i - 1] + bits[i] IN v[Len(bits)]

(* The whole units that bits make up. *)
FromBits(bits, width) ==
    [i \in 1 .. Len(bits) \div width |-> Number(SubSeq(bits, (i - 1) * width + 1, i * width))]

ZeroPadded(bits, width) == bits \o [i \in 1 .. (width - (Len(bits) % width)) % width |-> 0]

(* bytesToInvoiceGroups *)
BytesToGroups(bytes) == FromBits(ZeroPadded(BitsOf(bytes, ByteBits), GroupBits), GroupBits)

LeftOver(groups) ==
    LET bits == BitsOf(groups, GroupBits) IN SubSeq(bits, Len(bits) - (Len(bits) % ByteBits) + 1, Len(bits))

(* invoiceGroupsToBytes refuses padding that is a whole group or not zero. *)
WholeBytes(groups) ==
    /\ Len(LeftOver(groups)) < GroupBits
    /\ \A b \in Range(LeftOver(groups)) : b = 0

GroupsToBytes(groups) == FromBits(BitsOf(groups, GroupBits), ByteBits)

-----------------------------------------------------------------------------
(* CoderModel *)

StartModel == [s \in 0 .. Symbols |-> s]

(* update *)
Counted(model, symbol) == [s \in 0 .. Symbols |-> IF s > symbol THEN model[s] + 1 ELSE model[s]]

(* The roundings of f64 that a behaviour is about: a product next to a     *)
(* whole number may end up on its other side.                              *)
Roundings == {"short", "over"}

(* A width scaled by k / total; at either end the quotient is exact.       *)
Scale(width, k, total, slips) ==
    LET rest == (width * k) % total
        Slips(how, gap) == how \in slips /\ k \in 1 .. total - 1 /\ gap * Accuracy < total
    IN  (width * k) \div total
        + IF Slips("over", total - rest) THEN 1 ELSE IF Slips("short", rest) THEN -1 ELSE 0

(* subRange, share *)
SubRange(r, model, symbol, slips) ==
    LET At(k) == r.low + Scale(r.high - r.low, k, model[Symbols], slips)
    IN  [low |-> At(model[symbol]), high |-> At(model[symbol + 1])]

(* find: the first symbol whose share holds the value, or the end marker. *)
Find(r, model, value, slips) ==
    LET holding == {s \in Bytes : LET c == SubRange(r, model, s, slips) IN c.low <= value /\ value < c.high}
    IN  IF holding = {} THEN EndOfData ELSE Min(holding)

Doubled(r, offset) == [low |-> 2 * (r.low - offset), high |-> 2 * (r.high - offset)]

(* The ranges of some width: an empty one would be doubled for ever. *)
Ranges == {r \in [low : 0 .. Full, high : 0 .. Full] : r.low < r.high}

IsNarrow(r) == r.high < Half \/ r.low > Half \/ (r.low > Quarter /\ r.high < ThreeQuarters)

Excess(r) == IF r.high < Half THEN 0 ELSE IF r.low > Half THEN Half ELSE Quarter

(* The two loops that widen a range again, and the offsets they took off.  *)
(* The second never makes the first one's condition true.                  *)
Rescale[r \in Ranges] ==
    IF ~IsNarrow(r) THEN [range |-> r, offsets |-> <<>>]
    ELSE LET rest == Rescale[Doubled(r, Excess(r))] IN [rest EXCEPT !.offsets = <<Excess(r)>> \o @]

-----------------------------------------------------------------------------
(* A mutant of Emit: the bits owed are forgotten. *)
EmitAlone(out, offset) ==
    IF offset = Quarter THEN [out EXCEPT !.pending = @ + 1]
    ELSE [bits |-> Append(out.bits, IF offset = Half THEN 1 ELSE 0), pending |-> 0]

(* emit: a bit, then its opposite for each scaling of the middle half owed.*)
Emit(out, offset) ==
    LET bit == IF offset = Half THEN 1 ELSE 0
    IN  IF offset = Quarter THEN [out EXCEPT !.pending = @ + 1]
        ELSE [bits |-> out.bits \o <<bit>> \o [i \in 1 .. out.pending |-> 1 - bit], pending |-> 0]

(* An encoder is the range, the model and the output.  The end marker is   *)
(* counted here and not in the code: nothing is coded after it.            *)
EncodeSymbol(c, symbol, slips) ==
    LET scaled == Rescale[SubRange(c.range, c.model, symbol, slips)]
        out[i \in 0 .. Len(scaled.offsets)] == IF i = 0 THEN c.out ELSE Emit(out[i - 1], scaled.offsets[i])
    IN  [range |-> scaled.range, model |-> Counted(c.model, symbol), out |-> out[Len(scaled.offsets)]]

StartEncoder == [range |-> [low |-> 0, high |-> Full], model |-> StartModel, out |-> [bits |-> <<>>, pending |-> 0]]

(* arEncompress, and toBytes *)
Encompress(data, slips) ==
    LET encoder[i \in 0 .. Len(data)] ==
            IF i = 0 THEN StartEncoder ELSE EncodeSymbol(encoder[i - 1], data[i], slips)
        end == EncodeSymbol(encoder[Len(data)], EndOfData, slips)
        last == IF end.range.low <= Quarter THEN 0 ELSE Half
    IN  FromBits(ZeroPadded(Emit([end.out EXCEPT !.pending = @ + 1], last).bits, ByteBits), ByteBits)

-----------------------------------------------------------------------------
(* arDecompress: a decoder is the stream's bits and how many are read, the *)
(* range, the model, the value and the bytes decoded.                      *)

(* CoderInput: past the stream come as many zeros as the precision. *)
BitAt(bits, i) == IF i <= Len(bits) THEN bits[i] ELSE 0

InputLasts(d) == d.read <= Len(d.bits) + Precision

StartDecoder(stream) ==
    LET bits == BitsOf(stream, ByteBits)
    IN  [bits |-> bits, read |-> Precision, range |-> [low |-> 0, high |-> Full], model |-> StartModel,
         coded |-> <<>>, value |-> Number([i \in 1 .. Precision |-> BitAt(bits, i)])]

(* A mutant of ShiftIn: the middle half's offset stays in the value. *)
ShiftInUpper(d, offset) ==
    [d EXCEPT !.value = 2 * (@ - IF offset = Quarter THEN 0 ELSE offset) + BitAt(d.bits, d.read + 1), !.read = @ + 1]

ShiftIn(d, offset) == [d EXCEPT !.value = 2 * (@ - offset) + BitAt(d.bits, d.read + 1), !.read = @ + 1]

DecodeSymbol(d, symbol, slips) ==
    LET scaled == Rescale[SubRange(d.range, d.model, symbol, slips)]
        shifted[i \in 0 .. Len(scaled.offsets)] == IF i = 0 THEN d ELSE ShiftIn(shifted[i - 1], scaled.offsets[i])
    IN  [shifted[Len(scaled.offsets)] EXCEPT
            !.range = scaled.range, !.model = Counted(@, symbol), !.coded = Append(@, symbol)]

=============================================================================
