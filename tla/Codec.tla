-------------------------------- MODULE Codec ------------------------------
(***************************************************************************)
(* The codec package: how inputs, outputs and portal deposits are written  *)
(* to and read from bytes.  Every format has two implementations, one over *)
(* byte arrays with offsets worked out by hand (bytes.ts) and one over hex *)
(* strings that leaves the layout to the ABI encoder of a library.         *)
(*                                                                         *)
(* Data is a sequence of bytes in either representation: a hex string and  *)
(* the byte array it spells are one value here, and the representation     *)
(* says which implementation is meant.  A value is the tuple of its fields *)
(* in the order of the ABI: numbers, addresses (sequences of bytes), byte  *)
(* strings and lists of numbers.  Whatever may throw returns <<result>> or *)
(* Refused.                                                                *)
(***************************************************************************)
EXTENDS Naturals, Sequences, SequencesExt

CONSTANTS
    Radix,          \* values of a byte (256)
    Word,           \* bytes of an ABI word (32)
    AddressSize,    \* bytes of an address (20)
    MaxSafeInteger, \* the largest size a JavaScript number takes (2^53 - 1)
    Selector,       \* the four bytes that announce each call
    Portal          \* the address each kind of deposit comes from

Representations == {"hex", "bytes"}
Outputs == {"Notice", "Voucher", "DelegateCallVoucher"}
Deposits == {"EtherDeposit", "Erc20Deposit", "Erc721Deposit",
             "Erc1155SingleDeposit", "Erc1155BatchDeposit"}
Formats == {"EvmAdvance"} \cup Outputs \cup Deposits

\* The powers of the radix: how many numbers there are of so many bytes.
Power[k \in 0..Word] == IF k = 0 THEN 1 ELSE Radix * Power[k - 1]

ASSUME SizesAssumption ==
    /\ Radix \in Nat /\ Radix > 1
    /\ AddressSize \in Nat \ {0} /\ Word \in Nat /\ AddressSize <= Word
    /\ MaxSafeInteger \in 1..(Power[Word] - 1)

ASSUME NamesAssumption ==
    /\ \A f \in {"EvmAdvance"} \cup Outputs : Selector[f] \in [1..4 -> 0..(Radix - 1)]
    /\ \A f, g \in Outputs : Selector[f] = Selector[g] => f = g
    /\ \A f, g \in Deposits : Portal[f] = Portal[g] => f = g

Refused == << >>

\* What comes of a computation that goes on with a result, if there is one.
Then(option, Next(_)) == IF option = Refused THEN Refused ELSE Next(option[1])

\* A record literal whose fields are computed one by one: all or nothing.
All(options) ==
    IF \E i \in DOMAIN options : options[i] = Refused THEN Refused
    ELSE << [i \in DOMAIN options |-> options[i][1]] >>

-----------------------------------------------------------------------------
(* Writers.  They are given as what they write; a buffer is Filled with it *)
(* from offset 0 on.                                                       *)

ceilWord(length) == ((length + Word - 1) \div Word) * Word
Zeros(n) == [i \in 1..n |-> 0]

Uint256(n) == [i \in 1..Word |-> (n \div Power[Word - i]) % Radix]
Writable(n) == n < Power[Word]
AddressWord(address) == Zeros(Word - AddressSize) \o address
PaddedBytes(value) == value \o Zeros(ceilWord(Len(value)) - Len(value))
AbiBytes(value) == Uint256(Len(value)) \o PaddedBytes(value)
AbiUint256Array(values) ==
    Uint256(Len(values)) \o FlattenSeq([i \in DOMAIN values |-> Uint256(values[i])])

abiBytesSize(value) == Word + ceilWord(Len(value))
abiUint256ArraySize(values) == Word * (1 + Len(values))

\* A zeroed buffer of a size computed up front, after the parts were written
\* to it; setting bytes past its end throws.
Filled(size, parts) ==
    LET written == FlattenSeq(parts)
    IN IF Len(written) > size THEN Refused ELSE << written \o Zeros(size - Len(written)) >>

-----------------------------------------------------------------------------
(* Readers.  Offsets count from 0.                                         *)

\* The bytes from offset on, if the data has them all.
Read(data, offset, size) ==
    IF offset + size > Len(data) THEN Refused
    ELSE << SubSeq(data, offset + 1, offset + size) >>

NumberOf(bytes) ==
    LET number[k \in 0..Len(bytes)] ==
            IF k = 0 THEN 0 ELSE Radix * number[k - 1] + bytes[k]
    IN number[Len(bytes)]

readAddress(data, offset) == Read(data, offset, AddressSize)
\* Seeded fault: an address at the left end of its word.
readAddressWordLeft(data, offset) == readAddress(data, offset)
readAddressWord(data, offset) == readAddress(data, offset + Word - AddressSize)
readUint256(data, offset) ==
    Then(Read(data, offset, Word), LAMBDA bytes : << NumberOf(bytes) >>)
readSize(data, offset) ==
    Then(readUint256(data, offset),
         LAMBDA n : IF n > MaxSafeInteger THEN Refused ELSE <<n>>)

\* Seeded fault: the bounds of the contents are not checked, and what is not
\* there is silently missing from the view.
readAbiBytesUnchecked(data, base, pointer) ==
    Then(readSize(data, pointer), LAMBDA offset :
        Then(readSize(data, base + offset), LAMBDA length :
            LET start == base + offset + Word
                end == IF start + length < Len(data) THEN start + length ELSE Len(data)
            IN << SubSeq(data, start + 1, end) >>))

readAbiBytes(data, base, pointer) ==
    Then(readSize(data, pointer), LAMBDA offset :
        Then(readSize(data, base + offset), LAMBDA length :
            Read(data, base + offset + Word, length)))

readAbiUint256Array(data, base, pointer) ==
    Then(readSize(data, pointer), LAMBDA offset :
        Then(readSize(data, base + offset), LAMBDA length :
            IF base + offset + Word * (1 + length) > Len(data) THEN Refused
            ELSE All([i \in 1..length |-> readUint256(data, base + offset + Word * i)])))

hasSelector(data, selector) == IsPrefix(selector, data)

-----------------------------------------------------------------------------
(* External: the library's ABI encoder, from the types of the fields.  The *)
(* head has a word for each, the value or the offset of its tail.          *)

AbiEncode(types, fields) ==
    LET tail == [i \in DOMAIN types |->
                    CASE types[i] = "bytes" -> AbiBytes(fields[i])
                      [] types[i] = "uint256[]" -> AbiUint256Array(fields[i])
                      [] OTHER -> << >>]
        head(i) == CASE types[i] = "uint256" -> Uint256(fields[i])
                     [] types[i] = "address" -> AddressWord(fields[i])
                     [] OTHER -> Uint256(Len(types) * Word
                                         + Len(FlattenSeq(SubSeq(tail, 1, i - 1))))
    IN FlattenSeq([i \in DOMAIN types |-> head(i)]) \o FlattenSeq(tail)

AbiDecode(types, data) ==
    LET word(offset) == Then(Read(data, offset, Word), LAMBDA bytes : << NumberOf(bytes) >>)
        dynamic(i, Contents(_, _)) ==
            Then(word(Word * (i - 1)), LAMBDA offset :
                Then(word(offset), LAMBDA length : Contents(offset + Word, length)))
    IN [i \in DOMAIN types |->
          CASE types[i] = "uint256" -> word(Word * (i - 1))
            [] types[i] = "address" -> Read(data, Word * i - AddressSize, AddressSize)
            [] types[i] = "bytes" ->
                 dynamic(i, LAMBDA start, length : Read(data, start, length))
            [] types[i] = "uint256[]" ->
                 dynamic(i, LAMBDA start, length :
                               All([k \in 1..length |-> word(start + Word * (k - 1))]))]

\* encodePacked: the fields as they are, without padding or lengths.
Packed(types, fields) ==
    FlattenSeq([i \in DOMAIN types |->
                  IF types[i] = "uint256" THEN Uint256(fields[i]) ELSE fields[i]])

-----------------------------------------------------------------------------
(* Inputs.                                                                 *)

evmAdvance == << "uint256", "address", "address", "uint256", "uint256",
                 "uint256", "uint256", "bytes" >>

encodeInputBytes(input) ==
    Filled(4 + 9 * Word + ceilWord(Len(input[8])),
           << Selector["EvmAdvance"],
              Uint256(input[1]), AddressWord(input[2]), AddressWord(input[3]),
              Uint256(input[4]), Uint256(input[5]), Uint256(input[6]), Uint256(input[7]),
              Uint256(8 * Word), AbiBytes(input[8]) >>)

encodeInput(input, to) ==
    IF to = "bytes" THEN encodeInputBytes(input)
    ELSE << Selector["EvmAdvance"] \o AbiEncode(evmAdvance, input) >>

decodeInputHex(data) ==
    IF ~IsPrefix(Selector["EvmAdvance"], data) THEN Refused
    ELSE All(AbiDecode(evmAdvance, SubSeq(data, 5, Len(data))))

decodeInputBytes(data) ==
    IF ~hasSelector(data, Selector["EvmAdvance"]) THEN Refused
    ELSE All(<< readUint256(data, 4),
                readAddressWord(data, 4 + Word), readAddressWord(data, 4 + 2 * Word),
                readUint256(data, 4 + 3 * Word), readUint256(data, 4 + 4 * Word),
                readUint256(data, 4 + 5 * Word), readUint256(data, 4 + 6 * Word),
                readAbiBytes(data, 4, 4 + 7 * Word) >>)

decodeInput(data, from) ==
    IF from = "hex" THEN decodeInputHex(data) ELSE decodeInputBytes(data)

-----------------------------------------------------------------------------
(* Outputs, with the type that the selector stands for.                    *)

outputAbi == [Notice |-> << "bytes" >>,
              Voucher |-> << "address", "uint256", "bytes" >>,
              DelegateCallVoucher |-> << "address", "bytes" >>]

encodeNoticeBytes(notice) ==
    Filled(4 + 2 * Word + ceilWord(Len(notice[1])),
           << Selector["Notice"], Uint256(Word), AbiBytes(notice[1]) >>)

encodeVoucherBytes(voucher) ==
    Filled(4 + 4 * Word + ceilWord(Len(voucher[3])),
           << Selector["Voucher"], AddressWord(voucher[1]), Uint256(voucher[2]),
              Uint256(3 * Word), AbiBytes(voucher[3]) >>)

encodeDelegateCallVoucherBytes(voucher) ==
    Filled(4 + 3 * Word + ceilWord(Len(voucher[2])),
           << Selector["DelegateCallVoucher"], AddressWord(voucher[1]),
              Uint256(2 * Word), AbiBytes(voucher[2]) >>)

encodeOutput(type, fields, to) ==
    IF to = "hex" THEN << Selector[type] \o AbiEncode(outputAbi[type], fields) >>
    ELSE CASE type = "Notice" -> encodeNoticeBytes(fields)
           [] type = "Voucher" -> encodeVoucherBytes(fields)
           [] type = "DelegateCallVoucher" -> encodeDelegateCallVoucherBytes(fields)

\* What is decoded of the fields, under its type.
Typed(type, fields) == Then(fields, LAMBDA decoded : << [type |-> type, fields |-> decoded] >>)

decodeOutputHex(data) ==
    IF \E type \in Outputs : IsPrefix(Selector[type], data)
    THEN LET type == CHOOSE t \in Outputs : IsPrefix(Selector[t], data)
         IN Typed(type, All(AbiDecode(outputAbi[type], SubSeq(data, 5, Len(data)))))
    ELSE Refused

decodeOutputBytes(data) ==
    CASE hasSelector(data, Selector["Notice"]) ->
           Typed("Notice", All(<< readAbiBytes(data, 4, 4) >>))
      [] hasSelector(data, Selector["Voucher"]) ->
           Typed("Voucher", All(<< readAddressWord(data, 4), readUint256(data, 4 + Word),
                                   readAbiBytes(data, 4, 4 + 2 * Word) >>))
      [] hasSelector(data, Selector["DelegateCallVoucher"]) ->
           Typed("DelegateCallVoucher", All(<< readAddressWord(data, 4),
                                               readAbiBytes(data, 4, 4 + Word) >>))
      [] OTHER -> Refused

decodeOutput(data, from) ==
    IF from = "hex" THEN decodeOutputHex(data) ELSE decodeOutputBytes(data)

-----------------------------------------------------------------------------
(* Portal deposits: packed fields, and behind them bytes for the execution *)
(* layer as they are, or an ABI encoded tail.                              *)

dataAbi == << "bytes", "bytes" >>
batchDataAbi == << "uint256[]", "uint256[]", "bytes", "bytes" >>

dataTailSize(base, exec) == 2 * Word + abiBytesSize(base) + abiBytesSize(exec)
\* Seeded fault: the second offset forgets the padding of what is before it.
DataTailUnpadded(base, exec) ==
    << Uint256(2 * Word), Uint256(3 * Word + Len(base)), AbiBytes(base), AbiBytes(exec) >>
DataTail(base, exec) ==
    << Uint256(2 * Word), Uint256(2 * Word + abiBytesSize(base)),
       AbiBytes(base), AbiBytes(exec) >>

batchDataTailSize(ids, values, base, exec) ==
    4 * Word + abiUint256ArraySize(ids) + abiUint256ArraySize(values)
             + abiBytesSize(base) + abiBytesSize(exec)
BatchDataTail(ids, values, base, exec) ==
    LET valuesOffset == 4 * Word + abiUint256ArraySize(ids)
        baseOffset == valuesOffset + abiUint256ArraySize(values)
        execOffset == baseOffset + abiBytesSize(base)
    IN << Uint256(4 * Word), Uint256(valuesOffset), Uint256(baseOffset), Uint256(execOffset),
          AbiUint256Array(ids), AbiUint256Array(values), AbiBytes(base), AbiBytes(exec) >>

\* What is left of a payload; nothing if it ends before.
sliceFrom(payload, start) == SubSeq(payload, start + 1, Len(payload))

encodeEtherDeposit(d, to) ==
    IF to = "bytes"
    THEN Filled(AddressSize + Word + Len(d[3]), << d[1], Uint256(d[2]), d[3] >>)
    ELSE << Packed(<<"address", "uint256", "bytes">>, d) >>

decodeEtherDeposit(payload, from) ==
    LET fixed == AddressSize + Word
    IN IF Len(payload) < fixed THEN Refused
       ELSE All(<< readAddress(payload, 0), readUint256(payload, AddressSize),
                   << sliceFrom(payload, fixed) >> >>)

encodeErc20Deposit(d, to) ==
    IF to = "bytes"
    THEN Filled(2 * AddressSize + Word + Len(d[4]), << d[1], d[2], Uint256(d[3]), d[4] >>)
    ELSE << Packed(<<"address", "address", "uint256", "bytes">>, d) >>

decodeErc20Deposit(payload, from) ==
    LET fixed == 2 * AddressSize + Word
    IN IF Len(payload) < fixed THEN Refused
       ELSE All(<< readAddress(payload, 0), readAddress(payload, AddressSize),
                   readUint256(payload, 2 * AddressSize), << sliceFrom(payload, fixed) >> >>)

encodeErc721Deposit(d, to) ==
    IF to = "bytes"
    THEN Filled(2 * AddressSize + Word + dataTailSize(d[4], d[5]),
                << d[1], d[2], Uint256(d[3]) >> \o DataTail(d[4], d[5]))
    ELSE << Packed(<<"address", "address", "uint256", "bytes">>,
                   << d[1], d[2], d[3], AbiEncode(dataAbi, << d[4], d[5] >>) >>) >>

decodeErc721Deposit(payload, from) ==
    LET fixed == 2 * AddressSize + Word
        packed == << readAddress(payload, 0), readAddress(payload, AddressSize),
                     readUint256(payload, 2 * AddressSize) >>
        tail == IF from = "hex" THEN AbiDecode(dataAbi, sliceFrom(payload, fixed))
                ELSE << readAbiBytes(payload, fixed, fixed),
                        readAbiBytes(payload, fixed, fixed + Word) >>
    IN IF Len(payload) < fixed THEN Refused ELSE All(packed \o tail)

encodeErc1155SingleDeposit(d, to) ==
    IF to = "bytes"
    THEN Filled(2 * AddressSize + 2 * Word + dataTailSize(d[5], d[6]),
                << d[1], d[2], Uint256(d[3]), Uint256(d[4]) >> \o DataTail(d[5], d[6]))
    ELSE << Packed(<<"address", "address", "uint256", "uint256", "bytes">>,
                   << d[1], d[2], d[3], d[4], AbiEncode(dataAbi, << d[5], d[6] >>) >>) >>

decodeErc1155SingleDeposit(payload, from) ==
    LET fixed == 2 * AddressSize + 2 * Word
        packed == << readAddress(payload, 0), readAddress(payload, AddressSize),
                     readUint256(payload, 2 * AddressSize),
                     readUint256(payload, 2 * AddressSize + Word) >>
        tail == IF from = "hex" THEN AbiDecode(dataAbi, sliceFrom(payload, fixed))
                ELSE << readAbiBytes(payload, fixed, fixed),
                        readAbiBytes(payload, fixed, fixed + Word) >>
    IN IF Len(payload) < fixed THEN Refused ELSE All(packed \o tail)

encodeErc1155BatchDeposit(d, to) ==
    IF to = "bytes"
    THEN Filled(2 * AddressSize + batchDataTailSize(d[3], d[4], d[5], d[6]),
                << d[1], d[2] >> \o BatchDataTail(d[3], d[4], d[5], d[6]))
    ELSE << Packed(<<"address", "address", "bytes">>,
                   << d[1], d[2], AbiEncode(batchDataAbi, SubSeq(d, 3, 6)) >>) >>

decodeErc1155BatchDeposit(payload, from) ==
    LET fixed == 2 * AddressSize
        packed == << readAddress(payload, 0), readAddress(payload, AddressSize) >>
        tail == IF from = "hex" THEN AbiDecode(batchDataAbi, sliceFrom(payload, fixed))
                ELSE << readAbiUint256Array(payload, fixed, fixed),
                        readAbiUint256Array(payload, fixed, fixed + Word),
                        readAbiBytes(payload, fixed, fixed + 2 * Word),
                        readAbiBytes(payload, fixed, fixed + 3 * Word) >>
    IN IF Len(payload) < fixed THEN Refused ELSE All(packed \o tail)

\* The deposit of an input, chosen by the portal it comes from.  An input of
\* anyone else is no deposit, which is an answer and not a refusal.
NoDeposit == [type |-> "none", fields |-> << >>]
decodeDeposit(msgSender, payload, from) ==
    CASE msgSender = Portal["EtherDeposit"] ->
           Typed("EtherDeposit", decodeEtherDeposit(payload, from))
      [] msgSender = Portal["Erc20Deposit"] ->
           Typed("Erc20Deposit", decodeErc20Deposit(payload, from))
      [] msgSender = Portal["Erc721Deposit"] ->
           Typed("Erc721Deposit", decodeErc721Deposit(payload, from))
      [] msgSender = Portal["Erc1155SingleDeposit"] ->
           Typed("Erc1155SingleDeposit", decodeErc1155SingleDeposit(payload, from))
      [] msgSender = Portal["Erc1155BatchDeposit"] ->
           Typed("Erc1155BatchDeposit", decodeErc1155BatchDeposit(payload, from))
      [] OTHER -> << NoDeposit >>
=============================================================================
