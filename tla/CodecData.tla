----------------------------- MODULE CodecData -----------------------------
(***************************************************************************)
(* Data on its way from whoever encodes it to whoever decodes it, with the *)
(* mistakes in length that the tests of the codec are about: data may      *)
(* arrive cut short, or with bytes behind its end.                         *)
(***************************************************************************)
EXTENDS Codec

CONSTANTS
    Numbers,    \* numbers to encode, one of them too large for a word
    Addresses,  \* addresses to encode
    ByteStrings,\* payloads and layer data
    Lists,      \* token identifiers and amounts of a batch
    Junk        \* what may follow the data

\* No array is longer than a number can say.
ASSUME DataAssumption ==
    /\ Numbers \subseteq Nat
    /\ Addresses \subseteq [1..AddressSize -> 0..(Radix - 1)]
    /\ ByteStrings \cup Junk \subseteq Seq(0..(Radix - 1))
    /\ Lists \subseteq Seq(Nat)
    /\ \A ids, values \in Lists \cup {<< >>}, base, exec \in ByteStrings \cup {<< >>},
          junk \in Junk \cup {<< >>} :
          4 + 2 * AddressSize + 8 * Word + abiUint256ArraySize(ids) + abiUint256ArraySize(values)
            + abiBytesSize(base) + abiBytesSize(exec) + Len(junk) <= MaxSafeInteger

VARIABLES
    format,     \* what is encoded
    fields,     \* the fields that were given to the encoder
    data,       \* what the decoder gets; Refused if the encoder threw
    lost,       \* bytes missing at its end
    added       \* bytes following it

vars == <<format, fields, data, lost, added>>

FieldsOf(f) ==
    CASE f = "EvmAdvance" -> Numbers \X Addresses \X Addresses \X Numbers \X Numbers
                             \X Numbers \X Numbers \X ByteStrings
      [] f = "Notice" -> {<<payload>> : payload \in ByteStrings}
      [] f = "Voucher" -> Addresses \X Numbers \X ByteStrings
      [] f = "DelegateCallVoucher" -> Addresses \X ByteStrings
      [] f = "EtherDeposit" -> Addresses \X Numbers \X ByteStrings
      [] f = "Erc20Deposit" -> Addresses \X Addresses \X Numbers \X ByteStrings
      [] f = "Erc721Deposit" ->
            Addresses \X Addresses \X Numbers \X ByteStrings \X ByteStrings
      [] f = "Erc1155SingleDeposit" ->
            Addresses \X Addresses \X Numbers \X Numbers \X ByteStrings \X ByteStrings
      [] f = "Erc1155BatchDeposit" ->
            Addresses \X Addresses \X Lists \X Lists \X ByteStrings \X ByteStrings

\* The types of a format's fields, as the ABI or the packed layout has them.
TypesOf(f) ==
    CASE f = "EvmAdvance" -> evmAdvance
      [] f \in Outputs -> outputAbi[f]
      [] f = "EtherDeposit" -> <<"address", "uint256", "bytes">>
      [] f = "Erc20Deposit" -> <<"address", "address", "uint256", "bytes">>
      [] f = "Erc721Deposit" -> <<"address", "address", "uint256">> \o dataAbi
      [] f = "Erc1155SingleDeposit" ->
            <<"address", "address", "uint256", "uint256">> \o dataAbi
      [] f = "Erc1155BatchDeposit" -> <<"address", "address">> \o batchDataAbi

\* Every number that is written is in range; writing another one throws.
InRange(f, v) ==
    \A i \in DOMAIN v :
        /\ TypesOf(f)[i] = "uint256" => Writable(v[i])
        /\ TypesOf(f)[i] = "uint256[]" => \A k \in DOMAIN v[i] : Writable(v[i][k])

Encode(f, v, to) ==
    IF ~InRange(f, v) THEN Refused
    ELSE CASE f = "EvmAdvance" -> encodeInput(v, to)
           [] f \in Outputs -> encodeOutput(f, v, to)
           [] f = "EtherDeposit" -> encodeEtherDeposit(v, to)
           [] f = "Erc20Deposit" -> encodeErc20Deposit(v, to)
           [] f = "Erc721Deposit" -> encodeErc721Deposit(v, to)
           [] f = "Erc1155SingleDeposit" -> encodeErc1155SingleDeposit(v, to)
           [] f = "Erc1155BatchDeposit" -> encodeErc1155BatchDeposit(v, to)

Decode(f, d, from) ==
    CASE f = "EvmAdvance" -> Typed(f, decodeInput(d, from))
      [] f \in Outputs -> decodeOutput(d, from)
      [] f \in Deposits -> decodeDeposit(Portal[f], d, from)

Init ==
    /\ format \in Formats
    /\ fields \in FieldsOf(format)
    /\ data = Encode(format, fields, "bytes")
    /\ lost = 0
    /\ added = << >>

Intact == data # Refused /\ lost = 0 /\ added = << >>

\* The data arrives short of its last bytes.
Cut ==
    /\ Intact
    /\ \E n \in DOMAIN data[1] :
          /\ data' = << SubSeq(data[1], 1, Len(data[1]) - n) >>
          /\ lost' = n
    /\ UNCHANGED <<format, fields, added>>

\* Bytes follow the data.
Extend ==
    /\ Intact
    /\ \E junk \in Junk :
          /\ data' = << data[1] \o junk >>
          /\ added' = junk
    /\ UNCHANGED <<format, fields, lost>>

Next == Cut \/ Extend

Spec == Init /\ [][Next]_vars

-----------------------------------------------------------------------------

Value == << [type |-> format, fields |-> fields] >>

(* Decoding what was encoded gives back the value, under its own type and  *)
(* in either representation ("this is the inverse of ...", portal.ts:258); *)
(* the encoder refuses exactly what does not fit.                          *)
RoundTrip ==
    /\ data = Refused <=> ~InRange(format, fields)
    /\ Intact => \A r \in Representations : Decode(format, data[1], r) = Value

(* The two implementations agree: on the encoding, byte by byte, although  *)
(* one of them works out every size and offset by hand, and on what they   *)
(* make of data of any length.                                             *)
PathsAgree ==
    /\ Intact => Encode(format, fields, "hex") = data
    /\ data # Refused => Decode(format, data[1], "hex") = Decode(format, data[1], "bytes")

\* The last field of every format is a byte string.
LastField == fields[Len(fields)]
ReachesTheEnd == format \in {"EtherDeposit", "Erc20Deposit"}

(* A mistake in the length of data is noticed, or is harmless.  A decoder  *)
(* never answers with fields shorter than those encoded: data that lost    *)
(* more than padding is refused.  Bytes behind the end make no difference. *)
(* Where the last field reaches to the end of the payload by definition    *)
(* (Ether and ERC-20 deposits) that field alone follows the length.        *)
LengthMistakes ==
    LET decoded == Decode(format, data[1], "bytes")
        padding == ceilWord(Len(LastField)) - Len(LastField)
        withLast(bytes) ==
            << [type |-> format, fields |-> [fields EXCEPT ![Len(fields)] = bytes]] >>
    IN (data # Refused /\ ~Intact) =>
        IF ReachesTheEnd
        THEN decoded = IF lost > Len(LastField) THEN Refused
                       ELSE withLast(SubSeq(LastField, 1, Len(LastField) - lost) \o added)
        ELSE decoded = IF lost > padding THEN Refused ELSE Value
=============================================================================
