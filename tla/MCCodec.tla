------------------------------ MODULE MCCodec ------------------------------
(***************************************************************************)
(* Two formats, of data and of snapshots: an instance of CodecData with    *)
(* bytes of three bits and words of two bytes, and one of SnapshotArchive  *)
(* with blocks of two bytes and names of one and two.                      *)
(***************************************************************************)
EXTENDS CodecData, SnapshotTree

MCSelector == [EvmAdvance |-> <<1, 2, 3, 4>>, Notice |-> <<4, 3, 2, 1>>,
               Voucher |-> <<4, 3, 2, 0>>, DelegateCallVoucher |-> <<5, 3, 2, 1>>]
MCPortal == [EtherDeposit |-> <<1>>, Erc20Deposit |-> <<2>>, Erc721Deposit |-> <<3>>,
             Erc1155SingleDeposit |-> <<4>>, Erc1155BatchDeposit |-> <<5>>]

\* In the second byte only, the largest of a word, and one too many.
MCNumbers == {10, Radix^Word - 1, Radix^Word}
MCAddresses == {<<6>>, <<7>>}
\* Empty, within a word, a whole word, and past one, with zeros at the end
\* that are no padding.
MCByteStrings == {<< >>, <<3>>, <<4, 0>>, <<5, 6, 0>>}
MCLists == {<< >>, <<10>>, <<Radix^Word - 1, 10>>, <<Radix^Word>>}
MCJunk == {<<0>>, <<7, 7, 7>>}

MCEntries == <<"a", "bb">>
MCWidth == [a |-> 1, bb |-> 2]
\* Nothing, a block of zeros, and one and a half blocks.
MCContents == {<< >>, <<0, 0>>, <<1, 0, 1>>}

\* While one of the two varies the other is this.
PlainData == format = "Notice" /\ fields = << << >> >> /\ Intact
PlainSnapshot == listing = << >> /\ archive = readSnapshot(<< >>) /\ flaw = "sound"

MCInit == Init /\ (PlainSnapshot \/ (PlainData /\ SnapshotInit))

MCNext ==
    \/ PlainSnapshot /\ Next /\ UNCHANGED snapshotVars
    \/ PlainData /\ SnapshotNext /\ UNCHANGED vars

MCSpec == MCInit /\ [][MCNext]_<<vars, snapshotVars>>
=============================================================================
