--------------------------- MODULE SnapshotArchive --------------------------
(***************************************************************************)
(* A stored machine as a tar archive (wasm/snapshot.ts): readSnapshot puts *)
(* what it finds in a directory of the module's filesystem, writeSnapshot  *)
(* unpacks it, after the archive has travelled, and may have lost its end  *)
(* or had a byte changed on the way.                                       *)
(*                                                                         *)
(* An archive is a sequence of cells, one for each byte.  A byte of a      *)
(* header is known by the header and its place in it, so the checksum of a *)
(* block fits if its bytes are those of one header, in their places.       *)
(***************************************************************************)
EXTENDS Naturals, FiniteSets, Sequences, SequencesExt

CONSTANTS
    BlockSize,      \* bytes of a block, of a header as well
    NameSize,       \* bytes of a header's name field
    Width,          \* the bytes of each name
    Listings        \* what can be found in a directory, in the order of packing

ASSUME ListingsAssumption ==
    /\ BlockSize \in Nat /\ BlockSize >= 2
    /\ Listings \subseteq
         Seq([path : Seq(DOMAIN Width), kind : {"dir", "file"}, data : Seq(Nat)])

VARIABLES
    listing,        \* the entries of the directory that is packed
    archive,        \* its archive as it arrives; NoArchive if packing threw
    flaw            \* what happened to it on the way

snapshotVars == <<listing, archive, flaw>>

-----------------------------------------------------------------------------
(* readSnapshot                                                            *)

Zero        == [byte |-> 0]
Data(d)     == [i \in DOMAIN d |-> [byte |-> d[i]]]
Padding(n)  == [i \in 1 .. n |-> Zero]
header(h)   == [i \in 1 .. BlockSize |-> [header |-> h, at |-> i]]
End         == Padding(2 * BlockSize)

blocksFor(size) == ((size + BlockSize - 1) \div BlockSize) * BlockSize

Entry(path, kind, data) == [path |-> path, kind |-> kind, data |-> data]

\* The names of a path joined by slashes, a directory's with one at its end.
NameWidth(entry) ==
    FoldLeft(LAMBDA sum, n : sum + Width[n] + 1, 0, entry.path)
        - (IF entry.kind = "dir" THEN 0 ELSE 1)

Header(entry) == [path |-> entry.path, kind |-> entry.kind, size |-> Len(entry.data)]

\* Seeded fault: the data of a file does not end on a block's border.
PackedUnpadded(entry) == header(Header(entry)) \o Data(entry.data)

PackedEntry(entry) == header(Header(entry)) \o Data(entry.data)
                      \o Padding(blocksFor(Len(entry.data)) - Len(entry.data))

\* "name too long for a tar header"
NoArchive == <<[refused |-> TRUE]>>

readSnapshot(all) ==
    IF \E i \in DOMAIN all : NameWidth(all[i]) > NameSize THEN NoArchive
    ELSE FlattenSeq([i \in DOMAIN all |-> PackedEntry(all[i])]) \o End

-----------------------------------------------------------------------------
(* writeSnapshot                                                           *)

\* The checksum field ends in a NUL and a space, and blanks do as well: such a
\* change of a header is not noticed, and changes nothing.
Blank == [byte |-> 32]

ChecksumFits(block) ==
    /\ "header" \in DOMAIN block[1]
    /\ \A i \in 1 .. BlockSize :
           block[i] = header(block[1].header)[i] \/ (i = BlockSize /\ block[i] = Blank)

Clip(cells, from, to) == SubSeq(cells, from, IF to < Len(cells) THEN to ELSE Len(cells))

\* What is in the directory when it returns or throws, of what stands from an
\* offset on; rest has that of the later offsets. Data that is not there is not
\* missed: subarray clips.
Unpack(cells, offset, rest) ==
    LET block == SubSeq(cells, offset + 1, offset + BlockSize)
        head  == block[1].header
        data  == Clip(cells, offset + BlockSize + 1, offset + BlockSize + head.size)
        next  == rest[offset + BlockSize + blocksFor(head.size)]
    IN IF offset + BlockSize > Len(cells) \/ block = Padding(BlockSize)
       THEN [placed |-> << >>, threw |-> FALSE]
       ELSE IF ~ChecksumFits(block) THEN [placed |-> << >>, threw |-> TRUE]
       ELSE [placed |-> << Entry(head.path, head.kind, [i \in DOMAIN data |-> data[i].byte]) >>
                            \o next.placed,
             threw  |-> next.threw]

writeSnapshot(cells) ==
    LET unpack[offset \in Nat] == Unpack(cells, offset, unpack) IN unpack[0]

-----------------------------------------------------------------------------
SnapshotInit ==
    /\ listing \in Listings
    /\ archive = readSnapshot(listing)
    /\ flaw = "sound"

\* A download that ended early.
Truncate ==
    /\ flaw = "sound" /\ archive # NoArchive
    /\ \E n \in 0 .. Len(archive) - 1 : archive' = SubSeq(archive, 1, n)
    /\ flaw' = "cut"
    /\ UNCHANGED listing

\* A byte has another value, one that is in no content.
Changed == {Blank, [byte |-> 255]}

Damage ==
    /\ flaw = "sound" /\ archive # NoArchive
    /\ \E n \in DOMAIN archive, byte \in Changed : archive' = [archive EXCEPT ![n] = byte]
    /\ flaw' = "changed"
    /\ UNCHANGED listing

SnapshotNext == Truncate \/ Damage

SnapshotSpec == SnapshotInit /\ [][SnapshotNext]_snapshotVars

-----------------------------------------------------------------------------
(***************************************************************************)
(* An archive "unpacked anywhere ... is the same machine" (the test of it): *)
(* every directory and file, in place and whole.  A flaw never goes        *)
(* further than it must, although there is no checksum on data.  What is   *)
(* unpacked are the first entries of the snapshot, with one exception      *)
(* whole: the last is short if the archive ended in it, or one byte of one *)
(* is changed; any other change is refused, or makes no difference.        *)
(***************************************************************************)
SnapshotsSurvive ==
    LET all == listing
        got == writeSnapshot(archive)
        wrong == {i \in DOMAIN got.placed : got.placed[i] # all[i]}
    IN archive # NoArchive =>
        /\ Len(got.placed) <= Len(all)
        /\ \A i \in wrong : got.placed[i] = [all[i] EXCEPT !.data = got.placed[i].data]
        /\ flaw = "sound" => got.placed = all /\ ~got.threw
        /\ flaw = "cut" =>
               /\ ~got.threw /\ wrong \subseteq {Len(got.placed)}
               /\ \A i \in wrong : IsStrictPrefix(got.placed[i].data, all[i].data)
        /\ flaw = "changed" =>
               /\ \A i, j \in wrong : i = j
               /\ \A i \in wrong :
                      /\ Len(got.placed[i].data) = Len(all[i].data)
                      /\ Cardinality({k \in DOMAIN all[i].data :
                                        got.placed[i].data[k] # all[i].data[k]}) = 1
               /\ ~got.threw => Len(got.placed) = Len(all)

=============================================================================
