---------------------------- MODULE SnapshotTree ----------------------------
(***************************************************************************)
(* The directories that SnapshotArchive packs, and the order in which      *)
(* readSnapshot finds what is in them.                                     *)
(***************************************************************************)
EXTENDS SnapshotArchive

CONSTANTS
    Entries,        \* names in a directory, in the order of readdir
    Contents,       \* contents of files
    Depth           \* bound: directories within directories

Nothing   == [kind |-> "nothing"]
Device    == [kind |-> "device"]     \* neither a directory nor a file
File(d)   == [kind |-> "file", data |-> d]
Folder(t) == [kind |-> "dir", entries |-> t]
Empty     == [n \in Range(Entries) |-> Nothing]
Leaves    == {Nothing, Device} \cup {File(d) : d \in Contents}

RECURSIVE Directories(_)
Directories(depth) ==
    [Range(Entries) -> Leaves \cup {Folder(t) : t \in IF depth = 1 THEN {Empty}
                                                     ELSE Directories(depth - 1)}]

\* What pack writes of a directory, in its order: each directory before what
\* is in it, and nothing of what is no directory and no file.
RECURSIVE pack(_, _)
pack(entries, prefix) ==
    FlattenSeq([i \in DOMAIN Entries |->
        LET node == entries[Entries[i]]
            path == Append(prefix, Entries[i])
        IN CASE node.kind = "dir"  -> <<Entry(path, "dir", << >>)>> \o pack(node.entries, path)
             [] node.kind = "file" -> <<Entry(path, "file", node.data)>>
             [] OTHER -> << >>])

\* What is packed of all of them.
Snapshots == {pack(t, << >>) : t \in Directories(Depth)}
=============================================================================
