------------------------------ MODULE Archive ------------------------------
(***************************************************************************)
(* The boot archive, from the file list to the namespace: build_archive in *)
(* runner/build.rs, the format in abi/src/archive.rs, and mount, lookup,   *)
(* read, read_dir and read_all in kernel/src/fs.rs.                        *)
(*                                                                         *)
(* An archive is a sequence of cells: a header, a table of entries, and    *)
(* the files' data.  A cell stands for HEADER_SIZE, ENTRY_SIZE or one unit *)
(* of data, so offsets count cells from 0.  A path is its string split at  *)
(* the slashes: "/etc/motd" is <<"", "etc", "motd">>, "/" is <<"", "">>.   *)
(***************************************************************************)
EXTENDS Integers, Sequences, FiniteSets, Functions

CONSTANTS MaxPath,     \* components a path may have, for the 120 bytes of MAX_PATH
          MaxWord      \* the largest offset a 64-bit field holds, scaled

ASSUME SizeAssumption == MaxPath \in Nat /\ MaxWord \in Nat

VARIABLES ramdisk,     \* the bytes the bootloader mapped
          fs           \* FILESYSTEM: NotMounted, or the nodes and the slice's length

archiveVars == <<ramdisk, fs>>

Root == <<"", "">>
NoPath == <<>>
Nul == "\\0"           \* a component with a NUL in it
NotMounted == [nodes |-> <<>>, len |-> -1]

HEADER_SIZE == 1
ENTRY_SIZE == 1
Version == 1

IsEntry(cell) == "path" \in DOMAIN cell
IsHeader(cell) == "count" \in DOMAIN cell

-----------------------------------------------------------------------------
(* abi/src/archive.rs *)

path_is_valid(p) ==
    /\ Len(p) \in 2..MaxPath /\ p[1] = ""
    /\ \A i \in DOMAIN p : p[i] # Nul
    /\ p = Root \/ \A i \in 2..Len(p) : p[i] \notin {"", ".", ".."}

parent_of(p) == IF p = Root \/ Len(p) < 2 THEN NoPath
                ELSE IF Len(p) = 2 THEN Root ELSE SubSeq(p, 1, Len(p) - 1)

-----------------------------------------------------------------------------
(* runner/build.rs *)

\* Every ancestor of every file, found by climbing with parent_of, and the root.
Directories(paths) ==
    LET climb[n \in 0..MaxPath] ==
            IF n = 0 THEN {Root} \union {parent_of(p) : p \in paths}
            ELSE climb[n - 1] \union {parent_of(p) : p \in climb[n - 1]}
    IN climb[MaxPath] \ {NoPath}

\* The asserts of build_archive: valid paths, each once and none a directory.
Buildable(files) ==
    LET paths == {files[i].path : i \in DOMAIN files}
    IN /\ \A i \in DOMAIN files : path_is_valid(files[i].path)
       /\ Cardinality(paths) = Len(files)
       /\ paths \intersect Directories(paths) = {}

\* What the table will list: the directories, in some order, then the files.
Listed(files) ==
    LET dirs  == Directories({files[i].path : i \in DOMAIN files})
        order == CHOOSE d \in Bijection(1..Cardinality(dirs), dirs) : TRUE
    IN [i \in 1..Cardinality(dirs) |-> [path |-> order[i], data |-> <<>>, dir |-> TRUE]]
       \o [i \in DOMAIN files |->
             [path |-> files[i].path, data |-> files[i].data, dir |-> FALSE]]

\* The files' data one after the other: Blobs(listed)[n] is that of the first n.
Blobs(listed) ==
    LET blob[n \in 0..Len(listed)] == IF n = 0 THEN <<>> ELSE blob[n - 1] \o listed[n].data
    IN blob

\* The header, the table, and the blob in the table's order; offsets are known
\* before the table is written.
build_archive(files) ==
    LET listed == Listed(files)
        blob   == Blobs(listed)
        start  == HEADER_SIZE + Len(listed) * ENTRY_SIZE
    IN <<[magic |-> TRUE, version |-> Version, count |-> Len(listed)]>>
       \o [n \in DOMAIN listed |->
             [path   |-> listed[n].path,
              dir    |-> listed[n].dir,
              offset |-> IF listed[n].dir THEN 0 ELSE start + Len(blob[n - 1]),
              len    |-> Len(listed[n].data)]]
       \o blob[Len(listed)]

-----------------------------------------------------------------------------
(* kernel/src/fs.rs *)

checked_add(a, b) == IF a + b > MaxWord THEN MaxWord + 1 ELSE a + b

\* Mutant of EntryAccepted: the end of the data is computed with wrap-around.
EntryAcceptedWrapping(bytes, at) ==
    LET e == bytes[at]
    IN /\ IsEntry(e) /\ path_is_valid(e.path)
       /\ IF e.dir THEN e.len = 0 ELSE (e.offset + e.len) % (MaxWord + 1) <= Len(bytes)

\* One entry of the table as mount sees it.  Data read as an entry has no path
\* that path_is_valid accepts.
EntryAccepted(bytes, at) ==
    LET e == bytes[at]
    IN /\ IsEntry(e) /\ path_is_valid(e.path)
       /\ IF e.dir THEN e.len = 0 ELSE checked_add(e.offset, e.len) <= Len(bytes)

\* Everything mount checks before it accepts anything.
Mountable(bytes) ==
    /\ Len(bytes) >= HEADER_SIZE /\ IsHeader(bytes[1])
    /\ bytes[1].magic /\ bytes[1].version = Version
    /\ HEADER_SIZE + bytes[1].count * ENTRY_SIZE <= Len(bytes)
    /\ \A i \in 1..bytes[1].count : EntryAccepted(bytes, HEADER_SIZE + i)
    /\ \A i, j \in 1..bytes[1].count :
          i # j => bytes[HEADER_SIZE + i].path # bytes[HEADER_SIZE + j].path

\* The nodes mount builds; the root exists whether or not it was listed.
NodesOf(bytes) ==
    LET table == {bytes[HEADER_SIZE + i] : i \in 1..bytes[1].count}
        paths == {e.path : e \in table}
        node(p) == CHOOSE e \in table : e.path = p
    IN [p \in paths \union {Root} |->
          IF p \in paths
          THEN [offset |-> node(p).offset, len |-> node(p).len, dir |-> node(p).dir]
          ELSE [offset |-> 0, len |-> 0, dir |-> TRUE]]

Mount == /\ Mountable(ramdisk)
         /\ fs' = [nodes |-> NodesOf(ramdisk), len |-> Len(ramdisk)]
         /\ UNCHANGED ramdisk

lookup(p) == p \in DOMAIN fs.nodes

\* read: at most want units of the node from offset on; nothing of a directory,
\* past the end, or outside the mounted slice.
read(node, offset, want) ==
    LET n     == IF node.len - offset < want THEN node.len - offset ELSE want
        start == node.offset + offset
    IN IF node.dir \/ offset >= node.len \/ start + n > fs.len THEN <<>>
       ELSE SubSeq(ramdisk, start + 1, start + n)

Readable(p) == lookup(p) /\ ~fs.nodes[p].dir
read_all(p) == read(fs.nodes[p], 0, fs.nodes[p].len)

\* The immediate children of a directory, found by scanning the paths.
read_dir(p) ==
    LET depth == IF p = Root THEN 1 ELSE Len(p)
    IN {c \in DOMAIN fs.nodes : /\ c # p /\ Len(c) = depth + 1
                                /\ SubSeq(c, 1, depth) = SubSeq(p, 1, depth)}

ArchiveInit == ramdisk = <<>> /\ fs = NotMounted

-----------------------------------------------------------------------------
(* What the namespace owes to the files it was built from. *)

\* No node of a mounted archive, damaged or not, reaches outside the slice.
NodesInBounds ==
    \A p \in DOMAIN fs.nodes : fs.nodes[p].dir \/ fs.nodes[p].offset + fs.nodes[p].len <= fs.len

\* Every file reads back as it was packed, and every path is listed by
\* read_dir in a directory that is itself there, up to the root.
HoldsAll(files) ==
    /\ \A i \in DOMAIN files : /\ Readable(files[i].path)
                               /\ read_all(files[i].path) = files[i].data
    /\ \A p \in DOMAIN fs.nodes \ {Root} :
          \E d \in DOMAIN fs.nodes : fs.nodes[d].dir /\ p \in read_dir(d)
    /\ \A p \in DOMAIN fs.nodes :
          fs.nodes[p].dir = (\A i \in DOMAIN files : files[i].path # p)
=============================================================================
