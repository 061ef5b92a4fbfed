------------------------------ MODULE MCBoot ------------------------------
(* Boot.tla on small instances: the damage each kind of cell may suffer.   *)
EXTENDS Boot

Time(y, mo, d, h, mi, s) ==
    [year |-> y, month |-> mo, day |-> d, hour |-> h, minute |-> mi, second |-> s]

\* Starts just before a second, an hour, a leap day, a new year, the end of a
\* common February and the first year two digits cannot carry.
StartTimesValue ==
    {Time(2024, 2, 28, 23, 59, 58), Time(2000, 2, 29, 11, 59, 59), Time(2023, 2, 28, 23, 59, 59),
     Time(2069, 12, 31, 23, 59, 58), Time(2026, 8, 31, 12, 59, 59)}
ClockModesValue == [binary : BOOLEAN, day24 : BOOLEAN]

ConfigsValue == {{"hello", "gui", "fstest"}, {}}

Segment(vaddr, memsz, filesz, w, x) ==
    [load |-> TRUE, r |-> TRUE, w |-> w, x |-> x, offset |-> 4, filesz |-> filesz,
     vaddr |-> vaddr, memsz |-> memsz]
UserProgramValue ==
    [ident |-> TRUE, phentsize |-> 1, phoff |-> 1, len |-> 10, entry |-> 5,
     segments |-> << Segment(4, 6, 6, FALSE, TRUE), Segment(12, 3, 3, FALSE, FALSE),
                     Segment(17, 5, 2, TRUE, FALSE) >>]

\* One changed field of a program: what the loader refuses, what still loads,
\* and the ends and entries that are not canonical.
ElfDamage(e) ==
    {[e EXCEPT !.ident = FALSE], [e EXCEPT !.phoff = e.len], [e EXCEPT !.entry = 100],
     [e EXCEPT !.entry = 40], [e EXCEPT !.segments[1].r = FALSE],
     [e EXCEPT !.segments[1].w = TRUE], [e EXCEPT !.segments[2].w = ~@],
     [e EXCEPT !.segments[2].load = FALSE], [e EXCEPT !.segments[2].offset = e.len]}
    \union {[e EXCEPT !.segments[2].vaddr = a] : a \in {7, 9, 45, 46, 56, 59, 60, 200}}
    \union {[e EXCEPT !.segments[2].memsz = n] : n \in {0, 1, 9, 48, 55, 100, 190, 250}}

PeDamage(i) ==
    {[i EXCEPT !.ident = FALSE], [i EXCEPT !.size = 0], [i EXCEPT !.size = 24],
     [i EXCEPT !.size = 20], [i EXCEPT !.headers = 15], [i EXCEPT !.headers = 4],
     [i EXCEPT !.base = MIRAGE_IMAGE_BASE],
     [i EXCEPT !.import_at = 17], [i EXCEPT !.reloc_at = 17],
     [i EXCEPT !.imports[1].by_ordinal = TRUE], [i EXCEPT !.imports[2].name = "other"],
     [i EXCEPT !.imports[2].name = "Sleep"], [i EXCEPT !.imports = Append(@, @[1])],
     [i EXCEPT !.relocs[1].kind = "other"], [i EXCEPT !.relocs[2].kind = "dir64"],
     [i EXCEPT !.sections[1].w = TRUE], [i EXCEPT !.sections[2].w = FALSE],
     [i EXCEPT !.sections[2].raw_size = 9], [i EXCEPT !.sections[1].vsize = 0],
     [i EXCEPT !.sections[1].vsize = 5], [i EXCEPT !.sections[2].vsize = 9]}
    \union {[i EXCEPT !.relocs[k].rva = r] : k \in {1, 2}, r \in {3, MaxRva, MaxRva + 1}}
    \union {[i EXCEPT !.relocs[1].rva = r] : r \in {6, 7, 10, 14, 16}}
    \union {[i EXCEPT !.imports[1].slot = MaxRva, !.imports[2].by_ordinal = b] : b \in BOOLEAN}
    \union {[i EXCEPT !.imports[2].slot = r] :
               r \in {0, 10, 11, 15, 18, 20, MaxRva - WordSize, MaxRva - WordSize + 1}}
    \union {[i EXCEPT !.relocs = << [rva |-> MaxRva + 1, kind |-> a], [rva |-> 5, kind |-> b] >>] :
               a, b \in {"dir64", "other"}}
    \union {[i EXCEPT !.imports[2].hint = r] : r \in {1, 3, 14, 15, 17}}
    \union {[i EXCEPT !.sections[2].va = a, !.sections[2].vsize = 4] : a \in {3, 6, 12, 13}}

PackageDamage(p) ==
    {[p EXCEPT !.whole = FALSE], [p EXCEPT !.magic = FALSE], [p EXCEPT !.version = 2],
     [p EXCEPT !.digest = SubSeq(@, 2, Len(@))],
     [p EXCEPT !.body[3] = Text], [p EXCEPT !.body[4] = Line("realm", "System")],
     [p EXCEPT !.body[5] = Line("capability", "process_spawn")],
     [p EXCEPT !.body[Len(p.body)] = Text]}
    \union {[p EXCEPT !.manifest_len = n] : n \in {2, 4, 5, 7, 8, 9}}

EntryDamage(e) ==
    {[e EXCEPT !.path = <<"etc", "motd">>], [e EXCEPT !.path = Etc("..")],
     [e EXCEPT !.path = Etc("motd")], [e EXCEPT !.path = Bin("other")],
     [e EXCEPT !.dir = ~@], [e EXCEPT !.offset = 0], [e EXCEPT !.offset = @ + 1],
     [e EXCEPT !.offset = MaxWord], [e EXCEPT !.len = 0], [e EXCEPT !.len = 2],
     [e EXCEPT !.len = MaxWord]}

HeaderDamage(h) ==
    {[h EXCEPT !.magic = FALSE], [h EXCEPT !.version = 2], [h EXCEPT !.count = 0],
     [h EXCEPT !.count = @ - 1], [h EXCEPT !.count = @ + 1], [h EXCEPT !.count = MaxWord]}

DamageValue(cell) ==
    (IF IsHeader(cell) THEN HeaderDamage(cell)
     ELSE IF IsEntry(cell) THEN EntryDamage(cell)
     ELSE IF IsElf(cell) THEN ElfDamage(cell)
     ELSE IF IsPe(cell) THEN PeDamage(cell)
     ELSE IF IsPackage(cell) THEN PackageDamage(cell)
     ELSE {Contents("other")}) \ {cell}

Function(slot, function, multi) == [slot |-> slot, function |-> function, multi |-> multi]
BusesValue == {{}, {Function(0, 0, TRUE), Function(0, 3, FALSE), Function(1, 0, FALSE)},
               {Function(1, 2, FALSE)}}

\* Around the guard page, the programs' pages, the stack, and both ends of the
\* two halves.
PointersValue == {0, 4, 11, 16, 21, 47, 56, 59, 63, 64, 192, 255}
LengthsValue == {0, 1, 2, 5, 8, 9, 256}
===========================================================================
