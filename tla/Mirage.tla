------------------------------- MODULE Mirage -------------------------------
(***************************************************************************)
(* Mirage, kernel/src/mirage.rs with mirage/pe.rs and mirage/win32.rs: a   *)
(* PE32+ image becomes a private address space, or is refused.             *)
(*                                                                         *)
(* An image is the fields pe::parse reads.  The loaded image's memory is   *)
(* kept unit by unit, as where each unit came from: zero, a place in the   *)
(* file and how often a relocation moved it, or the address of a thunk.    *)
(***************************************************************************)
EXTENDS Layout, Functions

IsPe(cell) == "sections" \in DOMAIN cell

MaxImageSize == 5 * PageSize     \* the 512 MiB cap of pe::parse
MaxRva == 16 * PageSize - MIRAGE_IMAGE_BASE - 1   \* u32::MAX, far above that cap
ThunksPerPage == 2               \* 4096 / THUNK_STRIDE

PeFails(how) == [outcome |-> how, space |-> NoPages, memory |-> <<>>, entry |-> 0]

Zero == [kind |-> "zero", at |-> 0, moved |-> 0]
FromFile(offset) == [kind |-> "file", at |-> offset, moved |-> 0]
ThunkAddress(index) == [kind |-> "thunk", at |-> index, moved |-> 0]

-----------------------------------------------------------------------------
(* mirage/win32.rs *)

THUNKS == [ExitProcess        |-> [syscall |-> "EXIT", args |-> 1],
           GetTickCount       |-> [syscall |-> "UPTIME_MS", args |-> 0],
           Sleep              |-> [syscall |-> "YIELD", args |-> 1],
           OutputDebugStringA |-> [syscall |-> "WRITE_CSTR", args |-> 1]]

lookup_thunk(name) == name \in DOMAIN THUNKS

\* The register moves a thunk makes before int 0x80, in the order it makes them.
generate_thunk(args) ==
    SubSeq(<< <<"rdi", "rcx">>, <<"rsi", "rdx">>, <<"rdx", "r8">> >>, 1, args)

-----------------------------------------------------------------------------
(* mirage/pe.rs *)

\* The fields of the headers, the section table, the imports and the relocations.
\* A relative address has 32 bits: the entry point lies below the end of the lower
\* canonical half whatever the file says.  A relocation's is its block's page plus
\* its own offset, before the sum is a u32.
Sections == [va : Nat, vsize : Nat, raw_offset : Nat, raw_size : Nat, w : BOOLEAN, x : BOOLEAN]
Imports == [name : DOMAIN THUNKS \union {"other"}, by_ordinal : BOOLEAN, hint : Nat,
            slot : Nat]
RelocEntries == [rva : Nat, kind : {"absolute", "dir64", "other"}]
EntryRvas == 0..MaxRva
PeImages == [ident : BOOLEAN, base : Nat, size : Nat, headers : Nat, len : Nat,
             entry : EntryRvas, import_at : Nat, reloc_at : Nat, sections : Seq(Sections),
             imports : Seq(Imports), relocs : Seq(RelocEntries)]

AtLeastOne(n) == IF n = 0 THEN 1 ELSE n

SectionAccepted(image, s) ==
    /\ s.raw_size > 0 => s.raw_offset + s.raw_size <= image.len
    /\ s.va + AtLeastOne(s.vsize) <= image.size

\* rva_to_offset: the headers lie where they do in the file, the rest is looked
\* up in the first section that holds it.  -1 is None.
rva_to_offset(image, rva) ==
    LET span(s) == IF s.vsize > s.raw_size THEN s.vsize ELSE s.raw_size
        holds == {i \in DOMAIN image.sections :
                    LET s == image.sections[i] IN rva \in s.va..(s.va + span(s) - 1)}
        s == image.sections[CHOOSE i \in holds : \A j \in holds : i <= j]
    IN IF rva < image.headers THEN rva
       ELSE IF holds = {} THEN -1
       ELSE IF rva - s.va >= s.raw_size THEN -1 ELSE s.raw_offset + (rva - s.va)

\* The parsers go through their entries in order and end at the first that fails.
FirstFailure(outcomes) ==
    LET bad == {k \in DOMAIN outcomes : outcomes[k] # "loaded"}
    IN IF bad = {} THEN "loaded" ELSE outcomes[CHOOSE k \in bad : \A j \in bad : k <= j]

\* An import's name lies two bytes past its hint; the slice that starts there
\* panics when the hint is the file's last byte, the other defects (an empty slice
\* among them: no NUL in it) are errors.  Behind an import that was accepted
\* slot_rva += 8 panics where a u32 has no such value, as the kernel that the
\* Makefile and boot-test.sh build by default checks its arithmetic.
ImportOutcome(image, i) ==
    LET hint == rva_to_offset(image, i.hint)
    IN IF i.by_ordinal \/ hint = -1 THEN "refused"
       ELSE IF hint + 1 >= image.len THEN "panic"
       ELSE IF hint + 2 >= image.len THEN "refused"
       ELSE IF i.slot + WordSize > MaxRva THEN "panic" ELSE "loaded"

parse_imports(image) ==
    IF image.imports # <<>> /\ rva_to_offset(image, image.import_at) = -1 THEN "refused"
    ELSE FirstFailure([k \in DOMAIN image.imports |-> ImportOutcome(image, image.imports[k])])

\* The 64-bit entries are kept, the padding is skipped and others are refused.
\* page_rva + offset panics in the same way.
RelocationOutcome(r) ==
    IF r.kind = "dir64" /\ r.rva > MaxRva THEN "panic"
    ELSE IF r.kind \in {"absolute", "dir64"} THEN "loaded" ELSE "refused"

parse_relocations(image) ==
    IF image.relocs # <<>> /\ rva_to_offset(image, image.reloc_at) = -1 THEN "refused"
    ELSE FirstFailure([k \in DOMAIN image.relocs |-> RelocationOutcome(image.relocs[k])])

\* ident stands for the two signatures, the machine, PE32+ and the header sizes.
parse(image) ==
    IF \/ ~image.ident
       \/ image.size \notin 1..MaxImageSize \/ image.headers > image.len
       \/ \E i \in DOMAIN image.sections : ~SectionAccepted(image, image.sections[i])
    THEN "refused"
    ELSE IF parse_imports(image) # "loaded" THEN parse_imports(image)
    ELSE parse_relocations(image)

Relocations(image) == {k \in DOMAIN image.relocs : image.relocs[k].kind = "dir64"}

-----------------------------------------------------------------------------
(* mirage.rs *)

ImagePages(image) == PagesOf(MIRAGE_IMAGE_BASE,
                             MIRAGE_IMAGE_BASE + Pages4K(image.size) * PageSize - 1)
ThunkPage(image) == PageOf(MIRAGE_IMAGE_BASE) + Pages4K(image.size)

\* Offsets from the base that write_at can reach while the image is filled in.
Room(image) == 0..(Pages4K(image.size) * PageSize - 1)

\* The headers, then the sections in their order; later ones win.
Filled(image) ==
    LET headers == [u \in Room(image) |-> IF u < image.headers THEN FromFile(u) ELSE Zero]
        after[n \in 0..Len(image.sections)] ==
            IF n = 0 THEN headers
            ELSE LET s == image.sections[n]
                 IN [u \in Room(image) |->
                       IF u \in s.va..(s.va + s.raw_size - 1)
                       THEN FromFile(s.raw_offset + u - s.va) ELSE after[n - 1][u]]
    IN after[Len(image.sections)]

FillFits(image) ==
    /\ image.headers <= Pages4K(image.size) * PageSize
    /\ \A i \in DOMAIN image.sections :
          image.sections[i].raw_size = 0 \/
          image.sections[i].va + image.sections[i].raw_size <= Pages4K(image.size) * PageSize

\* The difference is added at each listed word, once for each time it is listed.
\* A word that is not mapped, or that crosses a page, refuses the image.
RelocationsFit(image) ==
    \/ image.base = MIRAGE_IMAGE_BASE
    \/ \A k \in Relocations(image) :
          /\ image.relocs[k].rva \in Room(image)
          /\ image.relocs[k].rva % PageSize <= PageSize - WordSize

apply_relocations(image, memory) ==
    LET listed(u) == {k \in Relocations(image) :
                        u \in image.relocs[k].rva..(image.relocs[k].rva + WordSize - 1)}
    IN IF image.base = MIRAGE_IMAGE_BASE THEN memory
       ELSE [u \in DOMAIN memory |->
               [memory[u] EXCEPT !.moved = Cardinality(listed(u))]]

\* Each import's thunk goes to its place on the page after the image, and the
\* thunk's address into the import's slot.
ImportsFit(image) ==
    /\ Len(image.imports) <= ThunksPerPage
    /\ \A k \in DOMAIN image.imports :
          image.imports[k].slot..(image.imports[k].slot + WordSize - 1)
             \subseteq 0..(Pages4K(image.size) * PageSize + PageSize - 1)

bind_imports(image, memory) ==
    LET writes(u) == {k \in DOMAIN image.imports :
                        u \in image.imports[k].slot..(image.imports[k].slot + WordSize - 1)}
    IN [u \in DOMAIN memory |->
          IF writes(u) = {} THEN memory[u]
          ELSE ThunkAddress(CHOOSE k \in writes(u) : \A j \in writes(u) : j <= k)]

\* The last section on a page decides it; a page of no section keeps the flags
\* it was mapped with, which hold no NO_EXECUTE.
SectionPages(s) == PagesOf(MIRAGE_IMAGE_BASE + s.va,
                           MIRAGE_IMAGE_BASE + s.va + AtLeastOne(s.vsize) - 1)
Protected(image, nx, space) ==
    LET on(p) == {i \in DOMAIN image.sections : p \in SectionPages(image.sections[i])}
        last(p) == image.sections[CHOOSE i \in on(p) : \A j \in on(p) : j <= i]
    IN [p \in DOMAIN space |->
          IF on(p) = {} THEN space[p] ELSE Perm(last(p).w, last(p).x \/ ~nx)]

load_pe(image, nx) ==
    LET image_pages == ImagePages(image)
        mapped == WithPages(NoPages, image_pages, Perm(TRUE, TRUE))
        bound  == WithPages(mapped, {ThunkPage(image)}, Perm(FALSE, TRUE))
        tight  == Protected(image, nx, bound)
    IN IF parse(image) # "loaded" THEN PeFails(parse(image))
       ELSE IF \/ \E k \in DOMAIN image.imports : ~lookup_thunk(image.imports[k].name)
               \/ ~MayMap(NoPages, image_pages) \/ ~FillFits(image)
               \/ ~RelocationsFit(image)
               \/ ~MayMap(mapped, {ThunkPage(image)}) \/ ~ImportsFit(image)
               \/ \E i \in DOMAIN image.sections : image.sections[i].w /\ image.sections[i].x
               \/ ~MayMap(tight, StackPages)
            THEN PeFails("refused")
       ELSE [outcome |-> "loaded",
             space   |-> WithPages(tight, StackPages, StackPerm(nx)),
             memory  |-> bind_imports(image, apply_relocations(image, Filled(image))),
             entry   |-> MIRAGE_IMAGE_BASE + image.entry]

-----------------------------------------------------------------------------
(* What a loaded image owes to its file. *)

SlotUnits(image) == UNION {image.imports[k].slot..(image.imports[k].slot + WordSize - 1) :
                             k \in DOMAIN image.imports}

\* Slots that share no unit: with a shared one the later import overwrites.
SlotsApart(image) ==
    Cardinality(SlotUnits(image)) = WordSize * Len(image.imports)

\* After the moves of a thunk, run one after the other, the three argument
\* registers of int 0x80 hold the caller's first arguments, in order.
ArgumentsArrive(args) ==
    LET moves == generate_thunk(args)
        regs[n \in 0..Len(moves)] ==
            IF n = 0 THEN [r \in {"rcx", "rdx", "r8", "rdi", "rsi"} |-> r]
            ELSE [regs[n - 1] EXCEPT ![moves[n][1]] = regs[n - 1][moves[n][2]]]
    IN \A k \in 1..args : regs[Len(moves)][<<"rdi", "rsi", "rdx">>[k]] = <<"rcx", "rdx", "r8">>[k]

\* The memory is the file's, each pointer moved exactly once and nothing else
\* moved (where no two listed pointers share a unit), each slot leads to its own
\* import's thunk, and everything the file does not fill is zero.
PeMemorySound(image, loaded) ==
    LET pointers == {image.relocs[k].rva : k \in Relocations(image)}
        word(r)  == r..(r + WordSize - 1)
        moving   == IF image.base = MIRAGE_IMAGE_BASE THEN {} ELSE UNION {word(r) : r \in pointers}
        raw(i)   == image.sections[i].va..(image.sections[i].va + image.sections[i].raw_size - 1)
        plain    == DOMAIN loaded.memory \ SlotUnits(image)
    IN /\ SlotsApart(image) =>
            \A k \in DOMAIN image.imports :
               \A u \in word(image.imports[k].slot) \intersect DOMAIN loaded.memory :
                  loaded.memory[u] = ThunkAddress(k)
       /\ Cardinality(UNION {word(r) : r \in pointers}) = WordSize * Cardinality(Relocations(image)) =>
            \A u \in plain : loaded.memory[u].moved = (IF u \in moving THEN 1 ELSE 0)
       /\ \A u \in plain :
            LET from == {i \in DOMAIN image.sections : u \in raw(i)}
            IN /\ from = {} /\ u >= image.headers => loaded.memory[u].kind = "zero"
               /\ \A i \in from : from = {i} =>
                     loaded.memory[u].at = image.sections[i].raw_offset + u - image.sections[i].va

\* A page that one section alone covers has that section's permissions, the
\* thunks cannot be written and the stack cannot be executed.
PePagesSound(image, nx, loaded) ==
    LET on(p) == {i \in DOMAIN image.sections : p \in SectionPages(image.sections[i])}
    IN /\ \A p \in ImagePages(image) : \A i \in on(p) : on(p) = {i} =>
             loaded.space[p] = Perm(image.sections[i].w, image.sections[i].x \/ ~nx)
       /\ ~loaded.space[ThunkPage(image)].w
       /\ \A p \in DOMAIN loaded.space : is_user_address(p * PageSize)
       /\ \A p \in StackPages : nx => ~loaded.space[p].x
       /\ nx => \A p \in DOMAIN loaded.space : loaded.space[p].w /\ loaded.space[p].x =>
                   p \in ImagePages(image) /\ on(p) = {}
=============================================================================
