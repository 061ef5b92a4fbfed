-------------------------- MODULE BootEnds_proofs --------------------------
(***************************************************************************)
(* Proof that every boot ends as it should, for every program the builder  *)
(* packs, every damage and every machine.                                  *)
(*                                                                         *)
(* The argument.  Each stage of kernel_main keeps EndInv, which relates    *)
(* how far the boot came to what was found, started, printed and counted.  *)
(* Behind it stand two facts about the images: what linker.ld lays out     *)
(* loads, and so does the hand-made Windows program; and one about the     *)
(* archive: undamaged, it mounts and reads back as it was built.           *)
(***************************************************************************)
EXTENDS Boot_proofs

-----------------------------------------------------------------------------
(* How a boot ends. *)

(* What linker.ld lays out the loader accepts. *)
LEMMA LinkedStep ==
  ASSUME NEW img \in ElfImages, Linked(img), NEW nx \in BOOLEAN, NEW a, Loop(a, img, nx),
         NEW k \in 1 .. Len(img.segments), a[k - 1].outcome = "loaded",
         MappedSoFar(img, nx, k - 1, a[k - 1].space)
  PROVE  a[k].outcome = "loaded"
<1> DEFINE s == img.segments[k]
           st == a[k - 1]
           last == s.vaddr + s.memsz - 1
           pages == PagesOf(s.vaddr, last)
           grown == [st EXCEPT !.space = WithPages(@, pages, segment_flags(s, nx))]
<1>0. /\ Len(img.segments) \in Nat /\ s \in Segments /\ DOMAIN img.segments = 1 .. Len(img.segments)
      /\ st \in LoadStates /\ a[k] = LoadSegment(img, nx, st, s)
  BY DEF Loop, ElfImages
<1>1. s.vaddr \in Nat /\ s.memsz \in Nat /\ s.load \in BOOLEAN
  BY <1>0 DEF Segments
<1>2. s.load => SegmentAccepted(img, s)
  BY <1>0, Zenon DEF Linked
<1>3. ASSUME s.load, s.memsz # 0
      PROVE  Canonical(last) /\ MayMap(st.space, pages)
  <2>1. k \in Real(img, Len(img.segments)) /\ s.memsz > 0
    BY <1>0, <1>1, <1>3 DEF Real
  <2>2. last < USER_STACK_BOTTOM
    BY <1>0, <1>3, <2>1, Zenon DEF Linked
  <2>3. last < 48 /\ last \in Nat
    BY <1>1, <2>1, <2>2 DEF USER_STACK_BOTTOM, PageSize
  <2>4. Canonical(last)
    BY <2>3 DEF Canonical, PageSize
  <2> SUFFICES ASSUME NEW p \in pages
               PROVE  is_user_address(p * PageSize) /\ p \notin DOMAIN st.space
    BY <2>4, Zenon DEF MayMap
  <2>5. is_user_address(p * PageSize)
    BY <1>1, <2>3 DEF is_user_address, USER_SPACE_END, PageSize, PagesOf, PageOf
  <2>6. ASSUME p \in DOMAIN st.space PROVE FALSE
    <3>1. PICK i \in Real(img, k - 1) : \E b \in Bytes(img.segments[i]) : PageOf(b) = p
      BY <2>6, Zenon DEF MappedSoFar
    <3>2. PICK b \in Bytes(img.segments[i]) : PageOf(b) = p
      BY <3>1
    <3> DEFINE t == img.segments[i]
    <3>3. /\ i \in 1 .. Len(img.segments) /\ i # k /\ t.load /\ t.memsz > 0
      BY <1>0, <3>1 DEF Real
    <3>4. t \in Segments
      BY <1>0, <3>3 DEF ElfImages
    <3>5. t.vaddr \in Nat /\ t.vaddr + t.memsz - 1 \in Nat
      BY <3>3, <3>4 DEF Segments
    <3>6. p \in PagesOf(t.vaddr, t.vaddr + t.memsz - 1)
      BY <3>2, <3>5, PageOfByte DEF Bytes
    <3>7. PagesOf(s.vaddr, last) \intersect PagesOf(t.vaddr, t.vaddr + t.memsz - 1) = {}
      BY <1>0, <1>3, <2>1, <3>3, Zenon DEF Linked
    <3> QED  BY <3>6, <3>7
  <2> QED  BY <2>5, <2>6
<1>4. a[k] = st \/ a[k] = grown
  BY <1>0, <1>2, <1>3, Zenon DEF LoadSegment
<1>5. grown.outcome = st.outcome
  BY <1>0 DEF LoadStates
<1> HIDE DEF grown
<1> QED
  BY <1>4, <1>5

(* What the linker script makes of a program loads, and its entry point is canonical. *)
LEMMA LinkedLoads ==
  ASSUME NEW img \in ElfImages, Linked(img), NEW nx \in BOOLEAN
  PROVE  /\ load_image(img, nx).outcome = "loaded"
         /\ Canonical(img.entry)
<1> DEFINE n == Len(img.segments)
<1>0. n \in Nat /\ DOMAIN img.segments = 1 .. n /\ \A i \in 1 .. n : img.segments[i] \in Segments
  BY DEF ElfImages
<1>1. PICK a : Loop(a, img, nx)
  BY LoopExists
<1> DEFINE T == {k \in 0 .. n : a[k].outcome = "loaded" /\ MappedSoFar(img, nx, k, a[k].space)}
<1>2. 0 \in T
  <2>1. a[0].space = NoPages /\ a[0].outcome = "loaded"
    BY <1>1 DEF Loop
  <2>2. Real(img, 0) = {}
    BY DEF Real
  <2>3. MappedSoFar(img, nx, 0, NoPages)
    BY <2>2, NoPagesIsSpace DEF MappedSoFar
  <2> QED  BY <1>0, <2>1, <2>3
<1>3. \A k \in 1 .. n : k - 1 \in T => k \in T
  <2> SUFFICES ASSUME NEW k \in 1 .. n, a[k - 1].outcome = "loaded",
                      MappedSoFar(img, nx, k - 1, a[k - 1].space)
               PROVE  a[k].outcome = "loaded" /\ MappedSoFar(img, nx, k, a[k].space)
    BY <1>0
  <2>1. a[k].outcome = "loaded"
    BY <1>1, LinkedStep
  <2> QED  BY <1>1, <2>1, MappedStep
<1>4. T \in SUBSET (0 .. n)
  OBVIOUS
<1> HIDE DEF T
<1>5. n \in T
  <2>1. T = 0 .. n
    BY <1>0, <1>2, <1>3, <1>4, UpTo
  <2> QED  BY <1>0, <2>1
<1> DEFINE st == LoadSegments(img, nx)
<1>6. st \in LoadStates /\ st.outcome = "loaded" /\ MappedSoFar(img, nx, n, st.space)
  <2>1. a[n] \in LoadStates /\ st = a[n]
    BY <1>0, <1>1 DEF Loop
  <2> QED  BY <1>5, <2>1 DEF T
<1>7. ASSUME NEW i \in Real(img, n), NEW b \in Bytes(img.segments[i])
      PROVE  b \in Nat /\ b < 48
  <2> DEFINE s == img.segments[i]
  <2>1. i \in 1 .. n /\ s \in Segments /\ s.load /\ s.memsz > 0
    BY <1>0 DEF Real
  <2>2. s.vaddr + s.memsz - 1 < USER_STACK_BOTTOM
    BY <1>0, <2>1, Zenon DEF Linked
  <2> QED  BY <2>1, <2>2 DEF Bytes, Segments, USER_STACK_BOTTOM, PageSize
<1>8. MayMap(st.space, StackPages)
  <2> SUFFICES ASSUME NEW p \in StackPages
               PROVE  is_user_address(p * PageSize) /\ p \notin DOMAIN st.space
    BY Zenon DEF MayMap
  <2>1. p \in {12, 13}
    BY StackIsPages
  <2>2. ASSUME p \in DOMAIN st.space PROVE FALSE
    <3>1. PICK i \in Real(img, n) : \E b \in Bytes(img.segments[i]) : PageOf(b) = p
      BY <1>6, <2>2, Zenon DEF MappedSoFar
    <3>2. PICK b \in Bytes(img.segments[i]) : PageOf(b) = p
      BY <3>1
    <3>3. b \in Nat /\ b < 48
      BY <1>7
    <3> QED  BY <2>1, <3>2, <3>3 DEF PageOf, PageSize
  <2> QED  BY <2>1, <2>2 DEF is_user_address, USER_SPACE_END, PageSize
<1> DEFINE new == [st EXCEPT !.space = WithPages(@, StackPages, StackPerm(nx))]
<1>9. load_image(img, nx) = new
  <2>1. parse_header(img)
    BY Zenon DEF Linked
  <2> QED  BY <1>6, <1>8, <2>1, Zenon DEF load_image
<1>10. new.outcome = "loaded"
  <2> HIDE DEF st
  <2> QED  BY <1>6 DEF LoadStates
<1>11. Canonical(img.entry)
  <2>1. PICK i \in 1 .. n : /\ img.segments[i].load /\ img.segments[i].memsz > 0
            /\ img.entry \in img.segments[i].vaddr ..
                               (img.segments[i].vaddr + img.segments[i].memsz - 1)
    BY <1>0, Zenon DEF Linked
  <2>2. i \in Real(img, n) /\ img.entry \in Bytes(img.segments[i])
    BY <2>1 DEF Real, Bytes
  <2> QED  BY <1>7, <2>2 DEF Canonical, PageSize
<1> HIDE DEF new
<1> QED
  BY <1>9, <1>10, <1>11

(* The Windows program as the builder packs it loads. *)
HelloAs(img) ==
  /\ img.ident = TRUE /\ img.base = 8 /\ img.size = 16 /\ img.headers = 2 /\ img.len = 14
  /\ img.import_at = 14 /\ img.reloc_at = 15
  /\ img.sections \in Seq(Sections) /\ DOMAIN img.sections = {1, 2}
  /\ img.sections[1].va = 4 /\ img.sections[1].vsize = 4 /\ img.sections[1].raw_offset = 2
  /\ img.sections[1].raw_size = 4 /\ ~img.sections[1].w
  /\ img.sections[2].va = 8 /\ img.sections[2].vsize = 8 /\ img.sections[2].raw_offset = 6
  /\ img.sections[2].raw_size = 8 /\ ~img.sections[2].x
  /\ DOMAIN img.imports = {1, 2} /\ Len(img.imports) = 2
  /\ \A k \in {1, 2} : ~img.imports[k].by_ordinal /\ lookup_thunk(img.imports[k].name)
  /\ img.imports[1].hint = 8 /\ img.imports[2].hint = 9
  /\ img.imports[1].slot = 10 /\ img.imports[2].slot = 12
  /\ DOMAIN img.relocs = {1, 2}
  /\ img.relocs[1].rva = 5 /\ img.relocs[1].kind = "dir64" /\ img.relocs[2].kind = "absolute"

(* What the assembler writes as the Windows program. *)
LEMMA HelloExeIs == HelloAs(HelloExe)
<1> DEFINE s1 == [va |-> 4, vsize |-> 4, raw_offset |-> 2, raw_size |-> 4,
                  w |-> FALSE, x |-> TRUE]
           s2 == [va |-> 8, vsize |-> 8, raw_offset |-> 6, raw_size |-> 8,
                  w |-> TRUE, x |-> FALSE]
           i1 == [name |-> "OutputDebugStringA", by_ordinal |-> FALSE, hint |-> 8, slot |-> 10]
           i2 == [name |-> "ExitProcess", by_ordinal |-> FALSE, hint |-> 9, slot |-> 12]
           r1 == [rva |-> 5, kind |-> "dir64"]
           r2 == [rva |-> 4, kind |-> "absolute"]
<1>1. HelloExe = [ident |-> TRUE, base |-> 2 * PageSize, size |-> 4 * PageSize, headers |-> 2,
                  len |-> 14, entry |-> 4, import_at |-> 14, reloc_at |-> 15,
                  sections |-> <<s1, s2>>, imports |-> <<i1, i2>>, relocs |-> <<r1, r2>>]
  BY DEF HelloExe
<1>2. /\ s1.va = 4 /\ s1.vsize = 4 /\ s1.raw_offset = 2 /\ s1.raw_size = 4 /\ ~s1.w
      /\ s2.va = 8 /\ s2.vsize = 8 /\ s2.raw_offset = 6 /\ s2.raw_size = 8 /\ ~s2.x
      /\ s1 \in Sections /\ s2 \in Sections
  BY DEF Sections
<1>3. /\ ~i1.by_ordinal /\ i1.name = "OutputDebugStringA" /\ i1.hint = 8 /\ i1.slot = 10
      /\ ~i2.by_ordinal /\ i2.name = "ExitProcess" /\ i2.hint = 9 /\ i2.slot = 12
  OBVIOUS
<1>4. r1.rva = 5 /\ r1.kind = "dir64" /\ r2.kind = "absolute"
  OBVIOUS
<1>5. lookup_thunk("OutputDebugStringA") /\ lookup_thunk("ExitProcess")
  BY DEF lookup_thunk, THUNKS
<1> HIDE DEF s1, s2, i1, i2, r1, r2
<1>6. <<s1, s2>> \in Seq(Sections)
  BY <1>2
<1>7. \A a, b : DOMAIN <<a, b>> = {1, 2} /\ Len(<<a, b>>) = 2 /\ <<a, b>>[1] = a /\ <<a, b>>[2] = b
  <2> TAKE a, b
  <2>1. DOMAIN <<a, b>> = 1 .. 2
    OBVIOUS
  <2>2. 1 .. 2 = {1, 2}
    OBVIOUS
  <2> QED  BY <2>1, <2>2
<1>8. 2 * PageSize = 8 /\ 4 * PageSize = 16
  BY DEF PageSize
<1>9. HelloExe.ident = TRUE /\ HelloExe.base = 8 /\ HelloExe.size = 16 /\ HelloExe.headers = 2
      /\ HelloExe.len = 14 /\ HelloExe.import_at = 14 /\ HelloExe.reloc_at = 15
      /\ HelloExe.sections = <<s1, s2>> /\ HelloExe.imports = <<i1, i2>>
      /\ HelloExe.relocs = <<r1, r2>>
  BY <1>1, <1>8
<1>10. /\ HelloExe.sections[1] = s1 /\ HelloExe.sections[2] = s2
       /\ HelloExe.imports[1] = i1 /\ HelloExe.imports[2] = i2
       /\ HelloExe.relocs[1] = r1 /\ HelloExe.relocs[2] = r2
  BY <1>7, <1>9
<1>11. /\ DOMAIN HelloExe.sections = {1, 2} /\ HelloExe.sections \in Seq(Sections)
       /\ DOMAIN HelloExe.imports = {1, 2} /\ Len(HelloExe.imports) = 2
       /\ DOMAIN HelloExe.relocs = {1, 2}
  BY <1>6, <1>7, <1>9
<1>12. \A k \in {1, 2} : ~HelloExe.imports[k].by_ordinal /\ lookup_thunk(HelloExe.imports[k].name)
  <2>1. ~i1.by_ordinal /\ lookup_thunk(i1.name) /\ ~i2.by_ordinal /\ lookup_thunk(i2.name)
    BY <1>3, <1>5, Zenon
  <2> QED  BY <1>10, <2>1
<1> QED
  BY <1>2, <1>3, <1>4, <1>9, <1>10, <1>11, <1>12, Zenon DEF HelloAs

(* Where an address of its only section lies in the file. *)
LEMMA HelloOffset ==
  ASSUME NEW img, HelloAs(img), NEW rva \in 8 .. 15
  PROVE  rva_to_offset(img, rva) = rva - 2
<1> DEFINE span(s) == IF s.vsize > s.raw_size THEN s.vsize ELSE s.raw_size
           holds == {i \in DOMAIN img.sections :
                       LET s == img.sections[i] IN rva \in s.va .. (s.va + span(s) - 1)}
           least == CHOOSE i \in holds : \A j \in holds : i <= j
           s == img.sections[least]
<1>1. rva_to_offset(img, rva) = IF rva < img.headers THEN rva
                                  ELSE IF holds = {} THEN -1
                                  ELSE IF rva - s.va >= s.raw_size THEN -1
                                  ELSE s.raw_offset + (rva - s.va)
  BY Zenon DEF rva_to_offset
<1>2. span(img.sections[1]) = 4 /\ span(img.sections[2]) = 8
  BY DEF HelloAs
<1>3. holds = {2}
  <2>1. 1 \notin holds
    BY <1>2 DEF HelloAs
  <2>2. 2 \in holds
    BY <1>2 DEF HelloAs
  <2>3. holds \subseteq {1, 2}
    BY DEF HelloAs
  <2> QED  BY <2>1, <2>2, <2>3
<1>4. least = 2
  <2> HIDE DEF holds
  <2>1. 2 <= 2
    OBVIOUS
  <2> QED  BY <1>3, <2>1, Zenon
<1>5. s.va = 8 /\ s.raw_size = 8 /\ s.raw_offset = 6
  <2> HIDE DEF least
  <2> QED  BY <1>4 DEF HelloAs
<1> HIDE DEF holds, s, least
<1>6. img.headers = 2
  BY DEF HelloAs
<1> QED
  BY <1>1, <1>3, <1>5, <1>6

(* A list each of whose entries is accepted is accepted. *)
LEMMA NoFailure ==
  ASSUME NEW outcomes, \A k \in DOMAIN outcomes : outcomes[k] = "loaded"
  PROVE  FirstFailure(outcomes) = "loaded"
BY DEF FirstFailure

(* Its headers, sections, imports and relocations are accepted. *)
LEMMA HelloParses ==
  ASSUME NEW img, HelloAs(img)
  PROVE  parse(img) = "loaded"
<1>1. img.size \in 1 .. MaxImageSize /\ ~(img.headers > img.len) /\ img.ident
  BY DEF HelloAs, MaxImageSize, PageSize
<1>2. \A i \in DOMAIN img.sections : SectionAccepted(img, img.sections[i])
  BY DEF HelloAs, SectionAccepted, AtLeastOne
<1>3. parse_imports(img) = "loaded"
  <2> DEFINE outcomes == [k \in DOMAIN img.imports |-> ImportOutcome(img, img.imports[k])]
  <2>1. ASSUME NEW k \in DOMAIN img.imports PROVE ImportOutcome(img, img.imports[k]) = "loaded"
    <3> DEFINE i == img.imports[k]
    <3>1. i.hint \in {8, 9} /\ ~i.by_ordinal /\ i.slot \in {10, 12}
      BY <2>1 DEF HelloAs
    <3>2. 8 \in 8 .. 15 /\ 9 \in 8 .. 15
      OBVIOUS
    <3>3. img.len = 14 /\ MaxRva = 39 /\ WordSize = 2
      BY DEF HelloAs, MaxRva, PageSize, MIRAGE_IMAGE_BASE, WordSize
    <3> HIDE DEF i
    <3>4. rva_to_offset(img, i.hint) = i.hint - 2
      BY <3>1, <3>2, HelloOffset
    <3>5. ImportOutcome(img, i) = "loaded"
      BY <3>1, <3>3, <3>4 DEF ImportOutcome
    <3> QED  BY <3>5 DEF i
  <2>2. FirstFailure(outcomes) = "loaded"
    BY <2>1, NoFailure
  <2>3. rva_to_offset(img, img.import_at) # -1
    <3>1. 14 \in 8 .. 15 /\ img.import_at = 14
      BY DEF HelloAs
    <3>2. rva_to_offset(img, 14) = 14 - 2
      BY <3>1, HelloOffset
    <3> QED  BY <3>1, <3>2
  <2> QED  BY <2>2, <2>3, Zenon DEF parse_imports
<1>4. parse_relocations(img) = "loaded"
  <2> DEFINE outcomes == [k \in DOMAIN img.relocs |-> RelocationOutcome(img.relocs[k])]
  <2>1. 15 \in 8 .. 15 /\ img.reloc_at = 15
    BY DEF HelloAs
  <2>2. rva_to_offset(img, 15) = 15 - 2
    BY <2>1, HelloOffset
  <2>3. ASSUME NEW k \in DOMAIN img.relocs PROVE RelocationOutcome(img.relocs[k]) = "loaded"
    <3>1. /\ img.relocs[k].kind \in {"absolute", "dir64"}
          /\ ~(img.relocs[k].kind = "dir64" /\ img.relocs[k].rva > MaxRva)
      BY <2>3 DEF HelloAs, MaxRva, PageSize, MIRAGE_IMAGE_BASE
    <3> QED  BY <3>1, Zenon DEF RelocationOutcome
  <2>4. FirstFailure(outcomes) = "loaded"
    BY <2>3, NoFailure
  <2>5. rva_to_offset(img, img.reloc_at) # -1
    BY <2>1, <2>2
  <2> QED  BY <2>4, <2>5, Zenon DEF parse_relocations
<1> QED
  BY <1>1, <1>2, <1>3, <1>4, Zenon DEF parse

(* It loads, its relocations and imports included. *)
LEMMA HelloLoads ==
  ASSUME NEW nx \in BOOLEAN
  PROVE  load_pe(HelloExe, nx).outcome = "loaded"
<1> DEFINE img == HelloExe
           image_pages == ImagePages(img)
           mapped == WithPages(NoPages, image_pages, Perm(TRUE, TRUE))
           bound  == WithPages(mapped, {ThunkPage(img)}, Perm(FALSE, TRUE))
           tight  == Protected(img, nx, bound)
<1>0. HelloAs(img)
  BY HelloExeIs
<1> HIDE DEF img
<1>1. Pages4K(img.size) = 4
  BY <1>0 DEF HelloAs, Pages4K, PageSize
<1>2. image_pages = 6 .. 9 /\ ThunkPage(img) = 10 /\ StackPages = 12 .. 13 /\ Room(img) = 0 .. 15
  BY <1>1 DEF ImagePages, ThunkPage, StackPages, PagesOf, PageOf, PageSize, MIRAGE_IMAGE_BASE,
              USER_STACK_BOTTOM, USER_STACK_PAGES, Room
<1>3. parse(img) = "loaded"
  BY <1>0, HelloParses
<1>4. \A k \in DOMAIN img.imports : lookup_thunk(img.imports[k].name)
  BY <1>0 DEF HelloAs
<1>5. FillFits(img)
  <2>1. \A i \in DOMAIN img.sections : img.sections[i].va + img.sections[i].raw_size <= 16
    BY <1>0 DEF HelloAs
  <2> QED  BY <1>0, <1>1, <2>1 DEF FillFits, HelloAs, PageSize
<1>6. RelocationsFit(img)
  <2>1. Relocations(img) = {1}
    BY <1>0 DEF HelloAs, Relocations
  <2>2. 5 \in 0 .. 15 /\ 5 % PageSize <= PageSize - WordSize /\ img.relocs[1].rva = 5
    BY <1>0 DEF HelloAs, PageSize, WordSize
  <2> QED  BY <1>2, <2>1, <2>2 DEF RelocationsFit
<1>7. ImportsFit(img)
  <2>1. /\ 10 .. (10 + WordSize - 1) \subseteq 0 .. (4 * PageSize + PageSize - 1)
        /\ 12 .. (12 + WordSize - 1) \subseteq 0 .. (4 * PageSize + PageSize - 1)
    BY DEF PageSize, WordSize
  <2>2. \A k \in DOMAIN img.imports : img.imports[k].slot \in {10, 12}
    BY <1>0 DEF HelloAs
  <2>3. Len(img.imports) <= ThunksPerPage
    BY <1>0 DEF HelloAs, ThunksPerPage
  <2>4. \A k \in DOMAIN img.imports :
           img.imports[k].slot .. (img.imports[k].slot + WordSize - 1)
              \subseteq 0 .. (4 * PageSize + PageSize - 1)
    BY <2>1, <2>2
  <2> QED  BY <1>1, <2>3, <2>4, Zenon DEF ImportsFit
<1>8. ~\E i \in DOMAIN img.sections : img.sections[i].w /\ img.sections[i].x
  BY <1>0 DEF HelloAs
<1>9. MayMap(NoPages, image_pages)
  <2>1. DOMAIN NoPages = {}
    BY DEF NoPages
  <2>2. \A p \in 6 .. 9 : is_user_address(p * PageSize)
    BY DEF is_user_address, PageSize, USER_SPACE_END
  <2> QED  BY <1>2, <2>1, <2>2 DEF MayMap
<1>10. DOMAIN mapped = 6 .. 9
  <2>1. DOMAIN NoPages = {}
    BY DEF NoPages
  <2> QED  BY <1>2, <2>1 DEF WithPages
<1> HIDE DEF mapped
<1>11. MayMap(mapped, {ThunkPage(img)})
  BY <1>2, <1>10 DEF MayMap, is_user_address, PageSize, USER_SPACE_END
<1>12. DOMAIN tight = 6 .. 10
  <2>1. DOMAIN bound = 6 .. 10
    BY <1>2, <1>10 DEF WithPages
  <2> HIDE DEF bound
  <2> QED  BY <2>1, Zenon DEF Protected
<1> HIDE DEF tight
<1>13. MayMap(tight, StackPages)
  <2>1. \A p \in 12 .. 13 : is_user_address(p * PageSize) /\ p \notin 6 .. 10
    BY DEF is_user_address, PageSize, USER_SPACE_END
  <2> QED  BY <1>2, <1>12, <2>1 DEF MayMap
<1> DEFINE done == [outcome |-> "loaded",
             space   |-> WithPages(tight, StackPages, StackPerm(nx)),
             memory  |-> bind_imports(img, apply_relocations(img, Filled(img))),
             entry   |-> MIRAGE_IMAGE_BASE + img.entry]
<1>14. load_pe(img, nx) = done
  BY <1>3, <1>4, <1>5, <1>6, <1>7, <1>8, <1>9, <1>11, <1>13, Zenon DEF load_pe, mapped, tight
<1>15. done.outcome = "loaded"
  OBVIOUS
<1> HIDE DEF done
<1> QED
  BY <1>14, <1>15 DEF img

(* Each file main packs, and those it packs whatever programs it was given. *)
PackedPairs == {File(Bin("bss-test"), BssTest), File(Bin("hello.exe"), HelloExe),
                File(Etc("motd"), Contents("motd")), File(Etc("theme.conf"), Contents("theme")),
                File(Etc("version"), Contents("version")), File(Bin("hello"), UserProgram),
                File(Bin("fstest"), UserProgram), File(Bin("gui"), UserProgram),
                File(App("notes.najm"), Notes), File(App("tampered.najm"), Tampered)}
Has(s, x) == \E i \in DOMAIN s : s[i] = x
AlwaysPacked(files) ==
  /\ Has(files, File(Bin("hello.exe"), HelloExe))
  /\ Has(files, File(Etc("motd"), Contents("motd")))
  /\ Has(files, File(Etc("theme.conf"), Contents("theme")))
  /\ Has(files, File(App("notes.najm"), Notes))
  /\ Has(files, File(App("tampered.najm"), Tampered))

(* A part's elements are the whole's. *)
LEMMA HasJoin ==
  ASSUME NEW S, NEW s \in Seq(S), NEW t \in Seq(S), NEW x, Has(s, x) \/ Has(t, x)
  PROVE  Has(s \o t, x)
<1>1. /\ s \o t \in Seq(S) /\ Len(s \o t) = Len(s) + Len(t)
      /\ \A i \in 1 .. Len(s) : (s \o t)[i] = s[i]
  BY Joined
<1>2. Len(s) \in Nat /\ Len(t) \in Nat /\ DOMAIN s = 1 .. Len(s) /\ DOMAIN t = 1 .. Len(t)
  OBVIOUS
<1>3. DOMAIN (s \o t) = 1 .. (Len(s) + Len(t))
  BY <1>1
<1>4. CASE Has(s, x)
  <2>1. PICK i \in 1 .. Len(s) : s[i] = x
    BY <1>2, <1>4, Zenon DEF Has
  <2>2. i \in 1 .. (Len(s) + Len(t))
    BY <1>2
  <2> QED  BY <1>1, <1>3, <2>1, <2>2, Zenon DEF Has
<1>5. CASE Has(t, x)
  <2>1. PICK j \in 1 .. Len(t) : t[j] = x
    BY <1>2, <1>5, Zenon DEF Has
  <2>2. Len(s) + j \in 1 .. (Len(s) + Len(t))
    BY <1>2
  <2>3. (s \o t)[Len(s) + j] = t[j]
    BY JoinedRight
  <2> QED  BY <1>3, <2>1, <2>2, <2>3, Zenon DEF Has
<1> QED
  BY <1>4, <1>5

(* The files that are always packed, and nothing but what main packs. *)
LEMMA PackedHas ==
  ASSUME NEW c
  PROVE  /\ \A i \in DOMAIN PackedFiles(c) : PackedFiles(c)[i] \in PackedPairs
         /\ AlwaysPacked(PackedFiles(c))
<1> DEFINE optional(name) == IF name \in c THEN <<File(Bin(name), UserProgram)>> ELSE <<>>
           f1 == File(Bin("bss-test"), BssTest)
           f2 == File(Bin("hello.exe"), HelloExe)
           f3 == File(Etc("motd"), Contents("motd"))
           f4 == File(Etc("theme.conf"), Contents("theme"))
           f5 == File(Etc("version"), Contents("version"))
           f6 == File(App("notes.najm"), Notes)
           f7 == File(App("tampered.najm"), Tampered)
           first == <<f1, f2, f3, f4, f5>>
           last == <<f6, f7>>
           o1 == optional("hello")
           o2 == optional("fstest")
           o3 == optional("gui")
<1>1. PackedFiles(c) = first \o o1 \o o2 \o o3 \o last
  BY Zenon DEF PackedFiles, Notes, Tampered
<1>2. /\ f1 \in PackedPairs /\ f2 \in PackedPairs /\ f3 \in PackedPairs /\ f4 \in PackedPairs
      /\ f5 \in PackedPairs /\ f6 \in PackedPairs /\ f7 \in PackedPairs
  BY Zenon DEF PackedPairs
<1>3. o1 \in Seq(PackedPairs) /\ o2 \in Seq(PackedPairs) /\ o3 \in Seq(PackedPairs)
  <2>1. /\ File(Bin("hello"), UserProgram) \in PackedPairs
        /\ File(Bin("fstest"), UserProgram) \in PackedPairs
        /\ File(Bin("gui"), UserProgram) \in PackedPairs
    BY Zenon DEF PackedPairs
  <2> QED  BY <2>1
<1> HIDE DEF f1, f2, f3, f4, f5, f6, f7, o1, o2, o3
<1>4. /\ first \in Seq(PackedPairs) /\ last \in Seq(PackedPairs)
      /\ DOMAIN first = 1 .. 5 /\ first[2] = f2 /\ first[3] = f3 /\ first[4] = f4
      /\ DOMAIN last = 1 .. 2 /\ last[1] = f6 /\ last[2] = f7
  BY <1>2
<1> HIDE DEF first, last
<1>5. Has(first, f2) /\ Has(first, f3) /\ Has(first, f4) /\ Has(last, f6) /\ Has(last, f7)
  BY <1>4 DEF Has
<1> DEFINE s1 == first \o o1
           s2 == s1 \o o2
           s3 == s2 \o o3
           s4 == s3 \o last
<1>6. \A s, t \in Seq(PackedPairs) : s \o t \in Seq(PackedPairs)
  OBVIOUS
<1>7. s1 \in Seq(PackedPairs) /\ s2 \in Seq(PackedPairs) /\ s3 \in Seq(PackedPairs)
      /\ s4 \in Seq(PackedPairs)
  BY <1>3, <1>4, <1>6, Zenon
<1>8. ASSUME NEW x, Has(first, x) PROVE Has(s4, x)
  <2>1. Has(s1, x)
    BY <1>3, <1>4, <1>8, HasJoin, Zenon
  <2>2. Has(s2, x)
    BY <1>3, <1>7, <2>1, HasJoin, Zenon
  <2>3. Has(s3, x)
    BY <1>3, <1>7, <2>2, HasJoin, Zenon
  <2> QED  BY <1>4, <1>7, <2>3, HasJoin, Zenon
<1>9. ASSUME NEW x, Has(last, x) PROVE Has(s4, x)
  BY <1>4, <1>7, <1>9, HasJoin, Zenon
<1>10. PackedFiles(c) = s4
  BY <1>1
<1> HIDE DEF s1, s2, s3, s4
<1>11. \A i \in DOMAIN s4 : s4[i] \in PackedPairs
  BY <1>7
<1>12. AlwaysPacked(s4)
  <2>1. Has(s4, f2) /\ Has(s4, f3) /\ Has(s4, f4) /\ Has(s4, f6) /\ Has(s4, f7)
    BY <1>5, <1>8, <1>9, Zenon
  <2> QED  BY <2>1, Zenon DEF AlwaysPacked, f2, f3, f4, f6, f7
<1> QED
  BY <1>10, <1>11, <1>12

(* Paths of three components are apart if their directories or names are. *)
LEMMA PathsApart ==
  \A m, n : /\ Bin(m) = Bin(n) => m = n
            /\ App(m) = App(n) => m = n
            /\ Etc(m) = Etc(n) => m = n
            /\ Bin(m) # Etc(n) /\ Bin(m) # App(n) /\ Etc(m) # App(n)
<1>1. \A n : Bin(n) = <<NoName, "bin", n>> /\ Etc(n) = <<NoName, "etc", n>>
             /\ App(n) = <<NoName, "apps", n>>
  BY Zenon DEF Bin, Etc, App, NoName
<1>2. \A a, b, m, n : <<NoName, a, m>> = <<NoName, b, n>> => a = b /\ m = n
  OBVIOUS
<1>3. "bin" # "etc" /\ "bin" # "apps" /\ "etc" # "apps"
  OBVIOUS
<1> QED
  BY <1>1, <1>2, <1>3, Zenon

(* The fields of a file. *)
LEMMA FileIs == \A p, x : File(p, x).path = p /\ File(p, x).data = <<x>>
  BY DEF File

(* What main packs under the paths of the programs. *)
ProgramCell(path, cell) ==
  \/ path \in {Bin("hello"), Bin("gui"), Bin("fstest")} /\ cell = UserProgram
  \/ path = Bin("hello.exe") /\ cell = HelloExe

(* A file under a program's path is that program. *)
LEMMA PackedPrograms ==
  ASSUME NEW f \in PackedPairs,
         f.path \in {Bin("hello"), Bin("gui"), Bin("fstest"), Bin("hello.exe")}
  PROVE  \E cell : f = File(f.path, cell) /\ ProgramCell(f.path, cell)
<1>1. PICK p, x : f = File(p, x) /\ \/ p = Bin("bss-test") /\ x = BssTest
                                    \/ p = Bin("hello.exe") /\ x = HelloExe
                                    \/ \E n : p = Etc(n)
                                    \/ \E n : p = App(n)
                                    \/ p \in {Bin("hello"), Bin("gui"), Bin("fstest")}
                                       /\ x = UserProgram
  BY Zenon DEF PackedPairs
<1>2. f.path = p
  BY <1>1, FileIs
<1>3. "bss-test" \notin {"hello", "gui", "fstest", "hello.exe"}
  OBVIOUS
<1>4. p \in {Bin("hello"), Bin("gui"), Bin("fstest"), Bin("hello.exe")}
  BY <1>2
<1>5. p # Bin("bss-test") /\ (\A n : p # Etc(n) /\ p # App(n))
  BY <1>3, <1>4, PathsApart
<1> QED
  BY <1>1, <1>2, <1>5, Zenon DEF ProgramCell

(* What the kernel found in memory, and that it is what the builder built. *)
Found == \E found \in Shipped : /\ ramdisk = found.bytes /\ image.files = found.files
                                /\ image.damaged = found.damaged
Whole(c, files, L, B, m, d) ==
  /\ c \in Configs /\ files = PackedFiles(c) /\ image.files = files
  /\ Packing(PackedNames, PackedCells, files, L, B, ramdisk, m, d) /\ Buildable(files)
  /\ 2 <= MaxPath /\ Len(ramdisk) <= MaxWord
  /\ IsFiniteSet(PathsOf(files)) /\ PathsOf(files) \in SUBSET Seq(PackedNames)

(* A ramdisk that was not damaged is an archive build_archive wrote. *)
LEMMA FoundWhole ==
  ASSUME Found, ~image.damaged
  PROVE  \E c, files, L, B, m, d : Whole(c, files, L, B, m, d)
<1>1. PICK found \in Shipped : /\ ramdisk = found.bytes /\ image.files = found.files
                               /\ image.damaged = found.damaged
  BY Zenon DEF Found
<1>2. PICK c \in Configs : /\ found.files = PackedFiles(c) /\ Buildable(PackedFiles(c))
                           /\ found.bytes = build_archive(PackedFiles(c))
  BY <1>1, Undamaged
<1> DEFINE files == PackedFiles(c)
<1>3. NoName \in PackedNames
  BY Zenon DEF PackedNames
<1>4. files \in Seq(Files(PackedNames, PackedCells)) /\ 1 \in DOMAIN files
  BY PackedType, Zenon
<1>5. ramdisk = build_archive(files) /\ image.files = files /\ Buildable(files)
  BY <1>1, <1>2, Zenon
<1>6. Len(ramdisk) <= MaxWord
  BY <1>1, ShippedSafe, Zenon
<1>7. files = PackedFiles(c) /\ c \in Configs
  OBVIOUS
<1> HIDE DEF files
<1>8. PICK L, B, m, d : Packing(PackedNames, PackedCells, files, L, B, ramdisk, m, d)
  BY <1>3, <1>4, <1>5, ArchiveIsPacking, Zenon
<1>9. IsFiniteSet(PathsOf(files)) /\ PathsOf(files) \in SUBSET Seq(PackedNames)
  BY <1>4, PathsAreFinite, Zenon
<1>10. 2 <= MaxPath
  <2>1. path_is_valid(files[1].path)
    BY <1>4, <1>5, Zenon DEF Buildable
  <2>2. Len(files[1].path) \in 2 .. MaxPath
    BY <2>1, PathShape, Zenon
  <2>3. \A k : k \in 2 .. MaxPath => 2 <= MaxPath
    BY SizeAssumption
  <2> QED  BY <2>2, <2>3, Zenon
<1> QED
  BY <1>5, <1>6, <1>7, <1>8, <1>9, <1>10, Zenon DEF Whole

(* It mounts, and its nodes are the rows of the table. *)
RowsMounted(files, L) ==
  /\ Mountable(ramdisk)
  /\ DOMAIN NodesOf(ramdisk) = {L[i].path : i \in 1 .. Len(L)}
  /\ Len(L) \in Nat
  /\ \A i \in 1 .. Len(L) : RowIs(L[i], files)
  /\ \A k \in DOMAIN files : FileRow(files[k], L)

(* Its rows mount as the nodes of its files. *)
LEMMA WholeRows ==
  ASSUME NEW c, NEW files, NEW L, NEW B, NEW m, NEW d, Whole(c, files, L, B, m, d)
  PROVE  RowsMounted(files, L)
<1>0. NoName \in PackedNames
  BY Zenon DEF PackedNames
<1>1. Mountable(ramdisk)
  BY <1>0, ArchiveMounts, Zenon DEF Whole
<1>2. Packing(PackedNames, PackedCells, files, L, B, ramdisk, m, d)
  BY Zenon DEF Whole
<1>3. Root \in Directories(PathsOf(files))
  <2>1. \A q \in PathsOf(files) : path_is_valid(q)
    BY Zenon DEF Whole, Buildable, PathsOf
  <2> QED  BY <1>0, <2>1, DirectoriesClosed, Zenon DEF Whole
<1>4. NodesFrom(NodesOf(ramdisk), ramdisk, L)
  BY <1>0, <1>1, <1>2, <1>3, NodesAreRows, Zenon
<1>5. Len(L) \in Nat
  BY <1>2, TableExact, Zenon DEF Table
<1>6. \A i \in 1 .. Len(L) : RowIs(L[i], files)
  BY <1>2, RowSays, Zenon
<1>7. \A k \in DOMAIN files : FileRow(files[k], L)
  BY <1>2, HasRow, Zenon
<1> QED
  BY <1>1, <1>4, <1>5, <1>6, <1>7, Zenon DEF NodesFrom, RowsMounted

(* It mounts, with a node for each file that is always packed and its directories. *)
LEMMA WholeMounts ==
  ASSUME Found, ~image.damaged
  PROVE  Mountable(ramdisk) /\ Cardinality(DOMAIN NodesOf(ramdisk)) >= 4
<1>1. PICK c, files, L, B, m, d : Whole(c, files, L, B, m, d)
  BY FoundWhole
<1>0. /\ Mountable(ramdisk) /\ Len(L) \in Nat
      /\ DOMAIN NodesOf(ramdisk) = {L[i].path : i \in 1 .. Len(L)}
      /\ \A k \in DOMAIN files : FileRow(files[k], L)
  <2>1. RowsMounted(files, L)
    BY <1>1, WholeRows, Zenon
  <2> QED  BY <2>1, Zenon DEF RowsMounted
<1> DEFINE D == DOMAIN NodesOf(ramdisk)
           p1 == Etc("motd")
           p2 == Etc("theme.conf")
           p3 == Bin("hello.exe")
           p4 == App("notes.najm")
           four == {p1, p2, p3, p4}
<1>2. /\ Mountable(ramdisk) /\ D = {L[i].path : i \in 1 .. Len(L)} /\ Len(L) \in Nat
      /\ \A k \in DOMAIN files : FileRow(files[k], L)
  BY <1>0, Zenon
<1>3. ASSUME NEW p, NEW x, Has(files, File(p, x)) PROVE p \in D
  <2>1. PICK k \in DOMAIN files : files[k] = File(p, x)
    BY <1>3, Zenon DEF Has
  <2>2. FileRow(files[k], L) /\ files[k].path = p
    BY <1>2, <2>1, FileIs, Zenon
  <2> QED  BY <1>2, <2>2, Zenon DEF FileRow
<1>4. AlwaysPacked(files)
  BY <1>1, PackedHas, Zenon DEF Whole
<1>5. four \subseteq D
  <2>1. p1 \in D /\ p2 \in D /\ p3 \in D /\ p4 \in D
    BY <1>3, <1>4, Zenon DEF AlwaysPacked
  <2> HIDE DEF D, p1, p2, p3, p4
  <2> QED  BY <2>1
<1>6. p1 # p2 /\ p1 # p3 /\ p1 # p4 /\ p2 # p3 /\ p2 # p4 /\ p3 # p4
  <2>1. "motd" # "theme.conf"
    OBVIOUS
  <2> QED  BY <2>1, PathsApart, Zenon
<1>7. IsFiniteSet(D)
  <2>1. IsFiniteSet(1 .. Len(L))
    BY <1>2, FS_Interval
  <2> DEFINE f == [i \in 1 .. Len(L) |-> L[i].path]
  <2>2. f \in Surjection(1 .. Len(L), {L[i].path : i \in 1 .. Len(L)})
    BY DEF Surjection
  <2> HIDE DEF f
  <2>3. IsFiniteSet({L[i].path : i \in 1 .. Len(L)})
    BY <2>1, <2>2, FS_Surjection DEF ExistsSurjection
  <2> QED  BY <1>2, <2>3
<1> HIDE DEF D, p1, p2, p3, p4
<1>8. IsFiniteSet(four) /\ Cardinality(four) = 4
  <2>1. IsFiniteSet({}) /\ Cardinality({}) = 0
    BY FS_EmptySet
  <2>2. IsFiniteSet({p1}) /\ Cardinality({p1}) = 1
    BY FS_Singleton
  <2>3. IsFiniteSet({p1} \union {p2}) /\ Cardinality({p1} \union {p2}) = 2
    BY <1>6, <2>2, FS_AddElement
  <2>4. IsFiniteSet({p1} \union {p2} \union {p3}) /\ Cardinality({p1} \union {p2} \union {p3}) = 3
    BY <1>6, <2>3, FS_AddElement
  <2>5. IsFiniteSet({p1} \union {p2} \union {p3} \union {p4})
        /\ Cardinality({p1} \union {p2} \union {p3} \union {p4}) = 4
    BY <1>6, <2>4, FS_AddElement
  <2>6. four = {p1} \union {p2} \union {p3} \union {p4}
    OBVIOUS
  <2> QED  BY <2>5, <2>6, Zenon
<1>9. Cardinality(four) <= Cardinality(D) /\ Cardinality(D) \in Nat
  <2> HIDE DEF four
  <2> QED  BY <1>5, <1>7, FS_Subset, FS_CardinalityType
<1> QED
  BY <1>2, <1>8, <1>9 DEF D

(* What the namespace of an undamaged archive gives back of the files main packs. *)
ReadsAs(path, cell) == Readable(path) /\ read_all(path) = <<cell>>
ProgramReads(name) ==
  \E cell : /\ ReadsAs(Bin(name), cell) /\ ProgramCell(Bin(name), cell)
            /\ Has(image.files, File(Bin(name), cell))
Programs == {"hello", "gui", "fstest", "hello.exe"}
AsBuilt ==
  /\ HoldsAll(image.files)
  /\ ReadsAs(Etc("motd"), Contents("motd")) /\ ReadsAs(Etc("theme.conf"), Contents("theme"))
  /\ ReadsAs(App("notes.najm"), Notes) /\ ReadsAs(App("tampered.najm"), Tampered)
  /\ \A name \in Programs : Readable(Bin(name)) => ProgramReads(name)
  /\ \A i \in DOMAIN image.files : image.files[i].path = Bin("hello") => Readable(Bin("hello"))

(* After mount the nodes are the ramdisk's own. *)
LEMMA MountedAs ==
  ASSUME ArchiveInv, fs # NotMounted
  PROVE  /\ Found /\ Mountable(ramdisk)
         /\ fs.nodes = NodesOf(ramdisk) /\ fs.len = Len(ramdisk)
<1>1. /\ ramdisk # <<>> /\ Mountable(ramdisk)
      /\ fs = [nodes |-> NodesOf(ramdisk), len |-> Len(ramdisk)]
  BY Zenon DEF ArchiveInv
<1>2. fs.nodes = NodesOf(ramdisk) /\ fs.len = Len(ramdisk)
  BY <1>1
<1> QED
  BY <1>1, <1>2, Zenon DEF ArchiveInv, Found

(* Where nothing was damaged, the namespace holds every packed file. *)
LEMMA UndamagedHolds ==
  ASSUME ArchiveInv, fs # NotMounted, ~image.damaged
  PROVE  HoldsAll(image.files)
<1>1. /\ Found /\ Mountable(ramdisk) /\ fs.nodes = NodesOf(ramdisk) /\ fs.len = Len(ramdisk)
  BY MountedAs, Zenon
<1>2. PICK c, files, L, B, m, d : Whole(c, files, L, B, m, d)
  BY <1>1, FoundWhole, Zenon
<1>3. PICK S : ramdisk \in Seq(S)
  BY RamdiskSafe, Zenon
<1>4. NoName \in PackedNames
  BY Zenon DEF PackedNames
<1>5. HoldsAll(files)
  BY <1>1, <1>2, <1>3, <1>4, RoundTrip, Zenon DEF Whole
<1> QED
  BY <1>2, <1>5, Zenon DEF Whole

(* Where nothing was damaged, the files read as they were built. *)
LEMMA UndamagedReads ==
  ASSUME ArchiveInv, fs # NotMounted, ~image.damaged
  PROVE  AsBuilt
<1>1. HoldsAll(image.files)
  BY UndamagedHolds, Zenon
<1>2. PICK c : image.files = PackedFiles(c)
  BY MountedAs, FoundWhole, Zenon DEF Whole
<1> DEFINE files == image.files
<1>3. (\A i \in DOMAIN files : files[i] \in PackedPairs) /\ AlwaysPacked(files)
  BY <1>2, PackedHas, Zenon
<1>4. ASSUME NEW p, NEW x, Has(files, File(p, x)) PROVE ReadsAs(p, x)
  <2>1. PICK i \in DOMAIN files : files[i] = File(p, x)
    BY <1>4, Zenon DEF Has
  <2>2. files[i].path = p /\ files[i].data = <<x>>
    BY <2>1, FileIs, Zenon
  <2>3. Readable(files[i].path) /\ read_all(files[i].path) = files[i].data
    BY <1>1, Zenon DEF HoldsAll
  <2> QED  BY <2>2, <2>3, Zenon DEF ReadsAs
<1>5. ASSUME NEW name \in Programs, Readable(Bin(name)) PROVE ProgramReads(name)
  <2>1. /\ Bin(name) \in DOMAIN fs.nodes /\ ~fs.nodes[Bin(name)].dir
    BY <1>5, Zenon DEF Readable, lookup
  <2>2. PICK i \in DOMAIN files : files[i].path = Bin(name)
    BY <1>1, <2>1, Zenon DEF HoldsAll
  <2>3. Bin(name) \in {Bin("hello"), Bin("gui"), Bin("fstest"), Bin("hello.exe")}
    BY DEF Programs
  <2>4. PICK cell : files[i] = File(Bin(name), cell) /\ ProgramCell(Bin(name), cell)
    BY <1>3, <2>2, <2>3, PackedPrograms
  <2>5. Has(files, File(Bin(name), cell))
    BY <2>4, Zenon DEF Has
  <2> QED  BY <1>4, <2>4, <2>5, Zenon DEF ProgramReads
<1>6. \A i \in DOMAIN files : files[i].path = Bin("hello") => Readable(Bin("hello"))
  BY <1>1, Zenon DEF HoldsAll
<1>7. /\ ReadsAs(Etc("motd"), Contents("motd")) /\ ReadsAs(Etc("theme.conf"), Contents("theme"))
      /\ ReadsAs(App("notes.najm"), Notes) /\ ReadsAs(App("tampered.najm"), Tampered)
  BY <1>3, <1>4, Zenon DEF AlwaysPacked
<1> QED
  BY <1>1, <1>5, <1>6, <1>7, Zenon DEF AsBuilt

-----------------------------------------------------------------------------
(* The paths that CheckPaths looks for. *)

Backwards == <<NoName, "etc", "..", "etc", "motd">>
Nowhere == <<NoName, "nonexistent">>

(* No archive, damaged or not, has a node with a path that is not valid. *)
LEMMA NodesAreValid ==
  ASSUME NEW bytes, Mountable(bytes), NEW p \in DOMAIN NodesOf(bytes)
  PROVE  p = Root \/ path_is_valid(p)
<1>1. p = Root \/ \E e \in Listing(bytes) : p = e.path
  BY NodesExact
<1>2. ASSUME NEW e \in Listing(bytes) PROVE path_is_valid(e.path)
  <2>1. PICK i \in 1 .. bytes[1].count : e = bytes[HEADER_SIZE + i]
    BY Zenon DEF Listing
  <2>2. EntryAccepted(bytes, HEADER_SIZE + i)
    BY Zenon DEF Mountable
  <2> QED  BY <2>1, <2>2, Zenon DEF EntryAccepted
<1> QED
  BY <1>1, <1>2, Zenon

(* A path with ".." in it is refused. *)
LEMMA BackwardsIsInvalid == Backwards # Root /\ ~path_is_valid(Backwards)
<1>1. Len(Backwards) = 5 /\ Backwards[3] = ".." /\ 3 \in 2 .. 5
  BY DEF Backwards
<1>2. Len(Root) = 2
  BY RootShape, Zenon
<1>3. Backwards # Root
  BY <1>1, <1>2
<1>4. ~Plain("..")
  BY DEF Plain
<1> QED
  BY <1>1, <1>3, <1>4, PathShape, Zenon

(* The directories of what main packs. *)
PackedDirs == {Root, NoPath, <<NoName, "bin">>, <<NoName, "etc">>, <<NoName, "apps">>}

(* The directories above what is packed. *)
LEMMA PackedParents ==
  /\ \A f \in PackedPairs : parent_of(f.path) \in PackedDirs /\ Len(f.path) = 3
  /\ \A p \in PackedDirs : parent_of(p) \in PackedDirs
<1>1. \A n : Bin(n) = <<NoName, "bin", n>> /\ Etc(n) = <<NoName, "etc", n>>
             /\ App(n) = <<NoName, "apps", n>>
  BY Zenon DEF Bin, Etc, App, NoName
<1>2. ASSUME NEW a, NEW n
      PROVE  /\ Len(<<NoName, a, n>>) = 3 /\ SubSeq(<<NoName, a, n>>, 1, 2) = <<NoName, a>>
             /\ Len(<<NoName, a>>) = 2
  <2> DEFINE S == {NoName, a, n}
             p == <<NoName, a, n>>
             q == <<NoName, a>>
  <2>1. p \in Seq(S) /\ Len(p) = 3 /\ p[1] = NoName /\ p[2] = a
    OBVIOUS
  <2>2. q \in Seq(S) /\ Len(q) = 2 /\ q[1] = NoName /\ q[2] = a
    OBVIOUS
  <2> HIDE DEF S, p, q
  <2>3. SubSeq(p, 1, 2) \in Seq(S) /\ Len(SubSeq(p, 1, 2)) = 2
        /\ SubSeq(p, 1, 2)[1] = p[1] /\ SubSeq(p, 1, 2)[2] = p[2]
    BY <2>1
  <2>4. \A i \in 1 .. 2 : i = 1 \/ i = 2
    OBVIOUS
  <2>5. SubSeq(p, 1, 2) = q
    BY <2>1, <2>2, <2>3, <2>4, SeqEqual
  <2> QED  BY <2>1, <2>2, <2>5 DEF p, q
<1>3. ASSUME NEW a, NEW n PROVE parent_of(<<NoName, a, n>>) = <<NoName, a>>
  <2> DEFINE p == <<NoName, a, n>>
  <2>1. Len(p) = 3 /\ SubSeq(p, 1, 2) = <<NoName, a>>
    BY <1>2
  <2>2. p # Root
    BY <2>1, RootShape
  <2> HIDE DEF p
  <2>3. ~(Len(p) < 2) /\ Len(p) # 2 /\ Len(p) - 1 = 2
    BY <2>1
  <2>4. parent_of(p) = <<NoName, a>>
    BY <2>1, <2>2, <2>3, Zenon DEF parent_of
  <2> QED  BY <2>4 DEF p
<1>4. ASSUME NEW a PROVE parent_of(<<NoName, a>>) \in {Root, NoPath}
  <2>1. Len(<<NoName, a>>) = 2
    OBVIOUS
  <2> QED  BY <2>1 DEF parent_of
<1>5. ASSUME NEW f \in PackedPairs PROVE parent_of(f.path) \in PackedDirs /\ Len(f.path) = 3
  <2>1. PICK p, x, n : f = File(p, x) /\ (p = Bin(n) \/ p = Etc(n) \/ p = App(n))
    BY Zenon DEF PackedPairs
  <2>2. f.path = p
    BY <2>1, FileIs, Zenon
  <2> QED  BY <1>1, <1>2, <1>3, <2>1, <2>2 DEF PackedDirs
<1>6. ASSUME NEW p \in PackedDirs PROVE parent_of(p) \in PackedDirs
  <2>1. parent_of(NoPath) = NoPath /\ parent_of(Root) = NoPath
    BY ParentOfNone, Zenon
  <2> QED  BY <1>4, <2>1, Zenon DEF PackedDirs
<1> QED
  BY <1>5, <1>6

(* The path of the self-test is none of them. *)
LEMMA NowhereIsNone == Nowhere \notin PackedDirs /\ Len(Nowhere) = 2
<1>1. "nonexistent" # NoName
  BY Zenon DEF NoName
<1>2. Root = <<NoName, NoName>> /\ NoPath = <<>>
  BY Zenon DEF Root, NoName, NoPath
<1>3. \A a, b : <<NoName, a>> = <<NoName, b>> => a = b
  OBVIOUS
<1>4. \A a : <<NoName, a>> # <<>> /\ Len(<<NoName, a>>) = 2
  OBVIOUS
<1>5. "nonexistent" # "bin" /\ "nonexistent" # "etc" /\ "nonexistent" # "apps"
  OBVIOUS
<1> QED
  BY <1>1, <1>2, <1>3, <1>4, <1>5, Zenon DEF Nowhere, PackedDirs

(* No other directory comes of the packed paths. *)
LEMMA PackedDirectories ==
  ASSUME NEW paths \in SUBSET Seq(PackedNames), IsFiniteSet(paths),
         \A p \in paths : parent_of(p) \in PackedDirs
  PROVE  Directories(paths) \subseteq PackedDirs
<1>0. NoName \in PackedNames /\ MaxPath \in Nat
  BY SizeAssumption, Zenon DEF PackedNames
<1>1. PICK c : Climbs(c, paths, PackedNames)
  BY <1>0, ClimbExists, Zenon
<1> DEFINE T == {k \in 0 .. MaxPath : c[k] \subseteq PackedDirs}
<1>2. 0 \in T
  <2>1. c[0] = {Root} \union Parents(paths)
    BY <1>1, Zenon DEF Climbs
  <2>2. Root \in PackedDirs
    BY Zenon DEF PackedDirs
  <2>3. Parents(paths) \subseteq PackedDirs
    BY Zenon DEF Parents
  <2> QED  BY <1>0, <2>1, <2>2, <2>3
<1>3. \A k \in 1 .. MaxPath : k - 1 \in T => k \in T
  <2> SUFFICES ASSUME NEW k \in 1 .. MaxPath, c[k - 1] \subseteq PackedDirs
               PROVE  c[k] \subseteq PackedDirs
    BY <1>0
  <2>1. c[k] = c[k - 1] \union Parents(c[k - 1])
    BY <1>1, Zenon DEF Climbs
  <2>2. Parents(c[k - 1]) \subseteq PackedDirs
    BY PackedParents, Zenon DEF Parents
  <2> QED  BY <2>1, <2>2, Zenon
<1>4. T \in SUBSET (0 .. MaxPath)
  OBVIOUS
<1> HIDE DEF T
<1>5. T = 0 .. MaxPath
  BY <1>0, <1>2, <1>3, <1>4, UpTo
<1>6. MaxPath \in 0 .. MaxPath
  BY <1>0
<1>7. c[MaxPath] \subseteq PackedDirs
  BY <1>5, <1>6 DEF T
<1> QED
  BY <1>1, <1>7, Zenon DEF Climbs

(* Of an undamaged archive, CheckPaths finds neither path. *)
LEMMA PathsResolve ==
  ASSUME ArchiveInv, fs # NotMounted, ~image.damaged
  PROVE  ~lookup(<<"", "etc", "..", "etc", "motd">>) /\ ~lookup(<<"", "nonexistent">>)
<1>1. /\ Found /\ Mountable(ramdisk) /\ fs.nodes = NodesOf(ramdisk) /\ fs.len = Len(ramdisk)
  BY MountedAs, Zenon
<1>2. Backwards \notin DOMAIN NodesOf(ramdisk)
  BY <1>1, NodesAreValid, BackwardsIsInvalid, Zenon
<1>3. PICK c, files, L, B, m, d : Whole(c, files, L, B, m, d)
  BY <1>1, FoundWhole, Zenon
<1>4. RowsMounted(files, L)
  BY <1>3, WholeRows, Zenon
<1>5. \A i \in DOMAIN files : files[i] \in PackedPairs
  BY <1>3, PackedHas, Zenon DEF Whole
<1>6. \A p \in PathsOf(files) : parent_of(p) \in PackedDirs /\ Len(p) = 3
  BY <1>5, PackedParents, Zenon DEF PathsOf
<1>7. Directories(PathsOf(files)) \subseteq PackedDirs
  BY <1>3, <1>6, PackedDirectories, Zenon DEF Whole
<1>8. ASSUME Nowhere \in DOMAIN NodesOf(ramdisk) PROVE FALSE
  <2>1. PICK i \in 1 .. Len(L) : Nowhere = L[i].path
    BY <1>4, <1>8, Zenon DEF RowsMounted
  <2>2. RowIs(L[i], files)
    BY <1>4, Zenon DEF RowsMounted
  <2>3. Nowhere \in Directories(PathsOf(files)) \/ Nowhere \in PathsOf(files)
    BY <2>1, <2>2, Zenon DEF RowIs
  <2>4. Nowhere \in PathsOf(files) => Len(Nowhere) = 3
    BY <1>6, Zenon
  <2>5. 2 # 3
    OBVIOUS
  <2> QED  BY <1>7, <2>3, <2>4, <2>5, NowhereIsNone, Zenon
<1> QED
  BY <1>1, <1>2, <1>8, Zenon DEF lookup, Backwards, Nowhere, NoName

-----------------------------------------------------------------------------
(* The two packages at the self-test of the store. *)

(* What the shipped manifest says. *)
LEMMA NotesManifestOf ==
  LET m == ManifestOf(NotesManifest)
  IN m.id = "os.najm.notes" /\ m.entry = "/bin/notes"
<1>1. /\ DOMAIN NotesManifest = 1 .. 6 /\ NotesManifest[1] = Text
      /\ NotesManifest[2] = Line("id", "os.najm.notes")
      /\ NotesManifest[3] = Line("entry", "/bin/notes") /\ NotesManifest[4] = Line("realm", "Vault")
      /\ NotesManifest[5] = Line("capability", "file_read")
      /\ NotesManifest[6] = Line("capability", "surface_create")
  BY DEF NotesManifest
<1>2. \A k, v : Line(k, v).key = k /\ Line(k, v).value = v
  BY DEF Line
<1>3. Text.key = "text"
  BY Zenon, <1>2 DEF Text
<1>4. \A i \in 1 .. 6 : i \in {1, 2, 3, 4, 5, 6}
  OBVIOUS
<1> DEFINE N == NotesManifest
<1> HIDE DEF N
<1>5. /\ DOMAIN N = 1 .. 6 /\ N[1].key = "text" /\ N[2].key = "id" /\ N[3].key = "entry"
      /\ N[4].key = "realm" /\ N[5].key = "capability" /\ N[6].key = "capability"
      /\ N[2].value = "os.najm.notes" /\ N[3].value = "/bin/notes"
  BY <1>1, <1>2, <1>3 DEF N
<1>6. ASSUME NEW key, NEW n \in 1 .. 6, \A i \in 1 .. 6 : N[i].key = key <=> i = n, NEW default
      PROVE  LastValue(N, key, default) = N[n].value
  <2> DEFINE at == {i \in DOMAIN N : N[i].key = key}
  <2>1. at = {n}
    BY <1>5, <1>6
  <2> HIDE DEF at
  <2>2. (CHOOSE i \in at : \A j \in at : j <= i) = n
    <3>1. n <= n
      OBVIOUS
    <3> QED  BY <2>1, <3>1, Zenon
  <2>3. at # {}
    BY <2>1
  <2> QED  BY <2>2, <2>3, Zenon DEF LastValue, at
<1>7. /\ \A i \in 1 .. 6 : N[i].key = "id" <=> i = 2
      /\ \A i \in 1 .. 6 : N[i].key = "entry" <=> i = 3
  BY <1>4, <1>5
<1>8. \A default : /\ LastValue(N, "id", default) = "os.najm.notes"
                   /\ LastValue(N, "entry", default) = "/bin/notes"
  <2>2. ASSUME NEW default
        PROVE  LastValue(N, "id", default) = N[2].value
    <3>1. 2 \in 1 .. 6
      OBVIOUS
    <3>2. \A i \in 1 .. 6 : N[i].key = "id" <=> i = 2
      BY <1>7
    <3> QED  BY <1>6, <3>1, <3>2, Zenon
  <2>3. ASSUME NEW default
        PROVE  LastValue(N, "entry", default) = N[3].value
    <3>1. 3 \in 1 .. 6
      OBVIOUS
    <3>2. \A i \in 1 .. 6 : N[i].key = "entry" <=> i = 3
      BY <1>7
    <3> QED  BY <1>6, <3>1, <3>2, Zenon
  <2> QED  BY <1>5, <2>2, <2>3, Zenon
<1> DEFINE id == LastValue(N, "id", NoName)
           entry == LastValue(N, "entry", NoName)
           r == LastValue(N, "realm", "Home")
           realm == IF r \in {"Gaming", "Vault"} THEN r ELSE "Home"
           rights == {N[i].value : i \in {k \in DOMAIN N : N[k].key = "capability"}}
                        \intersect KnownRights
<1>9. ManifestOf(N) = [id |-> id, entry |-> entry, realm |-> realm, rights |-> rights]
  BY Zenon DEF ManifestOf, NoName
<1> HIDE DEF id, entry, realm, rights
<1>10. ManifestOf(N).id = id /\ ManifestOf(N).entry = entry
  BY <1>9
<1> QED
  BY <1>8, <1>10, Zenon DEF N, id, entry

(* What verify says of every package. *)
LEMMA VerifyIs ==
  ASSUME NEW p
  PROVE  verify(p).integrity = DigestMatches(p) /\ verify(p).granted = "Home"
<1> DEFINE m == ManifestOf(SubSeq(p.body, 1, p.manifest_len))
<1>1. verify_signature(p) # "Verified"
  BY DEF verify_signature
<1>2. verify(p) = [manifest |-> m, integrity |-> DigestMatches(p), granted |-> "Home",
                   denied |-> m.realm # "Home"]
  BY <1>1, Zenon DEF verify
<1> HIDE DEF m
<1> QED
  BY <1>2

(* Six elements of eight. *)
LEMMA FirstSix ==
  ASSUME NEW Cs, NEW b \in Seq(Cs), Len(b) = 8, NEW a \in Seq(Cs), Len(a) = 6,
         \A i \in 1 .. 6 : b[i] = a[i]
  PROVE  SubSeq(b, 1, 6) = a
<1>1. SubSeq(b, 1, 6) \in Seq(Cs) /\ Len(SubSeq(b, 1, 6)) = 6
  <2>1. \A i \in 1 .. 6 : b[i] \in Cs
    <3>1. \A i \in 1 .. 6 : i \in 1 .. Len(b)
      OBVIOUS
    <3>2. \A i \in 1 .. Len(b) : b[i] \in Cs
      BY ElementOfSeq, Zenon
    <3> QED  BY <3>1, <3>2, Zenon
  <2>2. 1 \in Int /\ 6 \in Int /\ 1 <= 6 /\ 6 - 1 + 1 = 6
    OBVIOUS
  <2> QED  BY <2>1, <2>2, SubSeqProperties
<1>2. \A i \in 1 .. 6 : SubSeq(b, 1, 6)[i] = a[i]
  OBVIOUS
<1> QED
  BY <1>1, <1>2, SeqEqual

Changed(s, n, x) == [i \in 1 .. Len(s) |-> IF i = n THEN x ELSE s[i]]

(* An updated sequence, as a function. *)
LEMMA ExceptIsChanged ==
  ASSUME NEW x, NEW s, DOMAIN s = 1 .. Len(s), NEW n
  PROVE  [s EXCEPT ![n] = x] = Changed(s, n, x)
  BY DEF Changed

(* It is a sequence of the same elements. *)
LEMMA ChangedIsSeq ==
  ASSUME NEW S, NEW s \in Seq(S), NEW x \in S, NEW n
  PROVE  Changed(s, n, x) \in Seq(S)
  BY DEF Changed

(* A change of the last of eight leaves the first six. *)
LEMMA LastChanged ==
  ASSUME NEW S, NEW s \in Seq(S), NEW x \in S, Len(s) = 8
  PROVE  /\ Changed(s, 8, x) \in Seq(S) /\ Len(Changed(s, 8, x)) = 8
         /\ \A i \in 1 .. 6 : Changed(s, 8, x)[i] = s[i]
<1>1. Changed(s, 8, x) \in Seq(S)
  BY ChangedIsSeq, Zenon
<1>2. DOMAIN Changed(s, 8, x) = 1 .. 8
  BY DEF Changed
<1>3. \A i \in 1 .. 6 : Changed(s, 8, x)[i] = s[i]
  BY DEF Changed
<1> QED
  BY <1>1, <1>2, <1>3

(* A package with the shipped manifest in its body can be examined. *)
LEMMA ExaminableAs ==
  ASSUME NEW Cs, NEW b \in Seq(Cs), Len(b) = 8, NotesManifest \in Seq(Cs), Len(NotesManifest) = 6,
         \A i \in 1 .. 6 : b[i] = NotesManifest[i] /\ b[i] # Binary,
         NEW d,
         NEW p, p = [whole |-> TRUE, magic |-> TRUE, version |-> PackageVersion,
                     manifest_len |-> Len(NotesManifest), digest |-> d, body |-> b]
  PROVE  IsPackage(p) /\ Examinable(p)
<1>1. /\ p.whole /\ p.magic /\ p.version = PackageVersion /\ p.manifest_len = 6 /\ p.body = b
      /\ "manifest_len" \in DOMAIN p
  OBVIOUS
<1>2. SubSeq(b, 1, 6) = NotesManifest
  BY FirstSix, Zenon
<1> DEFINE m == ManifestOf(NotesManifest)
<1>3. m.id # NoName /\ m.entry # NoName
  <2>1. m.id = "os.najm.notes" /\ m.entry = "/bin/notes"
    BY NotesManifestOf, Zenon
  <2>2. "os.najm.notes" # NoName /\ "/bin/notes" # NoName
    BY DEF NoName
  <2> QED  BY <2>1, <2>2, Zenon
<1> HIDE DEF m
<1>4. 6 <= 8
  OBVIOUS
<1>5. Examinable(p)
  BY <1>1, <1>2, <1>3, <1>4, Zenon DEF Examinable, NoName, m
<1> QED
  BY <1>1, <1>5, Zenon DEF IsPackage

(* The two packages that are shipped can be examined. *)
LEMMA PackagesExaminable ==
  /\ IsPackage(Notes) /\ Examinable(Notes)
  /\ IsPackage(Tampered) /\ Examinable(Tampered)
<1> DEFINE b == NotesManifest \o NotesPayload
           flip == Line("flipped", "")
           fl == [b EXCEPT ![Len(b)] = flip]
           Cs == {NotesManifest[i] : i \in 1 .. 6} \union {NotesPayload[1], NotesPayload[2], flip}
<1> HIDE DEF flip
<1>1. Len(NotesManifest) = 6 /\ NotesManifest \in Seq(Cs)
  BY DEF NotesManifest
<1>2. Len(NotesPayload) = 2 /\ NotesPayload \in Seq(Cs)
  BY DEF NotesPayload
<1>3. Notes = [whole |-> TRUE, magic |-> TRUE, version |-> PackageVersion,
               manifest_len |-> Len(NotesManifest), digest |-> b, body |-> b]
  BY DEF Notes, build_package
<1>4. Tampered = [whole |-> TRUE, magic |-> TRUE, version |-> PackageVersion,
                  manifest_len |-> Len(NotesManifest), digest |-> b, body |-> fl]
  BY DEF Tampered, build_package, flip
<1>5. flip \in Cs
  OBVIOUS
<1> HIDE DEF Cs
<1>6. /\ b \in Seq(Cs) /\ Len(b) = Len(NotesManifest) + Len(NotesPayload)
      /\ \A i \in 1 .. Len(NotesManifest) : b[i] = NotesManifest[i]
  BY <1>1, <1>2, Joined, Zenon
<1> HIDE DEF b
<1>7. b \in Seq(Cs) /\ Len(b) = 8 /\ \A i \in 1 .. 6 : b[i] = NotesManifest[i]
  BY <1>1, <1>2, <1>6
<1>8. fl \in Seq(Cs) /\ Len(fl) = 8 /\ \A i \in 1 .. 6 : fl[i] = b[i]
  <2>1. fl = Changed(b, 8, flip)
    <3>1. DOMAIN b = 1 .. Len(b)
      BY <1>7
    <3>2. fl = Changed(b, Len(b), flip)
      BY <3>1, ExceptIsChanged, Zenon
    <3> QED  BY <1>7, <3>2, Zenon
  <2> HIDE DEF fl
  <2> QED  BY <1>5, <1>7, <2>1, LastChanged, Zenon
<1> HIDE DEF fl
<1>9. \A i \in 1 .. 6 : NotesManifest[i] # Binary
  <2>1. Binary.key = "binary" /\ \A k, v : Line(k, v).key = k
    BY DEF Line, Binary
  <2>2. /\ NotesManifest[1] = Text
        /\ NotesManifest[2] = Line("id", "os.najm.notes")
        /\ NotesManifest[3] = Line("entry", "/bin/notes")
        /\ NotesManifest[4] = Line("realm", "Vault")
        /\ NotesManifest[5] = Line("capability", "file_read")
        /\ NotesManifest[6] = Line("capability", "surface_create")
    BY DEF NotesManifest
  <2>3. Text.key = "text"
    BY <2>1, Zenon DEF Text
  <2>4. \A i \in 1 .. 6 : NotesManifest[i].key \in {"text", "id", "entry", "realm", "capability"}
    <3>1. \A i \in 1 .. 6 : i \in {1, 2, 3, 4, 5, 6}
      OBVIOUS
    <3> QED  BY <2>1, <2>2, <2>3, <3>1
  <2>5. "binary" \notin {"text", "id", "entry", "realm", "capability"}
    OBVIOUS
  <2> QED  BY <2>1, <2>4, <2>5, Zenon
<1>10. IsPackage(Notes) /\ Examinable(Notes)
  <2>1. \A i \in 1 .. 6 : b[i] = NotesManifest[i] /\ b[i] # Binary
    BY <1>7, <1>9, Zenon
  <2> QED  BY <1>1, <1>3, <1>7, <2>1, ExaminableAs, Zenon
<1>11. IsPackage(Tampered) /\ Examinable(Tampered)
  <2>1. \A i \in 1 .. 6 : fl[i] = NotesManifest[i] /\ fl[i] # Binary
    BY <1>7, <1>8, <1>9, Zenon
  <2> QED  BY <1>1, <1>4, <1>8, <2>1, ExaminableAs, Zenon
<1> QED
  BY <1>10, <1>11

(* A package is listed in its directory. *)
LEMMA InApps ==
  ASSUME NEW n, Readable(App(n))
  PROVE  App(n) \in read_dir(Apps)
<1> DEFINE p == <<NoName, "apps", n>>
           d == <<NoName, "apps">>
<1>1. App(n) = p /\ Apps = d /\ Root = <<NoName, NoName>>
  BY Zenon DEF App, Apps, Root, NoName
<1>2. "apps" # NoName
  BY DEF NoName
<1>3. /\ p # d /\ d # <<NoName, NoName>> /\ Len(p) = 3 /\ Len(d) = 2
      /\ p \in Seq({NoName, "apps", n}) /\ d \in Seq({NoName, "apps", n})
      /\ p[1] = d[1] /\ p[2] = d[2]
  BY <1>2
<1> HIDE DEF p, d
<1>4. SubSeq(p, 1, 2) = SubSeq(d, 1, 2)
  <2> DEFINE S == {NoName, "apps", n}
  <2> HIDE DEF S
  <2>1. p \in Seq(S) /\ d \in Seq(S)
    BY <1>3 DEF S
  <2>2. /\ SubSeq(p, 1, 2) \in Seq(S) /\ Len(SubSeq(p, 1, 2)) = 2
        /\ SubSeq(p, 1, 2)[1] = p[1] /\ SubSeq(p, 1, 2)[2] = p[2]
    BY <1>3, <2>1
  <2>3. /\ SubSeq(d, 1, 2) \in Seq(S) /\ Len(SubSeq(d, 1, 2)) = 2
        /\ SubSeq(d, 1, 2)[1] = d[1] /\ SubSeq(d, 1, 2)[2] = d[2]
    BY <1>3, <2>1
  <2>4. \A i \in 1 .. 2 : SubSeq(p, 1, 2)[i] = SubSeq(d, 1, 2)[i]
    <3>1. \A i \in 1 .. 2 : i = 1 \/ i = 2
      OBVIOUS
    <3> QED  BY <1>3, <2>2, <2>3, <3>1, Zenon
  <2> QED  BY <2>2, <2>3, <2>4, SeqEqual
<1>5. p \in DOMAIN fs.nodes
  BY <1>1, Zenon DEF Readable, lookup
<1>6. Len(p) = 2 + 1
  BY <1>3
<1> QED
  BY <1>1, <1>3, <1>4, <1>5, <1>6, Zenon DEF read_dir

(* The only cell of a file. *)
LEMMA OnlyOne == \A x : Only(<<x>>) = x
<1> TAKE x
<1>1. Len(<<x>>) = 1 /\ <<x>>[1] = x
  OBVIOUS
<1> QED
  BY <1>1, Zenon DEF Only

(* Of an undamaged archive, both self-tests of ScanPackages pass. *)
LEMMA ScanPasses ==
  ASSUME ArchiveInv, fs # NotMounted, ~image.damaged
  PROVE  LET packages == {Only(read_all(p)) : p \in {q \in read_dir(Apps) : Readable(q)}}
             verdicts == {[package |-> p, verdict |-> verify(p)] :
                            p \in {q \in packages : IsPackage(q) /\ Examinable(q)}}
         IN /\ {v.verdict.integrity : v \in verdicts} = BOOLEAN
            /\ verdicts # {} /\ \A v \in verdicts : v.verdict.granted = "Home"
<1> DEFINE packages == {Only(read_all(p)) : p \in {q \in read_dir(Apps) : Readable(q)}}
           verdicts == {[package |-> p, verdict |-> verify(p)] :
                          p \in {q \in packages : IsPackage(q) /\ Examinable(q)}}
<1>1. ReadsAs(App("notes.najm"), Notes) /\ ReadsAs(App("tampered.najm"), Tampered)
  BY UndamagedReads, Zenon DEF AsBuilt
<1>2. ASSUME NEW n, NEW cell, ReadsAs(App(n), cell) PROVE cell \in packages
  <2>1. Readable(App(n)) /\ App(n) \in read_dir(Apps) /\ read_all(App(n)) = <<cell>>
    BY <1>2, InApps, Zenon DEF ReadsAs
  <2>2. Only(read_all(App(n))) = cell
    BY <2>1, OnlyOne, Zenon
  <2> QED  BY <2>1, <2>2
<1>3. Notes \in packages /\ Tampered \in packages
  BY <1>1, <1>2, Zenon
<1> HIDE DEF packages
<1>4. ASSUME NEW p \in packages, IsPackage(p), Examinable(p)
      PROVE  [package |-> p, verdict |-> verify(p)] \in verdicts
  BY <1>4
<1>5. \A v \in verdicts : \E p : v = [package |-> p, verdict |-> verify(p)]
  OBVIOUS
<1> DEFINE one == [package |-> Notes, verdict |-> verify(Notes)]
           two == [package |-> Tampered, verdict |-> verify(Tampered)]
<1>6. one \in verdicts /\ two \in verdicts
  BY <1>3, <1>4, PackagesExaminable
<1> HIDE DEF verdicts
<1>7. \A v \in verdicts : v.verdict.integrity \in BOOLEAN /\ v.verdict.granted = "Home"
  <2> TAKE v \in verdicts
  <2>1. PICK p : v = [package |-> p, verdict |-> verify(p)]
    BY <1>5
  <2>2. v.verdict = verify(p)
    BY <2>1
  <2>3. DigestMatches(p) \in BOOLEAN
    BY DEF DigestMatches
  <2> QED  BY <2>2, <2>3, VerifyIs
<1>8. one.verdict.integrity = TRUE /\ two.verdict.integrity = FALSE
  <2>1. one.verdict = verify(Notes) /\ two.verdict = verify(Tampered)
    OBVIOUS
  <2>2. DigestMatches(Notes) = TRUE /\ DigestMatches(Tampered) = FALSE
    <3>1. DigestMatches(Notes) /\ ~DigestMatches(Tampered)
      BY PackagesSafe, Zenon
    <3> QED  BY <3>1 DEF DigestMatches
  <2> HIDE DEF one, two
  <2> QED  BY <2>1, <2>2, VerifyIs
<1> HIDE DEF one, two
<1>9. {v.verdict.integrity : v \in verdicts} = BOOLEAN
  BY <1>6, <1>7, <1>8
<1>10. verdicts # {}
  BY <1>6
<1> QED
  BY <1>7, <1>9, <1>10, Zenon DEF verdicts, packages

(* How a boot gets to its end. *)

Starting == {"memory", "pci", "clock", "mouse", "ring3", "ramdisk"}
Running == {"motd", "theme", "set_bounds", "set_pointer", "present", "paths", "hello", "gui",
          "store", "mirage", "fstest", "run", "probe_layout", "stats", "position", "report"}

(* The stages kernel_main is in only after it has looked for the program. *)
Past(name) ==
  {"run", "probe_layout", "stats", "position", "report", "exited"}
  \union (IF name = "hello" THEN {"gui", "store", "mirage", "fstest"}
          ELSE IF name = "gui" THEN {"store", "mirage", "fstest"}
          ELSE IF name = "hello.exe" THEN {"fstest"} ELSE {})

Built(q) == AsPacked(q) /\ Canonical(q.loaded.entry)
Ran(name) == Readable(Bin(name)) => \E i \in DOMAIN boot.procs : boot.procs[i].path = Bin(name)
NoHello == \A i \in DOMAIN image.files : image.files[i].path # Bin("hello")
PanicExplained == \E i \in DOMAIN ramdisk :
                     \/ IsElf(ramdisk[i]) /\ SegmentEndOutside(ramdisk[i])
                     \/ IsPe(ramdisk[i]) /\ PePanics(ramdisk[i])
HaltExplained == \E i \in DOMAIN ramdisk : IsElf(ramdisk[i]) /\ ~Canonical(ramdisk[i].entry)

BeforeMount == /\ boot.stage \in Starting \union {"mount"} => boot.procs = <<>>
               /\ boot.stage \in Starting => boot.failed = boot.loud
               /\ boot.stage = "mount" => Found
AfterMount == boot.stage \in Running \union {"exited"} => fs # NotMounted
Clean(a) == ~a.failed /\ ~a.loud
HealthyPasses ==
  boot.stage \in Running \union {"mount", "exited"} /\ ~image.damaged /\ image.healthy =>
     Clean(boot)
ProgramsAsBuilt == ~image.damaged => \A i \in DOMAIN boot.procs : Built(boot.procs[i])
ProgramsRan == \A name \in Programs : boot.stage \in Past(name) => boot.loud \/ Ran(name)
EndsExplained ==
  /\ boot.stage = "panicked" => image.damaged \/ NoHello
  /\ boot.stage = "panicked" /\ boot.why = "loader" => PanicExplained
  /\ boot.stage = "halted" => image.damaged /\ HaltExplained
  /\ boot.stage = "exited" => boot.exit = IF ~boot.failed THEN "Success" ELSE "Failed"

EndInv == /\ BeforeMount /\ AfterMount /\ HealthyPasses /\ ProgramsAsBuilt /\ ProgramsRan
          /\ EndsExplained

(* The invariant says how a boot ends. *)
LEMMA EndInvSuffices == EndInv => BootEndsAsItShould
<1> SUFFICES ASSUME EndInv PROVE BootEndsAsItShould
  OBVIOUS
<1>1. EndsExplained /\ HealthyPasses /\ ProgramsRan
  BY Zenon DEF EndInv
<1>2. ASSUME boot.stage = "exited", ~image.damaged, image.healthy PROVE BootTestPasses
  <2>1. ~boot.failed /\ ~boot.loud
    BY <1>1, <1>2 DEF HealthyPasses, Clean
  <2>2. boot.exit = IF ~boot.failed THEN "Success" ELSE "Failed"
    BY <1>1, <1>2, Zenon DEF EndsExplained
  <2> QED  BY <1>2, <2>1, <2>2, Zenon DEF BootTestPasses
<1>3. ASSUME BootTestPasses, NEW name \in {"hello", "gui", "fstest", "hello.exe"} PROVE Ran(name)
  <2>1. boot.stage = "exited" /\ ~boot.loud
    BY <1>3, Zenon DEF BootTestPasses
  <2>2. boot.stage \in Past(name) /\ name \in Programs
    BY <2>1 DEF Past, Programs
  <2> QED  BY <1>1, <2>1, <2>2, Zenon DEF ProgramsRan
<1> QED
  BY <1>1, <1>2, <1>3, Zenon DEF BootEndsAsItShould, EndsExplained, NoHello, PanicExplained, PePanics,
                                HaltExplained, Ran

(* It holds when kernel_main starts. *)
LEMMA EndInvInit == Init => EndInv
<1> SUFFICES ASSUME Init PROVE EndInv
  OBVIOUS
<1>1. PICK none : boot = [stage |-> "memory", nx |-> TRUE, mouse |-> FALSE, held |-> {},
               failed |-> FALSE, loud |-> FALSE, why |-> none, screen |-> FALSE, procs |-> <<>>,
               verdicts |-> {}, exit |-> none]
  BY Zenon DEF Init
<1>2. boot.stage = "memory" /\ boot.procs = <<>> /\ boot.failed = boot.loud
      /\ DOMAIN boot.procs = {}
  BY <1>1
<1>3. BeforeMount /\ AfterMount /\ HealthyPasses /\ EndsExplained
  BY <1>2 DEF BeforeMount, AfterMount, HealthyPasses, EndsExplained, Running
<1>4. ProgramsAsBuilt
  BY <1>2, Zenon DEF ProgramsAsBuilt
<1>5. ProgramsRan
  BY <1>2 DEF ProgramsRan, Past
<1> QED
  BY <1>3, <1>4, <1>5, Zenon DEF EndInv

(* A record that has moved on to a stage. *)
MovedTo(a, s) ==
  /\ DOMAIN a = BootFields /\ a.stage = s /\ a.procs = boot.procs
  /\ boot.loud => a.loud
  /\ boot.failed = boot.loud => a.failed = a.loud

(* Moving on keeps the programs and the failure marks. *)
LEMMA GotoMoves ==
  ASSUME DOMAIN boot = BootFields, NEW s
  PROVE  MovedTo(Goto(s), s) /\ (Clean(boot) => Clean(Goto(s)))
  BY DEF Goto, MovedTo, BootFields, Clean

(* A self-test's report keeps the programs, and the marks if it passes. *)
LEMMA CheckMoves ==
  ASSUME NEW a, NEW s, MovedTo(a, s), NEW passed
  PROVE  MovedTo(check(a, passed), s) /\ (Clean(a) /\ passed => Clean(check(a, passed)))
<1>1. CASE passed
  <2>1. check(a, passed) = a
    BY <1>1, Zenon DEF check
  <2> QED  BY <2>1, Zenon DEF MovedTo
<1>2. CASE ~passed
  <2>1. check(a, passed) = [a EXCEPT !.failed = TRUE, !.loud = TRUE]
    BY <1>2, Zenon DEF check
  <2> QED  BY <1>2, <2>1 DEF MovedTo, BootFields
<1> QED
  BY <1>1, <1>2

(* A step that goes on to a stage that is no end, perhaps with more programs. *)
GoesOn(next) ==
  /\ boot'.stage = next /\ ArchiveStays
  /\ boot.loud => boot'.loud
  /\ \A i \in DOMAIN boot.procs : i \in DOMAIN boot'.procs /\ boot'.procs[i] = boot.procs[i]
Rightly(next) ==
  /\ next \in Starting =>
        boot.stage \in Starting /\ boot'.failed = boot'.loud /\ boot'.procs = boot.procs
  /\ next \in Running => boot.stage \in Running
  /\ next \in Running /\ ~image.damaged /\ Clean(boot) => Clean(boot')
  /\ ~image.damaged =>
        \A i \in DOMAIN boot'.procs : i \notin DOMAIN boot.procs => Built(boot'.procs[i])
  /\ \A name \in Programs : next \in Past(name) =>
        \/ boot.stage \in Past(name) \/ boot'.loud \/ ~Readable(Bin(name))
        \/ \E i \in DOMAIN boot'.procs : boot'.procs[i].path = Bin(name)

(* A step that goes on rightly keeps the invariant. *)
LEMMA Advance ==
  ASSUME EndInv, NEW next \in Starting \union Running, GoesOn(next), Rightly(next)
  PROVE  EndInv'
<1>1. boot'.stage = next /\ image' = image /\ ramdisk' = ramdisk /\ fs' = fs
  BY Zenon DEF GoesOn, ArchiveStays
<1>2. /\ next \notin {"mount", "exited", "panicked", "halted"}
      /\ next \in Running => next \notin Starting
  BY DEF Starting, Running
<1>3. \A q : Built(q)' <=> Built(q)
  BY <1>1, Zenon DEF Built, AsPacked
<1>4. BeforeMount'
  <2>1. next \in Starting => boot'.procs = <<>> /\ boot'.failed = boot'.loud
    BY Zenon DEF Rightly, EndInv, BeforeMount
  <2> QED  BY <1>1, <1>2, <2>1 DEF BeforeMount
<1>5. AfterMount'
  <2>1. next \in Running => fs # NotMounted
    <3>1. next \in Running => boot.stage \in Running
      BY Zenon DEF Rightly
    <3> QED  BY <3>1 DEF EndInv, AfterMount
  <2> QED  BY <1>1, <1>2, <2>1 DEF AfterMount
<1>6. HealthyPasses'
  <2>1. ASSUME next \in Running, ~image.damaged, image.healthy PROVE Clean(boot')
    <3>1. boot.stage \in Running
      BY <2>1, Zenon DEF Rightly
    <3>2. Clean(boot)
      BY <2>1, <3>1 DEF EndInv, HealthyPasses
    <3> QED  BY <2>1, <3>2, Zenon DEF Rightly
  <2>2. boot'.stage \in Running \union {"mount", "exited"} => next \in Running
    BY <1>1, <1>2
  <2> QED  BY <1>1, <2>1, <2>2, Zenon DEF HealthyPasses, Clean
<1>7. ProgramsAsBuilt'
  <2>1. ASSUME ~image.damaged, NEW i \in DOMAIN boot'.procs PROVE Built(boot'.procs[i])
    <3>1. CASE i \in DOMAIN boot.procs
      <4>1. Built(boot.procs[i])
        BY <2>1, <3>1, Zenon DEF EndInv, ProgramsAsBuilt
      <4>2. boot'.procs[i] = boot.procs[i]
        BY <3>1, Zenon DEF GoesOn
      <4> QED  BY <4>1, <4>2, Zenon
    <3>2. CASE i \notin DOMAIN boot.procs
      BY <2>1, <3>2, Zenon DEF Rightly
    <3> QED  BY <3>1, <3>2
  <2> SUFFICES ASSUME ~image'.damaged, NEW i \in DOMAIN boot'.procs PROVE Built(boot.procs[i])'
    BY Zenon DEF ProgramsAsBuilt
  <2>2. AsPacked(boot'.procs[i]) /\ Canonical(boot'.procs[i].loaded.entry)
    BY <1>1, <2>1, Zenon DEF Built
  <2> QED  BY <1>1, <2>2, Zenon DEF Built, AsPacked
<1>8. ProgramsRan'
  <2> SUFFICES ASSUME NEW name \in Programs, next \in Past(name), ~boot'.loud PROVE Ran(name)'
    BY <1>1, Zenon DEF ProgramsRan
  <2>0. \A p : Readable(p)' <=> Readable(p)
    BY <1>1, Zenon DEF Readable, lookup
  <2>1. CASE boot.stage \in Past(name)
    <3>1. Ran(name)
      BY <2>1, Zenon DEF EndInv, ProgramsRan, GoesOn
    <3> QED  BY <2>0, <3>1, Zenon DEF Ran, GoesOn
  <2>2. CASE boot.stage \notin Past(name)
    BY <2>0, <2>2, Zenon DEF Rightly, Ran
  <2> QED  BY <2>1, <2>2
<1>9. EndsExplained'
  BY <1>1, <1>2 DEF EndsExplained
<1> QED
  BY <1>4, <1>5, <1>6, <1>7, <1>8, <1>9, Zenon DEF EndInv

(* A step that reports and goes on, with the same programs. *)
LEMMA Reporting ==
  ASSUME EndInv, NEW next \in Starting \union Running, MovedTo(boot', next), ArchiveStays,
         next \in Starting => boot.stage \in Starting,
         next \in Running => boot.stage \in Running,
         next \in Running /\ ~image.damaged /\ Clean(boot) => Clean(boot'),
         \A name \in Programs : next \in Past(name) =>
            boot.stage \in Past(name) \/ boot'.loud \/ ~Readable(Bin(name))
  PROVE  EndInv'
<1>1. GoesOn(next)
  BY Zenon DEF GoesOn, MovedTo
<1>2. ASSUME next \in Starting PROVE boot'.failed = boot'.loud
  BY <1>2 DEF MovedTo, EndInv, BeforeMount
<1>3. boot'.procs = boot.procs
  BY Zenon DEF MovedTo
<1>4. Rightly(next)
  BY <1>2, <1>3, Zenon DEF Rightly
<1> QED
  BY <1>1, <1>4, Advance, Zenon

(* Nothing but the programs' own stages is passed by any other step. *)
LEMMA NotPast ==
  ASSUME NEW s \in Starting \union {"mount", "motd", "theme", "set_bounds", "set_pointer",
                                 "present", "paths", "hello"},
         NEW name \in Programs
  PROVE  s \notin Past(name)
  BY DEF Starting, Past, Programs

(* The steps before the archive keep the invariant, *)
LEMMA StartingEnds ==
  ASSUME RecordInv, EndInv, ArchiveStays,
         EnumeratePci \/ ClockRead \/ init_mouse \/ RunRing3Tests
  PROVE  EndInv'
<1> USE NotPast DEF Starting, Running
<1>1. CASE EnumeratePci
  <2>1. DOMAIN boot = BootFields /\ boot.stage = "pci"
    BY <1>1, NothingHeld DEF EnumeratePci, Unlocked
  <2>2. PICK passed : boot' = check(Goto("clock"), passed)
    BY <1>1, Zenon DEF EnumeratePci
  <2>3. MovedTo(boot', "clock")
    BY <2>1, <2>2, GotoMoves, CheckMoves, Zenon
  <2> QED  BY <2>1, <2>3, Reporting
<1>2. CASE ClockRead
  <2>1. DOMAIN boot = BootFields /\ boot.stage = "clock"
    BY <1>2, NothingHeld DEF ClockRead, Unlocked
  <2>2. PICK passed : boot' = check(Goto("mouse"), passed)
    BY <1>2, Zenon DEF ClockRead
  <2>3. MovedTo(boot', "mouse")
    BY <2>1, <2>2, GotoMoves, CheckMoves, Zenon
  <2> QED  BY <2>1, <2>3, Reporting
<1>3. CASE init_mouse
  <2>1. DOMAIN boot = BootFields /\ boot.stage = "mouse"
    BY <1>3, NothingHeld DEF init_mouse, Unlocked
  <2>2. PICK writable : boot' = [Goto("ring3") EXCEPT !.mouse = writable]
    BY <1>3, Zenon DEF init_mouse
  <2>3. MovedTo(Goto("ring3"), "ring3")
    BY <2>1, GotoMoves, Zenon
  <2>4. MovedTo(boot', "ring3")
    BY <2>2, <2>3 DEF MovedTo, BootFields
  <2> QED  BY <2>1, <2>4, Reporting
<1>4. CASE RunRing3Tests
  <2>1. DOMAIN boot = BootFields /\ boot.stage = "ring3"
    BY <1>4, NothingHeld DEF RunRing3Tests, Unlocked
  <2>2. PICK one, two : \/ boot' = check(Goto("ramdisk"), one)
                        \/ boot' = check(check(Goto("ramdisk"), one), two)
    BY <1>4, Zenon DEF RunRing3Tests
  <2>3. MovedTo(boot', "ramdisk")
    BY <2>1, <2>2, GotoMoves, CheckMoves, Zenon
  <2> QED  BY <2>1, <2>3, Reporting
<1> QED
  BY <1>1, <1>2, <1>3, <1>4

(* the memory self-tests, *)
LEMMA StartMemoryEnds ==
  ASSUME RecordInv, EndInv, ArchiveStays, StartMemory
  PROVE  EndInv'
<1>1. DOMAIN boot = BootFields /\ boot.stage = "memory"
  BY NothingHeld DEF StartMemory, Unlocked
<1> DEFINE split(left) ==
             LET used == pml4_entries_in_use(
                           clear_lower_half_mappings(left \union {KERNEL_PML4_FIRST_INDEX}))
             IN used[1] = 0 /\ used[2] > 0
           p3 == ~is_revoked({}, derive(issue(1)))
           p4 == is_revoked(revoke({}, issue(1)), derive(issue(1)))
<1>2. PICK p2 \in BOOLEAN, left \in SUBSET (0 .. (KERNEL_PML4_FIRST_INDEX - 1)) :
        boot' = [check(check(check(check(Goto("pci"), split(left)), p2), p3), p4)
                   EXCEPT !.nx = p2]
  BY Zenon DEF StartMemory
<1> DEFINE p1 == split(left)
<1> HIDE DEF split, p3, p4
<1> DEFINE b == check(check(check(check(Goto("pci"), p1), p2), p3), p4)
<1>3. MovedTo(b, "pci")
  BY <1>1, GotoMoves, CheckMoves, Zenon
<1>4. boot' = [b EXCEPT !.nx = p2]
  BY <1>2, Zenon
<1> HIDE DEF b
<1>5. MovedTo(boot', "pci")
  BY <1>3, <1>4 DEF MovedTo, BootFields
<1> QED
  BY <1>1, <1>5, NotPast, Reporting DEF Starting, Running

(* and the locks. *)
LEMMA LocksEnd ==
  ASSUME RecordInv, EndInv, ArchiveStays, TakeLock \/ DropLock
  PROVE  EndInv'
<1>0. DOMAIN boot = BootFields
  BY DEF RecordInv
<1>1. CASE TakeLock
  <2>1. /\ boot.stage \in DOMAIN LockUses
        /\ boot' = [boot EXCEPT !.held = {LockUses[boot.stage].lock}]
    BY <1>1, Zenon DEF TakeLock
  <2>2. boot.stage \in Running
    BY <2>1, LockStages DEF Running
  <2>3. MovedTo(boot', boot.stage) /\ (Clean(boot) => Clean(boot'))
    BY <1>0, <2>1 DEF MovedTo, BootFields, Clean
  <2>4. boot.stage \notin Starting
    BY <2>2 DEF Running, Starting
  <2> QED  BY <2>2, <2>3, <2>4, Reporting, Zenon
<1>2. CASE DropLock
  <2> DEFINE next == LockUses[boot.stage].next
  <2>1. /\ boot.held # {} /\ boot' = [Goto(next) EXCEPT !.held = {}]
    BY <1>2, Zenon DEF DropLock
  <2>2. boot.stage \in DOMAIN LockUses
    BY <2>1 DEF RecordInv
  <2>3. next \in {"set_pointer", "present", "paths", "stats", "position", "report"}
    BY <2>2, LockStages
  <2>4. \/ next \in {"set_pointer", "present", "paths"}
        \/ boot.stage \in {"probe_layout", "stats", "position"}
    <3>1. /\ LockUses["set_bounds"].next = "set_pointer" /\ LockUses["set_pointer"].next = "present"
          /\ LockUses["present"].next = "paths"
      BY DEF LockUses, LockUse
    <3> QED  BY <2>2, <3>1, LockStages
  <2> HIDE DEF next
  <2>5. boot.stage \in Running /\ next \in Running /\ next \notin Starting
    BY <2>2, <2>3, LockStages DEF Running, Starting
  <2> DEFINE b == Goto(next)
  <2>6. MovedTo(b, next) /\ (Clean(boot) => Clean(b))
    BY <1>0, GotoMoves, Zenon
  <2> HIDE DEF b
  <2>7. MovedTo(boot', next) /\ (Clean(boot) => Clean(boot'))
    <3>1. boot' = [b EXCEPT !.held = {}]
      BY <2>1 DEF b
    <3> QED  BY <2>6, <3>1 DEF MovedTo, BootFields, Clean
  <2>8. \A name \in Programs : next \in Past(name) => boot.stage \in Past(name)
    <3>1. CASE next \in {"set_pointer", "present", "paths"}
      BY <3>1, NotPast
    <3>2. CASE boot.stage \in {"probe_layout", "stats", "position"}
      BY <3>2 DEF Past
    <3> QED  BY <2>4, <3>1, <3>2
  <2> QED  BY <2>5, <2>7, <2>8, Reporting, Zenon
<1> QED
  BY <1>1, <1>2

(* A panic keeps the invariant where it is explained. *)
LEMMA PanicEnds ==
  ASSUME DOMAIN boot = BootFields, EndInv, ArchiveStays, NEW why, boot' = Panic(why),
         image.damaged \/ NoHello, why = "loader" => PanicExplained
  PROVE  EndInv'
<1>1. boot'.stage = "panicked" /\ boot'.why = why /\ boot'.procs = boot.procs
  BY DEF Panic, BootFields
<1>2. image' = image /\ ramdisk' = ramdisk /\ fs' = fs
  BY Zenon DEF ArchiveStays
<1>3. BeforeMount' /\ AfterMount' /\ HealthyPasses'
  BY <1>1 DEF BeforeMount, AfterMount, HealthyPasses, Starting, Running
<1>4. ProgramsAsBuilt'
  <2>1. \A q : Built(q)' <=> Built(q)
    BY <1>2, Zenon DEF Built, AsPacked
  <2> QED  BY <1>1, <1>2, Zenon DEF EndInv, ProgramsAsBuilt, Built, AsPacked
<1>5. ProgramsRan'
  BY <1>1 DEF ProgramsRan, Past
<1>6. EndsExplained'
  <2>1. (image.damaged \/ NoHello)' /\ (why = "loader" => PanicExplained')
    BY <1>2, Zenon DEF NoHello, PanicExplained
  <2>2. "panicked" # "halted" /\ "panicked" # "exited"
    OBVIOUS
  <2> QED  BY <1>1, <2>1, <2>2, Zenon DEF EndsExplained
<1> QED
  BY <1>3, <1>4, <1>5, <1>6, Zenon DEF EndInv

(* The ramdisk is one that was shipped, and the machine as healthy as it was so far. *)
LEMMA TakeRamdiskEnds ==
  ASSUME RecordInv, EndInv, TakeRamdisk
  PROVE  EndInv'
<1>1. DOMAIN boot = BootFields /\ boot.stage = "ramdisk"
  BY NothingHeld DEF TakeRamdisk, Unlocked
<1>2. PICK found \in Shipped :
         /\ ramdisk' = found.bytes
         /\ image' = [files |-> found.files, damaged |-> found.damaged, healthy |-> ~boot.failed]
  BY Zenon DEF TakeRamdisk
<1>3. boot' = Goto("mount")
  BY Zenon DEF TakeRamdisk
<1>4. /\ boot'.stage = "mount" /\ boot'.procs = boot.procs
      /\ boot'.failed = boot.failed /\ boot'.loud = boot.loud
  BY <1>1, <1>3 DEF Goto, BootFields
<1>5. boot.procs = <<>> /\ boot.failed = boot.loud
  BY <1>1, Zenon DEF EndInv, BeforeMount, Starting
<1>6. /\ image'.files = found.files /\ image'.damaged = found.damaged
      /\ image'.healthy = ~boot.failed
  BY <1>2
<1>7. Found'
  BY <1>2, <1>6, Zenon DEF Found, Shipped, InTransit
<1>8. BeforeMount' /\ AfterMount' /\ EndsExplained'
  BY <1>4, <1>5, <1>7 DEF BeforeMount, AfterMount, EndsExplained, Starting, Running
<1>9. HealthyPasses'
  BY <1>4, <1>5, <1>6, Zenon DEF HealthyPasses, Clean
<1>10. ProgramsAsBuilt'
  <2>1. DOMAIN boot'.procs = {}
    BY <1>4, <1>5
  <2> QED  BY <2>1, Zenon DEF ProgramsAsBuilt
<1>11. ProgramsRan'
  BY <1>4, NotPast, Zenon DEF ProgramsRan
<1> QED
  BY <1>8, <1>9, <1>10, <1>11, Zenon DEF EndInv

(* Mount fails only for an archive that was damaged. *)
LEMMA MountEnds ==
  ASSUME ArchiveInv, RecordInv, EndInv, MountArchive
  PROVE  EndInv'
<1>1. DOMAIN boot = BootFields /\ boot.stage = "mount"
  BY NothingHeld DEF MountArchive, Unlocked
<1>2. Found /\ boot.procs = <<>> /\ image' = image
  BY <1>1, Zenon DEF EndInv, BeforeMount, MountArchive
<1>3. CASE Mount /\ boot' = check(Goto("motd"), Cardinality(DOMAIN fs'.nodes) >= 4)
  <2>1. fs'.nodes = NodesOf(ramdisk) /\ fs' # NotMounted
    <3>1. fs' = [nodes |-> NodesOf(ramdisk), len |-> Len(ramdisk)]
      BY <1>3, Zenon DEF Mount
    <3>2. PICK S : ramdisk \in Seq(S)
      BY RamdiskSafe
    <3>3. Len(ramdisk) # -1
      BY <3>2
    <3> QED  BY <3>1, <3>3 DEF NotMounted
  <2> DEFINE passed == Cardinality(DOMAIN fs'.nodes) >= 4
  <2>2. ~image.damaged => passed
    BY <1>2, <2>1, WholeMounts, Zenon
  <2> HIDE DEF passed
  <2>3. MovedTo(boot', "motd") /\ (Clean(boot) /\ passed => Clean(boot'))
    BY <1>1, <1>3, GotoMoves, CheckMoves, Zenon DEF passed
  <2>4. boot'.stage = "motd" /\ boot'.procs = boot.procs
    BY <2>3, Zenon DEF MovedTo
  <2>5. BeforeMount' /\ AfterMount' /\ EndsExplained'
    BY <2>1, <2>4 DEF BeforeMount, AfterMount, EndsExplained, Starting
  <2>6. HealthyPasses'
    <3>1. ~image.damaged /\ image.healthy => Clean(boot')
      BY <1>1, <2>2, <2>3 DEF EndInv, HealthyPasses
    <3>2. Clean(boot)' <=> Clean(boot')
      BY Zenon DEF Clean
    <3> QED  BY <1>2, <3>1, <3>2, Zenon DEF HealthyPasses
  <2>7. ProgramsAsBuilt'
    <3>1. DOMAIN boot'.procs = {}
      BY <1>2, <2>4
    <3> QED  BY <3>1, Zenon DEF ProgramsAsBuilt
  <2>8. ProgramsRan'
    BY <2>4, NotPast, Zenon DEF ProgramsRan
  <2> QED  BY <2>5, <2>6, <2>7, <2>8, Zenon DEF EndInv
<1>4. CASE ~Mountable(ramdisk) /\ boot' = Panic("mount") /\ UNCHANGED archiveVars
  <2>1. image.damaged
    BY <1>2, <1>4, WholeMounts, Zenon
  <2>2. ArchiveStays
    BY <1>2, <1>4, Zenon DEF ArchiveStays, archiveVars
  <2>3. "mount" # "loader"
    OBVIOUS
  <2> QED  BY <1>1, <1>4, <2>1, <2>2, <2>3, PanicEnds, Zenon
<1> QED
  BY <1>3, <1>4, Zenon DEF MountArchive

(* The self-tests that read the archive pass where nothing was damaged. *)
LEMMA CheckingEnds ==
  ASSUME ArchiveInv, RecordInv, EndInv, ArchiveStays, ReadMotd \/ LoadTheme \/ CheckPaths
  PROVE  EndInv'
<1> DEFINE s == boot.stage
<1>1. /\ DOMAIN boot = BootFields /\ fs # NotMounted /\ s \in {"motd", "theme", "paths"}
      /\ ReadMotd => s = "motd"
      /\ LoadTheme => s = "theme"
      /\ CheckPaths => s = "paths"
  <2>1. At("motd") \/ At("theme") \/ At("paths")
    BY Zenon DEF ReadMotd, LoadTheme, CheckPaths
  <2>2. DOMAIN boot = BootFields /\ s \in {"motd", "theme", "paths"}
    BY <2>1, NothingHeld DEF Unlocked
  <2>3. fs # NotMounted
    BY <2>2 DEF EndInv, AfterMount, Running
  <2> QED  BY <2>2, <2>3, Zenon DEF ReadMotd, LoadTheme, CheckPaths, At
<1>2. s \in Running
  BY <1>1 DEF Running
<1>3. ASSUME NEW next \in {"theme", "set_bounds", "paths", "hello"}, MovedTo(boot', next),
             ~image.damaged /\ Clean(boot) => Clean(boot')
      PROVE  EndInv'
  <2>1. next \in Running /\ next \notin Starting
    BY <1>3 DEF Running, Starting
  <2>2. \A name \in Programs : next \notin Past(name)
    BY <1>3, NotPast
  <2> QED  BY <1>2, <1>3, <2>1, <2>2, Reporting, Zenon
<1>4. CASE ReadMotd
  <2> DEFINE passed == Readable(Etc("motd")) /\ read_all(Etc("motd")) = <<Contents("motd")>>
  <2>1. ~image.damaged => passed
    BY <1>1, UndamagedReads, Zenon DEF AsBuilt, ReadsAs
  <2> HIDE DEF passed
  <2>2. boot' = check(Goto("theme"), passed)
    BY <1>4, Zenon DEF ReadMotd, passed
  <2>3. MovedTo(boot', "theme") /\ (Clean(boot) /\ passed => Clean(boot'))
    BY <1>1, <2>2, GotoMoves, CheckMoves, Zenon
  <2> QED  BY <1>3, <2>1, <2>3
<1>5. CASE LoadTheme
  <2> DEFINE passed == read_all(Etc("theme.conf")) = <<Contents("theme")>>
  <2>1. ~image.damaged => passed
    BY <1>1, UndamagedReads, Zenon DEF AsBuilt, ReadsAs
  <2> HIDE DEF passed
  <2>2. PICK screen \in BOOLEAN :
          LET b == [Goto(IF screen THEN "set_bounds" ELSE "paths") EXCEPT !.screen = screen]
          IN boot' = b \/ boot' = check(b, passed)
    BY <1>5, Zenon DEF LoadTheme, passed
  <2> DEFINE next == IF screen THEN "set_bounds" ELSE "paths"
             g == Goto(next)
             b == [g EXCEPT !.screen = screen]
  <2>3. next \in {"theme", "set_bounds", "paths", "hello"}
    OBVIOUS
  <2>4. boot' = b \/ boot' = check(b, passed)
    BY <2>2, Zenon
  <2> HIDE DEF next
  <2>5. MovedTo(g, next) /\ (Clean(boot) => Clean(g))
    BY <1>1, GotoMoves, Zenon
  <2> HIDE DEF g
  <2>6. MovedTo(b, next) /\ (Clean(boot) => Clean(b))
    BY <2>5 DEF MovedTo, BootFields, Clean
  <2> HIDE DEF b
  <2>7. MovedTo(boot', next) /\ (Clean(boot) /\ passed => Clean(boot'))
    BY <2>4, <2>6, CheckMoves, Zenon
  <2> QED  BY <1>3, <2>1, <2>3, <2>7
<1>6. CASE CheckPaths
  <2> DEFINE one == ~lookup(<<"", "etc", "..", "etc", "motd">>)
             two == ~lookup(<<"", "nonexistent">>)
             passed == one /\ two
  <2>1. ~image.damaged => passed
    BY <1>1, PathsResolve, Zenon
  <2>2. boot' = check(Goto("hello"), passed)
    BY <1>6, Zenon DEF CheckPaths
  <2> HIDE DEF passed
  <2>3. MovedTo(boot', "hello") /\ (Clean(boot) /\ passed => Clean(boot'))
    BY <1>1, <2>2, GotoMoves, CheckMoves, Zenon
  <2> QED  BY <1>3, <2>1, <2>3
<1> QED
  BY <1>4, <1>5, <1>6

(* What the loaders say of the programs of an undamaged archive. *)
LEMMA CellsAreImages ==
  /\ UserProgram \in ElfImages /\ IsElf(UserProgram) /\ Linked(UserProgram)
  /\ HelloExe \in PeImages /\ IsPe(HelloExe)
<1>1. UserProgram \in ElfImages /\ Linked(UserProgram)
  BY BootAssumption, ProgramAssumption
<1>2. \A e \in ElfImages : IsElf(e)
  BY DEF ElfImages, IsElf
<1>3. \A e \in PeImages : IsPe(e)
  BY DEF PeImages, IsPe
<1> QED
  BY <1>1, <1>2, <1>3, HelloExeIsPe

Loads(name, loaded) == /\ loaded.outcome = "loaded" /\ Canonical(loaded.entry)
                       /\ \A realm : AsPacked(Process(Bin(name), realm, loaded))

(* A program whose cell is a file's, at its own path, is as packed. *)
LEMMA PackedAs ==
  ASSUME NEW p, NEW cell, Has(image.files, File(p, cell)), NEW q, q.cell = cell, q.path = p
  PROVE  AsPacked(q)
<1> DEFINE f == File(p, cell)
<1>1. f.path = p /\ f.data = <<cell>>
  BY FileIs
<1> HIDE DEF f
<1>2. PICK i \in DOMAIN image.files : image.files[i] = f
  BY Zenon DEF Has, f
<1>3. image.files[i].path = p /\ image.files[i].data = <<cell>>
  BY <1>1, <1>2, Zenon
<1>4. \E j \in DOMAIN image.files : image.files[j].data = <<q.cell>> /\ image.files[j].path = q.path
  BY <1>3, Zenon
<1> QED
  BY <1>4, Zenon DEF AsPacked

(* Where nothing was damaged, every program loads, is as packed and can be entered. *)
LEMMA UndamagedLoads ==
  ASSUME ArchiveInv, fs # NotMounted, ~image.damaged, boot.nx \in BOOLEAN,
         NEW name \in Programs, Readable(Bin(name))
  PROVE  /\ name # "hello.exe" => Loads(name, LoadElf(Bin(name)))
         /\ name = "hello.exe" => Loads(name, LoadExe(Bin(name)))
<1>1. PICK cell : /\ ReadsAs(Bin(name), cell) /\ ProgramCell(Bin(name), cell)
                  /\ Has(image.files, File(Bin(name), cell))
  BY UndamagedReads, Zenon DEF AsBuilt, ProgramReads
<1>2. Only(read_all(Bin(name))) = cell
  BY <1>1, OnlyOne, Zenon DEF ReadsAs
<1>3. ASSUME NEW realm, NEW loaded PROVE AsPacked(Process(Bin(name), realm, loaded))
  <2> DEFINE q == Process(Bin(name), realm, loaded)
  <2>1. q.cell = cell /\ q.path = Bin(name)
    BY <1>2 DEF Process
  <2> HIDE DEF q
  <2>4. AsPacked(q)
    BY <1>1, <2>1, PackedAs, Zenon
  <2> QED  BY <2>4 DEF q
<1>4. ASSUME name # "hello.exe" PROVE Loads(name, LoadElf(Bin(name)))
  <2>1. cell = UserProgram
    BY <1>1, <1>4, PathsApart, Zenon DEF ProgramCell
  <2>2. LoadElf(Bin(name)) = load_image(UserProgram, boot.nx)
    BY <1>2, <2>1, CellsAreImages, Zenon DEF LoadElf
  <2> DEFINE loaded == load_image(UserProgram, boot.nx)
  <2>3. loaded.outcome = "loaded" /\ Canonical(UserProgram.entry)
    BY CellsAreImages, LinkedLoads, Zenon
  <2>4. loaded.entry = UserProgram.entry
    BY <2>3, CellsAreImages, ElfEnds, Zenon
  <2> HIDE DEF loaded
  <2> QED  BY <1>3, <2>2, <2>3, <2>4, Zenon DEF Loads, loaded
<1>5. ASSUME name = "hello.exe" PROVE Loads(name, LoadExe(Bin(name)))
  <2>1. cell = HelloExe
    <3>1. \A other \in {"hello", "gui", "fstest"} : other # "hello.exe"
      OBVIOUS
    <3>2. Bin(name) \notin {Bin("hello"), Bin("gui"), Bin("fstest")}
      BY <1>5, <3>1, PathsApart, Zenon
    <3> QED  BY <1>1, <3>2, Zenon DEF ProgramCell
  <2>2. LoadExe(Bin(name)) = load_pe(HelloExe, boot.nx)
    BY <1>2, <2>1, CellsAreImages, Zenon DEF LoadExe
  <2> DEFINE loaded == load_pe(HelloExe, boot.nx)
  <2>3. loaded.outcome = "loaded"
    BY HelloLoads, Zenon
  <2>4. Canonical(loaded.entry)
    BY <2>3, CellsAreImages, PeEnds, Zenon
  <2> HIDE DEF loaded
  <2> QED  BY <1>3, <2>2, <2>3, <2>4, Zenon DEF Loads, loaded
<1> QED
  BY <1>4, <1>5

(* A loader itself panics only on what the property names. *)
LEMMA LoaderPanics ==
  ASSUME ArchiveInv, boot.nx \in BOOLEAN, NEW path, Readable(path),
         LoadElf(path).outcome = "panic" \/ LoadExe(path).outcome = "panic"
  PROVE  PanicExplained
<1> DEFINE cell == Only(read_all(path))
<1>1. WellFormed(cell) /\ (InArchive(cell) \/ cell = Contents("other"))
  BY ReadSafe, Zenon DEF Safe
<1>2. ~IsElf(Contents("other")) /\ ~IsPe(Contents("other"))
  <2>1. DOMAIN Contents("other") = {"text"}
    BY DEF Contents
  <2> QED  BY <2>1 DEF IsElf, IsPe
<1>3. Refused.outcome # "panic" /\ PeFails("refused").outcome # "panic"
  BY DEF Refused, PeFails
<1>4. /\ LoadElf(path) = IF IsElf(cell) THEN load_image(cell, boot.nx) ELSE Refused
      /\ LoadExe(path) = IF IsPe(cell) THEN load_pe(cell, boot.nx) ELSE PeFails("refused")
  BY Zenon DEF LoadElf, LoadExe
<1> HIDE DEF cell
<1>5. \/ IsElf(cell) /\ SegmentEndOutside(cell)
      \/ IsPe(cell) /\ PePanics(cell)
  <2>1. CASE LoadElf(path).outcome = "panic"
    <3>1. IsElf(cell) /\ load_image(cell, boot.nx).outcome = "panic"
      BY <1>3, <1>4, <2>1, Zenon
    <3>2. cell \in ElfImages
      BY <1>1, <3>1, Zenon DEF WellFormed
    <3> QED  BY <3>1, <3>2, ElfEnds, Zenon
  <2>2. CASE LoadExe(path).outcome = "panic"
    <3>1. IsPe(cell) /\ load_pe(cell, boot.nx).outcome = "panic"
      BY <1>3, <1>4, <2>2, Zenon
    <3>2. cell \in PeImages
      BY <1>1, <3>1, Zenon DEF WellFormed
    <3> QED  BY <3>1, <3>2, PeEnds, Zenon
  <2> QED  BY <2>1, <2>2
<1>6. PICK i \in DOMAIN ramdisk : ramdisk[i] = cell
  BY <1>1, <1>2, <1>5, Zenon DEF InArchive
<1> QED
  BY <1>5, <1>6, Zenon DEF PanicExplained

(* The elements of one sequence are those of another and, after them, a third. *)
JoinOf(r, s, t) ==
  /\ \A i \in DOMAIN s : i \in DOMAIN r /\ r[i] = s[i]
  /\ \A i \in DOMAIN r : i \notin DOMAIN s => \E j \in DOMAIN t : r[i] = t[j]
  /\ \A j \in DOMAIN t : \E i \in DOMAIN r : r[i] = t[j]

(* A concatenation is made of its parts. *)
LEMMA JoinParts ==
  ASSUME NEW S, NEW s \in Seq(S), NEW Q, NEW t \in Seq(Q)
  PROVE  JoinOf(s \o t, s, t)
<1> DEFINE R == S \union Q
           both == s \o t
<1>1. s \in Seq(R) /\ t \in Seq(R)
  OBVIOUS
<1> HIDE DEF R
<1>2. both \in Seq(R) /\ Len(both) = Len(s) + Len(t) /\ \A i \in 1 .. Len(s) : both[i] = s[i]
  BY <1>1, Joined
<1>3. \A j \in 1 .. Len(t) : both[Len(s) + j] = t[j]
  BY <1>1, JoinedRight
<1>4. /\ Len(s) \in Nat /\ Len(t) \in Nat /\ DOMAIN both = 1 .. (Len(s) + Len(t))
      /\ DOMAIN s = 1 .. Len(s) /\ DOMAIN t = 1 .. Len(t)
  BY <1>1, <1>2
<1> HIDE DEF both
<1>5. \A i \in DOMAIN s : i \in DOMAIN both /\ both[i] = s[i]
  BY <1>2, <1>4
<1>6. ASSUME NEW j \in DOMAIN t PROVE \E i \in DOMAIN both : both[i] = t[j]
  <2>1. Len(s) + j \in DOMAIN both /\ both[Len(s) + j] = t[j]
    BY <1>3, <1>4
  <2> QED  BY <2>1
<1>7. ASSUME NEW i \in DOMAIN both, i \notin DOMAIN s PROVE \E j \in DOMAIN t : both[i] = t[j]
  <2> DEFINE j == i - Len(s)
  <2>1. j \in DOMAIN t /\ i = Len(s) + j
    BY <1>4, <1>7
  <2> HIDE DEF j
  <2>2. both[i] = t[j]
    BY <1>3, <1>4, <2>1
  <2> QED  BY <2>1, <2>2
<1> QED
  BY <1>5, <1>6, <1>7 DEF both, JoinOf

(* A program's stage that ends with its processes spawned. *)
LEMMA SpawningEnds ==
  ASSUME RecordInv, EndInv, ArchiveStays, boot.stage \in Running,
         NEW name \in Programs, NEW next \in Running,
         \A other \in Programs : next \in Past(other) => boot.stage \in Past(other) \/ other = name,
         NEW Q, NEW new \in Seq(Q), 1 \in DOMAIN new, \A j \in DOMAIN new : new[j].path = Bin(name),
         ~image.damaged => \A j \in DOMAIN new : Built(new[j]),
         boot'.stage = next, boot'.procs = boot.procs \o new,
         boot'.failed = boot.failed, boot'.loud = boot.loud
  PROVE  EndInv'
<1>1. PICK S : boot.procs \in Seq(S)
  BY Zenon DEF RecordInv
<1>2. JoinOf(boot'.procs, boot.procs, new)
  BY <1>1, JoinParts
<1>3. /\ \A i \in DOMAIN boot.procs : i \in DOMAIN boot'.procs /\ boot'.procs[i] = boot.procs[i]
      /\ \A i \in DOMAIN boot'.procs : i \notin DOMAIN boot.procs =>
            \E j \in DOMAIN new : boot'.procs[i] = new[j]
      /\ \A j \in DOMAIN new : \E i \in DOMAIN boot'.procs : boot'.procs[i] = new[j]
  BY <1>2, Zenon DEF JoinOf
<1>4. \E i \in DOMAIN boot'.procs : boot'.procs[i].path = Bin(name)
  <2>1. PICK i \in DOMAIN boot'.procs : boot'.procs[i] = new[1]
    BY <1>3, Zenon
  <2>2. new[1].path = Bin(name)
    BY Zenon
  <2> QED  BY <2>1, <2>2, Zenon
<1>5. GoesOn(next)
  BY <1>3, Zenon DEF GoesOn
<1>6. next \notin Starting
  BY DEF Starting, Running
<1>7. Rightly(next)
  BY <1>3, <1>4, <1>6, Zenon DEF Rightly, Clean
<1> QED
  BY <1>5, <1>7, Advance, Zenon

(* The scan's self-tests pass where nothing was damaged. *)
LEMMA ScanEnds ==
  ASSUME ArchiveInv, RecordInv, EndInv, ArchiveStays, ScanPackages
  PROVE  EndInv'
<1>1. DOMAIN boot = BootFields /\ boot.stage = "store"
  BY NothingHeld DEF ScanPackages, Unlocked
<1>2. boot.stage \in Running /\ fs # NotMounted
  BY <1>1 DEF Running, EndInv, AfterMount
<1> DEFINE packages == {Only(read_all(p)) : p \in {q \in read_dir(Apps) : Readable(q)}}
           verdicts == {[package |-> p, verdict |-> verify(p)] :
                          p \in {q \in packages : IsPackage(q) /\ Examinable(q)}}
           one == {v.verdict.integrity : v \in verdicts} = BOOLEAN
           two == verdicts # {} /\ \A v \in verdicts : v.verdict.granted = "Home"
           g == Goto("mirage")
           b == [g EXCEPT !.verdicts = verdicts]
<1>3. boot' = check(check(b, one), two)
  BY Zenon DEF ScanPackages
<1>4. ~image.damaged => one /\ two
  BY <1>2, ScanPasses, Zenon
<1>5. MovedTo(g, "mirage") /\ (Clean(boot) => Clean(g))
  BY <1>1, GotoMoves, Zenon
<1> HIDE DEF one, two, g, verdicts
<1>6. MovedTo(b, "mirage") /\ (Clean(boot) => Clean(b))
  BY <1>5 DEF MovedTo, BootFields, Clean
<1> HIDE DEF b
<1>7. MovedTo(boot', "mirage") /\ (Clean(boot) /\ one /\ two => Clean(boot'))
  BY <1>3, <1>6, CheckMoves, Zenon
<1>8. "mirage" \in Running /\ "mirage" \notin Starting
  BY DEF Running, Starting
<1>9. \A name \in Programs : "mirage" \in Past(name) => boot.stage \in Past(name)
  BY <1>1 DEF Past
<1> QED
  BY <1>2, <1>4, <1>7, <1>8, <1>9, Reporting, Zenon

(* Where nothing was damaged, a file of the archive is readable. *)
LEMMA PackedReadable ==
  ASSUME ArchiveInv, fs # NotMounted, ~image.damaged, NEW i \in DOMAIN image.files
  PROVE  Readable(image.files[i].path)
  BY UndamagedReads, Zenon DEF AsBuilt, HoldsAll

(* The fields of a program's record. *)
LEMMA ProcessFields ==
  \A path, realm, loaded : /\ Process(path, realm, loaded).path = path
                           /\ Process(path, realm, loaded).loaded = loaded
  BY DEF Process

(* A program that loaded as built. *)
LEMMA LoadedIsBuilt ==
  ASSUME NEW name, NEW loaded, Loads(name, loaded), NEW realm
  PROVE  Built(Process(Bin(name), realm, loaded))
<1> DEFINE q == Process(Bin(name), realm, loaded)
<1>1. q.loaded = loaded
  BY ProcessFields, Zenon
<1>2. Canonical(loaded.entry) /\ AsPacked(q)
  BY Zenon DEF Loads
<1> HIDE DEF q
<1>3. Built(q)
  BY <1>1, <1>2, Zenon DEF Built
<1> QED
  BY <1>3 DEF q

(* A stage of kernel_main that looks for one program, and only for that one. *)
LooksFor(stage, name, realms, needed, next) ==
  /\ stage \in Unlocked /\ stage \in Running /\ next \in Running
  /\ name \in Programs /\ name # "hello.exe"
  /\ (\E R : realms \in Seq(R)) /\ 1 \in DOMAIN realms
  /\ needed => name = "hello"
  /\ \A other \in Programs : next \in Past(other) => stage \in Past(other) \/ other = name

(* A program's stage: missing, refused, too much for the loader, or spawned. *)
LEMMA ElfStageEnds ==
  ASSUME ArchiveInv, RecordInv, EndInv, ArchiveStays,
         NEW stage, NEW name, NEW realms, NEW needed, NEW next,
         LooksFor(stage, name, realms, needed, next),
         ElfStage(stage, Bin(name), realms, needed, next)
  PROVE  EndInv'
<1>0. /\ stage \in Unlocked /\ stage \in Running /\ next \in Running
      /\ name \in Programs /\ name # "hello.exe" /\ 1 \in DOMAIN realms
      /\ needed => name = "hello"
      /\ \A other \in Programs : next \in Past(other) => stage \in Past(other) \/ other = name
  BY Zenon DEF LooksFor
<1> DEFINE path == Bin(name)
           loaded == LoadElf(path)
           new == [i \in DOMAIN realms |-> Process(path, realms[i], loaded)]
           Q == {Process(path, realms[i], loaded) : i \in DOMAIN realms}
<1>1. DOMAIN boot = BootFields /\ boot.stage = stage /\ fs # NotMounted /\ boot.nx \in BOOLEAN
  <2>1. At(stage)
    BY Zenon DEF ElfStage
  <2>2. DOMAIN boot = BootFields /\ boot.stage = stage
    BY <1>0, <2>1, NothingHeld
  <2>3. fs # NotMounted
    BY <1>0, <2>2, Zenon DEF EndInv, AfterMount
  <2> QED  BY <2>2, <2>3, Zenon DEF RecordInv
<1>2. \/ ~Readable(path) /\ needed /\ boot' = Panic("missing")
      \/ ~Readable(path) /\ boot' = Goto(next)
      \/ Readable(path) /\ loaded.outcome = "panic" /\ boot' = Panic("loader")
      \/ Readable(path) /\ loaded.outcome = "refused" /\ boot' = Panic("refused")
      \/ /\ Readable(path) /\ loaded.outcome # "panic" /\ loaded.outcome # "refused"
         /\ boot' = [Goto(next) EXCEPT !.procs = @ \o new]
  BY Zenon DEF ElfStage
<1>3. ASSUME Readable(path), ~image.damaged PROVE Loads(name, loaded)
  BY <1>0, <1>1, <1>3, UndamagedLoads, Zenon
<1>4. ASSUME Readable(path), loaded.outcome = "panic" PROVE PanicExplained
  BY <1>1, <1>4, LoaderPanics, Zenon
<1>5. next \notin Starting
  BY <1>0 DEF Running, Starting
<1> HIDE DEF loaded, new, path
<1>6. CASE ~Readable(path) /\ needed /\ boot' = Panic("missing")
  <2>1. image.damaged \/ NoHello
    BY <1>0, <1>1, <1>6, PackedReadable, Zenon DEF NoHello, path
  <2>2. "missing" # "loader"
    OBVIOUS
  <2> QED  BY <1>1, <1>6, <2>1, <2>2, PanicEnds, Zenon
<1>7. CASE ~Readable(path) /\ boot' = Goto(next)
  <2>1. MovedTo(boot', next) /\ (Clean(boot) => Clean(boot'))
    BY <1>1, <1>7, GotoMoves, Zenon
  <2>2. \A other \in Programs : next \in Past(other) =>
           boot.stage \in Past(other) \/ ~Readable(Bin(other))
    BY <1>0, <1>1, <1>7, Zenon DEF path
  <2> QED  BY <1>0, <1>1, <1>5, <2>1, <2>2, Reporting, Zenon
<1>8. CASE Readable(path) /\ loaded.outcome = "panic" /\ boot' = Panic("loader")
  <2>1. "panic" # "loaded"
    OBVIOUS
  <2>2. image.damaged /\ PanicExplained
    BY <1>3, <1>4, <1>8, <2>1, Zenon DEF Loads
  <2> QED  BY <1>1, <1>8, <2>2, PanicEnds, Zenon
<1>9. CASE Readable(path) /\ loaded.outcome = "refused" /\ boot' = Panic("refused")
  <2>1. "refused" # "loaded" /\ "refused" # "loader"
    OBVIOUS
  <2>2. image.damaged
    BY <1>3, <1>9, <2>1, Zenon DEF Loads
  <2> QED  BY <1>1, <1>9, <2>1, <2>2, PanicEnds, Zenon
<1>10. CASE /\ Readable(path) /\ loaded.outcome # "panic" /\ loaded.outcome # "refused"
            /\ boot' = [Goto(next) EXCEPT !.procs = @ \o new]
  <2>1. DOMAIN realms = 1 .. Len(realms) /\ Len(realms) \in Nat
    <3>1. PICK R : realms \in Seq(R)
      BY Zenon DEF LooksFor
    <3> QED  BY <3>1
  <2>2. new \in Seq(Q) /\ DOMAIN new = DOMAIN realms
    <3>1. \A i \in 1 .. Len(realms) : Process(path, realms[i], loaded) \in Q
      BY <2>1
    <3>2. new = [i \in 1 .. Len(realms) |-> Process(path, realms[i], loaded)]
      BY <2>1 DEF new
    <3> HIDE DEF Q
    <3> QED  BY <2>1, <3>1, <3>2
  <2> HIDE DEF Q
  <2>3. \A i \in DOMAIN new : \E realm : new[i] = Process(path, realm, loaded)
    <3> TAKE i \in DOMAIN new
    <3>1. new[i] = Process(path, realms[i], loaded)
      BY <2>2 DEF new
    <3> QED  BY <3>1, Zenon
  <2>4. \A i \in DOMAIN new : new[i].path = Bin(name)
    <3> TAKE i \in DOMAIN new
    <3>1. PICK realm : new[i] = Process(path, realm, loaded)
      BY <2>3, Zenon
    <3>2. Process(path, realm, loaded).path = path
      BY ProcessFields, Zenon
    <3> QED  BY <3>1, <3>2 DEF path
  <2>5. ~image.damaged => \A i \in DOMAIN new : Built(new[i])
    BY <1>3, <1>10, <2>3, LoadedIsBuilt, Zenon DEF path
  <2>6. 1 \in DOMAIN new
    BY <1>0, <2>2, Zenon
  <2> DEFINE g == Goto(next)
  <2>7. Same(g, boot) /\ g.stage = next /\ g.failed = boot.failed /\ g.loud = boot.loud
    BY <1>1, GotoIsSame DEF Goto, BootFields
  <2> HIDE DEF g
  <2>8. boot' = [g EXCEPT !.procs = g.procs \o new]
    BY <1>10 DEF g
  <2>9. /\ boot'.stage = next /\ boot'.procs = boot.procs \o new
        /\ boot'.failed = boot.failed /\ boot'.loud = boot.loud
    BY <2>7, <2>8 DEF Same, BootFields
  <2> QED  BY <1>0, <1>1, <2>2, <2>4, <2>5, <2>6, <2>9, SpawningEnds, Zenon
<1> QED
  BY <1>2, <1>6, <1>7, <1>8, <1>9, <1>10, Zenon

(* The stage of the Windows program, which only reports what does not load. *)
LEMMA LoadMirageEnds ==
  ASSUME ArchiveInv, RecordInv, EndInv, ArchiveStays, LoadMirage
  PROVE  EndInv'
<1> DEFINE path == Bin("hello.exe")
           loaded == LoadExe(path)
           q == Process(path, "Gaming", loaded)
           g == Goto("fstest")
<1>1. DOMAIN boot = BootFields /\ boot.stage = "mirage" /\ boot.nx \in BOOLEAN
  <2>1. "mirage" \in Unlocked /\ At("mirage")
    BY DEF LoadMirage, Unlocked
  <2> QED  BY <2>1, NothingHeld DEF RecordInv
<1>2. boot.stage \in Running /\ fs # NotMounted /\ "hello.exe" \in Programs
      /\ "fstest" \in Running /\ "fstest" \notin Starting
  BY <1>1 DEF Running, Starting, EndInv, AfterMount, Programs
<1>3. \/ ~Readable(path) /\ boot' = g
      \/ Readable(path) /\ loaded.outcome = "panic" /\ boot' = Panic("loader")
      \/ Readable(path) /\ loaded.outcome = "refused" /\ boot' = [g EXCEPT !.loud = TRUE]
      \/ Readable(path) /\ boot' = [g EXCEPT !.procs = Append(@, q)]
  BY Zenon DEF LoadMirage
<1>4. ASSUME Readable(path), ~image.damaged PROVE Loads("hello.exe", loaded)
  BY <1>1, <1>2, <1>4, UndamagedLoads, Zenon
<1>5. ASSUME Readable(path), loaded.outcome = "panic" PROVE PanicExplained
  BY <1>1, <1>5, LoaderPanics, Zenon
<1>6. \A other \in Programs : "fstest" \in Past(other) =>
         boot.stage \in Past(other) \/ other = "hello.exe"
  BY <1>1 DEF Past, Programs
<1> HIDE DEF loaded, q
<1>7. CASE ~Readable(path) /\ boot' = g
  <2>1. MovedTo(boot', "fstest") /\ (Clean(boot) => Clean(boot'))
    BY <1>1, <1>7, GotoMoves, Zenon
  <2>2. \A other \in Programs : "fstest" \in Past(other) =>
           boot.stage \in Past(other) \/ ~Readable(Bin(other))
    BY <1>6, <1>7, Zenon
  <2> QED  BY <1>2, <2>1, <2>2, Reporting, Zenon
<1>8. CASE Readable(path) /\ loaded.outcome = "panic" /\ boot' = Panic("loader")
  <2>1. "panic" # "loaded"
    OBVIOUS
  <2>2. image.damaged /\ PanicExplained
    BY <1>4, <1>5, <1>8, <2>1, Zenon DEF Loads
  <2> QED  BY <1>1, <1>8, <2>2, PanicEnds, Zenon
<1>9. MovedTo(g, "fstest")
  BY <1>1, GotoMoves, Zenon
<1>10. Same(g, boot) /\ g.stage = "fstest" /\ g.failed = boot.failed /\ g.loud = boot.loud
  BY <1>1, GotoIsSame DEF Goto, BootFields
<1>11. CASE Readable(path) /\ loaded.outcome = "refused" /\ boot' = [g EXCEPT !.loud = TRUE]
  <2> HIDE DEF g
  <2>1. "refused" # "loaded"
    OBVIOUS
  <2>2. image.damaged
    BY <1>4, <1>11, <2>1, Zenon DEF Loads
  <2>3. /\ DOMAIN boot' = BootFields /\ boot'.stage = "fstest" /\ boot'.procs = boot.procs
        /\ boot'.loud
    BY <1>10, <1>11 DEF Same, BootFields
  <2>4. GoesOn("fstest")
    BY <2>3, Zenon DEF GoesOn
  <2>5. Rightly("fstest")
    BY <1>2, <2>2, <2>3, Zenon DEF Rightly
  <2> QED  BY <1>2, <2>4, <2>5, Advance, Zenon
<1>12. CASE Readable(path) /\ boot' = [g EXCEPT !.procs = Append(@, q)]
  <2> HIDE DEF g
  <2>1. PICK S : boot.procs \in Seq(S)
    BY Zenon DEF RecordInv
  <2> DEFINE new == <<q>>
  <2>2. new \in Seq({q}) /\ DOMAIN new = {1} /\ new[1] = q
    OBVIOUS
  <2>3. boot'.procs = Append(boot.procs, q) /\ boot'.stage = "fstest"
        /\ boot'.failed = boot.failed /\ boot'.loud = boot.loud
    BY <1>10, <1>12 DEF Same, BootFields
  <2>4. boot'.procs = boot.procs \o new
    BY <2>1, <2>3
  <2> HIDE DEF new
  <2>5. \A j \in DOMAIN new : new[j] = q
    BY <2>2
  <2>6. q.path = path
    BY ProcessFields, Zenon DEF q
  <2>7. ~image.damaged => Built(q)
    BY <1>4, <1>12, LoadedIsBuilt, Zenon DEF q
  <2>8. /\ \A j \in DOMAIN new : new[j].path = Bin("hello.exe")
        /\ ~image.damaged => \A j \in DOMAIN new : Built(new[j])
    BY <2>5, <2>6, <2>7, Zenon
  <2>9. 1 \in DOMAIN new
    BY <2>2
  <2> QED  BY <1>2, <1>6, <2>2, <2>3, <2>4, <2>8, <2>9, SpawningEnds, Zenon
<1> QED
  BY <1>3, <1>7, <1>8, <1>11, <1>12, Zenon

(* A run that halts: an entry point that is not canonical is an ELF file's own. *)
LEMMA HaltsExplained ==
  ASSUME RecordInv, EndInv, NEW i \in DOMAIN boot.procs, ~EntersUserMode(boot.procs[i])
  PROVE  image.damaged /\ HaltExplained
<1> DEFINE p == boot.procs[i]
<1>1. ProcOk(p, boot.nx) /\ boot.nx \in BOOLEAN /\ ~Canonical(p.loaded.entry)
  BY Zenon DEF RecordInv, EntersUserMode
<1>2. ~image.damaged => Built(p)
  BY Zenon DEF EndInv, ProgramsAsBuilt
<1> HIDE DEF p
<1>3. image.damaged
  BY <1>1, <1>2, Zenon DEF Built
<1>4. ~(IsPe(p.cell) /\ p.loaded = load_pe(p.cell, boot.nx))
  <2> SUFFICES ASSUME IsPe(p.cell), p.loaded = load_pe(p.cell, boot.nx) PROVE FALSE
    OBVIOUS
  <2>1. p.cell \in PeImages
    BY <1>1, Zenon DEF ProcOk, WellFormed
  <2>2. p.loaded.outcome = "loaded"
    BY <1>1, Zenon DEF ProcOk
  <2> QED  BY <1>1, <2>1, <2>2, PeEnds, Zenon
<1>5. IsElf(p.cell) /\ p.loaded = load_image(p.cell, boot.nx)
  BY <1>1, <1>4, Zenon DEF ProcOk
<1>6. p.loaded.entry = p.cell.entry
  <2>1. p.cell \in ElfImages
    BY <1>1, <1>5, Zenon DEF ProcOk, WellFormed
  <2>2. p.loaded.outcome = "loaded"
    BY <1>1, Zenon DEF ProcOk
  <2> QED  BY <1>1, <1>5, <2>1, <2>2, ElfEnds, Zenon
<1>7. PICK j \in DOMAIN ramdisk : ramdisk[j] = p.cell
  BY <1>1, Zenon DEF ProcOk, InArchive
<1>8. IsElf(ramdisk[j]) /\ ~Canonical(ramdisk[j].entry)
  BY <1>1, <1>5, <1>6, <1>7, Zenon
<1> QED
  BY <1>3, <1>8, Zenon DEF HaltExplained

(* The run: what was packed can be entered and passes. *)
LEMMA RunEnds ==
  ASSUME RecordInv, EndInv, ArchiveStays, RunUntilIdle
  PROVE  EndInv'
<1>1. DOMAIN boot = BootFields /\ boot.stage = "run"
  BY NothingHeld DEF RunUntilIdle, Unlocked
<1>2. CASE (\E i \in DOMAIN boot.procs : ~EntersUserMode(boot.procs[i])) /\ boot' = Goto("halted")
  <2>1. image.damaged /\ HaltExplained
    BY <1>2, HaltsExplained, Zenon
  <2>2. boot'.stage = "halted" /\ image' = image /\ ramdisk' = ramdisk
    BY <1>1, <1>2, GotoIsSame DEF ArchiveStays
  <2>3. BeforeMount' /\ AfterMount' /\ HealthyPasses'
    BY <2>2 DEF BeforeMount, AfterMount, HealthyPasses, Starting, Running
  <2>4. ProgramsAsBuilt'
    BY <2>1, <2>2, Zenon DEF ProgramsAsBuilt
  <2>5. ProgramsRan'
    BY <2>2 DEF ProgramsRan, Past
  <2>6. EndsExplained'
    <3>1. HaltExplained'
      BY <2>1, <2>2, Zenon DEF HaltExplained
    <3>2. "halted" # "panicked" /\ "halted" # "exited"
      OBVIOUS
    <3> QED  BY <2>1, <2>2, <3>1, <3>2, Zenon DEF EndsExplained
  <2> QED  BY <2>3, <2>4, <2>5, <2>6, Zenon DEF EndInv
<1>3. CASE \E passed \in BOOLEAN :
             /\ passed \/ \E i \in DOMAIN boot.procs : ~AsPacked(boot.procs[i])
             /\ boot' = check(Goto(IF boot.screen THEN "probe_layout" ELSE "stats"), passed)
  <2> DEFINE next == IF boot.screen THEN "probe_layout" ELSE "stats"
  <2>1. PICK passed : /\ passed \/ \E i \in DOMAIN boot.procs : ~AsPacked(boot.procs[i])
                      /\ boot' = check(Goto(next), passed)
    BY <1>3, Zenon
  <2>2. ~image.damaged => passed
    BY <2>1, Zenon DEF EndInv, ProgramsAsBuilt, Built
  <2>3. next \in {"probe_layout", "stats"}
    OBVIOUS
  <2> HIDE DEF next
  <2>4. next \in Running /\ next \notin Starting /\ boot.stage \in Running
    BY <1>1, <2>3 DEF Running, Starting
  <2>5. MovedTo(boot', next) /\ (Clean(boot) /\ passed => Clean(boot'))
    BY <1>1, <2>1, GotoMoves, CheckMoves, Zenon
  <2>6. \A name \in Programs : boot.stage \in Past(name)
    BY <1>1 DEF Past
  <2> QED  BY <2>2, <2>4, <2>5, <2>6, Reporting, Zenon
<1> QED
  BY <1>2, <1>3, Zenon DEF RunUntilIdle

(* The report: the exit code is what the failure marks say. *)
LEMMA ReportEnds ==
  ASSUME RecordInv, EndInv, ArchiveStays, Report
  PROVE  EndInv'
<1>1. DOMAIN boot = BootFields /\ boot.stage = "report"
  BY NothingHeld DEF Report, Unlocked
<1> DEFINE exit == IF ~boot.failed THEN "Success" ELSE "Failed"
           g == Goto("exited")
<1>2. /\ Same(g, boot) /\ g.stage = "exited"
      /\ g.failed = boot.failed /\ g.loud = boot.loud
  BY <1>1, GotoIsSame DEF Goto, BootFields
<1>3. boot' = [g EXCEPT !.exit = exit]
  BY Zenon DEF Report
<1> HIDE DEF exit, g
<1>4. /\ boot'.stage = "exited" /\ boot'.exit = exit /\ boot'.procs = boot.procs
      /\ boot'.failed = boot.failed /\ boot'.loud = boot.loud
  BY <1>2, <1>3 DEF Same, BootFields
<1>5. image' = image /\ ramdisk' = ramdisk /\ fs' = fs
  BY Zenon DEF ArchiveStays
<1>6. BeforeMount' /\ AfterMount'
  <2>1. fs # NotMounted
    BY <1>1 DEF EndInv, AfterMount, Running
  <2> QED  BY <1>4, <1>5, <2>1 DEF BeforeMount, AfterMount, Starting
<1>7. HealthyPasses'
  <2>1. ~image.damaged /\ image.healthy => Clean(boot)
    BY <1>1 DEF EndInv, HealthyPasses, Running
  <2> QED  BY <1>4, <1>5, <2>1, Zenon DEF HealthyPasses, Clean
<1>8. ProgramsAsBuilt'
  BY <1>4, <1>5, Zenon DEF EndInv, ProgramsAsBuilt, Built, AsPacked
<1>9. ProgramsRan'
  <2>1. \A name \in Programs : boot.stage \in Past(name)
    BY <1>1 DEF Past
  <2>2. \A name \in Programs : boot.loud \/ Ran(name)
    BY <2>1, Zenon DEF EndInv, ProgramsRan
  <2> QED  BY <1>4, <1>5, <2>2, Zenon DEF ProgramsRan, Ran, Readable, lookup
<1>10. EndsExplained'
  <2>1. "exited" # "panicked" /\ "exited" # "halted"
    OBVIOUS
  <2>2. (boot.exit = IF ~boot.failed THEN "Success" ELSE "Failed")'
    BY <1>4, Zenon DEF exit
  <2> QED  BY <1>4, <2>1, <2>2, Zenon DEF EndsExplained
<1> QED
  BY <1>6, <1>7, <1>8, <1>9, <1>10, Zenon DEF EndInv

(* A step that leaves the record and the archive alone keeps the invariant. *)
LEMMA StillEnds ==
  ASSUME EndInv, ArchiveStays, boot' = boot
  PROVE  EndInv'
<1>1. image' = image /\ ramdisk' = ramdisk /\ fs' = fs
  BY Zenon DEF ArchiveStays
<1>2. BeforeMount' /\ AfterMount' /\ HealthyPasses'
  BY <1>1, Zenon DEF EndInv, BeforeMount, AfterMount, HealthyPasses, Clean, Found
<1>3. ProgramsAsBuilt'
  BY <1>1, Zenon DEF EndInv, ProgramsAsBuilt, Built, AsPacked
<1>4. ProgramsRan'
  BY <1>1, Zenon DEF EndInv, ProgramsRan, Ran, Readable, lookup
<1>5. EndsExplained'
  BY <1>1, Zenon DEF EndInv, EndsExplained, NoHello, PanicExplained, HaltExplained
<1> QED
  BY <1>2, <1>3, <1>4, <1>5, Zenon DEF EndInv

(* The stages of the three ELF programs. *)
LEMMA ProgramStages ==
  /\ LooksFor("hello", "hello", <<"Home", "Gaming">>, TRUE, "gui")
  /\ LooksFor("gui", "gui", <<"Gaming">>, FALSE, "store")
  /\ LooksFor("fstest", "fstest", <<"Home">>, FALSE, "run")
<1>1. /\ "hello" \in Unlocked /\ "gui" \in Unlocked /\ "fstest" \in Unlocked
      /\ {"hello", "gui", "fstest", "store", "run"} \subseteq Running
      /\ {"hello", "gui", "fstest"} \subseteq Programs
      /\ "hello" # "hello.exe" /\ "gui" # "hello.exe" /\ "fstest" # "hello.exe"
  BY DEF Unlocked, Running, Programs
<1>2. \A other \in Programs :
        /\ "gui" \in Past(other) => "hello" \in Past(other) \/ other = "hello"
        /\ "store" \in Past(other) => "gui" \in Past(other) \/ other = "gui"
        /\ "run" \in Past(other) => "fstest" \in Past(other) \/ other = "fstest"
  BY DEF Past, Programs
<1>3. /\ <<"Home", "Gaming">> \in Seq({"Home", "Gaming"}) /\ 1 \in DOMAIN <<"Home", "Gaming">>
      /\ <<"Gaming">> \in Seq({"Gaming"}) /\ 1 \in DOMAIN <<"Gaming">>
      /\ <<"Home">> \in Seq({"Home"}) /\ 1 \in DOMAIN <<"Home">>
  OBVIOUS
<1> QED
  BY <1>1, <1>2, <1>3 DEF LooksFor

(* The stages of the three ELF programs keep the invariant. *)
LEMMA ProgramStagesEnd ==
  ASSUME ArchiveInv, RecordInv, EndInv, ArchiveStays, LoadHello \/ LoadGui \/ LoadFstest
  PROVE  EndInv'
  BY ProgramStages, ElfStageEnds, Zenon DEF LoadHello, LoadGui, LoadFstest

(* Every step keeps the invariant. *)
LEMMA EndInvNext == BootInv /\ EndInv /\ [Next]_vars => EndInv'
<1> SUFFICES ASSUME ArchiveInv, RecordInv, EndInv, [Next]_vars PROVE EndInv'
  BY Zenon DEF BootInv
<1>1. CASE TakeRamdisk
  BY <1>1, TakeRamdiskEnds, Zenon
<1>2. CASE MountArchive
  BY <1>2, MountEnds, Zenon
<1>3. ASSUME ~TakeRamdisk, ~MountArchive PROVE EndInv'
  <2>1. ArchiveStays
    BY <1>3, ArchiveSteps, Zenon
  <2>2. CASE StartMemory \/ EnumeratePci \/ ClockRead \/ init_mouse \/ RunRing3Tests
    BY <2>1, <2>2, StartMemoryEnds, StartingEnds, Zenon
  <2>3. CASE ReadMotd \/ LoadTheme \/ CheckPaths \/ TakeLock \/ DropLock
    BY <2>1, <2>3, CheckingEnds, LocksEnd, Zenon
  <2>4. CASE LoadHello \/ LoadGui \/ LoadFstest
    BY <2>1, <2>4, ProgramStagesEnd, Zenon
  <2>5. CASE ScanPackages \/ LoadMirage \/ RunUntilIdle \/ Report
    BY <2>1, <2>5, ScanEnds, LoadMirageEnds, RunEnds, ReportEnds, Zenon
  <2>6. CASE ClockRuns \/ InputArrives \/ HandlerStep \/ Stopped \/ UNCHANGED vars
    <3>1. boot' = boot
      BY <2>6, Zenon DEF ClockRuns, InputArrives, HandlerStep, Stopped, vars, bootVars
    <3> QED  BY <2>1, <3>1, StillEnds, Zenon
  <2> QED  BY <1>3, <2>2, <2>3, <2>4, <2>5, <2>6, Zenon DEF Next, KernelMain
<1> QED
  BY <1>1, <1>2, <1>3

(* Every boot ends as it should, for every program and package the builder could
   pack, whatever was damaged and whatever the machine: it panics or halts only
   for what is wrong with the archive, what was packed passes the boot test, and
   a test that passes has run the programs that were there.  kernel_main and
   epilogue of main.rs against main of runner/build.rs. *)
THEOREM BootEndsRight == Spec => []BootEndsAsItShould
<1>1. Init => EndInv
  BY EndInvInit
<1>2. BootInv /\ EndInv /\ [Next]_vars => EndInv'
  BY EndInvNext
<1>3. EndInv => BootEndsAsItShould
  BY EndInvSuffices
<1> QED
  BY <1>1, <1>2, <1>3, BootInvariant, PTL DEF Spec
=============================================================================
