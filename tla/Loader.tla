------------------------------- MODULE Loader -------------------------------
(***************************************************************************)
(* kernel/src/loader.rs: an ELF image becomes a private address space, or  *)
(* is refused.  An image is the fields load_image reads; its bytes are     *)
(* left out, FrameMem.tla follows the frames and what they hold.           *)
(***************************************************************************)
EXTENDS Layout

\* The fields of a program header and of the ELF header; all are unsigned.
Segments == [load : BOOLEAN, r : BOOLEAN, w : BOOLEAN, x : BOOLEAN, offset : Nat,
             filesz : Nat, vaddr : Nat, memsz : Nat]
ElfImages == [ident : BOOLEAN, phentsize : Nat, phoff : Nat, len : Nat, entry : Nat,
              segments : Seq(Segments)]

IsElf(cell) == "segments" \in DOMAIN cell

\* What load_image ends with: "loaded", "refused" (a LoadError) or "panic".
Refused == [outcome |-> "refused", space |-> NoPages, entry |-> 0]
Panicked == [outcome |-> "panic", space |-> NoPages, entry |-> 0]

\* ident stands for the magic, class, byte order, type and machine.
parse_header(image) ==
    /\ image.ident
    /\ image.phentsize >= 1
    /\ image.phoff + Len(image.segments) * image.phentsize <= image.len

\* W^X: a segment that is not readable, or both writable and executable, is refused.
segment_flags(s, nx) == Perm(s.w, s.x \/ ~nx)
FlagsAccepted(s) == s.r /\ ~(s.w /\ s.x)

SegmentAccepted(image, s) ==
    /\ FlagsAccepted(s)
    /\ is_user_address(s.vaddr)
    /\ s.filesz <= s.memsz
    /\ s.offset + s.filesz <= image.len
    /\ s.vaddr + s.memsz <= MaxAddress

\* One program header: skipped, refused, fatal, or its pages mapped.  The end of
\* a segment goes to VirtAddr::new, which panics on an address that is not
\* canonical; the pages of another segment or of the kernel are refused.
LoadSegment(image, nx, sofar, s) ==
    LET last  == s.vaddr + s.memsz - 1
        pages == PagesOf(s.vaddr, last)
    IN IF sofar.outcome # "loaded" \/ ~s.load THEN sofar
       ELSE IF ~SegmentAccepted(image, s) THEN Refused
       ELSE IF s.memsz = 0 THEN sofar
       ELSE IF ~Canonical(last) THEN Panicked
       ELSE IF ~MayMap(sofar.space, pages) THEN Refused
       ELSE [sofar EXCEPT !.space = WithPages(@, pages, segment_flags(s, nx))]

\* The loop over the program headers.
LoadSegments(image, nx) ==
    LET start == [outcome |-> "loaded", space |-> NoPages, entry |-> image.entry]
        after[i \in 0..Len(image.segments)] ==
            IF i = 0 THEN start ELSE LoadSegment(image, nx, after[i - 1], image.segments[i])
    IN after[Len(image.segments)]

load_image(image, nx) ==
    LET segments == LoadSegments(image, nx)
    IN IF ~parse_header(image) THEN Refused
       ELSE IF segments.outcome # "loaded" THEN segments
       ELSE IF ~MayMap(segments.space, StackPages) THEN Refused
       ELSE [segments EXCEPT !.space = WithPages(@, StackPages, StackPerm(nx))]

-----------------------------------------------------------------------------
(* What a loaded image owes to its file. *)

\* Every byte of a loadable segment is on a page with exactly that segment's
\* permissions, the stack is not executable, nothing else is mapped, and
\* nothing is both writable and executable.
ElfPagesSound(image, nx, loaded) ==
    LET real == {i \in DOMAIN image.segments :
                   image.segments[i].load /\ image.segments[i].memsz > 0}
        bytes(s) == s.vaddr..(s.vaddr + s.memsz - 1)
    IN /\ \A i \in real : \A a \in bytes(image.segments[i]) :
             /\ PageOf(a) \in DOMAIN loaded.space
             /\ loaded.space[PageOf(a)].w = image.segments[i].w
             /\ nx => loaded.space[PageOf(a)].x = image.segments[i].x
       /\ \A p \in DOMAIN loaded.space \ StackPages :
             \E i \in real : \E a \in bytes(image.segments[i]) : PageOf(a) = p
       /\ \A p \in DOMAIN loaded.space :
             /\ is_user_address(p * PageSize)
             /\ nx => ~(loaded.space[p].w /\ loaded.space[p].x)
=============================================================================
