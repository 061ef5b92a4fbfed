------------------------------- MODULE Layout -------------------------------
(***************************************************************************)
(* The address space of abi/src/layout.rs, scaled down: 8-bit addresses,   *)
(* pages of four units, a word of two.  Pages 0..15 are the lower          *)
(* canonical half, 48..63 the higher one, and what lies between is not     *)
(* canonical.  As in the code the last page of the lower half is not user  *)
(* space.  A process's pages are a function from page numbers to           *)
(* permissions, the leaf entries its address space holds.                  *)
(***************************************************************************)
EXTENDS Integers, Sequences, FiniteSets

PageSize == 4
WordSize == 2
MaxAddress == 255
Pages == 0..63

USER_SPACE_END == 15 * PageSize
MIRAGE_IMAGE_BASE == 6 * PageSize
USER_STACK_BOTTOM == 12 * PageSize
USER_STACK_PAGES == 2

is_user_address(a) == a < USER_SPACE_END

\* The rule behind VirtAddr::new and try_new (external).
Canonical(a) == a < 16 * PageSize \/ a >= 48 * PageSize

PageOf(a) == a \div PageSize
PagesOf(from, to) == PageOf(from)..PageOf(to)    \* both ends included
Pages4K(units) == (units + PageSize - 1) \div PageSize

NoPages == <<>>
Perm(w, x) == [w |-> w, x |-> x]

\* Mutant of MayMap: a mapped page is mapped over.
MayMapOver(space, pages) == \A p \in pages : is_user_address(p * PageSize)

\* AddressSpace::map_page refuses a page that is not the user's and one that is
\* mapped already; protect_page and write_at one that is not mapped.
MayMap(space, pages) == \A p \in pages : is_user_address(p * PageSize) /\ p \notin DOMAIN space
Mapped(space, pages) == pages \subseteq DOMAIN space

WithPages(space, pages, perm) ==
    [p \in DOMAIN space \union pages |-> IF p \in pages THEN perm ELSE space[p]]

\* A writable page stays executable where the CPU has no execute-disable bit.
StackPages == PagesOf(USER_STACK_BOTTOM, USER_STACK_BOTTOM + USER_STACK_PAGES * PageSize - 1)
StackPerm(nx) == Perm(TRUE, ~nx)
=============================================================================
