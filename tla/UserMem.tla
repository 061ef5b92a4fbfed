------------------------------ MODULE UserMem ------------------------------
(***************************************************************************)
(* The checks between a user pointer and the kernel: range_is_user, its    *)
(* walk of the four table levels and the copies built on it, in            *)
(* kernel/src/mm/memory.rs.  The scaled page number has one bit for each   *)
(* of the upper three levels and two for the last.                         *)
(***************************************************************************)
EXTENDS Layout

CONSTANTS MAX_USER_TRANSFER   \* the cap on one copy, 1 MiB in the code

ASSUME TransferAssumption == MAX_USER_TRANSFER \in 1..MaxAddress

-----------------------------------------------------------------------------
(* The tables the walk reads: the pages of one process (space) and the     *)
(* kernel's half.  The x86_64 crate gives the tables above a user page     *)
(* PRESENT, WRITABLE and USER_ACCESSIBLE (external); the kernel's entries  *)
(* are not USER_ACCESSIBLE, and its physical window is huge pages.         *)

Levels == 4
Absent == [present |-> FALSE, user |-> FALSE, writable |-> FALSE, huge |-> FALSE]

\* The pages that share the first level+1 indices with page.
Beneath(page, level) ==
    LET size == <<16, 8, 4, 1>>[level] IN (page \div size) * size .. (page \div size) * size + size - 1

EntryAt(space, page, level) ==
    IF page >= 48
    THEN [present |-> TRUE, user |-> FALSE, writable |-> TRUE, huge |-> level = 3]
    ELSE IF level = Levels
    THEN IF page \in DOMAIN space
         THEN [present |-> TRUE, user |-> TRUE, writable |-> space[page].w, huge |-> FALSE]
         ELSE Absent
    ELSE IF Beneath(page, level) \intersect DOMAIN space # {}
         THEN [present |-> TRUE, user |-> TRUE, writable |-> TRUE, huge |-> FALSE]
         ELSE Absent

-----------------------------------------------------------------------------
(* memory.rs *)

EntryAllows(e, require_writable) == e.present /\ e.user /\ (require_writable => e.writable)

\* Every level must allow the access; a huge entry above the last level ends
\* the walk.
page_is_user_accessible(space, page, require_writable) ==
    LET from[level \in 1..(Levels + 1)] ==
            \/ level > Levels
            \/ LET e == EntryAt(space, page, level)
               IN /\ EntryAllows(e, require_writable)
                  /\ (level < Levels /\ e.huge) \/ from[level + 1]
    IN from[1]

\* Mutant of range_is_user: only the first and the last page are walked.
range_is_user_ends(space, start, len, require_writable) ==
    \/ len = 0
    \/ LET last == start + len - 1
       IN /\ last <= MaxAddress
          /\ is_user_address(start) /\ is_user_address(last)
          /\ \A page \in {PageOf(start), PageOf(last)} :
                page_is_user_accessible(space, page, require_writable)

range_is_user(space, start, len, require_writable) ==
    \/ len = 0
    \/ LET last == start + len - 1
       IN /\ last <= MaxAddress                       \* checked_add
          /\ is_user_address(start) /\ is_user_address(last)
          /\ \A page \in PagesOf(start, last) :
                /\ Canonical(page * PageSize)         \* VirtAddr::try_new
                /\ page_is_user_accessible(space, page, require_writable)

user_range_is_accessible(space, start, len) == range_is_user(space, start, len, FALSE)
user_range_is_writable(space, start, len) == range_is_user(space, start, len, TRUE)

\* The copies succeed or touch nothing.  The one into a buffer the kernel
\* already has knows no cap.
copy_from_user(space, ptr, len) ==
    len <= MAX_USER_TRANSFER /\ user_range_is_accessible(space, ptr, len)
copy_from_user_into(space, ptr, len) == len = 0 \/ user_range_is_accessible(space, ptr, len)
copy_to_user(space, ptr, len) ==
    len <= MAX_USER_TRANSFER /\ user_range_is_writable(space, ptr, len)

-----------------------------------------------------------------------------
(* Byte by byte: what Ring 3 itself could read or write. *)

UserByte(space, a, write) ==
    a <= MaxAddress /\ PageOf(a) \in DOMAIN space /\ (write => space[PageOf(a)].w)

\* Every copy is done exactly when the program could have touched each byte
\* itself and the buffer is within the cap.
CopiesExact(space, ptr, len) ==
    LET all(write) == \A a \in ptr..(ptr + len - 1) : UserByte(space, a, write)
    IN /\ copy_from_user(space, ptr, len) = (len <= MAX_USER_TRANSFER /\ all(FALSE))
       /\ copy_from_user_into(space, ptr, len) = all(FALSE)
       /\ copy_to_user(space, ptr, len) = (len <= MAX_USER_TRANSFER /\ all(TRUE))
=============================================================================
