---------------------------- MODULE Boot_proofs ----------------------------
(***************************************************************************)
(* Proofs about Boot.tla, for every set of configurations, every user      *)
(* program and every damage that leaves cells what cells are.              *)
(***************************************************************************)
EXTENDS Boot, TLAPS, FiniteSetTheorems, SequenceTheorems

-----------------------------------------------------------------------------
(* Counting up.  The library's induction takes an operator; these take sets *)
(* and functions.                                                           *)

(* A set of numbers that is not empty has a least member. *)
LEMMA LeastMember ==
  ASSUME NEW T \in SUBSET Nat, T # {}
  PROVE  \E x \in T : \A y \in T : x <= y
<1> DEFINE R == {ss \in Nat \X Nat : ss[1] < ss[2]}
<1>1. IsWellFoundedOn(R, Nat)
  BY NatLessThanWellFounded, Zenon DEF OpToRel
<1>2. PICK x \in T : \A y \in T : ~(<<y, x>> \in R)
  <2> HIDE DEF R
  <2> QED  BY <1>1, WFMin, Zenon
<1>3. ASSUME NEW y \in T PROVE x <= y
  <2>1. x \in Nat /\ y \in Nat
    OBVIOUS
  <2>2. ~(<<y, x>> \in R)
    BY <1>2
  <2> QED  BY <2>1, <2>2
<1> QED
  BY <1>3

(* A set that holds 0 and, with a number below n, the next one, holds all up to n. *)
LEMMA UpTo ==
  ASSUME NEW n \in Nat, NEW T \in SUBSET (0 .. n), 0 \in T,
         \A i \in 1 .. n : i - 1 \in T => i \in T
  PROVE  T = 0 .. n
<1> DEFINE D == (0 .. n) \ T
<1>1. CASE D # {}
  <2>1. D \in SUBSET Nat
    OBVIOUS
  <2> HIDE DEF D
  <2>2. PICK x \in D : \A y \in D : x <= y
    BY <1>1, <2>1, LeastMember
  <2>3. x \in 1 .. n /\ x \notin T
    BY DEF D
  <2>4. x - 1 \notin D
    BY <2>2, <2>3
  <2>5. x - 1 \in T
    BY <2>3, <2>4 DEF D
  <2> QED  BY <2>3, <2>5
<1> QED
  BY <1>1

(* A function may be defined by what it is at 0 and by how each value follows
   from the one before. *)
Iterated(f, n, first, F) == f = [i \in 0 .. n |-> IF i = 0 THEN first ELSE F[i][f[i - 1]]]

(* A sequence of functions can be applied one after the other from any start. *)
LEMMA Iterates ==
  ASSUME NEW n \in Nat, NEW S, NEW first \in S, NEW F \in [1 .. n -> [S -> S]]
  PROVE  \E f \in [0 .. n -> S] : Iterated(f, n, first, F)
<1> DEFINE T == {k \in 0 .. n : \E f \in [0 .. k -> S] : Iterated(f, k, first, F)}
<1>1. 0 \in T
  <2> DEFINE f == [i \in 0 .. 0 |-> first]
  <2>1. f \in [0 .. 0 -> S]
    OBVIOUS
  <2>2. \A i \in 0 .. 0 : i = 0
    OBVIOUS
  <2>3. Iterated(f, 0, first, F)
    BY <2>2 DEF Iterated
  <2> QED  BY <2>1, <2>3
<1>2. ASSUME NEW k \in 1 .. n, k - 1 \in T PROVE k \in T
  <2>1. PICK f \in [0 .. (k - 1) -> S] : Iterated(f, k - 1, first, F)
    BY <1>2
  <2> DEFINE g == [i \in 0 .. k |-> IF i = k THEN F[k][f[k - 1]] ELSE f[i]]
  <2>2. k - 1 \in 0 .. (k - 1) /\ (\A i \in 0 .. k : i # k => i \in 0 .. (k - 1))
    OBVIOUS
  <2>3. F[k][f[k - 1]] \in S
    BY <2>2
  <2>4. g \in [0 .. k -> S]
    BY <2>2, <2>3
  <2>5. ASSUME NEW i \in 0 .. k PROVE g[i] = IF i = 0 THEN first ELSE F[i][g[i - 1]]
    <3>1. CASE i = k
      <4>1. g[k] = F[k][f[k - 1]] /\ g[k - 1] = f[k - 1] /\ k # 0
        BY <2>2
      <4> QED  BY <3>1, <4>1
    <3>2. CASE i # k
      <4>1. i \in 0 .. (k - 1)
        BY <2>2, <3>2
      <4>2. f[i] = IF i = 0 THEN first ELSE F[i][f[i - 1]]
        BY <2>1, <4>1, Zenon DEF Iterated
      <4>3. g[i] = f[i]
        BY <3>2
      <4>4. i # 0 => g[i - 1] = f[i - 1]
        BY <4>1
      <4> QED  BY <4>2, <4>3, <4>4
    <3> QED  BY <3>1, <3>2
  <2>6. Iterated(g, k, first, F)
    BY <2>5, Zenon DEF Iterated
  <2> QED  BY <2>4, <2>6
<1> HIDE DEF T
<1>3. T = 0 .. n
  <2>1. T \in SUBSET (0 .. n)
    BY DEF T
  <2> QED  BY <1>1, <1>2, <2>1, UpTo
<1>4. n \in T
  BY <1>3
<1> QED
  BY <1>4 DEF T

-----------------------------------------------------------------------------
(* User memory.  A space is what the loaders build: pages of the user's part *)
(* of the lower half, each with its permissions.                            *)

Perms == [w : BOOLEAN, x : BOOLEAN]
UserPages == 0 .. 14
Spaces == UNION {[D -> Perms] : D \in SUBSET UserPages}

(* What an address space is: user pages and their permissions. *)
LEMMA SpaceType ==
  ASSUME NEW space \in Spaces
  PROVE  /\ DOMAIN space \subseteq UserPages
         /\ \A p \in DOMAIN space : space[p] \in Perms
         /\ space = [p \in DOMAIN space |-> space[p]]
  BY DEF Spaces

(* A function from user pages to permissions is an address space. *)
LEMMA SpaceOf ==
  ASSUME NEW D \in SUBSET UserPages, NEW f \in [D -> Perms]
  PROVE  f \in Spaces
  BY DEF Spaces

(* The walk of the four levels, read from the last level up. *)
LEMMA WalkUnrolled ==
  ASSUME NEW space, NEW page, NEW rw \in BOOLEAN
  PROVE  LET allows(l) == EntryAllows(EntryAt(space, page, l), rw)
             huge(l) == EntryAt(space, page, l).huge
         IN page_is_user_accessible(space, page, rw) <=>
              /\ allows(1)
              /\ huge(1) \/ /\ allows(2)
                            /\ huge(2) \/ /\ allows(3)
                                          /\ huge(3) \/ allows(4)
<1> DEFINE allows(l) == EntryAllows(EntryAt(space, page, l), rw)
           huge(l) == EntryAt(space, page, l).huge
           a4 == allows(4)
           a3 == allows(3) /\ (huge(3) \/ a4)
           a2 == allows(2) /\ (huge(2) \/ a3)
           a1 == allows(1) /\ (huge(1) \/ a2)
           body(f, level) ==
              \/ level > Levels
              \/ LET e == EntryAt(space, page, level)
                 IN /\ EntryAllows(e, rw)
                    /\ (level < Levels /\ e.huge) \/ f[level + 1]
           from == CHOOSE f : f = [level \in 1 .. (Levels + 1) |-> body(f, level)]
           g == [level \in 1 .. (Levels + 1) |->
                   CASE level = 1 -> a1 [] level = 2 -> a2 [] level = 3 -> a3
                     [] level = 4 -> a4 [] OTHER -> TRUE]
<1>1. page_is_user_accessible(space, page, rw) = from[1]
  BY DEF page_is_user_accessible
<1>2. \A l \in 1 .. (Levels + 1) : l = 1 \/ l = 2 \/ l = 3 \/ l = 4 \/ l = 5
  BY DEF Levels
<1>n. /\ Levels = 4 /\ 1 + 1 = 2 /\ 2 + 1 = 3 /\ 3 + 1 = 4 /\ 4 + 1 = 5
      /\ ~(1 > 4) /\ ~(2 > 4) /\ ~(3 > 4) /\ ~(4 > 4) /\ 5 > 4
      /\ 1 < 4 /\ 2 < 4 /\ 3 < 4 /\ ~(4 < 4)
  BY DEF Levels
<1> HIDE DEF allows, huge
<1>b. ASSUME NEW f
      PROVE  /\ body(f, 1) <=> allows(1) /\ (huge(1) \/ f[2])
             /\ body(f, 2) <=> allows(2) /\ (huge(2) \/ f[3])
             /\ body(f, 3) <=> allows(3) /\ (huge(3) \/ f[4])
             /\ body(f, 4) <=> allows(4) /\ f[5]
             /\ body(f, 5)
             /\ \A l : body(f, l) \in BOOLEAN
  BY <1>n, Zenon DEF allows, huge
<1> HIDE DEF body
<1>3. g = [level \in 1 .. (Levels + 1) |-> body(g, level)]
  <2>0. g[1] = a1 /\ g[2] = a2 /\ g[3] = a3 /\ g[4] = a4 /\ g[5] = TRUE
    BY DEF Levels
  <2>1. \A l \in 1 .. (Levels + 1) : g[l] \in BOOLEAN
    <3> HIDE DEF g
    <3>1. a1 \in BOOLEAN /\ a2 \in BOOLEAN /\ a3 \in BOOLEAN /\ a4 \in BOOLEAN
      <4>1. \A l : allows(l) \in BOOLEAN
        BY Zenon DEF allows, EntryAllows
      <4> QED  BY <4>1, Zenon
    <3> HIDE DEF a1, a2, a3, a4
    <3> QED  BY <1>2, <2>0, <3>1, Zenon
  <2>2. g = [level \in 1 .. (Levels + 1) |-> g[level]]
    OBVIOUS
  <2> HIDE DEF g
  <2>3. ASSUME NEW l \in 1 .. (Levels + 1) PROVE g[l] <=> body(g, l)
    BY <1>2, <1>b, <2>0, Zenon
  <2>4. ASSUME NEW l \in 1 .. (Levels + 1) PROVE g[l] = body(g, l)
    BY <1>b, <2>1, <2>3, Zenon
  <2> QED  BY <2>2, <2>4, Zenon
<1>4. from = [level \in 1 .. (Levels + 1) |-> body(from, level)]
  <2> HIDE DEF g
  <2> QED  BY <1>3, Zenon
<1>5. \A l \in 1 .. (Levels + 1) : from[l] = body(from, l)
  <2> HIDE DEF from
  <2> QED  BY <1>4, Zenon
<1>6. 1 \in 1 .. (Levels + 1) /\ 2 \in 1 .. (Levels + 1) /\ 3 \in 1 .. (Levels + 1)
      /\ 4 \in 1 .. (Levels + 1) /\ 5 \in 1 .. (Levels + 1)
  BY DEF Levels
<1> HIDE DEF from
<1>7. from[1] <=> a1
  BY <1>5, <1>6, <1>b, Zenon
<1> QED
  BY <1>1, <1>7, Zenon DEF allows, huge

(* A page passes the walk exactly when the process has it, writable if asked. *)
LEMMA WalkExact ==
  ASSUME NEW space \in Spaces, NEW page \in Pages, NEW rw \in BOOLEAN
  PROVE  page_is_user_accessible(space, page, rw) <=>
           page \in DOMAIN space /\ (rw => space[page].w)
<1> DEFINE allows(l) == EntryAllows(EntryAt(space, page, l), rw)
           huge(l) == EntryAt(space, page, l).huge
<1>1. page_is_user_accessible(space, page, rw) <=>
        /\ allows(1)
        /\ huge(1) \/ /\ allows(2)
                      /\ huge(2) \/ /\ allows(3)
                                    /\ huge(3) \/ allows(4)
  BY WalkUnrolled, Zenon
<1>2. DOMAIN space \subseteq 0 .. 14 /\ page \in 0 .. 63
  BY SpaceType DEF UserPages, Pages
<1>3. CASE page >= 48
  <2>1. ~allows(1)
    BY <1>3 DEF EntryAt, EntryAllows
  <2>2. page \notin DOMAIN space
    BY <1>2, <1>3
  <2> QED  BY <1>1, <2>1, <2>2
<1>4. CASE ~(page >= 48)
  <2>1. allows(4) <=> page \in DOMAIN space /\ (rw => space[page].w)
    <3>1. CASE page \in DOMAIN space
      <4>1. EntryAt(space, page, 4) =
              [present |-> TRUE, user |-> TRUE, writable |-> space[page].w, huge |-> FALSE]
        BY <1>4, <3>1 DEF EntryAt, Levels
      <4> QED  BY <3>1, <4>1 DEF EntryAllows
    <3>2. CASE page \notin DOMAIN space
      <4>1. EntryAt(space, page, 4) = Absent
        BY <1>4, <3>2 DEF EntryAt, Levels
      <4> QED  BY <3>2, <4>1 DEF EntryAllows, Absent
    <3> QED  BY <3>1, <3>2
  <2>2. ASSUME NEW l \in {1, 2, 3}
        PROVE  ~huge(l) /\ (page \in DOMAIN space => allows(l))
    <3>1. l # Levels
      BY DEF Levels
    <3>2. page \in Beneath(page, l)
      <4>1. CASE l = 1
        BY <1>2, <4>1 DEF Beneath
      <4>2. CASE l = 2
        BY <1>2, <4>2 DEF Beneath
      <4>3. CASE l = 3
        BY <1>2, <4>3 DEF Beneath
      <4> QED  BY <4>1, <4>2, <4>3
    <3>3. CASE Beneath(page, l) \intersect DOMAIN space # {}
      <4>1. EntryAt(space, page, l) =
              [present |-> TRUE, user |-> TRUE, writable |-> TRUE, huge |-> FALSE]
        BY <1>4, <3>1, <3>3 DEF EntryAt
      <4> QED  BY <4>1 DEF EntryAllows
    <3>4. CASE Beneath(page, l) \intersect DOMAIN space = {}
      <4>1. EntryAt(space, page, l) = Absent
        BY <1>4, <3>1, <3>4 DEF EntryAt
      <4> QED  BY <4>1, <3>2, <3>4 DEF Absent
    <3> QED  BY <3>3, <3>4
  <2> HIDE DEF allows, huge
  <2> QED  BY <1>1, <2>1, <2>2
<1> QED
  BY <1>3, <1>4

(* range_is_user: every byte of the buffer is the user's, writable if asked. *)
LEMMA RangeExact ==
  ASSUME NEW space \in Spaces, NEW ptr \in 0 .. MaxAddress, NEW len \in 0 .. (MaxAddress + 1),
         NEW rw \in BOOLEAN
  PROVE  range_is_user(space, ptr, len, rw) <=>
           \A a \in ptr .. (ptr + len - 1) : UserByte(space, a, rw)
<1> DEFINE last == ptr + len - 1
<1>0. ptr \in 0 .. 255 /\ len \in 0 .. 256 /\ DOMAIN space \subseteq 0 .. 14
  BY SpaceType DEF MaxAddress, UserPages
<1>1. CASE len = 0
  BY <1>0, <1>1 DEF range_is_user
<1>2. CASE len # 0
  <2>0. last \in Int /\ last >= ptr
    BY <1>0, <1>2
  <2>1. ASSUME range_is_user(space, ptr, len, rw), NEW a \in ptr .. last
        PROVE  UserByte(space, a, rw)
    <3>1. /\ last <= 255 /\ last < 60
          /\ \A page \in PagesOf(ptr, last) : page_is_user_accessible(space, page, rw)
      BY <1>2, <2>1 DEF range_is_user, MaxAddress, is_user_address, USER_SPACE_END, PageSize
    <3>2. PageOf(a) \in PagesOf(ptr, last) /\ PageOf(a) \in Pages /\ a <= MaxAddress
      BY <1>0, <2>0, <3>1 DEF PageOf, PagesOf, PageSize, Pages, MaxAddress
    <3>3. PageOf(a) \in DOMAIN space /\ (rw => space[PageOf(a)].w)
      BY <3>1, <3>2, WalkExact
    <3> QED  BY <3>2, <3>3 DEF UserByte
  <2>2. ASSUME \A a \in ptr .. last : UserByte(space, a, rw)
        PROVE  range_is_user(space, ptr, len, rw)
    <3>1. ASSUME NEW a \in ptr .. last PROVE PageOf(a) \in 0 .. 14 /\ a < 60
      <4>1. PageOf(a) \in 0 .. 14
        BY <1>0, <2>2 DEF UserByte
      <4> QED  BY <1>0, <2>0, <4>1 DEF PageOf, PageSize
    <3>2. ptr < 60 /\ last < 60 /\ last <= MaxAddress
      BY <1>0, <2>0, <3>1 DEF MaxAddress
    <3>3. ASSUME NEW page \in PagesOf(ptr, last)
          PROVE  Canonical(page * PageSize) /\ page_is_user_accessible(space, page, rw)
      <4> DEFINE a == IF page * 4 < ptr THEN ptr ELSE page * 4
      <4>1. page \in Nat /\ page <= 14 /\ page \in Pages
        BY <1>0, <2>0, <3>2 DEF PagesOf, PageOf, PageSize, Pages
      <4>2. a \in ptr .. last /\ PageOf(a) = page
        BY <1>0, <2>0, <4>1 DEF PagesOf, PageOf, PageSize
      <4>3. page \in DOMAIN space /\ (rw => space[page].w)
        BY <2>2, <4>2 DEF UserByte
      <4>4. Canonical(page * PageSize)
        BY <4>1 DEF Canonical, PageSize
      <4> QED  BY <4>1, <4>3, <4>4, WalkExact
    <3> QED
      BY <3>2, <3>3 DEF range_is_user, is_user_address, USER_SPACE_END, PageSize
  <2> QED  BY <2>1, <2>2
<1> QED
  BY <1>1, <1>2

(* A copy to or from user memory succeeds exactly where the program could touch each byte. *)
LEMMA CopiesAreExact ==
  ASSUME NEW space \in Spaces, NEW ptr \in 0 .. MaxAddress, NEW len \in 0 .. (MaxAddress + 1)
  PROVE  CopiesExact(space, ptr, len)
<1> DEFINE all(write) == \A a \in ptr .. (ptr + len - 1) : UserByte(space, a, write)
<1>1. range_is_user(space, ptr, len, FALSE) <=> all(FALSE)
  BY RangeExact
<1>2. range_is_user(space, ptr, len, TRUE) <=> all(TRUE)
  BY RangeExact
<1>3. len = 0 => all(FALSE)
  BY DEF MaxAddress
<1> HIDE DEF all
<1>4. /\ copy_from_user(space, ptr, len) <=> (len <= MAX_USER_TRANSFER /\ all(FALSE))
      /\ copy_from_user_into(space, ptr, len) <=> all(FALSE)
      /\ copy_to_user(space, ptr, len) <=> (len <= MAX_USER_TRANSFER /\ all(TRUE))
  BY <1>1, <1>2, <1>3, Zenon
     DEF copy_from_user, copy_from_user_into, copy_to_user, user_range_is_accessible,
         user_range_is_writable
<1>5. /\ copy_from_user(space, ptr, len) \in BOOLEAN
      /\ copy_from_user_into(space, ptr, len) \in BOOLEAN
      /\ copy_to_user(space, ptr, len) \in BOOLEAN
      /\ all(FALSE) \in BOOLEAN
  BY Zenon DEF copy_from_user, copy_from_user_into, copy_to_user, all
<1> QED
  BY <1>4, <1>5, Zenon DEF CopiesExact, all

-----------------------------------------------------------------------------
(* Mapping pages *)

(* The space before anything is mapped. *)
LEMMA NoPagesIsSpace == NoPages \in Spaces /\ DOMAIN NoPages = {}
<1>1. <<>> \in Seq(Perms) /\ Len(<<>>) = 0
  OBVIOUS
<1>2. <<>> \in [1 .. 0 -> Perms] /\ DOMAIN <<>> = 1 .. 0
  BY <1>1
<1>3. 1 .. 0 = {}
  OBVIOUS
<1>4. {} \in SUBSET UserPages
  OBVIOUS
<1> QED
  BY <1>2, <1>3, <1>4, SpaceOf DEF NoPages

(* Mapping fresh user pages adds them with their permission and leaves the others alone. *)
LEMMA Mapping ==
  ASSUME NEW space \in Spaces, NEW pages \in SUBSET Nat, NEW perm \in Perms,
         MayMap(space, pages)
  PROVE  /\ WithPages(space, pages, perm) \in Spaces
         /\ DOMAIN WithPages(space, pages, perm) = DOMAIN space \union pages
         /\ \A p \in pages : WithPages(space, pages, perm)[p] = perm /\ p \notin DOMAIN space
         /\ \A p \in DOMAIN space : WithPages(space, pages, perm)[p] = space[p]
         /\ pages \subseteq UserPages
<1>1. pages \subseteq UserPages /\ (\A p \in pages : p \notin DOMAIN space)
  BY DEF MayMap, is_user_address, USER_SPACE_END, PageSize, UserPages
<1>2. DOMAIN space \subseteq UserPages /\ (\A p \in DOMAIN space : space[p] \in Perms)
  BY SpaceType
<1> DEFINE D == DOMAIN space \union pages
           g == [p \in D |-> IF p \in pages THEN perm ELSE space[p]]
<1>3. D \in SUBSET UserPages /\ g \in [D -> Perms]
  BY <1>1, <1>2
<1>4. g \in Spaces
  BY <1>3, SpaceOf
<1>5. g = WithPages(space, pages, perm)
  BY DEF WithPages
<1> QED
  BY <1>1, <1>4, <1>5

MappingFacts(space, pages, perm, new) ==
  /\ new \in Spaces
  /\ DOMAIN new = DOMAIN space \union pages
  /\ \A p \in pages : new[p] = perm /\ p \notin DOMAIN space
  /\ \A p \in DOMAIN space : new[p] = space[p]

(* The same, to be cited where the arguments are terms. *)
LEMMA Maps ==
  \A space \in Spaces, perm \in Perms : \A pages :
    pages \in SUBSET Nat /\ MayMap(space, pages) =>
      MappingFacts(space, pages, perm, WithPages(space, pages, perm))
  BY Mapping DEF MappingFacts

(* Pages are numbers. *)
LEMMA PagesOfNat ==
  ASSUME NEW from \in Nat, NEW to \in Nat
  PROVE  PagesOf(from, to) \in SUBSET Nat
  BY DEF PagesOf, PageOf, PageSize

(* The permissions are among those a page table entry can hold. *)
LEMMA PermIsPerm ==
  ASSUME NEW w \in BOOLEAN, NEW x \in BOOLEAN
  PROVE  Perm(w, x) \in Perms /\ Perm(w, x).w = w /\ Perm(w, x).x = x
  BY DEF Perm, Perms

-----------------------------------------------------------------------------
(* load_image *)

LoadStates == [outcome : {"loaded", "refused", "panic"}, space : Spaces, entry : Nat]

(* A segment leaves the loader in one of its states. *)
LEMMA LoadSegmentType ==
  ASSUME NEW img \in ElfImages, NEW nx \in BOOLEAN, NEW st \in LoadStates, NEW s \in Segments
  PROVE  LoadSegment(img, nx, st, s) \in LoadStates
<1> DEFINE last  == s.vaddr + s.memsz - 1
           pages == PagesOf(s.vaddr, last)
           grown == [st EXCEPT !.space = WithPages(@, pages, segment_flags(s, nx))]
<1>1. Refused \in LoadStates /\ Panicked \in LoadStates
  BY NoPagesIsSpace DEF Refused, Panicked, LoadStates
<1>2. ASSUME s.memsz # 0, MayMap(st.space, pages)
      PROVE  grown \in LoadStates
  <2>1. s.vaddr \in Nat /\ s.memsz \in Nat /\ last \in Nat
    BY <1>2 DEF Segments
  <2>2. pages \in SUBSET Nat
    BY <2>1, PagesOfNat
  <2>3. segment_flags(s, nx) \in Perms
    BY PermIsPerm DEF segment_flags, Segments
  <2>4. st.space \in Spaces
    BY DEF LoadStates
  <2> HIDE DEF pages
  <2>5. WithPages(st.space, pages, segment_flags(s, nx)) \in Spaces
    BY <1>2, <2>2, <2>3, <2>4, Mapping
  <2> QED  BY <2>5 DEF LoadStates
<1>3. \/ LoadSegment(img, nx, st, s) \in {st, Refused, Panicked}
      \/ /\ LoadSegment(img, nx, st, s) = grown
         /\ s.memsz # 0 /\ MayMap(st.space, pages)
  BY Zenon DEF LoadSegment
<1> HIDE DEF grown
<1> QED
  BY <1>1, <1>2, <1>3

(* The loop over the program headers, as the states it goes through. *)
Loop(a, img, nx) ==
  /\ a \in [0 .. Len(img.segments) -> LoadStates]
  /\ a[0] = [outcome |-> "loaded", space |-> NoPages, entry |-> img.entry]
  /\ \A i \in 1 .. Len(img.segments) :
        a[i] = LoadSegment(img, nx, a[i - 1], img.segments[i])
  /\ LoadSegments(img, nx) = a[Len(img.segments)]

(* The loader's loop over the segments has a state after each of them. *)
LEMMA LoopExists ==
  ASSUME NEW img \in ElfImages, NEW nx \in BOOLEAN
  PROVE  \E a : Loop(a, img, nx)
<1> DEFINE n == Len(img.segments)
           start == [outcome |-> "loaded", space |-> NoPages, entry |-> img.entry]
           step(f, i) == IF i = 0 THEN start
                         ELSE LoadSegment(img, nx, f[i - 1], img.segments[i])
           after == CHOOSE f : f = [i \in 0 .. n |-> step(f, i)]
           F == [i \in 1 .. n |-> [st \in LoadStates |->
                                     LoadSegment(img, nx, st, img.segments[i])]]
<1>0. n \in Nat /\ img.segments \in Seq(Segments) /\ img.entry \in Nat
  BY DEF ElfImages
<1>1. start \in LoadStates
  BY <1>0, NoPagesIsSpace DEF LoadStates
<1>2. \A i \in 1 .. n : img.segments[i] \in Segments
  BY <1>0
<1>3. F \in [1 .. n -> [LoadStates -> LoadStates]]
  BY <1>2, LoadSegmentType
<1>4. LoadSegments(img, nx) = after[n]
  BY DEF LoadSegments
<1> HIDE DEF start, n
<1>5. PICK f \in [0 .. n -> LoadStates] : Iterated(f, n, start, F)
  <2> HIDE DEF F
  <2> QED  BY <1>0, <1>1, <1>3, Iterates
<1>6. f = [i \in 0 .. n |-> step(f, i)]
  <2>1. ASSUME NEW i \in 0 .. n PROVE f[i] = step(f, i)
    <3>1. f[i] = IF i = 0 THEN start ELSE F[i][f[i - 1]]
      <4> HIDE DEF F
      <4> QED  BY <1>5, Zenon DEF Iterated
    <3>2. ASSUME i # 0 PROVE F[i][f[i - 1]] = LoadSegment(img, nx, f[i - 1], img.segments[i])
      <4>1. i \in 1 .. n /\ f[i - 1] \in LoadStates
        BY <1>0, <3>2
      <4> QED  BY <4>1
    <3> HIDE DEF F
    <3> QED  BY <3>1, <3>2
  <2>2. f = [i \in 0 .. n |-> f[i]]
    OBVIOUS
  <2> HIDE DEF step
  <2> QED  BY <2>1, <2>2, Zenon
<1>7. after = [i \in 0 .. n |-> step(after, i)]
  <2> HIDE DEF step
  <2> QED  BY <1>6, Zenon
<1>8. \A i \in 0 .. n : after[i] = step(after, i)
  <2> HIDE DEF step, after
  <2> QED  BY <1>7, Zenon
<1> HIDE DEF after
<1>9. after[0] = start
  BY <1>0, <1>8
<1>10. \A i \in 1 .. n : after[i] = LoadSegment(img, nx, after[i - 1], img.segments[i])
  <2> TAKE i \in 1 .. n
  <2>1. i \in 0 .. n /\ i # 0
    BY <1>0
  <2> QED  BY <1>8, <2>1, Zenon
<1>11. after \in [0 .. n -> LoadStates]
  <2> DEFINE T == {i \in 0 .. n : after[i] \in LoadStates}
  <2>1. 0 \in T
    BY <1>0, <1>1, <1>9
  <2>2. \A i \in 1 .. n : i - 1 \in T => i \in T
    <3> SUFFICES ASSUME NEW i \in 1 .. n, after[i - 1] \in LoadStates
                 PROVE  i \in 0 .. n /\ after[i] \in LoadStates
      BY Zenon
    <3>1. LoadSegment(img, nx, after[i - 1], img.segments[i]) \in LoadStates
      BY <1>2, LoadSegmentType
    <3> QED  BY <1>0, <1>10, <3>1
  <2>3. T \in SUBSET (0 .. n)
    OBVIOUS
  <2> HIDE DEF T
  <2>4. T = 0 .. n
    BY <1>0, <2>1, <2>2, <2>3, UpTo
  <2>5. \A i \in 0 .. n : after[i] \in LoadStates
    BY <2>4 DEF T
  <2>6. after = [i \in 0 .. n |-> after[i]]
    BY <1>7, Zenon
  <2> QED  BY <2>5, <2>6
<1>12. Loop(after, img, nx)
  BY <1>4, <1>9, <1>10, <1>11 DEF Loop, n, start
<1> QED
  BY <1>12

(* What the first k program headers have mapped. *)
Real(img, k) == {i \in 1 .. k : img.segments[i].load /\ img.segments[i].memsz > 0}
Bytes(s) == s.vaddr .. (s.vaddr + s.memsz - 1)
MappedSoFar(img, nx, k, space) ==
  /\ \A i \in Real(img, k) : \A a \in Bytes(img.segments[i]) :
        PageOf(a) \in DOMAIN space /\ space[PageOf(a)] = segment_flags(img.segments[i], nx)
  /\ \A p \in DOMAIN space : \E i \in Real(img, k) : \E a \in Bytes(img.segments[i]) :
        PageOf(a) = p
  /\ \A p \in DOMAIN space : nx => ~(space[p].w /\ space[p].x)

(* One program header: the state before it must have been good, and it maps
   its own pages, or none. *)
LEMMA SegmentStep ==
  ASSUME NEW img \in ElfImages, NEW nx \in BOOLEAN, NEW st \in LoadStates, NEW s \in Segments,
         LoadSegment(img, nx, st, s).outcome = "loaded"
  PROVE  LET pages == PagesOf(s.vaddr, s.vaddr + s.memsz - 1)
         IN /\ st.outcome = "loaded"
            /\ \/ /\ LoadSegment(img, nx, st, s) = st
                  /\ ~s.load \/ s.memsz = 0
               \/ /\ s.load /\ s.memsz > 0 /\ FlagsAccepted(s)
                  /\ MayMap(st.space, pages)
                  /\ LoadSegment(img, nx, st, s) =
                       [st EXCEPT !.space = WithPages(@, pages, segment_flags(s, nx))]
<1> DEFINE pages == PagesOf(s.vaddr, s.vaddr + s.memsz - 1)
           grown == [st EXCEPT !.space = WithPages(@, pages, segment_flags(s, nx))]
<1>1. \/ /\ LoadSegment(img, nx, st, s) = st
         /\ st.outcome # "loaded" \/ ~s.load \/ s.memsz = 0
      \/ LoadSegment(img, nx, st, s) = Refused
      \/ LoadSegment(img, nx, st, s) = Panicked
      \/ /\ LoadSegment(img, nx, st, s) = grown
         /\ st.outcome = "loaded" /\ s.load /\ SegmentAccepted(img, s) /\ s.memsz # 0
         /\ MayMap(st.space, pages)
  BY Zenon DEF LoadSegment
<1>2. Refused.outcome # "loaded" /\ Panicked.outcome # "loaded"
  BY DEF Refused, Panicked
<1>3. s.memsz \in Nat
  BY DEF Segments
<1> HIDE DEF grown, pages
<1>4. SegmentAccepted(img, s) => FlagsAccepted(s)
  BY DEF SegmentAccepted
<1>5. s.memsz # 0 => s.memsz > 0
  BY <1>3
<1> QED
  BY <1>1, <1>2, <1>4, <1>5, Zenon DEF grown, pages

(* A page of a range holds a byte of it. *)
LEMMA ByteOfPage ==
  ASSUME NEW from \in Nat, NEW to \in Nat, from <= to, NEW p \in PagesOf(from, to)
  PROVE  \E a \in from .. to : PageOf(a) = p
<1> DEFINE a == IF p * 4 < from THEN from ELSE p * 4
<1>1. p \in Nat
  BY DEF PagesOf, PageOf, PageSize
<1>2. a \in from .. to /\ PageOf(a) = p
  BY <1>1 DEF PagesOf, PageOf, PageSize
<1> QED
  BY <1>2

(* A byte of a range is on a page of it. *)
LEMMA PageOfByte ==
  ASSUME NEW from \in Nat, NEW to \in Nat, NEW a \in from .. to
  PROVE  PageOf(a) \in PagesOf(from, to)
  BY DEF PagesOf, PageOf, PageSize

(* The segments mapped so far stay as they are while the next one is mapped. *)
LEMMA MappedStep ==
  ASSUME NEW img \in ElfImages, NEW nx \in BOOLEAN, NEW a, Loop(a, img, nx),
         NEW k \in 1 .. Len(img.segments), a[k].outcome = "loaded",
         a[k - 1].outcome = "loaded" => MappedSoFar(img, nx, k - 1, a[k - 1].space)
  PROVE  MappedSoFar(img, nx, k, a[k].space)
<1> DEFINE s == img.segments[k]
           st == a[k - 1]
           pages == PagesOf(s.vaddr, s.vaddr + s.memsz - 1)
           flags == segment_flags(s, nx)
<1>0. /\ Len(img.segments) \in Nat /\ s \in Segments
      /\ st \in LoadStates /\ a[k] = LoadSegment(img, nx, st, s)
  BY DEF Loop, ElfImages
<1>1. /\ st.outcome = "loaded"
      /\ \/ /\ a[k] = st
            /\ ~s.load \/ s.memsz = 0
         \/ /\ s.load /\ s.memsz > 0 /\ FlagsAccepted(s)
            /\ MayMap(st.space, pages)
            /\ a[k] = [st EXCEPT !.space = WithPages(@, pages, flags)]
  BY <1>0, SegmentStep
<1>2. MappedSoFar(img, nx, k - 1, st.space)
  BY <1>1
<1>3. /\ s.vaddr \in Nat /\ s.memsz \in Nat /\ s.w \in BOOLEAN /\ s.x \in BOOLEAN
      /\ st.space \in Spaces /\ flags \in Perms /\ flags.w = s.w /\ (nx => flags.x = s.x)
  BY <1>0, PermIsPerm DEF Segments, LoadStates, segment_flags
<1>4. Real(img, k) = Real(img, k - 1) \union
                         (IF s.load /\ s.memsz > 0 THEN {k} ELSE {})
  <2>1. \A i : i \in 1 .. k <=> (i \in 1 .. (k - 1) \/ i = k)
    BY <1>0
  <2> QED  BY <2>1 DEF Real
<1>5. CASE a[k] = st /\ (~s.load \/ s.memsz = 0)
  <2>1. Real(img, k) = Real(img, k - 1)
    BY <1>3, <1>4, <1>5
  <2> QED  BY <1>2, <1>5, <2>1 DEF MappedSoFar
<1>6. CASE /\ s.load /\ s.memsz > 0 /\ FlagsAccepted(s)
           /\ MayMap(st.space, pages)
           /\ a[k] = [st EXCEPT !.space = WithPages(@, pages, flags)]
  <2> DEFINE new == WithPages(st.space, pages, flags)
  <2>1. a[k].space = new
    BY <1>0, <1>6 DEF LoadStates
  <2>2. Real(img, k) = Real(img, k - 1) \union {k}
    BY <1>4, <1>6
  <2>3. s.vaddr + s.memsz - 1 \in Nat /\ s.vaddr <= s.vaddr + s.memsz - 1
    BY <1>3, <1>6
  <2>4. pages \in SUBSET Nat
    BY <1>3, <2>3, PagesOfNat
  <2>5. Bytes(s) = s.vaddr .. (s.vaddr + s.memsz - 1)
    BY DEF Bytes
  <2>6. /\ \A b \in Bytes(s) : PageOf(b) \in pages
        /\ \A p \in pages : \E b \in Bytes(s) : PageOf(b) = p
    <3> DEFINE from == s.vaddr
               to == s.vaddr + s.memsz - 1
    <3>1. from \in Nat /\ to \in Nat /\ from <= to
      BY <1>3, <2>3
    <3> HIDE DEF from, to
    <3>2. \A b \in from .. to : PageOf(b) \in PagesOf(from, to)
      BY <3>1, PageOfByte
    <3>3. \A p \in PagesOf(from, to) : \E b \in from .. to : PageOf(b) = p
      BY <3>1, ByteOfPage
    <3> QED  BY <2>5, <3>2, <3>3, Zenon DEF from, to
  <2> HIDE DEF pages, flags, s, st
  <2>7. /\ DOMAIN new = DOMAIN st.space \union pages
        /\ \A p \in pages : new[p] = flags /\ p \notin DOMAIN st.space
        /\ \A p \in DOMAIN st.space : new[p] = st.space[p]
    <3>1. st.space \in Spaces /\ flags \in Perms /\ MayMap(st.space, pages)
      BY <1>3, <1>6
    <3>2. MappingFacts(st.space, pages, flags, new)
      BY <2>4, <3>1, Maps, Zenon
    <3> QED  BY <3>2, Zenon DEF MappingFacts
  <2> HIDE DEF new
  <2>8. \A i \in Real(img, k) : \A b \in Bytes(img.segments[i]) :
          PageOf(b) \in DOMAIN new /\ new[PageOf(b)] = segment_flags(img.segments[i], nx)
    <3> TAKE i \in Real(img, k)
    <3> TAKE b \in Bytes(img.segments[i])
    <3>1. CASE i \in Real(img, k - 1)
      BY <1>2, <2>7, <3>1 DEF MappedSoFar
    <3>2. CASE i = k
      BY <2>6, <2>7, <3>2 DEF s, flags
    <3> QED  BY <2>2, <3>1, <3>2
  <2>9. \A p \in DOMAIN new : \E i \in Real(img, k) : \E b \in Bytes(img.segments[i]) :
          PageOf(b) = p
    <3> TAKE p \in DOMAIN new
    <3>1. CASE p \in DOMAIN st.space
      BY <1>2, <2>2, <3>1 DEF MappedSoFar
    <3>2. CASE p \in pages
      BY <2>2, <2>6, <3>2 DEF s
    <3> QED  BY <2>7, <3>1, <3>2
  <2>10. \A p \in DOMAIN new : nx => ~(new[p].w /\ new[p].x)
    <3> TAKE p \in DOMAIN new
    <3>1. CASE p \in DOMAIN st.space
      BY <1>2, <2>7, <3>1 DEF MappedSoFar
    <3>2. CASE p \in pages
      BY <1>3, <1>6, <2>7, <3>2 DEF FlagsAccepted
    <3> QED  BY <2>7, <3>1, <3>2
  <2> QED  BY <2>1, <2>8, <2>9, <2>10 DEF MappedSoFar
<1> QED
  BY <1>1, <1>5, <1>6

(* After the loop, every segment is mapped as its file says. *)
LEMMA AllMapped ==
  ASSUME NEW img \in ElfImages, NEW nx \in BOOLEAN
  PROVE  /\ LoadSegments(img, nx) \in LoadStates
         /\ LoadSegments(img, nx).outcome = "loaded" =>
              MappedSoFar(img, nx, Len(img.segments), LoadSegments(img, nx).space)
<1> DEFINE n == Len(img.segments)
<1>0. n \in Nat
  BY DEF ElfImages
<1>1. PICK a : Loop(a, img, nx)
  BY LoopExists
<1> DEFINE T == {k \in 0 .. n : a[k].outcome = "loaded" => MappedSoFar(img, nx, k, a[k].space)}
<1>2. 0 \in T
  <2>1. a[0].space = NoPages
    BY <1>1 DEF Loop
  <2>2. Real(img, 0) = {}
    BY DEF Real
  <2>3. MappedSoFar(img, nx, 0, NoPages)
    BY <2>2, NoPagesIsSpace DEF MappedSoFar
  <2> QED  BY <1>0, <2>1, <2>3
<1>3. \A k \in 1 .. n : k - 1 \in T => k \in T
  <2> SUFFICES ASSUME NEW k \in 1 .. n,
                      a[k - 1].outcome = "loaded" => MappedSoFar(img, nx, k - 1, a[k - 1].space),
                      a[k].outcome = "loaded"
               PROVE  MappedSoFar(img, nx, k, a[k].space)
    BY <1>0
  <2> QED  BY <1>1, MappedStep
<1>4. T \in SUBSET (0 .. n)
  OBVIOUS
<1> HIDE DEF T
<1>5. n \in T
  <2>1. T = 0 .. n
    BY <1>0, <1>2, <1>3, <1>4, UpTo
  <2> QED  BY <1>0, <2>1
<1>6. a[n] \in LoadStates /\ LoadSegments(img, nx) = a[n]
  BY <1>0, <1>1 DEF Loop
<1> QED
  BY <1>5, <1>6 DEF T

(* The pages of the user stack. *)
LEMMA StackIsPages == StackPages = {12, 13}
  BY DEF StackPages, PagesOf, PageOf, PageSize, USER_STACK_BOTTOM, USER_STACK_PAGES

(* What load_image hands to spawn. *)
LEMMA LoadedElf ==
  ASSUME NEW img \in ElfImages, NEW nx \in BOOLEAN, load_image(img, nx).outcome = "loaded"
  PROVE  LET before == LoadSegments(img, nx)
         IN /\ before.outcome = "loaded" /\ before \in LoadStates
            /\ MayMap(before.space, StackPages)
            /\ load_image(img, nx) =
                 [before EXCEPT !.space = WithPages(@, StackPages, StackPerm(nx))]
<1> DEFINE before == LoadSegments(img, nx)
<1>1. before \in LoadStates
  BY AllMapped
<1>2. \/ load_image(img, nx) = Refused
      \/ load_image(img, nx) = before /\ before.outcome # "loaded"
      \/ /\ load_image(img, nx) = [before EXCEPT !.space = WithPages(@, StackPages, StackPerm(nx))]
         /\ before.outcome = "loaded" /\ MayMap(before.space, StackPages)
  BY Zenon DEF load_image
<1>3. Refused.outcome # "loaded"
  BY DEF Refused
<1> QED
  BY <1>1, <1>2, <1>3, Zenon

(* The space of a loaded ELF file: its segments, and the stack apart from them. *)
LEMMA ElfSpace ==
  ASSUME NEW img \in ElfImages, NEW nx \in BOOLEAN, load_image(img, nx).outcome = "loaded"
  PROVE  LET before == LoadSegments(img, nx).space
             space == load_image(img, nx).space
         IN /\ space \in Spaces
            /\ DOMAIN space = DOMAIN before \union StackPages
            /\ \A p \in StackPages : space[p] = StackPerm(nx) /\ p \notin DOMAIN before
            /\ \A p \in DOMAIN before : space[p] = before[p]
            /\ MappedSoFar(img, nx, Len(img.segments), before)
            /\ load_image(img, nx).entry = LoadSegments(img, nx).entry
<1> DEFINE st == LoadSegments(img, nx)
           new == WithPages(st.space, StackPages, StackPerm(nx))
<1>1. /\ st.outcome = "loaded" /\ st \in LoadStates /\ MayMap(st.space, StackPages)
      /\ load_image(img, nx) = [st EXCEPT !.space = WithPages(@, StackPages, StackPerm(nx))]
  BY LoadedElf
<1>2. StackPerm(nx) \in Perms /\ StackPages \in SUBSET Nat /\ st.space \in Spaces
  <2>1. StackPerm(nx) \in Perms
    BY PermIsPerm DEF StackPerm
  <2>2. StackPages \in SUBSET Nat
    BY StackIsPages
  <2> QED  BY <1>1, <2>1, <2>2 DEF LoadStates
<1>3. load_image(img, nx).space = new /\ load_image(img, nx).entry = st.entry
  BY <1>1 DEF LoadStates
<1>4. MappedSoFar(img, nx, Len(img.segments), st.space)
  BY <1>1, AllMapped
<1> HIDE DEF st
<1>5. /\ new \in Spaces
      /\ DOMAIN new = DOMAIN st.space \union StackPages
      /\ \A p \in StackPages : new[p] = StackPerm(nx) /\ p \notin DOMAIN st.space
      /\ \A p \in DOMAIN st.space : new[p] = st.space[p]
  <2>1. MappingFacts(st.space, StackPages, StackPerm(nx), new)
    BY <1>1, <1>2, Maps, Zenon
  <2> QED  BY <2>1, Zenon DEF MappingFacts
<1> HIDE DEF new
<1> QED
  BY <1>3, <1>4, <1>5 DEF st

(* An ELF image that load_image accepts is mapped as its file declares. *)
LEMMA ElfIsSound ==
  ASSUME NEW img \in ElfImages, NEW nx \in BOOLEAN, load_image(img, nx).outcome = "loaded"
  PROVE  ElfPagesSound(img, nx, load_image(img, nx))
<1> DEFINE before == LoadSegments(img, nx).space
           space == load_image(img, nx).space
           n == Len(img.segments)
           real == {i \in DOMAIN img.segments :
                      img.segments[i].load /\ img.segments[i].memsz > 0}
           bytes(s) == s.vaddr .. (s.vaddr + s.memsz - 1)
<1>1. /\ space \in Spaces
      /\ DOMAIN space = DOMAIN before \union StackPages
      /\ \A p \in StackPages : space[p] = StackPerm(nx) /\ p \notin DOMAIN before
      /\ \A p \in DOMAIN before : space[p] = before[p]
      /\ MappedSoFar(img, nx, n, before)
  BY ElfSpace
<1>2. img.segments \in Seq(Segments) /\ DOMAIN img.segments = 1 .. n
  BY DEF ElfImages
<1>3. real = Real(img, n)
  BY <1>2 DEF Real
<1>4. \A s : bytes(s) = Bytes(s)
  BY DEF Bytes
<1>5. StackPerm(nx).w = TRUE /\ StackPerm(nx).x = ~nx
  BY PermIsPerm DEF StackPerm
<1>6. \A i \in real : LET f == segment_flags(img.segments[i], nx)
                      IN f.w = img.segments[i].w /\ (nx => f.x = img.segments[i].x)
  <2> TAKE i \in real
  <2>1. img.segments[i] \in Segments
    BY <1>2
  <2> QED  BY <2>1, PermIsPerm DEF segment_flags, Segments
<1> HIDE DEF before, space, n, real, bytes
<1>7. \A i \in real : \A a \in bytes(img.segments[i]) :
        /\ PageOf(a) \in DOMAIN space
        /\ space[PageOf(a)].w = img.segments[i].w
        /\ nx => space[PageOf(a)].x = img.segments[i].x
  BY <1>1, <1>3, <1>4, <1>6 DEF MappedSoFar
<1>8. \A p \in DOMAIN space \ StackPages :
        \E i \in real : \E a \in bytes(img.segments[i]) : PageOf(a) = p
  BY <1>1, <1>3, <1>4 DEF MappedSoFar
<1>9. \A p \in DOMAIN space : /\ is_user_address(p * PageSize)
                              /\ nx => ~(space[p].w /\ space[p].x)
  <2> TAKE p \in DOMAIN space
  <2>1. is_user_address(p * PageSize)
    BY <1>1, SpaceType DEF UserPages, is_user_address, USER_SPACE_END, PageSize
  <2>2. nx => ~(space[p].w /\ space[p].x)
    BY <1>1, <1>5 DEF MappedSoFar
  <2> QED  BY <2>1, <2>2
<1> QED
  BY <1>7, <1>8, <1>9, Zenon DEF ElfPagesSound, space, real, bytes

-----------------------------------------------------------------------------
(* Mirage: the pages *)

(* A bounded set of numbers that is not empty has a greatest member. *)
LEMMA GreatestMember ==
  ASSUME NEW n \in Nat, NEW T \in SUBSET (0 .. n), T # {}
  PROVE  \E x \in T : \A y \in T : y <= x
<1> DEFINE D == {n - y : y \in T}
<1>1. D \in SUBSET Nat /\ D # {}
  <2>1. \A y \in T : n - y \in Nat
    OBVIOUS
  <2>2. PICK y : y \in T
    OBVIOUS
  <2>3. n - y \in D
    BY <2>2
  <2>4. \A d \in D : d \in Nat
    BY <2>1
  <2> HIDE DEF D
  <2> QED  BY <2>3, <2>4
<1> HIDE DEF D
<1>2. PICK d \in D : \A e \in D : d <= e
  BY <1>1, LeastMember
<1>3. PICK x \in T : d = n - x
  BY DEF D
<1>4. ASSUME NEW y \in T PROVE y <= x
  <2>1. n - y \in D
    BY DEF D
  <2>2. n - x <= n - y
    BY <1>2, <1>3, <2>1
  <2>3. x \in 0 .. n /\ y \in 0 .. n
    OBVIOUS
  <2> QED  BY <2>2, <2>3
<1> QED
  BY <1>4

(* The last section on a page, as the code's loop finds it. *)
On(img, p) == {i \in DOMAIN img.sections : p \in SectionPages(img.sections[i])}
LastOn(img, p) == img.sections[CHOOSE i \in On(img, p) : \A j \in On(img, p) : j <= i]

(* The section that last set a page's protection is one that covers the page. *)
LEMMA LastOnPage ==
  ASSUME NEW img \in PeImages, NEW p, On(img, p) # {}
  PROVE  /\ \E i \in On(img, p) : LastOn(img, p) = img.sections[i]
         /\ LastOn(img, p) \in Sections
         /\ \A i : On(img, p) = {i} => LastOn(img, p) = img.sections[i]
<1> DEFINE k == CHOOSE i \in On(img, p) : \A j \in On(img, p) : j <= i
           n == Len(img.sections)
<1>1. img.sections \in Seq(Sections) /\ n \in Nat /\ DOMAIN img.sections = 1 .. n
  BY DEF PeImages
<1>2. On(img, p) \in SUBSET (0 .. n)
  BY <1>1 DEF On
<1>3. \E i \in On(img, p) : \A j \in On(img, p) : j <= i
  BY <1>1, <1>2, GreatestMember
<1>4. k \in On(img, p)
  BY <1>3
<1>5. LastOn(img, p) = img.sections[k]
  BY DEF LastOn
<1> HIDE DEF k
<1> QED
  BY <1>1, <1>4, <1>5 DEF On

(* What load_image of mirage.rs has checked when it hands an image on. *)
PeChecked(img) ==
  /\ img.size \in 1 .. 20
  /\ \A i \in DOMAIN img.sections : SectionAccepted(img, img.sections[i])
  /\ \A i \in DOMAIN img.sections : ~(img.sections[i].w /\ img.sections[i].x)
  /\ FillFits(img)

Mapped1(img) == WithPages(NoPages, ImagePages(img), Perm(TRUE, TRUE))
Mapped2(img) == WithPages(Mapped1(img), {ThunkPage(img)}, Perm(FALSE, TRUE))
Mapped3(img, nx) == Protected(img, nx, Mapped2(img))

PeLoaded(img, nx) ==
  /\ PeChecked(img)
  /\ MayMap(NoPages, ImagePages(img))
  /\ MayMap(Mapped1(img), {ThunkPage(img)})
  /\ MayMap(Mapped3(img, nx), StackPages)
  /\ load_pe(img, nx).space = WithPages(Mapped3(img, nx), StackPages, StackPerm(nx))
  /\ load_pe(img, nx).memory = bind_imports(img, apply_relocations(img, Filled(img)))
  /\ load_pe(img, nx).entry = MIRAGE_IMAGE_BASE + img.entry

(* A PE image that loads was accepted by every check on the way. *)
LEMMA LoadedPe ==
  ASSUME NEW img \in PeImages, NEW nx \in BOOLEAN, load_pe(img, nx).outcome = "loaded"
  PROVE  PeLoaded(img, nx)
<1>1. \A how : PeFails(how).outcome = how
  BY DEF PeFails
<1>2. PeFails("refused").outcome # "loaded"
  BY <1>1
<1>3. /\ parse(img) = "loaded"
      /\ ~ \/ \E k \in DOMAIN img.imports : ~lookup_thunk(img.imports[k].name)
           \/ ~MayMap(NoPages, ImagePages(img)) \/ ~FillFits(img)
           \/ ~RelocationsFit(img)
           \/ ~MayMap(Mapped1(img), {ThunkPage(img)}) \/ ~ImportsFit(img)
           \/ \E i \in DOMAIN img.sections : img.sections[i].w /\ img.sections[i].x
           \/ ~MayMap(Mapped3(img, nx), StackPages)
      /\ load_pe(img, nx) =
              [outcome |-> "loaded",
               space   |-> WithPages(Mapped3(img, nx), StackPages, StackPerm(nx)),
               memory  |-> bind_imports(img, apply_relocations(img, Filled(img))),
               entry   |-> MIRAGE_IMAGE_BASE + img.entry]
  BY <1>1, <1>2, Zenon DEF load_pe, Mapped1, Mapped2, Mapped3
<1>4. /\ img.size \in 1 .. MaxImageSize
      /\ \A i \in DOMAIN img.sections : SectionAccepted(img, img.sections[i])
  BY <1>3, Zenon DEF parse
<1>5. MaxImageSize = 20
  BY DEF MaxImageSize, PageSize
<1>6. PeChecked(img)
  BY <1>3, <1>4, <1>5, Zenon DEF PeChecked
<1>7. /\ load_pe(img, nx).space = WithPages(Mapped3(img, nx), StackPages, StackPerm(nx))
      /\ load_pe(img, nx).memory = bind_imports(img, apply_relocations(img, Filled(img)))
      /\ load_pe(img, nx).entry = MIRAGE_IMAGE_BASE + img.entry
  <2> DEFINE space == WithPages(Mapped3(img, nx), StackPages, StackPerm(nx))
             memory == bind_imports(img, apply_relocations(img, Filled(img)))
             entry == MIRAGE_IMAGE_BASE + img.entry
             r == load_pe(img, nx)
  <2>1. r = [outcome |-> "loaded", space |-> space, memory |-> memory, entry |-> entry]
    BY <1>3, Zenon
  <2> HIDE DEF space, memory, entry, r
  <2>2. r.space = space /\ r.memory = memory /\ r.entry = entry
    BY <2>1
  <2> QED  BY <2>2, Zenon DEF r, space, memory, entry
<1> QED
  BY <1>3, <1>6, <1>7, Zenon DEF PeLoaded

(* The image and the thunk page lie apart, and every section within the image. *)
LEMMA PePlaces ==
  ASSUME NEW img \in PeImages, PeChecked(img)
  PROVE  /\ ImagePages(img) \in SUBSET Nat
         /\ ThunkPage(img) \in Nat /\ ThunkPage(img) \notin ImagePages(img)
         /\ \A i \in DOMAIN img.sections :
               SectionPages(img.sections[i]) \subseteq ImagePages(img)
<1> DEFINE P == Pages4K(img.size)
<1>1. P \in 1 .. 5 /\ img.size <= P * 4 /\ img.size \in Nat
  BY DEF PeChecked, Pages4K, PageSize
<1>2. ImagePages(img) = 6 .. (6 + P - 1) /\ ThunkPage(img) = 6 + P
  BY <1>1 DEF ImagePages, ThunkPage, PagesOf, PageOf, MIRAGE_IMAGE_BASE, PageSize
<1>3. ASSUME NEW i \in DOMAIN img.sections
      PROVE  SectionPages(img.sections[i]) \subseteq ImagePages(img)
  <2> DEFINE s == img.sections[i]
             m == AtLeastOne(s.vsize)
  <2>1. s.va \in Nat /\ s.vsize \in Nat
    <3>1. img.sections \in Seq(Sections)
      BY DEF PeImages
    <3>2. s \in Sections
      BY <3>1
    <3> QED  BY <3>2 DEF Sections
  <2>2. m \in Nat /\ m >= 1
    BY <2>1 DEF AtLeastOne
  <2>3. s.va + m <= img.size
    BY DEF PeChecked, SectionAccepted
  <2>4. SectionPages(s) = PagesOf(24 + s.va, 24 + s.va + m - 1)
    BY DEF SectionPages, MIRAGE_IMAGE_BASE, PageSize
  <2> HIDE DEF s, m
  <2>5. (24 + s.va) \div 4 >= 6 /\ (24 + s.va + m - 1) \div 4 <= 6 + P - 1
    BY <1>1, <2>1, <2>2, <2>3
  <2>6. SectionPages(s) \subseteq ImagePages(img)
    <3>1. SectionPages(s) = (24 + s.va) \div 4 .. (24 + s.va + m - 1) \div 4
      BY <2>4 DEF PagesOf, PageOf, PageSize
    <3> DEFINE lo == (24 + s.va) \div 4
               hi == (24 + s.va + m - 1) \div 4
    <3>2. lo \in Int /\ hi \in Int /\ lo >= 6 /\ hi <= 6 + P - 1
      BY <2>1, <2>2, <2>5
    <3> HIDE DEF lo, hi, P
    <3>3. lo .. hi \subseteq 6 .. (6 + P - 1)
      BY <1>1, <3>2
    <3> QED  BY <1>2, <3>1, <3>3 DEF lo, hi
  <2> QED  BY <2>6 DEF s
<1> QED
  BY <1>1, <1>2, <1>3

(* The spaces load_image of mirage.rs goes through, and the one it hands on. *)
LEMMA PeSpace ==
  ASSUME NEW img \in PeImages, NEW nx \in BOOLEAN, load_pe(img, nx).outcome = "loaded"
  PROVE  LET tight == Mapped3(img, nx)
             space == load_pe(img, nx).space
         IN /\ space \in Spaces
            /\ DOMAIN tight = ImagePages(img) \union {ThunkPage(img)}
            /\ DOMAIN space = DOMAIN tight \union StackPages
            /\ \A p \in StackPages : space[p] = StackPerm(nx)
            /\ \A p \in ImagePages(img) :
                  space[p] = IF On(img, p) = {} THEN Perm(TRUE, TRUE)
                             ELSE Perm(LastOn(img, p).w, LastOn(img, p).x \/ ~nx)
            /\ space[ThunkPage(img)] = Perm(FALSE, TRUE)
<1> DEFINE one == Mapped1(img)
           two == Mapped2(img)
           tight == Mapped3(img, nx)
           space == load_pe(img, nx).space
           I == ImagePages(img)
           t == ThunkPage(img)
<1>1. /\ PeChecked(img)
      /\ MayMap(NoPages, I) /\ MayMap(one, {t}) /\ MayMap(tight, StackPages)
      /\ space = WithPages(tight, StackPages, StackPerm(nx))
  <2>1. PeLoaded(img, nx)
    BY LoadedPe, Zenon
  <2> QED  BY <2>1, Zenon DEF PeLoaded
<1>2. /\ I \in SUBSET Nat /\ t \in Nat /\ t \notin I
      /\ \A i \in DOMAIN img.sections : SectionPages(img.sections[i]) \subseteq I
  BY <1>1, PePlaces
<1>3. Perm(TRUE, TRUE) \in Perms /\ Perm(FALSE, TRUE) \in Perms /\ StackPerm(nx) \in Perms
  BY PermIsPerm DEF StackPerm
<1>4. StackPages \in SUBSET Nat /\ {t} \in SUBSET Nat
  BY <1>2, StackIsPages
<1> HIDE DEF I, t
<1>5. MappingFacts(NoPages, I, Perm(TRUE, TRUE), one)
  BY <1>1, <1>2, <1>3, NoPagesIsSpace, Maps, Zenon DEF Mapped1, I
<1>6. MappingFacts(one, {t}, Perm(FALSE, TRUE), two)
  <2>1. one \in Spaces
    BY <1>5 DEF MappingFacts
  <2> QED  BY <1>1, <1>3, <1>4, <2>1, Maps, Zenon DEF Mapped2, t
<1>7. /\ DOMAIN two = I \union {t} /\ two \in Spaces
      /\ two[t] = Perm(FALSE, TRUE)
      /\ \A p \in I : two[p] = Perm(TRUE, TRUE)
  <2> HIDE DEF one, two
  <2> QED  BY <1>5, <1>6, NoPagesIsSpace DEF MappingFacts
<1>8. tight = [p \in DOMAIN two |-> IF On(img, p) = {} THEN two[p]
                                    ELSE Perm(LastOn(img, p).w, LastOn(img, p).x \/ ~nx)]
  BY DEF Mapped3, Protected, On, LastOn
<1>9. On(img, t) = {}
  BY <1>2 DEF On
<1> HIDE DEF one, two, tight
<1>10. tight \in Spaces /\ DOMAIN tight = I \union {t}
  <2>1. ASSUME NEW p, On(img, p) # {}
        PROVE  Perm(LastOn(img, p).w, LastOn(img, p).x \/ ~nx) \in Perms
    <3>1. LastOn(img, p) \in Sections
      BY <2>1, LastOnPage
    <3> QED  BY <3>1, PermIsPerm DEF Sections
  <2>2. DOMAIN two \subseteq UserPages /\ \A p \in DOMAIN two : two[p] \in Perms
    BY <1>7, SpaceType
  <2>3. tight \in [DOMAIN two -> Perms]
    BY <1>8, <2>1, <2>2
  <2>4. tight \in Spaces
    BY <2>2, <2>3, SpaceOf
  <2> QED  BY <1>7, <1>8, <2>4
<1>11. MappingFacts(tight, StackPages, StackPerm(nx), space)
  BY <1>1, <1>3, <1>4, <1>10, Maps, Zenon
<1>12. tight[t] = Perm(FALSE, TRUE)
  BY <1>7, <1>8, <1>9
<1>13. \A p \in I : tight[p] = IF On(img, p) = {} THEN Perm(TRUE, TRUE)
                               ELSE Perm(LastOn(img, p).w, LastOn(img, p).x \/ ~nx)
  BY <1>7, <1>8
<1> HIDE DEF space
<1>14. /\ space \in Spaces
       /\ DOMAIN space = DOMAIN tight \union StackPages
       /\ \A p \in StackPages : space[p] = StackPerm(nx)
       /\ \A p \in DOMAIN tight : space[p] = tight[p]
  BY <1>11 DEF MappingFacts
<1>15. \A p \in I : space[p] = IF On(img, p) = {} THEN Perm(TRUE, TRUE)
                               ELSE Perm(LastOn(img, p).w, LastOn(img, p).x \/ ~nx)
  <2> TAKE p \in I
  <2>1. space[p] = tight[p]
    BY <1>10, <1>14
  <2> QED  BY <1>13, <2>1, Zenon
<1>16. space[t] = Perm(FALSE, TRUE)
  BY <1>10, <1>12, <1>14
<1> QED
  BY <1>10, <1>14, <1>15, <1>16, Zenon DEF I, t, tight, space

(* The pages of a loaded Windows image carry its sections' permissions. *)
LEMMA PePagesAreSound ==
  ASSUME NEW img \in PeImages, NEW nx \in BOOLEAN, load_pe(img, nx).outcome = "loaded"
  PROVE  PePagesSound(img, nx, load_pe(img, nx))
<1> DEFINE space == load_pe(img, nx).space
           I == ImagePages(img)
           t == ThunkPage(img)
<1>1. /\ space \in Spaces
      /\ DOMAIN space = I \union {t} \union StackPages
      /\ \A p \in StackPages : space[p] = StackPerm(nx)
      /\ \A p \in I : space[p] = IF On(img, p) = {} THEN Perm(TRUE, TRUE)
                                 ELSE Perm(LastOn(img, p).w, LastOn(img, p).x \/ ~nx)
      /\ space[t] = Perm(FALSE, TRUE)
  BY PeSpace, Zenon
<1>2. PeChecked(img)
  BY LoadedPe, Zenon DEF PeLoaded
<1> HIDE DEF space, I, t
<1>3. \A p \in I : \A i \in On(img, p) : On(img, p) = {i} =>
        space[p] = Perm(img.sections[i].w, img.sections[i].x \/ ~nx)
  <2> SUFFICES ASSUME NEW p \in I, NEW i \in On(img, p), On(img, p) = {i}
               PROVE  space[p] = Perm(img.sections[i].w, img.sections[i].x \/ ~nx)
    OBVIOUS
  <2>1. LastOn(img, p) = img.sections[i]
    BY LastOnPage, Zenon
  <2> QED  BY <1>1, <2>1, Zenon
<1>4. ~space[t].w
  BY <1>1, PermIsPerm
<1>5. \A p \in DOMAIN space : is_user_address(p * PageSize)
  BY <1>1, SpaceType DEF UserPages, is_user_address, USER_SPACE_END, PageSize
<1>6. \A p \in StackPages : nx => ~space[p].x
  BY <1>1, PermIsPerm DEF StackPerm
<1>7. nx => \A p \in DOMAIN space : space[p].w /\ space[p].x => p \in I /\ On(img, p) = {}
  <2> SUFFICES ASSUME nx, NEW p \in DOMAIN space, space[p].w, space[p].x
               PROVE  p \in I /\ On(img, p) = {}
    OBVIOUS
  <2>1. p \in I
    BY <1>1, <1>4, <1>6
  <2>2. ASSUME On(img, p) # {} PROVE FALSE
    <3>1. PICK i \in On(img, p) : LastOn(img, p) = img.sections[i]
      BY <2>2, LastOnPage
    <3>2. LastOn(img, p) \in Sections
      BY <2>2, LastOnPage
    <3>3. space[p] = Perm(LastOn(img, p).w, LastOn(img, p).x \/ ~nx)
      BY <1>1, <2>1, <2>2
    <3>4. LastOn(img, p).w /\ LastOn(img, p).x
      BY <3>2, <3>3, PermIsPerm DEF Sections
    <3> QED  BY <1>2, <3>1, <3>4 DEF PeChecked, On
  <2> QED  BY <2>1, <2>2
<1> QED
  BY <1>3, <1>4, <1>5, <1>6, <1>7, Zenon DEF PePagesSound, On, space, I, t

-----------------------------------------------------------------------------
(* Mirage: the memory *)

(* Two-unit words that cover as many units as all of them have do not overlap. *)
LEMMA WordsApart ==
  ASSUME NEW K, IsFiniteSet(K), NEW g \in [K -> Nat],
         Cardinality(UNION {g[k] .. (g[k] + WordSize - 1) : k \in K}) = WordSize * Cardinality(K),
         NEW j \in K, NEW k \in K, NEW u \in g[j] .. (g[j] + WordSize - 1),
         u \in g[k] .. (g[k] + WordSize - 1)
  PROVE  j = k
<1> DEFINE B == 0 .. 1
           U == UNION {g[i] .. (g[i] + WordSize - 1) : i \in K}
           f == [x \in K \X B |-> g[x[1]] + x[2]]
<1>1. IsFiniteSet(B) /\ Cardinality(B) = 2
  <2>1. 0 \in Int /\ 1 \in Int /\ (IF 0 > 1 THEN 0 ELSE 1 - 0 + 1) = 2
    OBVIOUS
  <2>2. IsFiniteSet(0 .. 1) /\ Cardinality(0 .. 1) = IF 0 > 1 THEN 0 ELSE 1 - 0 + 1
    BY <2>1, FS_Interval, Zenon
  <2> QED  BY <2>1, <2>2
<1>2. IsFiniteSet(K \X B) /\ Cardinality(K \X B) = Cardinality(K) * Cardinality(B)
  BY <1>1, FS_Product
<1>3. Cardinality(K) \in Nat
  BY FS_CardinalityType
<1>4. Cardinality(K \X B) = Cardinality(U)
  BY <1>1, <1>2, <1>3 DEF WordSize
<1>5. \A i \in K : g[i] \in Nat /\ g[i] .. (g[i] + WordSize - 1) = g[i] .. (g[i] + 1)
  BY DEF WordSize
<1>6. f \in [K \X B -> U]
  <2> SUFFICES ASSUME NEW i \in K, NEW b \in B PROVE g[i] + b \in U
    OBVIOUS
  <2>0. g[i] \in Nat /\ b \in 0 .. 1
    OBVIOUS
  <2>1. g[i] + b \in g[i] .. (g[i] + WordSize - 1)
    BY <2>0 DEF WordSize
  <2> QED  BY <2>1
<1>7. ASSUME NEW v \in U PROVE \E x \in K \X B : f[x] = v
  <2>1. PICK i \in K : v \in g[i] .. (g[i] + WordSize - 1)
    OBVIOUS
  <2>2. g[i] \in Nat /\ v \in g[i] .. (g[i] + 1)
    BY <1>5, <2>1
  <2>3. v - g[i] \in B
    BY <2>2
  <2>4. <<i, v - g[i]>> \in K \X B /\ f[<<i, v - g[i]>>] = v
    BY <2>2, <2>3
  <2> QED  BY <2>4
<1>8. f \in Surjection(K \X B, U)
  BY <1>6, <1>7 DEF Surjection
<1>9. f \in Injection(K \X B, U)
  <2> HIDE DEF f, U, B
  <2> QED  BY <1>2, <1>4, <1>8, FS_SurjSameCardinalityImpliesInj
<1>10. \A x, y \in K \X B : f[x] = f[y] => x = y
  <2>1. DOMAIN f = K \X B
    OBVIOUS
  <2> HIDE DEF f
  <2> QED  BY <1>9, <2>1 DEF Injection, IsInjective
<1>11. u - g[j] \in B /\ u - g[k] \in B /\ u \in Int /\ g[j] \in Nat /\ g[k] \in Nat
  <2>1. g[j] \in Nat /\ g[k] \in Nat
    OBVIOUS
  <2> QED  BY <2>1 DEF WordSize
<1> DEFINE x == <<j, u - g[j]>>
           y == <<k, u - g[k]>>
<1>12. x \in K \X B /\ y \in K \X B /\ f[x] = u /\ f[y] = u
  BY <1>11
<1>13. x = y
  <2> HIDE DEF x, y, f
  <2> QED  BY <1>10, <1>12
<1> QED
  BY <1>13

Units == [kind : {"zero", "file", "thunk"}, at : Int, moved : Nat]
RawOf(img, i) == img.sections[i].va .. (img.sections[i].va + img.sections[i].raw_size - 1)
From(img, k, u) == {i \in 1 .. k : u \in RawOf(img, i)}

(* What the headers and the first k sections leave in the image's memory. *)
FilledBy(img, k, m) ==
  \A u \in Room(img) :
    /\ m[u] \in Units /\ m[u].moved = 0
    /\ From(img, k, u) = {} /\ u >= img.headers => m[u].kind = "zero"
    /\ \A i : From(img, k, u) = {i} =>
          m[u].at = img.sections[i].raw_offset + u - img.sections[i].va

(* The kinds of unit an image is made of. *)
LEMMA UnitTypes ==
  /\ Zero \in Units /\ Zero.moved = 0 /\ Zero.kind = "zero"
  /\ \A o \in Int : /\ FromFile(o) \in Units /\ FromFile(o).moved = 0 /\ FromFile(o).at = o
<1>1. Zero \in Units /\ Zero.moved = 0 /\ Zero.kind = "zero"
  BY DEF Zero, Units
<1>2. ASSUME NEW o \in Int
      PROVE  FromFile(o) \in Units /\ FromFile(o).moved = 0 /\ FromFile(o).at = o
  BY DEF FromFile, Units
<1> QED
  BY <1>1, <1>2

(* Copying one more section leaves the earlier ones, where it does not cover them. *)
LEMMA FillStep ==
  ASSUME NEW img \in PeImages, NEW k \in 1 .. Len(img.sections), NEW m, NEW new,
         FilledBy(img, k - 1, m),
         new = [u \in Room(img) |->
                  IF u \in RawOf(img, k)
                  THEN FromFile(img.sections[k].raw_offset + u - img.sections[k].va)
                  ELSE m[u]]
  PROVE  FilledBy(img, k, new)
<1> SUFFICES ASSUME NEW u \in Room(img)
             PROVE  /\ new[u] \in Units /\ new[u].moved = 0
                    /\ From(img, k, u) = {} /\ u >= img.headers => new[u].kind = "zero"
                    /\ \A i : From(img, k, u) = {i} =>
                          new[u].at = img.sections[i].raw_offset + u - img.sections[i].va
  BY DEF FilledBy
<1> DEFINE s == img.sections[k]
           o == s.raw_offset + u - s.va
<1>0. Len(img.sections) \in Nat /\ s \in Sections
  BY DEF PeImages
<1>1. s.raw_offset \in Nat /\ s.va \in Nat /\ o \in Int /\ u \in Int
  BY <1>0 DEF Sections, Room
<1>2. \A i : i \in 1 .. k <=> (i \in 1 .. (k - 1) \/ i = k)
  BY <1>0
<1>3. From(img, k, u) = From(img, k - 1, u) \union (IF u \in RawOf(img, k) THEN {k} ELSE {})
  BY <1>2 DEF From
<1>4. CASE u \in RawOf(img, k)
  <2>1. new[u] = FromFile(o)
    BY <1>4
  <2>2. FromFile(o) \in Units /\ FromFile(o).moved = 0 /\ FromFile(o).at = o
    BY <1>1, UnitTypes
  <2>3. k \in From(img, k, u)
    BY <1>3, <1>4
  <2>4. \A i : From(img, k, u) = {i} => i = k
    BY <2>3
  <2> QED  BY <2>1, <2>2, <2>3, <2>4
<1>5. CASE u \notin RawOf(img, k)
  <2>1. new[u] = m[u] /\ From(img, k, u) = From(img, k - 1, u)
    BY <1>3, <1>5
  <2> QED  BY <2>1 DEF FilledBy
<1> QED
  BY <1>4, <1>5

(* After the copy of all sections, every unit is the last one's that covers it. *)
LEMMA FilledIsFilled ==
  ASSUME NEW img \in PeImages
  PROVE  /\ FilledBy(img, Len(img.sections), Filled(img))
         /\ DOMAIN Filled(img) = Room(img)
<1> DEFINE n == Len(img.sections)
           R == Room(img)
           headers == [u \in R |-> IF u < img.headers THEN FromFile(u) ELSE Zero]
           fill(k, m) == [u \in R |->
                       IF u \in img.sections[k].va ..
                                  (img.sections[k].va + img.sections[k].raw_size - 1)
                       THEN FromFile(img.sections[k].raw_offset + u - img.sections[k].va)
                       ELSE m[u]]
           step(f, k) == IF k = 0 THEN headers ELSE fill(k, f[k - 1])
           after == CHOOSE f : f = [k \in 0 .. n |-> step(f, k)]
           M == [R -> Units]
           F == [k \in 1 .. n |-> [m \in M |-> fill(k, m)]]
<1>0. n \in Nat /\ img.sections \in Seq(Sections) /\ img.headers \in Nat
  BY DEF PeImages
<1>1. Filled(img) = after[n]
  BY DEF Filled
<1>2. R \subseteq Int
  BY DEF Room
<1>3. headers \in M
  BY <1>2, UnitTypes
<1>4. ASSUME NEW k \in 1 .. n, NEW m \in M PROVE fill(k, m) \in M
  <2>1. img.sections[k].va \in Nat /\ img.sections[k].raw_offset \in Nat
    <3>1. img.sections[k] \in Sections
      BY <1>0
    <3> QED  BY <3>1 DEF Sections
  <2>2. \A u \in R : FromFile(img.sections[k].raw_offset + u - img.sections[k].va) \in Units
    BY <1>2, <2>1, UnitTypes
  <2> QED  BY <2>2
<1>5. F \in [1 .. n -> [M -> M]]
  <2> HIDE DEF fill, M
  <2> QED  BY <1>4
<1> HIDE DEF n, headers, fill, M
<1>6. PICK f \in [0 .. n -> M] : Iterated(f, n, headers, F)
  <2> HIDE DEF F
  <2> QED  BY <1>0, <1>3, <1>5, Iterates
<1>7. f = [k \in 0 .. n |-> step(f, k)]
  <2>1. ASSUME NEW k \in 0 .. n PROVE f[k] = step(f, k)
    <3>1. f[k] = IF k = 0 THEN headers ELSE F[k][f[k - 1]]
      <4> HIDE DEF F
      <4> QED  BY <1>6, Zenon DEF Iterated
    <3>2. ASSUME k # 0 PROVE F[k][f[k - 1]] = fill(k, f[k - 1])
      <4>1. k \in 1 .. n /\ f[k - 1] \in M
        BY <1>0, <3>2
      <4> QED  BY <4>1
    <3> HIDE DEF F
    <3> QED  BY <3>1, <3>2
  <2>2. f = [k \in 0 .. n |-> f[k]]
    OBVIOUS
  <2> HIDE DEF step
  <2> QED  BY <2>1, <2>2, Zenon
<1>8. after = [k \in 0 .. n |-> step(after, k)]
  <2> HIDE DEF step
  <2> QED  BY <1>7, Zenon
<1>9. \A k \in 0 .. n : after[k] = step(after, k)
  <2> HIDE DEF step, after
  <2> QED  BY <1>8, Zenon
<1> HIDE DEF after
<1> DEFINE T == {k \in 0 .. n : FilledBy(img, k, after[k]) /\ DOMAIN after[k] = R}
<1>10. 0 \in T
  <2>1. after[0] = headers
    BY <1>0, <1>9
  <2>2. ASSUME NEW u \in R
        PROVE  /\ headers[u] \in Units /\ headers[u].moved = 0
               /\ u >= img.headers => headers[u].kind = "zero"
    BY <1>0, <1>2, UnitTypes DEF headers
  <2>3. \A u : From(img, 0, u) = {}
    BY DEF From
  <2>4. FilledBy(img, 0, headers)
    BY <2>2, <2>3 DEF FilledBy
  <2>5. DOMAIN headers = R
    BY DEF headers
  <2> QED  BY <1>0, <2>1, <2>4, <2>5
<1>11. \A k \in 1 .. n : k - 1 \in T => k \in T
  <2> SUFFICES ASSUME NEW k \in 1 .. n, FilledBy(img, k - 1, after[k - 1])
               PROVE  k \in 0 .. n /\ FilledBy(img, k, after[k]) /\ DOMAIN after[k] = R
    BY Zenon
  <2>1. k \in 0 .. n /\ k # 0
    BY <1>0
  <2>2. after[k] = fill(k, after[k - 1])
    BY <1>9, <2>1, Zenon
  <2>3. after[k] = [u \in Room(img) |->
                  IF u \in RawOf(img, k)
                  THEN FromFile(img.sections[k].raw_offset + u - img.sections[k].va)
                  ELSE after[k - 1][u]]
    BY <2>2, Zenon DEF fill, RawOf
  <2>4. FilledBy(img, k, after[k])
    BY <2>3, FillStep, Zenon DEF n
  <2> QED  BY <2>1, <2>3, <2>4
<1>12. T \in SUBSET (0 .. n)
  OBVIOUS
<1> HIDE DEF T
<1>13. n \in T
  <2>1. T = 0 .. n
    BY <1>0, <1>10, <1>11, <1>12, UpTo
  <2> QED  BY <1>0, <2>1
<1> QED
  BY <1>1, <1>13 DEF T, n

RelocsAt(img, u) == {k \in Relocations(img) :
                         u \in img.relocs[k].rva .. (img.relocs[k].rva + WordSize - 1)}
SlotsAt(img, u) == {k \in DOMAIN img.imports :
                        u \in img.imports[k].slot .. (img.imports[k].slot + WordSize - 1)}

(* Relocation moves each pointer once for every entry that names it. *)
LEMMA Relocated ==
  ASSUME NEW img \in PeImages
  PROVE  LET filled == Filled(img)
             moved == apply_relocations(img, filled)
         IN /\ DOMAIN moved = Room(img)
            /\ \A u \in Room(img) :
                 /\ moved[u].kind = filled[u].kind /\ moved[u].at = filled[u].at
                 /\ moved[u].moved = IF img.base = MIRAGE_IMAGE_BASE THEN 0
                                     ELSE Cardinality(RelocsAt(img, u))
<1> DEFINE filled == Filled(img)
           moved == apply_relocations(img, filled)
<1>1. DOMAIN filled = Room(img) /\ (\A u \in Room(img) : filled[u] \in Units /\ filled[u].moved = 0)
  BY FilledIsFilled DEF FilledBy
<1> HIDE DEF filled
<1>2. CASE img.base = MIRAGE_IMAGE_BASE
  <2>1. moved = filled
    BY <1>2 DEF apply_relocations
  <2> QED  BY <1>1, <1>2, <2>1, Zenon DEF filled
<1>3. CASE img.base # MIRAGE_IMAGE_BASE
  <2>1. moved = [u \in Room(img) |->
                   [filled[u] EXCEPT !.moved = Cardinality(RelocsAt(img, u))]]
    BY <1>1, <1>3, Zenon DEF apply_relocations, RelocsAt
  <2>2. ASSUME NEW u \in Room(img)
        PROVE  /\ moved[u].kind = filled[u].kind /\ moved[u].at = filled[u].at
               /\ moved[u].moved = Cardinality(RelocsAt(img, u))
    <3>1. moved[u] = [filled[u] EXCEPT !.moved = Cardinality(RelocsAt(img, u))]
      BY <2>1, Zenon
    <3>2. filled[u] \in Units
      BY <1>1
    <3> QED  BY <3>1, <3>2 DEF Units
  <2>3. DOMAIN moved = Room(img)
    BY <2>1
  <2> HIDE DEF moved
  <2> QED  BY <1>3, <2>2, <2>3, Zenon DEF filled, moved
<1> QED
  BY <1>2, <1>3

BoundAt(img, m, bound, u) ==
  /\ SlotsAt(img, u) = {} => bound[u] = m[u]
  /\ \A k : SlotsAt(img, u) = {k} => bound[u] = ThunkAddress(k)

(* Binding writes a slot's own thunk over it, and nothing else. *)
LEMMA Bound ==
  ASSUME NEW img \in PeImages, NEW m
  PROVE  /\ DOMAIN bind_imports(img, m) = DOMAIN m
         /\ \A u \in DOMAIN m : BoundAt(img, m, bind_imports(img, m), u)
<1>0. SUFFICES ASSUME NEW u
               PROVE  /\ DOMAIN bind_imports(img, m) = DOMAIN m
                      /\ u \in DOMAIN m => BoundAt(img, m, bind_imports(img, m), u)
  BY Zenon
<1> DEFINE bound == bind_imports(img, m)
           W == SlotsAt(img, u)
<1>1. bound = [v \in DOMAIN m |->
                 IF SlotsAt(img, v) = {} THEN m[v]
                 ELSE ThunkAddress(CHOOSE k \in SlotsAt(img, v) : \A j \in SlotsAt(img, v) : j <= k)]
  BY Zenon DEF bind_imports, SlotsAt
<1>2. u \in DOMAIN m =>
        bound[u] = IF W = {} THEN m[u] ELSE ThunkAddress(CHOOSE k \in W : \A j \in W : j <= k)
  BY <1>1, Zenon
<1>3. ASSUME NEW k, W = {k}, u \in DOMAIN m PROVE bound[u] = ThunkAddress(k)
  <2>1. k \in DOMAIN img.imports
    BY <1>3 DEF SlotsAt
  <2>2. img.imports \in Seq(Imports)
    BY DEF PeImages
  <2>3. k \in Nat
    BY <2>1, <2>2
  <2>4. k <= k
    BY <2>3
  <2> HIDE DEF W, bound
  <2>5. \E i \in W : \A j \in W : j <= i
    BY <1>3, <2>4
  <2>6. (CHOOSE i \in W : \A j \in W : j <= i) = k
    BY <1>3, <2>5
  <2> QED  BY <1>2, <1>3, <2>6
<1>4. DOMAIN bound = DOMAIN m
  BY <1>1
<1> HIDE DEF bound, W
<1>5. u \in DOMAIN m => BoundAt(img, m, bound, u)
  BY <1>2, <1>3, Zenon DEF BoundAt, W
<1> QED
  BY <1>4, <1>5, Zenon DEF bound

(* The tables of a PE image are sequences. *)
LEMMA PeTypes ==
  ASSUME NEW img \in PeImages
  PROVE  /\ DOMAIN img.imports = 1 .. Len(img.imports) /\ Len(img.imports) \in Nat
         /\ DOMAIN img.relocs = 1 .. Len(img.relocs) /\ Len(img.relocs) \in Nat
         /\ DOMAIN img.sections = 1 .. Len(img.sections) /\ Len(img.sections) \in Nat
         /\ \A k \in DOMAIN img.imports : img.imports[k].slot \in Nat
         /\ \A k \in DOMAIN img.relocs : img.relocs[k].rva \in Nat
<1>1. img.imports \in Seq(Imports) /\ img.relocs \in Seq(RelocEntries)
      /\ img.sections \in Seq(Sections)
  BY DEF PeImages
<1>2. ASSUME NEW k \in DOMAIN img.imports PROVE img.imports[k].slot \in Nat
  <2>1. img.imports[k] \in Imports
    BY <1>1
  <2> QED  BY <2>1 DEF Imports
<1>3. ASSUME NEW k \in DOMAIN img.relocs PROVE img.relocs[k].rva \in Nat
  <2>1. img.relocs[k] \in RelocEntries
    BY <1>1
  <2> QED  BY <2>1 DEF RelocEntries
<1> QED
  BY <1>1, <1>2, <1>3

(* Slots that do not overlap: at most one import writes a unit. *)
LEMMA SlotsDiffer ==
  ASSUME NEW img \in PeImages, SlotsApart(img), NEW k \in DOMAIN img.imports,
         NEW u \in img.imports[k].slot .. (img.imports[k].slot + WordSize - 1)
  PROVE  SlotsAt(img, u) = {k}
<1> DEFINE K == DOMAIN img.imports
           g == [i \in K |-> img.imports[i].slot]
<1>1. /\ K = 1 .. Len(img.imports) /\ Len(img.imports) \in Nat
      /\ \A i \in K : img.imports[i].slot \in Nat
  BY PeTypes
<1>2. IsFiniteSet(K) /\ Cardinality(K) = Len(img.imports)
  <2> DEFINE n == Len(img.imports)
  <2>1. n \in Nat
    BY <1>1
  <2> HIDE DEF n
  <2>2. IsFiniteSet(1 .. n) /\ Cardinality(1 .. n) = IF 1 > n THEN 0 ELSE n - 1 + 1
    BY <2>1, FS_Interval
  <2>3. Cardinality(1 .. n) = n
    BY <2>1, <2>2
  <2> QED  BY <1>1, <2>2, <2>3 DEF n
<1>3. g \in [K -> Nat]
  BY <1>1
<1>4. \A i \in K : g[i] = img.imports[i].slot
  OBVIOUS
<1>5. UNION {g[i] .. (g[i] + WordSize - 1) : i \in K} = SlotUnits(img)
  <2>1. {g[i] .. (g[i] + WordSize - 1) : i \in K} =
        {img.imports[i].slot .. (img.imports[i].slot + WordSize - 1) : i \in K}
    OBVIOUS
  <2> QED  BY <2>1 DEF SlotUnits
<1>6. Cardinality(UNION {g[i] .. (g[i] + WordSize - 1) : i \in K}) = WordSize * Cardinality(K)
  BY <1>2, <1>5 DEF SlotsApart
<1> HIDE DEF K, g
<1>7. ASSUME NEW j \in K, u \in g[j] .. (g[j] + WordSize - 1) PROVE j = k
  <2>1. k \in K /\ u \in g[k] .. (g[k] + WordSize - 1)
    BY <1>4 DEF K
  <2> QED  BY <1>2, <1>3, <1>6, <1>7, <2>1, WordsApart
<1> QED
  BY <1>4, <1>7 DEF SlotsAt, K

(* Listed pointers that do not overlap: a unit is moved once or not at all. *)
LEMMA MovedOnce ==
  ASSUME NEW img \in PeImages, NEW u,
         LET pointers == {img.relocs[k].rva : k \in Relocations(img)}
         IN Cardinality(UNION {r .. (r + WordSize - 1) : r \in pointers}) =
              WordSize * Cardinality(Relocations(img))
  PROVE  Cardinality(RelocsAt(img, u)) =
           IF u \in UNION {r .. (r + WordSize - 1) : r \in
                             {img.relocs[k].rva : k \in Relocations(img)}} THEN 1 ELSE 0
<1> DEFINE K == Relocations(img)
           g == [i \in K |-> img.relocs[i].rva]
           U == UNION {r .. (r + WordSize - 1) : r \in {img.relocs[k].rva : k \in K}}
<1>1. /\ DOMAIN img.relocs = 1 .. Len(img.relocs) /\ Len(img.relocs) \in Nat
      /\ \A i \in DOMAIN img.relocs : img.relocs[i].rva \in Nat
  BY PeTypes
<1>2. K \subseteq DOMAIN img.relocs
  BY DEF Relocations
<1>3. IsFiniteSet(K)
  <2>1. IsFiniteSet(1 .. Len(img.relocs))
    BY <1>1, FS_Interval
  <2> QED  BY <1>1, <1>2, <2>1, FS_Subset
<1>4. g \in [K -> Nat] /\ \A i \in K : g[i] = img.relocs[i].rva
  BY <1>1, <1>2
<1>5. U = UNION {g[i] .. (g[i] + WordSize - 1) : i \in K}
  <2>1. \A x : x \in U <=> \E i \in K : x \in img.relocs[i].rva .. (img.relocs[i].rva + WordSize - 1)
    OBVIOUS
  <2>2. \A x : x \in U <=> \E i \in K : x \in g[i] .. (g[i] + WordSize - 1)
    BY <1>4, <2>1
  <2> HIDE DEF U, g
  <2> QED  BY <2>2
<1>6. Cardinality(UNION {g[i] .. (g[i] + WordSize - 1) : i \in K}) = WordSize * Cardinality(K)
  BY <1>5
<1>7. RelocsAt(img, u) = {i \in K : u \in g[i] .. (g[i] + WordSize - 1)}
  BY <1>4 DEF RelocsAt
<1> HIDE DEF K, g
<1>8. CASE u \in U
  <2>1. PICK i \in K : u \in g[i] .. (g[i] + WordSize - 1)
    BY <1>5, <1>8
  <2>2. \A j \in K : u \in g[j] .. (g[j] + WordSize - 1) => j = i
    BY <1>3, <1>4, <1>6, <2>1, WordsApart
  <2>3. RelocsAt(img, u) = {i}
    BY <1>7, <2>1, <2>2
  <2>4. Cardinality({i}) = 1
    BY FS_Singleton
  <2> QED  BY <1>8, <2>3, <2>4 DEF K
<1>9. CASE u \notin U
  <2>1. RelocsAt(img, u) = {}
    BY <1>5, <1>7, <1>9
  <2> QED  BY <1>9, <2>1, FS_EmptySet DEF K
<1> QED
  BY <1>8, <1>9

(* The memory of a loaded Windows image is its file's, each pointer moved once
   and each slot bound to its own import's thunk. *)
LEMMA PeMemoryIsSound ==
  ASSUME NEW img \in PeImages, NEW nx \in BOOLEAN, load_pe(img, nx).outcome = "loaded"
  PROVE  PeMemorySound(img, load_pe(img, nx))
<1> DEFINE filled == Filled(img)
           moved == apply_relocations(img, filled)
           memory == load_pe(img, nx).memory
           pointers == {img.relocs[k].rva : k \in Relocations(img)}
           word(r)  == r .. (r + WordSize - 1)
           words == UNION {word(r) : r \in pointers}
           moving   == IF img.base = MIRAGE_IMAGE_BASE THEN {} ELSE words
           raw(i)   == img.sections[i].va .. (img.sections[i].va + img.sections[i].raw_size - 1)
           plain    == DOMAIN memory \ SlotUnits(img)
<1>1. memory = bind_imports(img, moved)
  BY LoadedPe, Zenon DEF PeLoaded
<1>2. /\ DOMAIN moved = Room(img)
      /\ \A u \in Room(img) :
            /\ moved[u].kind = filled[u].kind /\ moved[u].at = filled[u].at
            /\ moved[u].moved = IF img.base = MIRAGE_IMAGE_BASE THEN 0
                                ELSE Cardinality(RelocsAt(img, u))
  BY Relocated, Zenon
<1>3. FilledBy(img, Len(img.sections), filled)
  BY FilledIsFilled
<1> HIDE DEF filled, moved, memory
<1>4. /\ DOMAIN memory \subseteq Room(img)
      /\ \A u \in DOMAIN memory :
            /\ SlotsAt(img, u) = {} => memory[u] = moved[u]
            /\ \A k : SlotsAt(img, u) = {k} => memory[u] = ThunkAddress(k)
  <2>1. DOMAIN memory = DOMAIN moved /\ \A u \in DOMAIN moved : BoundAt(img, moved, memory, u)
    BY <1>1, Bound
  <2> QED  BY <1>2, <2>1, Zenon DEF BoundAt
<1>5. SlotsApart(img) =>
        \A k \in DOMAIN img.imports :
           \A u \in word(img.imports[k].slot) \intersect DOMAIN memory :
              memory[u] = ThunkAddress(k)
  BY <1>4, SlotsDiffer
<1>6. ASSUME NEW u \in plain PROVE memory[u] = moved[u] /\ u \in Room(img)
  <2>1. u \in DOMAIN memory /\ u \notin SlotUnits(img)
    OBVIOUS
  <2>2. SlotsAt(img, u) = {}
    BY <2>1 DEF SlotsAt, SlotUnits
  <2> QED  BY <1>4, <2>1, <2>2
<1>7. Cardinality(words) = WordSize * Cardinality(Relocations(img)) =>
        \A u \in plain : memory[u].moved = (IF u \in moving THEN 1 ELSE 0)
  <2> SUFFICES ASSUME Cardinality(words) = WordSize * Cardinality(Relocations(img)),
                      NEW u \in plain
               PROVE  memory[u].moved = (IF u \in moving THEN 1 ELSE 0)
    BY Zenon
  <2>1. Cardinality(RelocsAt(img, u)) = IF u \in words THEN 1 ELSE 0
    BY MovedOnce, Zenon
  <2>2. memory[u].moved = IF img.base = MIRAGE_IMAGE_BASE THEN 0
                          ELSE Cardinality(RelocsAt(img, u))
    BY <1>2, <1>6
  <2> HIDE DEF words
  <2>3. CASE img.base = MIRAGE_IMAGE_BASE
    BY <2>2, <2>3
  <2>4. CASE img.base # MIRAGE_IMAGE_BASE
    BY <2>1, <2>2, <2>4
  <2> QED  BY <2>3, <2>4
<1>8. \A u \in plain :
        LET from == {i \in DOMAIN img.sections : u \in raw(i)}
        IN /\ from = {} /\ u >= img.headers => memory[u].kind = "zero"
           /\ \A i \in from : from = {i} =>
                 memory[u].at = img.sections[i].raw_offset + u - img.sections[i].va
  <2> TAKE u \in plain
  <2> DEFINE from == {i \in DOMAIN img.sections : u \in raw(i)}
  <2>1. from = From(img, Len(img.sections), u)
    BY PeTypes DEF From, RawOf
  <2>2. memory[u].kind = filled[u].kind /\ memory[u].at = filled[u].at /\ u \in Room(img)
    BY <1>2, <1>6
  <2> HIDE DEF from
  <2>3. /\ from = {} /\ u >= img.headers => memory[u].kind = "zero"
        /\ \A i \in from : from = {i} =>
              memory[u].at = img.sections[i].raw_offset + u - img.sections[i].va
    BY <1>3, <2>1, <2>2 DEF FilledBy
  <2> QED  BY <2>3 DEF from
<1> QED
  BY <1>5, <1>7, <1>8, Zenon DEF PeMemorySound, memory

(* The register moves of a thunk deliver the caller's arguments in order. *)
LEMMA ThunksDeliver == \A args \in 0 .. 3 : ArgumentsArrive(args)
<1> SUFFICES ASSUME NEW args \in 0 .. 3 PROVE ArgumentsArrive(args)
  OBVIOUS
<1> DEFINE Names == {"rcx", "rdx", "r8", "rdi", "rsi"}
           all == << <<"rdi", "rcx">>, <<"rsi", "rdx">>, <<"rdx", "r8">> >>
           moves == generate_thunk(args)
           n == Len(moves)
           first == [r \in Names |-> r]
           move(i, r) == [r EXCEPT ![moves[i][1]] = r[moves[i][2]]]
           step(f, i) == IF i = 0 THEN first ELSE move(i, f[i - 1])
           regs == CHOOSE f : f = [i \in 0 .. n |-> step(f, i)]
           S == [Names -> Names]
           F == [i \in 1 .. n |-> [r \in S |-> move(i, r)]]
<1>1. ArgumentsArrive(args) <=>
        \A k \in 1 .. args : regs[n][<<"rdi", "rsi", "rdx">>[k]] = <<"rcx", "rdx", "r8">>[k]
  BY DEF ArgumentsArrive
<1>2. n = args /\ \A i \in 1 .. n : moves[i] = all[i]
  BY DEF generate_thunk
<1>3. /\ all[1][1] = "rdi" /\ all[1][2] = "rcx" /\ all[2][1] = "rsi" /\ all[2][2] = "rdx"
      /\ all[3][1] = "rdx" /\ all[3][2] = "r8"
  OBVIOUS
<1> HIDE DEF moves, n, all
<1>4. ASSUME NEW i \in 1 .. n PROVE moves[i][1] \in Names /\ moves[i][2] \in Names
  <2>1. i = 1 \/ i = 2 \/ i = 3
    BY <1>2
  <2> QED  BY <1>2, <1>3, <2>1
<1>5. first \in S
  OBVIOUS
<1>6. F \in [1 .. n -> [S -> S]]
  BY <1>4
<1> HIDE DEF move, first, S
<1>7. PICK f \in [0 .. n -> S] : Iterated(f, n, first, F)
  <2>1. n \in Nat
    BY <1>2
  <2> HIDE DEF F
  <2> QED  BY <1>5, <1>6, <2>1, Iterates
<1>8. f = [i \in 0 .. n |-> step(f, i)]
  <2>1. ASSUME NEW i \in 0 .. n PROVE f[i] = step(f, i)
    <3>1. f[i] = IF i = 0 THEN first ELSE F[i][f[i - 1]]
      <4> HIDE DEF F
      <4> QED  BY <1>7, Zenon DEF Iterated
    <3>2. ASSUME i # 0 PROVE F[i][f[i - 1]] = move(i, f[i - 1])
      <4>1. i \in 1 .. n /\ f[i - 1] \in S
        BY <1>2, <3>2
      <4> QED  BY <4>1
    <3> HIDE DEF F
    <3> QED  BY <3>1, <3>2
  <2>2. f = [i \in 0 .. n |-> f[i]]
    OBVIOUS
  <2> HIDE DEF step
  <2> QED  BY <2>1, <2>2, Zenon
<1>9. regs = [i \in 0 .. n |-> step(regs, i)]
  <2> HIDE DEF step
  <2> QED  BY <1>8, Zenon
<1>10. \A i \in 0 .. n : regs[i] = step(regs, i)
  <2> HIDE DEF step, regs
  <2> QED  BY <1>9, Zenon
<1> HIDE DEF regs
<1>11. regs[0] = first
  BY <1>2, <1>10
<1>12. ASSUME NEW i \in 1 .. n PROVE regs[i] = move(i, regs[i - 1])
  <2>1. i \in 0 .. n /\ i # 0
    BY <1>2
  <2> QED  BY <1>10, <2>1, Zenon
<1>13. 1 \in 1 .. n => regs[1] = [first EXCEPT !["rdi"] = first["rcx"]]
  <2> SUFFICES ASSUME 1 \in 1 .. n PROVE regs[1] = [first EXCEPT !["rdi"] = first["rcx"]]
    OBVIOUS
  <2>1. regs[1] = move(1, regs[0])
    BY <1>12
  <2>2. moves[1][1] = "rdi" /\ moves[1][2] = "rcx"
    BY <1>2, <1>3
  <2> QED  BY <1>11, <2>1, <2>2 DEF move
<1>14. 2 \in 1 .. n => regs[2] = [regs[1] EXCEPT !["rsi"] = regs[1]["rdx"]]
  BY <1>2, <1>3, <1>12 DEF move
<1>15. 3 \in 1 .. n => regs[3] = [regs[2] EXCEPT !["rdx"] = regs[2]["r8"]]
  BY <1>2, <1>3, <1>12 DEF move
<1>16. CASE args = 0
  BY <1>1, <1>16
<1>17. CASE args = 1
  <2>1. regs[1] = [first EXCEPT !["rdi"] = first["rcx"]]
    BY <1>2, <1>13, <1>17
  <2>2. regs[1]["rdi"] = "rcx"
    BY <2>1 DEF first
  <2> QED  BY <1>1, <1>2, <1>17, <2>2
<1>18. CASE args = 2
  <2>1. /\ regs[1] = [first EXCEPT !["rdi"] = first["rcx"]]
        /\ regs[2] = [regs[1] EXCEPT !["rsi"] = regs[1]["rdx"]]
    BY <1>2, <1>13, <1>14, <1>18
  <2>2. regs[2]["rdi"] = "rcx" /\ regs[2]["rsi"] = "rdx"
    BY <2>1 DEF first
  <2> QED  BY <1>1, <1>2, <1>18, <2>2
<1>19. CASE args = 3
  <2>1. /\ regs[1] = [first EXCEPT !["rdi"] = first["rcx"]]
        /\ regs[2] = [regs[1] EXCEPT !["rsi"] = regs[1]["rdx"]]
        /\ regs[3] = [regs[2] EXCEPT !["rdx"] = regs[2]["r8"]]
    BY <1>2, <1>13, <1>14, <1>15, <1>19
  <2>2. regs[3]["rdi"] = "rcx" /\ regs[3]["rsi"] = "rdx" /\ regs[3]["rdx"] = "r8"
    BY <2>1 DEF first
  <2> QED  BY <1>1, <1>2, <1>19, <2>2
<1> QED
  BY <1>16, <1>17, <1>18, <1>19

-----------------------------------------------------------------------------
(* Sequences put end to end. *)

(* The first part of a concatenation. *)
LEMMA Joined ==
  ASSUME NEW S, NEW s \in Seq(S), NEW t \in Seq(S)
  PROVE  /\ s \o t \in Seq(S) /\ Len(s \o t) = Len(s) + Len(t)
         /\ \A i \in 1 .. Len(s) : (s \o t)[i] = s[i]
  OBVIOUS

(* The second part of a concatenation. *)
LEMMA JoinedRight ==
  ASSUME NEW S, NEW s \in Seq(S), NEW t \in Seq(S), NEW j \in 1 .. Len(t)
  PROVE  (s \o t)[Len(s) + j] = t[j]
  OBVIOUS

-----------------------------------------------------------------------------
(* build_archive: the directories.  Names is any set of path components. *)

NoName == ""        \* what stands before the first slash

(* The root and what lies above it are paths. *)
LEMMA RootIsPath ==
  ASSUME NEW Names, NoName \in Names
  PROVE  Root \in Seq(Names) /\ NoPath \in Seq(Names)
<1>1. ASSUME NEW x \in Names PROVE <<x, x>> \in Seq(Names)
  OBVIOUS
<1>2. Root = <<NoName, NoName>>
  BY Zenon DEF Root, NoName
<1>3. NoPath \in Seq(Names)
  BY DEF NoPath
<1> QED
  BY <1>1, <1>2, <1>3

Parents(P) == {parent_of(p) : p \in P}

(* The climb from the files' directories to the root, as the sets it goes through. *)
Climbs(c, paths, Names) ==
  /\ c \in [0 .. MaxPath -> {P \in SUBSET Seq(Names) : IsFiniteSet(P)}]
  /\ c[0] = {Root} \union Parents(paths)
  /\ \A k \in 1 .. MaxPath : c[k] = c[k - 1] \union Parents(c[k - 1])
  /\ Directories(paths) = c[MaxPath] \ {NoPath}

(* The parent of a path is a path. *)
LEMMA ParentIsPath ==
  ASSUME NEW Names, NoName \in Names, NEW p \in Seq(Names)
  PROVE  parent_of(p) \in Seq(Names)
<1>1. Root \in Seq(Names) /\ NoPath \in Seq(Names)
  BY RootIsPath
<1>2. Len(p) - 1 <= Len(p) /\ Len(p) \in Nat
  OBVIOUS
<1>3. ASSUME Len(p) > 2 PROVE SubSeq(p, 1, Len(p) - 1) \in Seq(Names)
  BY <1>2, <1>3, SMT
<1>4. parent_of(p) = NoPath \/ parent_of(p) = Root
        \/ (Len(p) > 2 /\ parent_of(p) = SubSeq(p, 1, Len(p) - 1))
  <2>0. \A k \in Nat : k < 2 \/ k = 2 \/ (k > 2 /\ ~(k < 2) /\ k # 2)
    OBVIOUS
  <2>1. Len(p) < 2 \/ Len(p) = 2 \/ (Len(p) > 2 /\ ~(Len(p) < 2) /\ Len(p) # 2)
    BY <1>2, <2>0, Zenon
  <2> QED  BY <2>1, Zenon DEF parent_of
<1> QED
  BY <1>1, <1>3, <1>4

(* Finitely many paths have finitely many parents. *)
LEMMA ParentsFinite ==
  ASSUME NEW Names, NoName \in Names, NEW P \in SUBSET Seq(Names), IsFiniteSet(P)
  PROVE  Parents(P) \in SUBSET Seq(Names) /\ IsFiniteSet(Parents(P))
<1>1. Parents(P) \in SUBSET Seq(Names)
  BY ParentIsPath DEF Parents
<1> DEFINE f == [p \in P |-> parent_of(p)]
<1>2. f \in Surjection(P, Parents(P))
  BY DEF Surjection, Parents
<1>3. IsFiniteSet(Parents(P))
  <2> HIDE DEF f
  <2> QED  BY <1>2, FS_Surjection DEF ExistsSurjection
<1> QED
  BY <1>1, <1>3

(* The directories above the packed paths, level by level. *)
LEMMA ClimbExists ==
  ASSUME NEW Names, NoName \in Names, NEW paths \in SUBSET Seq(Names), IsFiniteSet(paths)
  PROVE  \E c : Climbs(c, paths, Names)
<1> DEFINE n == MaxPath
           S == {P \in SUBSET Seq(Names) : IsFiniteSet(P)}
           first == {Root} \union {parent_of(p) : p \in paths}
           grow(P) == P \union {parent_of(p) : p \in P}
           step(f, k) == IF k = 0 THEN first ELSE f[k - 1] \union {parent_of(p) : p \in f[k - 1]}
           climb == CHOOSE f : f = [k \in 0 .. n |-> step(f, k)]
           F == [k \in 1 .. n |-> [P \in S |-> grow(P)]]
<1>0. n \in Nat
  BY SizeAssumption
<1>1. Directories(paths) = climb[n] \ {NoPath}
  BY DEF Directories
<1>2. first \in S
  <2>0. Root \in Seq(Names)
    BY RootIsPath
  <2>1. Root \in Seq(Names) /\ IsFiniteSet({Root})
    <3>1. IsFiniteSet({Root})
      BY FS_Singleton
    <3> QED  BY <2>0, <3>1
  <2>2. Parents(paths) \in SUBSET Seq(Names) /\ IsFiniteSet(Parents(paths))
    BY ParentsFinite
  <2>3. IsFiniteSet({Root} \union Parents(paths))
    BY <2>1, <2>2, FS_Union
  <2> QED  BY <2>1, <2>2, <2>3 DEF Parents
<1>3. \A P \in S : grow(P) \in S
  <2> TAKE P \in S
  <2>1. Parents(P) \in SUBSET Seq(Names) /\ IsFiniteSet(Parents(P))
    BY ParentsFinite
  <2>2. IsFiniteSet(P \union Parents(P))
    BY <2>1, FS_Union
  <2> QED  BY <2>1, <2>2 DEF Parents
<1>4. F \in [1 .. n -> [S -> S]]
  <2> HIDE DEF grow, S
  <2> QED  BY <1>3
<1>5. \A f, k : k # 0 => step(f, k) = grow(f[k - 1])
  OBVIOUS
<1>6. \A f : step(f, 0) = first
  OBVIOUS
<1> HIDE DEF n, S, first, grow, step
<1>7. PICK f \in [0 .. n -> S] : Iterated(f, n, first, F)
  <2> HIDE DEF F
  <2> QED  BY <1>0, <1>2, <1>4, Iterates
<1>8. f = [k \in 0 .. n |-> step(f, k)]
  <2>1. ASSUME NEW k \in 0 .. n PROVE f[k] = step(f, k)
    <3>1. f[k] = IF k = 0 THEN first ELSE F[k][f[k - 1]]
      <4> HIDE DEF F
      <4> QED  BY <1>7, Zenon DEF Iterated
    <3>2. ASSUME k # 0 PROVE F[k][f[k - 1]] = grow(f[k - 1])
      <4>1. k \in 1 .. n /\ k - 1 \in 0 .. n
        BY <1>0, <3>2
      <4>2. f[k - 1] \in S
        BY <1>7, <4>1, Zenon
      <4> QED  BY <4>1, <4>2
    <3> HIDE DEF F
    <3> QED  BY <1>5, <1>6, <3>1, <3>2
  <2>2. f = [k \in 0 .. n |-> f[k]]
    OBVIOUS
  <2> QED  BY <2>1, <2>2, Zenon
<1>9. climb = [k \in 0 .. n |-> step(climb, k)]
  BY <1>8, Zenon
<1>10. \A k \in 0 .. n : climb[k] = step(climb, k)
  <2> HIDE DEF climb
  <2> QED  BY <1>9, Zenon
<1>11. DOMAIN climb = 0 .. n /\ climb = [k \in 0 .. n |-> climb[k]]
  <2> HIDE DEF climb
  <2>1. DOMAIN climb = 0 .. n
    BY <1>9, Zenon
  <2> QED  BY <1>9, <1>10, <2>1, Zenon
<1> HIDE DEF climb
<1>12. climb[0] = first
  <2>1. 0 \in 0 .. n
    BY <1>0
  <2> QED  BY <1>6, <1>10, <2>1, Zenon
<1>13. ASSUME NEW k \in 1 .. n PROVE climb[k] = grow(climb[k - 1]) /\ k - 1 \in 0 .. n
  <2>1. k \in 0 .. n /\ k # 0 /\ k - 1 \in 0 .. n
    BY <1>0
  <2> QED  BY <1>5, <1>10, <2>1, Zenon
<1> DEFINE T == {k \in 0 .. n : climb[k] \in S}
<1>14. 0 \in T
  BY <1>0, <1>2, <1>12
<1>15. \A k \in 1 .. n : k - 1 \in T => k \in T
  <2> SUFFICES ASSUME NEW k \in 1 .. n, climb[k - 1] \in S
               PROVE  k \in 0 .. n /\ climb[k] \in S
    BY Zenon
  <2> QED  BY <1>0, <1>3, <1>13
<1>16. T \in SUBSET (0 .. n)
  OBVIOUS
<1> HIDE DEF T
<1>17. T = 0 .. n
  BY <1>0, <1>14, <1>15, <1>16, UpTo
<1>18. climb \in [0 .. n -> S]
  BY <1>11, <1>17 DEF T
<1>19. Climbs(climb, paths, Names)
  <2>1. climb[0] = {Root} \union Parents(paths)
    BY <1>12 DEF first, Parents
  <2>2. \A k \in 1 .. n : climb[k] = climb[k - 1] \union Parents(climb[k - 1])
    BY <1>13 DEF grow, Parents
  <2> QED  BY <1>1, <1>18, <2>1, <2>2 DEF Climbs, n, S
<1> QED
  BY <1>19

(* What the climb ends with: finitely many paths, none of them empty. *)
LEMMA DirectoriesFinite ==
  ASSUME NEW Names, NoName \in Names, NEW paths \in SUBSET Seq(Names), IsFiniteSet(paths)
  PROVE  /\ Directories(paths) \in SUBSET Seq(Names)
         /\ IsFiniteSet(Directories(paths))
<1>1. PICK c : Climbs(c, paths, Names)
  BY ClimbExists
<1>2. MaxPath \in 0 .. MaxPath
  BY SizeAssumption
<1>3. c[MaxPath] \in {P \in SUBSET Seq(Names) : IsFiniteSet(P)}
  BY <1>1, <1>2, Zenon DEF Climbs
<1>4. Directories(paths) = c[MaxPath] \ {NoPath}
  BY <1>1, Zenon DEF Climbs
<1>5. Directories(paths) \subseteq c[MaxPath]
  BY <1>4
<1>6. IsFiniteSet(Directories(paths))
  BY <1>3, <1>5, FS_Subset
<1> QED
  BY <1>3, <1>5, <1>6

-----------------------------------------------------------------------------
(* build_archive: the table and the data.  Data is any set of cells. *)

Files(Names, Data) == [path : Seq(Names), data : Seq(Data)]
PathsOf(files) == {files[i].path : i \in DOMAIN files}
DirEntry(p) == [path |-> p, data |-> <<>>, dir |-> TRUE]
FileEntry(f) == [path |-> f.path, data |-> f.data, dir |-> FALSE]
Rows(Names, Data) == [path : Seq(Names), data : Seq(Data), dir : BOOLEAN]

(* The table lists m directories in the order d, then the files. *)
Lists(L, files, m, d) ==
  /\ m \in Nat /\ d \in Bijection(1 .. m, Directories(PathsOf(files)))
  /\ Len(L) = m + Len(files)
  /\ \A i \in 1 .. m : L[i] = DirEntry(d[i])
  /\ \A i \in 1 .. Len(files) : L[m + i] = FileEntry(files[i])

(* An archive's files have finitely many paths. *)
LEMMA PathsAreFinite ==
  ASSUME NEW Names, NEW Data, NEW files \in Seq(Files(Names, Data))
  PROVE  PathsOf(files) \in SUBSET Seq(Names) /\ IsFiniteSet(PathsOf(files))
<1> DEFINE paths == PathsOf(files)
<1>1. paths \in SUBSET Seq(Names)
  <2>1. \A i \in DOMAIN files : files[i] \in Files(Names, Data)
    OBVIOUS
  <2>2. \A i \in DOMAIN files : files[i].path \in Seq(Names)
    BY <2>1 DEF Files
  <2> QED  BY <2>2, Zenon DEF PathsOf
<1>2. IsFiniteSet(paths)
  <2> DEFINE f == [i \in 1 .. Len(files) |-> files[i].path]
  <2>1. f \in Surjection(1 .. Len(files), paths)
    BY DEF Surjection, PathsOf
  <2>2. IsFiniteSet(1 .. Len(files))
    BY FS_Interval
  <2> HIDE DEF f, paths
  <2> QED  BY <2>1, <2>2, FS_Surjection DEF ExistsSurjection
<1> QED
  BY <1>1, <1>2

(* The table lists every directory and every file once. *)
LEMMA ListedExact ==
  ASSUME NEW Names, NoName \in Names, NEW Data, NEW files \in Seq(Files(Names, Data))
  PROVE  /\ Listed(files) \in Seq(Rows(Names, Data))
         /\ \E m, d : Lists(Listed(files), files, m, d)
<1> DEFINE paths == PathsOf(files)
           dirs == Directories(paths)
           m == Cardinality(dirs)
           order == CHOOSE d \in Bijection(1 .. Cardinality(dirs), dirs) : TRUE
           above == [i \in 1 .. Cardinality(dirs) |->
                       [path |-> order[i], data |-> <<>>, dir |-> TRUE]]
           below == [i \in DOMAIN files |->
                       [path |-> files[i].path, data |-> files[i].data, dir |-> FALSE]]
<1>1. Listed(files) = above \o below
  BY Zenon DEF Listed, PathsOf
<1>2. paths \in SUBSET Seq(Names) /\ IsFiniteSet(paths)
  BY PathsAreFinite
<1> HIDE DEF paths
<1>4. dirs \in SUBSET Seq(Names) /\ IsFiniteSet(dirs)
  BY <1>2, DirectoriesFinite
<1> HIDE DEF dirs
<1>5. m \in Nat /\ \E d : d \in Bijection(1 .. m, dirs)
  BY <1>4, FS_CardinalityType, Zenon DEF ExistsBijection
<1>6. order \in Bijection(1 .. m, dirs)
  BY <1>5, Zenon
<1> HIDE DEF m, order
<1>7. above = [i \in 1 .. m |-> [path |-> order[i], data |-> <<>>, dir |-> TRUE]]
  BY DEF m
<1>8. \A i \in 1 .. m : order[i] \in Seq(Names)
  BY <1>4, <1>6 DEF Bijection, Injection
<1>9. above \in Seq(Rows(Names, Data)) /\ Len(above) = m
  <2>1. \A i \in 1 .. m : [path |-> order[i], data |-> <<>>, dir |-> TRUE] \in Rows(Names, Data)
    BY <1>8 DEF Rows
  <2> HIDE DEF above, dirs
  <2> QED  BY <1>5, <1>7, <2>1
<1>10. below \in Seq(Rows(Names, Data)) /\ Len(below) = Len(files)
  <2>1. \A i \in 1 .. Len(files) : files[i] \in Files(Names, Data)
    OBVIOUS
  <2>2. \A i \in 1 .. Len(files) :
          [path |-> files[i].path, data |-> files[i].data, dir |-> FALSE] \in Rows(Names, Data)
    BY <2>1 DEF Rows, Files
  <2> QED  BY <2>2
<1>11. \A i \in 1 .. m : above[i] = DirEntry(order[i])
  BY <1>7 DEF DirEntry
<1>12. \A i \in 1 .. Len(files) : below[i] = FileEntry(files[i])
  <2>1. DOMAIN files = 1 .. Len(files)
    OBVIOUS
  <2> QED  BY <2>1, Zenon DEF FileEntry
<1> HIDE DEF above, below
<1>13. Listed(files) \in Seq(Rows(Names, Data)) /\ Len(Listed(files)) = m + Len(files)
  <2>1. above \o below \in Seq(Rows(Names, Data))
        /\ Len(above \o below) = Len(above) + Len(below)
    BY <1>9, <1>10, Joined, Zenon
  <2> QED  BY <1>1, <1>9, <1>10, <2>1, Zenon
<1>14. \A i \in 1 .. m : Listed(files)[i] = above[i]
  BY <1>1, <1>9, <1>10, Joined
<1>15. \A i \in 1 .. Len(files) : Listed(files)[m + i] = below[i]
  <2>1. \A i \in 1 .. Len(below) : (above \o below)[Len(above) + i] = below[i]
    <3> TAKE i \in 1 .. Len(below)
    <3> QED  BY <1>9, <1>10, JoinedRight, Zenon
  <2> QED  BY <1>1, <1>9, <1>10, <2>1, Zenon
<1>16. Lists(Listed(files), files, m, order)
  <2>1. order \in Bijection(1 .. m, Directories(PathsOf(files)))
    BY <1>6 DEF dirs, paths
  <2> QED  BY <1>5, <1>11, <1>12, <1>13, <1>14, <1>15, <2>1 DEF Lists
<1> QED
  BY <1>13, <1>16

(* Blobs(L) as the sequences it goes through. *)
Concats(B, L, Data) ==
  /\ B \in [0 .. Len(L) -> Seq(Data)]
  /\ B[0] = <<>>
  /\ \A k \in 1 .. Len(L) : B[k] = B[k - 1] \o L[k].data

(* The data area is the concatenation of the rows' data. *)
LEMMA BlobsExact ==
  ASSUME NEW Names, NEW Data, NEW L \in Seq(Rows(Names, Data))
  PROVE  Concats(Blobs(L), L, Data)
<1> DEFINE n == Len(L)
           S == Seq(Data)
           step(f, k) == IF k = 0 THEN <<>> ELSE f[k - 1] \o L[k].data
           blob == CHOOSE f : f = [k \in 0 .. n |-> step(f, k)]
           F == [k \in 1 .. n |-> [s \in S |-> s \o L[k].data]]
<1>0. n \in Nat
  OBVIOUS
<1>1. Blobs(L) = blob
  BY DEF Blobs
<1>2. <<>> \in S
  OBVIOUS
<1>3. \A k \in 1 .. n : L[k].data \in S
  <2> TAKE k \in 1 .. n
  <2>1. L[k] \in Rows(Names, Data)
    OBVIOUS
  <2> QED  BY <2>1 DEF Rows
<1>4. \A k \in 1 .. n : \A s \in S : s \o L[k].data \in S
  BY <1>3
<1>5. F \in [1 .. n -> [S -> S]]
  <2> HIDE DEF n, S
  <2> QED  BY <1>4
<1> HIDE DEF n, S
<1>6. PICK f \in [0 .. n -> S] : Iterated(f, n, <<>>, F)
  <2> HIDE DEF F
  <2> QED  BY <1>0, <1>2, <1>5, Iterates
<1>7. f = [k \in 0 .. n |-> step(f, k)]
  <2>1. ASSUME NEW k \in 0 .. n PROVE f[k] = step(f, k)
    <3>1. f[k] = IF k = 0 THEN <<>> ELSE F[k][f[k - 1]]
      <4> HIDE DEF F
      <4> QED  BY <1>6, Zenon DEF Iterated
    <3>2. ASSUME k # 0 PROVE F[k][f[k - 1]] = f[k - 1] \o L[k].data
      <4>1. k \in 1 .. n /\ k - 1 \in 0 .. n
        BY <1>0, <3>2
      <4>2. f[k - 1] \in S
        BY <1>6, <4>1, Zenon
      <4> QED  BY <4>1, <4>2, Zenon
    <3> HIDE DEF F
    <3> QED  BY <3>1, <3>2, Zenon
  <2>2. f = [k \in 0 .. n |-> f[k]]
    OBVIOUS
  <2> HIDE DEF step
  <2> QED  BY <2>1, <2>2, Zenon
<1>8. blob = [k \in 0 .. n |-> step(blob, k)]
  <2> HIDE DEF step
  <2> QED  BY <1>7, Zenon
<1>9. DOMAIN blob = 0 .. n /\ \A k \in 0 .. n : blob[k] = step(blob, k)
  <2> HIDE DEF step, blob
  <2> QED  BY <1>8, Zenon
<1>10. blob = [k \in 0 .. n |-> blob[k]]
  <2> HIDE DEF step, blob
  <2> QED  BY <1>8, <1>9, Zenon
<1> HIDE DEF blob
<1>11. blob[0] = <<>>
  <2>1. 0 \in 0 .. n
    BY <1>0
  <2> QED  BY <1>9, <2>1, Zenon
<1>12. \A k \in 1 .. n : blob[k] = blob[k - 1] \o L[k].data
  <2> TAKE k \in 1 .. n
  <2>1. k \in 0 .. n /\ k # 0
    BY <1>0
  <2> QED  BY <1>9, <2>1, Zenon
<1> DEFINE T == {k \in 0 .. n : blob[k] \in S}
<1>13. 0 \in T
  BY <1>0, <1>2, <1>11
<1>14. \A k \in 1 .. n : k - 1 \in T => k \in T
  <2> SUFFICES ASSUME NEW k \in 1 .. n, blob[k - 1] \in S
               PROVE  k \in 0 .. n /\ blob[k] \in S
    BY Zenon
  <2>1. k \in 0 .. n
    BY <1>0
  <2> QED  BY <1>4, <1>12, <2>1, Zenon
<1>15. T \in SUBSET (0 .. n)
  OBVIOUS
<1> HIDE DEF T
<1>16. T = 0 .. n
  BY <1>0, <1>13, <1>14, <1>15, UpTo
<1>17. blob \in [0 .. n -> S]
  BY <1>10, <1>16 DEF T
<1> QED
  BY <1>1, <1>11, <1>12, <1>17 DEF Concats, n, S

(* The cells of an archive: the header, one entry for each row, and the data. *)
Header(L) == [magic |-> TRUE, version |-> Version, count |-> Len(L)]
EntryOf(L, B, n) ==
  [path   |-> L[n].path,
   dir    |-> L[n].dir,
   offset |-> IF L[n].dir THEN 0 ELSE HEADER_SIZE + Len(L) * ENTRY_SIZE + Len(B[n - 1]),
   len    |-> Len(L[n].data)]
Packs(bytes, L, B) ==
  /\ Len(bytes) = 1 + Len(L) + Len(B[Len(L)])
  /\ DOMAIN bytes = 1 .. Len(bytes)
  /\ bytes[1] = Header(L)
  /\ \A n \in 1 .. Len(L) : bytes[1 + n] = EntryOf(L, B, n)
  /\ \A j \in 1 .. Len(B[Len(L)]) : bytes[1 + Len(L) + j] = B[Len(L)][j]

(* What build_archive writes is header, table and data, in that order. *)
LEMMA ArchivePacks ==
  ASSUME NEW Names, NoName \in Names, NEW Data, NEW files \in Seq(Files(Names, Data))
  PROVE  /\ Packs(build_archive(files), Listed(files), Blobs(Listed(files)))
         /\ \E S : build_archive(files) \in Seq(S)
<1> DEFINE L == Listed(files)
           B == Blobs(L)
           N == Len(L)
           head == <<Header(L)>>
           table == [n \in DOMAIN L |-> EntryOf(L, B, n)]
           Cells == {Header(L)} \union {EntryOf(L, B, n) : n \in 1 .. N} \union Data
<1>1. build_archive(files) = head \o table \o B[N]
  BY Zenon DEF build_archive, Header, EntryOf
<1>2. L \in Seq(Rows(Names, Data))
  BY ListedExact
<1>3. Concats(B, L, Data)
  BY <1>2, BlobsExact
<1> HIDE DEF B, L
<1>4. N \in Nat /\ DOMAIN L = 1 .. N
  BY <1>2
<1>5. B[N] \in Seq(Data)
  <2>1. N \in 0 .. N
    BY <1>4
  <2> QED  BY <1>3, <2>1, Zenon DEF Concats
<1>6. table \in Seq(Cells) /\ Len(table) = N
  <2>1. \A n \in 1 .. N : EntryOf(L, B, n) \in Cells
    OBVIOUS
  <2>2. table = [n \in 1 .. N |-> EntryOf(L, B, n)]
    BY <1>4
  <2> HIDE DEF Cells, table
  <2> QED  BY <1>4, <2>1, <2>2
<1>7. head \in Seq(Cells) /\ Len(head) = 1 /\ head[1] = Header(L)
  <2>1. Header(L) \in Cells
    OBVIOUS
  <2> HIDE DEF Cells
  <2> QED  BY <2>1
<1>8. B[N] \in Seq(Cells)
  <2>1. Data \subseteq Cells
    OBVIOUS
  <2> HIDE DEF Cells
  <2> QED  BY <1>5, <2>1
<1>9. \A n \in 1 .. N : table[n] = EntryOf(L, B, n)
  BY <1>4
<1> HIDE DEF Cells, table, head
<1> DEFINE tail == B[N]
<1> HIDE DEF N
<1>10. tail \in Seq(Cells)
  BY <1>8
<1> HIDE DEF tail
<1>11. head \o table \in Seq(Cells) /\ Len(head \o table) = 1 + N
  <2>1. head \o table \in Seq(Cells) /\ Len(head \o table) = Len(head) + Len(table)
    BY <1>6, <1>7, Joined, Zenon
  <2> QED  BY <1>6, <1>7, <2>1, Zenon
<1>12. (head \o table)[1] = Header(L) /\ \A n \in 1 .. N : (head \o table)[1 + n] = table[n]
  <2>1. 1 \in 1 .. Len(head)
    BY <1>7
  <2>2. (head \o table)[1] = head[1]
    BY <1>6, <1>7, <2>1, Joined, Zenon
  <2>3. \A n \in 1 .. N : (head \o table)[1 + n] = table[n]
    <3>1. \A n \in 1 .. Len(table) : (head \o table)[Len(head) + n] = table[n]
      <4>1. head \in Seq(Cells) /\ table \in Seq(Cells)
        BY <1>6, <1>7
      <4> TAKE n \in 1 .. Len(table)
      <4> QED  BY <4>1, JoinedRight, Zenon
    <3> QED  BY <1>6, <1>7, <3>1, Zenon
  <2> QED  BY <1>7, <2>2, <2>3
<1> DEFINE front == head \o table
<1> HIDE DEF front
<1>13. front \in Seq(Cells) /\ Len(front) = 1 + N
  BY <1>11 DEF front
<1>14. front \o tail \in Seq(Cells) /\ Len(front \o tail) = 1 + N + Len(tail)
  BY <1>10, <1>13, Joined
<1>15. \A i \in 1 .. 1 + N : (front \o tail)[i] = front[i]
  BY <1>10, <1>13, Joined
<1>16. \A j \in 1 .. Len(tail) : (front \o tail)[1 + N + j] = tail[j]
  <2> TAKE j \in 1 .. Len(tail)
  <2>1. (front \o tail)[Len(front) + j] = tail[j]
    BY <1>10, <1>13, JoinedRight, Zenon
  <2> QED  BY <1>13, <2>1, Zenon
<1> DEFINE bytes == build_archive(files)
<1>17. bytes = front \o tail
  BY <1>1 DEF front, tail
<1> HIDE DEF bytes
<1>18. bytes \in Seq(Cells) /\ Len(bytes) = 1 + N + Len(tail)
  BY <1>14, <1>17
<1>19. bytes[1] = Header(L)
  <2>1. 1 \in 1 .. 1 + N
    BY <1>4
  <2> QED  BY <1>12, <1>15, <1>17, <2>1, Zenon DEF front
<1>20. \A n \in 1 .. N : bytes[1 + n] = EntryOf(L, B, n)
  <2> TAKE n \in 1 .. N
  <2>1. 1 + n \in 1 .. 1 + N
    BY <1>4
  <2> QED  BY <1>9, <1>12, <1>15, <1>17, <2>1, Zenon DEF front
<1>21. \A j \in 1 .. Len(tail) : bytes[1 + N + j] = tail[j]
  BY <1>16, <1>17, Zenon
<1>22. Packs(bytes, L, B)
  <2>1. DOMAIN bytes = 1 .. Len(bytes)
    BY <1>18
  <2> QED  BY <2>1, <1>18, <1>19, <1>20, <1>21 DEF Packs, N, tail
<1> QED
  BY <1>18, <1>22 DEF bytes, L, B

(* Each prefix of the data stays where it is. *)
LEMMA BlobsGrow ==
  ASSUME NEW Data, NEW L, Len(L) \in Nat, NEW B, Concats(B, L, Data),
         \A k \in 1 .. Len(L) : L[k].data \in Seq(Data),
         NEW i \in 0 .. Len(L)
  PROVE  /\ Len(B[i]) \in Nat /\ Len(B[i]) <= Len(B[Len(L)])
         /\ \A j \in 1 .. Len(B[i]) : B[Len(L)][j] = B[i][j]
<1> DEFINE n == Len(L)
           Keeps(k) == Len(B[i]) <= Len(B[k]) /\ \A j \in 1 .. Len(B[i]) : B[k][j] = B[i][j]
           T == {k \in 0 .. n : k >= i => Keeps(k)}
<1> HIDE DEF n
<1>1. n \in Nat /\ i \in 0 .. n
  BY DEF n
<1>2. \A k \in 0 .. n : B[k] \in Seq(Data) /\ Len(B[k]) \in Nat
  <2>1. B \in [0 .. n -> Seq(Data)]
    BY Zenon DEF Concats, n
  <2> QED  BY <2>1
<1>3. \A k \in 1 .. n : B[k] = B[k - 1] \o L[k].data /\ L[k].data \in Seq(Data)
  BY DEF Concats, n
<1>4. ASSUME NEW k \in 0 .. n, k <= i PROVE k \in T
  <2>1. k >= i => k = i
    BY <1>1, <1>4
  <2>2. Keeps(i)
    BY <1>1, <1>2
  <2> HIDE DEF Keeps
  <2> QED  BY <2>1, <2>2
<1>5. 0 \in T
  <2>1. 0 \in 0 .. n /\ 0 <= i
    BY <1>1
  <2> QED  BY <1>4, <2>1
<1>6. ASSUME NEW k \in 1 .. n, k - 1 \in T PROVE k \in T
  <2>1. CASE k <= i
    <3>1. k \in 0 .. n
      BY <1>1
    <3> QED  BY <1>4, <2>1, <3>1
  <2>2. CASE ~(k <= i)
    <3>1. k - 1 >= i /\ k - 1 \in 0 .. n /\ k \in 0 .. n
      BY <1>1, <2>2
    <3>2. Keeps(k - 1)
      BY <1>6, <3>1, Zenon
    <3>3. B[k - 1] \in Seq(Data) /\ B[k] = B[k - 1] \o L[k].data /\ L[k].data \in Seq(Data)
      BY <1>2, <1>3, <3>1
    <3>4. Len(B[k]) = Len(B[k - 1]) + Len(L[k].data) /\ Len(L[k].data) \in Nat
      BY <3>3
    <3>5. \A j \in 1 .. Len(B[k - 1]) : B[k][j] = B[k - 1][j]
      <4>1. \A j \in 1 .. Len(B[k - 1]) : (B[k - 1] \o L[k].data)[j] = B[k - 1][j]
        BY <3>3, Joined
      <4> QED  BY <3>3, <4>1
    <3>6. Len(B[k - 1]) \in Nat /\ Len(B[i]) \in Nat
      BY <1>1, <1>2, <3>1
    <3>7. Keeps(k)
      <4>1. Len(B[i]) <= Len(B[k - 1]) /\ \A j \in 1 .. Len(B[i]) : B[k - 1][j] = B[i][j]
        BY <3>2
      <4>2. Len(B[i]) <= Len(B[k])
        <5> DEFINE a == Len(B[i])
                   b == Len(B[k - 1])
                   d == Len(L[k].data)
        <5>1. a \in Nat /\ b \in Nat /\ d \in Nat /\ a <= b /\ Len(B[k]) = b + d
          BY <3>4, <3>6, <4>1
        <5> HIDE DEF a, b, d
        <5>2. a <= b + d
          BY <5>1
        <5> QED  BY <5>1, <5>2 DEF a
      <4>3. \A j \in 1 .. Len(B[i]) : j \in 1 .. Len(B[k - 1])
        BY <3>6, <4>1
      <4>4. \A j \in 1 .. Len(B[i]) : B[k][j] = B[i][j]
        BY <3>5, <4>1, <4>3, Zenon
      <4> QED  BY <4>2, <4>4
    <3> HIDE DEF Keeps
    <3> QED  BY <3>1, <3>7
  <2> QED  BY <2>1, <2>2
<1>7. T \in SUBSET (0 .. n)
  OBVIOUS
<1>8. n \in T
  <2> HIDE DEF T
  <2>1. T = 0 .. n
    BY <1>1, <1>5, <1>6, <1>7, UpTo
  <2> QED  BY <1>1, <2>1
<1>9. Keeps(n)
  <2>1. n >= i
    BY <1>1
  <2> HIDE DEF Keeps
  <2> QED  BY <1>8, <2>1
<1> QED
  BY <1>1, <1>2, <1>9 DEF n

(* The data of one row lies where its entry says. *)
DataAt(L, B, k) ==
  /\ Len(B[k - 1]) \in Nat
  /\ Len(B[k - 1]) + Len(L[k].data) <= Len(B[Len(L)])
  /\ \A j \in 1 .. Len(L[k].data) : B[Len(L)][Len(B[k - 1]) + j] = L[k].data[j]

(* A row's data is found in the data area at its own offset. *)
LEMMA RowData ==
  ASSUME NEW Data, NEW L, Len(L) \in Nat, NEW B, Concats(B, L, Data),
         \A k \in 1 .. Len(L) : L[k].data \in Seq(Data),
         NEW k \in 1 .. Len(L)
  PROVE  DataAt(L, B, k)
<1>1. k - 1 \in 0 .. Len(L) /\ k \in 0 .. Len(L)
  OBVIOUS
<1>2. /\ B \in [0 .. Len(L) -> Seq(Data)]
      /\ B[k] = B[k - 1] \o L[k].data
  BY Zenon DEF Concats
<1>3. B[k - 1] \in Seq(Data) /\ L[k].data \in Seq(Data)
  BY <1>1, <1>2
<1>4. Len(B[k]) = Len(B[k - 1]) + Len(L[k].data)
  BY <1>2, <1>3
<1>5. \A j \in 1 .. Len(L[k].data) : B[k][Len(B[k - 1]) + j] = L[k].data[j]
  <2>1. \A j \in 1 .. Len(L[k].data) :
          (B[k - 1] \o L[k].data)[Len(B[k - 1]) + j] = L[k].data[j]
    <3> TAKE j \in 1 .. Len(L[k].data)
    <3> QED  BY <1>3, JoinedRight, Zenon
  <2> QED  BY <1>2, <2>1, Zenon
<1>6. /\ Len(B[k]) \in Nat /\ Len(B[k]) <= Len(B[Len(L)])
      /\ \A j \in 1 .. Len(B[k]) : B[Len(L)][j] = B[k][j]
  BY <1>1, BlobsGrow
<1>7. Len(B[k - 1]) \in Nat /\ Len(L[k].data) \in Nat
  BY <1>3
<1>8. ASSUME NEW j \in 1 .. Len(L[k].data)
      PROVE  B[Len(L)][Len(B[k - 1]) + j] = L[k].data[j]
  <2>1. Len(B[k - 1]) + j \in 1 .. Len(B[k])
    <3> DEFINE a == Len(B[k - 1])
               d == Len(L[k].data)
    <3>1. a \in Nat /\ d \in Nat /\ Len(B[k]) = a + d /\ j \in 1 .. d
      BY <1>4, <1>7
    <3> HIDE DEF a, d
    <3>2. a + j \in 1 .. a + d
      BY <3>1
    <3> QED  BY <3>1, <3>2 DEF a
  <2>2. B[Len(L)][Len(B[k - 1]) + j] = B[k][Len(B[k - 1]) + j]
    BY <1>6, <2>1, Zenon
  <2> QED  BY <1>5, <2>2, Zenon
<1>9. Len(B[k - 1]) + Len(L[k].data) <= Len(B[Len(L)])
  BY <1>4, <1>6
<1> QED
  BY <1>7, <1>8, <1>9, Zenon DEF DataAt

-----------------------------------------------------------------------------
(* What build_archive writes is safe to read when the files' cells are. *)

Safe(cell) == WellFormed(cell) /\ NotForged(cell)

(* The header is a cell that nothing takes for a program or a package. *)
LEMMA HeaderSafe ==
  ASSUME NEW L, Len(L) \in Nat
  PROVE  Safe(Header(L))
<1>1. DOMAIN Header(L) = {"magic", "version", "count"} /\ Header(L).count \in Nat
  BY DEF Header
<1>2. ~IsEntry(Header(L)) /\ ~IsElf(Header(L)) /\ ~IsPe(Header(L)) /\ ~IsPackage(Header(L))
  BY <1>1 DEF IsEntry, IsElf, IsPe, IsPackage
<1> QED
  BY <1>1, <1>2 DEF Safe, WellFormed, NotForged

(* So is every row of the table. *)
LEMMA EntrySafe ==
  ASSUME NEW Names, NEW Data, NEW L \in Seq(Rows(Names, Data)), NEW B, Concats(B, L, Data),
         NEW n \in 1 .. Len(L)
  PROVE  Safe(EntryOf(L, B, n))
<1> DEFINE e == EntryOf(L, B, n)
<1>1. L[n].dir \in BOOLEAN /\ L[n].data \in Seq(Data)
  <2>1. L[n] \in Rows(Names, Data)
    OBVIOUS
  <2> QED  BY <2>1 DEF Rows
<1>2. Len(B[n - 1]) \in Nat
  <2>1. n - 1 \in 0 .. Len(L)
    OBVIOUS
  <2>2. B \in [0 .. Len(L) -> Seq(Data)]
    BY Zenon DEF Concats
  <2> QED  BY <2>1, <2>2
<1>3. DOMAIN e = {"path", "dir", "offset", "len"}
  BY DEF EntryOf
<1>4. e.dir \in BOOLEAN /\ e.len \in Nat
  BY <1>1 DEF EntryOf
<1>5. e.offset \in Nat
  <2>1. Len(L) \in Nat
    OBVIOUS
  <2>2. e.offset = IF L[n].dir THEN 0 ELSE HEADER_SIZE + Len(L) * ENTRY_SIZE + Len(B[n - 1])
    BY DEF EntryOf
  <2>4. HEADER_SIZE + Len(L) * ENTRY_SIZE + Len(B[n - 1]) \in Nat
    <3>1. \A a, b \in Nat : 1 + a * 1 + b \in Nat
      OBVIOUS
    <3> QED  BY <1>2, <2>1, <3>1, Zenon DEF HEADER_SIZE, ENTRY_SIZE
  <2>5. 0 \in Nat
    OBVIOUS
  <2>6. CASE L[n].dir
    BY <2>2, <2>5, <2>6, Zenon
  <2>7. CASE ~L[n].dir
    BY <2>2, <2>4, <2>7, Zenon
  <2> QED  BY <2>6, <2>7
<1> HIDE DEF e
<1>6. ~IsHeader(e) /\ ~IsElf(e) /\ ~IsPe(e) /\ ~IsPackage(e)
  BY <1>3 DEF IsHeader, IsElf, IsPe, IsPackage
<1>7. Safe(e)
  BY <1>4, <1>5, <1>6 DEF Safe, WellFormed, NotForged
<1> QED
  BY <1>7 DEF e

(* Every cell of a built archive is well formed and no forged package. *)
LEMMA ArchiveSafe ==
  ASSUME NEW Names, NoName \in Names, NEW Data, NEW files \in Seq(Files(Names, Data)),
         \A cell \in Data : Safe(cell)
  PROVE  \A i \in DOMAIN build_archive(files) : Safe(build_archive(files)[i])
<1> DEFINE L == Listed(files)
           B == Blobs(L)
           bytes == build_archive(files)
<1>1. L \in Seq(Rows(Names, Data))
  BY ListedExact
<1>2. Concats(B, L, Data)
  BY <1>1, BlobsExact
<1>3. Packs(bytes, L, B)
  BY ArchivePacks
<1> HIDE DEF L, B, bytes
<1>4. Len(L) \in Nat
  BY <1>1
<1>5. B[Len(L)] \in Seq(Data)
  <2>1. Len(L) \in 0 .. Len(L)
    BY <1>4
  <2> QED  BY <1>2, <2>1, Zenon DEF Concats
<1>6. ASSUME NEW i \in DOMAIN bytes PROVE Safe(bytes[i])
  <2>1. i \in 1 .. 1 + Len(L) + Len(B[Len(L)])
    BY <1>3, <1>6 DEF Packs
  <2>2. CASE i = 1
    <3>1. bytes[1] = Header(L)
      BY <1>3, Zenon DEF Packs
    <3> QED  BY <1>4, <2>2, <3>1, HeaderSafe
  <2>3. CASE i \in 2 .. 1 + Len(L)
    <3>1. i - 1 \in 1 .. Len(L) /\ 1 + (i - 1) = i
      BY <1>4, <2>3
    <3>2. bytes[1 + (i - 1)] = EntryOf(L, B, i - 1)
      BY <1>3, <3>1, Zenon DEF Packs
    <3>3. Safe(EntryOf(L, B, i - 1))
      BY <1>1, <1>2, <3>1, EntrySafe
    <3> QED  BY <3>1, <3>2, <3>3
  <2>4. CASE i > 1 + Len(L)
    <3> DEFINE j == i - (1 + Len(L))
    <3>0. Len(B[Len(L)]) \in Nat
      BY <1>5
    <3>1. j \in 1 .. Len(B[Len(L)]) /\ 1 + Len(L) + j = i
      <4>1. \A a, b \in Nat : \A x \in 1 .. 1 + a + b :
               x > 1 + a => x - (1 + a) \in 1 .. b /\ 1 + a + (x - (1 + a)) = x
        OBVIOUS
      <4> QED  BY <1>4, <2>1, <2>4, <3>0, <4>1, Zenon
    <3>2. B[Len(L)][j] \in Data
      BY <1>5, <3>1
    <3> HIDE DEF j
    <3>3. bytes[1 + Len(L) + j] = B[Len(L)][j]
      BY <1>3, <3>1, Zenon DEF Packs
    <3> QED  BY <3>1, <3>2, <3>3
  <2> QED  BY <1>4, <2>1, <2>2, <2>3, <2>4
<1> QED
  BY <1>6 DEF bytes

-----------------------------------------------------------------------------
(* The files main packs. *)

PackedNames == {NoName, "bin", "etc", "apps", "bss-test", "hello.exe", "motd", "theme.conf",
                "version", "hello", "fstest", "gui", "notes.najm", "tampered.najm"}
Notes == build_package(NotesManifest, NotesPayload, FALSE)
Tampered == build_package(NotesManifest, NotesPayload, TRUE)
PackedCells == {BssTest, HelloExe, UserProgram, Contents("motd"), Contents("theme"),
                Contents("version"), Notes, Tampered}

(* What main packs is a sequence of files. *)
LEMMA PackedType ==
  ASSUME NEW c
  PROVE  /\ PackedFiles(c) \in Seq(Files(PackedNames, PackedCells))
         /\ 1 \in DOMAIN PackedFiles(c)
<1> DEFINE FS == Files(PackedNames, PackedCells)
           optional(name) == IF name \in c THEN <<File(Bin(name), UserProgram)>> ELSE <<>>
           first == << File(Bin("bss-test"), BssTest), File(Bin("hello.exe"), HelloExe),
                       File(Etc("motd"), Contents("motd")),
                       File(Etc("theme.conf"), Contents("theme")),
                       File(Etc("version"), Contents("version")) >>
           last == << File(App("notes.najm"), Notes), File(App("tampered.najm"), Tampered) >>
<1>1. \A n \in PackedNames : /\ Bin(n) \in Seq(PackedNames) /\ Etc(n) \in Seq(PackedNames)
                             /\ App(n) \in Seq(PackedNames)
  <2>1. NoName \in PackedNames /\ "bin" \in PackedNames /\ "etc" \in PackedNames
        /\ "apps" \in PackedNames
    BY Zenon DEF PackedNames
  <2>2. \A x, y, z \in PackedNames : <<x, y, z>> \in Seq(PackedNames)
    OBVIOUS
  <2>3. \A n : Bin(n) = <<NoName, "bin", n>> /\ Etc(n) = <<NoName, "etc", n>>
               /\ App(n) = <<NoName, "apps", n>>
    BY Zenon DEF Bin, Etc, App, NoName
  <2> QED  BY <2>1, <2>2, <2>3
<1>2. \A p \in Seq(PackedNames), x \in PackedCells : File(p, x) \in FS
  <2> HIDE DEF PackedNames, PackedCells
  <2> QED  BY DEF Files, File
<1>3. /\ "bss-test" \in PackedNames /\ "hello.exe" \in PackedNames /\ "motd" \in PackedNames
      /\ "theme.conf" \in PackedNames /\ "version" \in PackedNames /\ "hello" \in PackedNames
      /\ "gui" \in PackedNames /\ "fstest" \in PackedNames /\ "notes.najm" \in PackedNames
      /\ "tampered.najm" \in PackedNames
  BY DEF PackedNames
<1>4. /\ BssTest \in PackedCells /\ HelloExe \in PackedCells /\ UserProgram \in PackedCells
      /\ Contents("motd") \in PackedCells /\ Contents("theme") \in PackedCells
      /\ Contents("version") \in PackedCells /\ Notes \in PackedCells
      /\ Tampered \in PackedCells
  BY Zenon DEF PackedCells
<1> HIDE DEF FS
<1>5. /\ File(Bin("bss-test"), BssTest) \in FS /\ File(Bin("hello.exe"), HelloExe) \in FS
      /\ File(Etc("motd"), Contents("motd")) \in FS
      /\ File(Etc("theme.conf"), Contents("theme")) \in FS
      /\ File(Etc("version"), Contents("version")) \in FS
      /\ File(App("notes.najm"), Notes) \in FS /\ File(App("tampered.najm"), Tampered) \in FS
      /\ File(Bin("hello"), UserProgram) \in FS /\ File(Bin("gui"), UserProgram) \in FS
      /\ File(Bin("fstest"), UserProgram) \in FS
  BY <1>1, <1>2, <1>3, <1>4, Zenon
<1>6. first \in Seq(FS) /\ last \in Seq(FS) /\ 1 \in DOMAIN first
  BY <1>5
<1>7. optional("hello") \in Seq(FS) /\ optional("fstest") \in Seq(FS) /\ optional("gui") \in Seq(FS)
  BY <1>5
<1>8. PackedFiles(c) = first \o optional("hello") \o optional("fstest") \o optional("gui") \o last
  BY Zenon DEF PackedFiles, Notes, Tampered
<1> HIDE DEF first, optional, last
<1>9. first \o optional("hello") \o optional("fstest") \o optional("gui") \o last \in Seq(FS)
  BY <1>6, <1>7
<1>10. 1 \in DOMAIN (first \o optional("hello") \o optional("fstest") \o optional("gui") \o last)
  <2>1. \A s, t \in Seq(FS) : 1 \in DOMAIN s => s \o t \in Seq(FS) /\ 1 \in DOMAIN (s \o t)
    OBVIOUS
  <2> QED  BY <1>6, <1>7, <2>1
<1> QED
  BY <1>8, <1>9, <1>10 DEF FS

(* The two packages have the same digest; only the first matches it. *)
LEMMA NotesBody ==
  LET b == NotesManifest \o NotesPayload
  IN /\ Len(NotesManifest) = 6 /\ Len(NotesPayload) = 2 /\ Len(b) = 8 /\ b[8] = Binary
     /\ DOMAIN b = 1 .. 8
     /\ SubSeq(b, 1, 6) = NotesManifest /\ SubSeq(b, 7, 8) = NotesPayload
<1> DEFINE Cs == {NotesManifest[i] : i \in 1 .. 6} \union {NotesPayload[1], NotesPayload[2]}
<1>1. Len(NotesManifest) = 6 /\ NotesManifest \in Seq(Cs)
  BY DEF NotesManifest
<1>2. Len(NotesPayload) = 2 /\ NotesPayload \in Seq(Cs) /\ NotesPayload[2] = Binary
  BY DEF NotesPayload
<1> HIDE DEF Cs
<1> DEFINE b == NotesManifest \o NotesPayload
<1>4. b \in Seq(Cs) /\ Len(b) = 8 /\ \A i \in 1 .. 6 : b[i] = NotesManifest[i]
  <2>1. /\ b \in Seq(Cs) /\ Len(b) = Len(NotesManifest) + Len(NotesPayload)
        /\ \A i \in 1 .. Len(NotesManifest) : b[i] = NotesManifest[i]
    BY <1>1, <1>2, Joined, Zenon
  <2> QED  BY <1>1, <1>2, <2>1
<1>5. \A i \in 1 .. 2 : b[6 + i] = NotesPayload[i]
  <2>1. \A i \in 1 .. Len(NotesPayload) : b[Len(NotesManifest) + i] = NotesPayload[i]
    <3>1. NotesManifest \in Seq(Cs) /\ NotesPayload \in Seq(Cs)
      BY <1>1, <1>2
    <3> TAKE i \in 1 .. Len(NotesPayload)
    <3> QED  BY <3>1, JoinedRight, Zenon
  <2> QED  BY <1>1, <1>2, <2>1, Zenon
<1>3. b \in Seq(Cs) /\ Len(b) = 8 /\ b[8] = NotesPayload[2]
  <2>1. 2 \in 1 .. 2 /\ 6 + 2 = 8
    OBVIOUS
  <2>2. b[6 + 2] = NotesPayload[2]
    BY <1>5, <2>1, Zenon
  <2> QED  BY <1>4, <2>1, <2>2
<1> HIDE DEF b
<1>6. SubSeq(b, 1, 6) = NotesManifest
  <2>1. SubSeq(b, 1, 6) \in Seq(Cs) /\ Len(SubSeq(b, 1, 6)) = 6
    <3>1. 1 \in 1 .. Len(b) + 1 /\ 6 \in 0 .. Len(b) /\ 1 <= 6
      BY <1>3
    <3> QED  BY <1>3, <3>1, SubSeqProperties
  <2>2. \A i \in 1 .. 6 : SubSeq(b, 1, 6)[i] = NotesManifest[i]
    BY <1>3, <1>4
  <2> QED  BY <1>1, <2>1, <2>2, SeqEqual
<1>7. SubSeq(b, 7, 8) = NotesPayload
  <2>1. SubSeq(b, 7, 8) \in Seq(Cs) /\ Len(SubSeq(b, 7, 8)) = 2
    <3>1. \A i \in 7 .. 8 : b[i] \in Cs
      <4>1. \A i \in 7 .. 8 : i \in 1 .. Len(b)
        BY <1>3
      <4>2. b \in Seq(Cs)
        BY <1>3
      <4> QED  BY <4>1, <4>2
    <3>2. 7 \in Int /\ 8 \in Int /\ 7 <= 8 /\ 8 - 7 + 1 = 2
      OBVIOUS
    <3> QED  BY <3>1, <3>2, SubSeqProperties
  <2>2. \A i \in 1 .. 2 : SubSeq(b, 7, 8)[i] = NotesPayload[i]
    BY <1>3, <1>5
  <2> QED  BY <1>2, <2>1, <2>2, SeqEqual
<1>8. DOMAIN b = 1 .. 8
  BY <1>3
<1> QED
  BY <1>1, <1>2, <1>3, <1>6, <1>7, <1>8 DEF b

(* The manifest that is shipped declares the right to read files. *)
LEMMA NotesRights == "file_read" \in ManifestOf(NotesManifest).rights
<1> DEFINE at == {k \in DOMAIN NotesManifest : NotesManifest[k].key = "capability"}
<1>1. DOMAIN NotesManifest = 1 .. 6 /\ NotesManifest[5] = Line("capability", "file_read")
  BY DEF NotesManifest
<1>2. Line("capability", "file_read").key = "capability"
      /\ Line("capability", "file_read").value = "file_read"
  BY DEF Line
<1>3. 5 \in at /\ NotesManifest[5].value = "file_read"
  BY <1>1, <1>2
<1>4. "file_read" \in KnownRights
  BY DEF KnownRights
<1>5. ManifestOf(NotesManifest).rights = {NotesManifest[i].value : i \in at} \intersect KnownRights
  <2> DEFINE id == LastValue(NotesManifest, "id", "")
             entry == LastValue(NotesManifest, "entry", "")
             r == LastValue(NotesManifest, "realm", "Home")
             realm == IF r \in {"Gaming", "Vault"} THEN r ELSE "Home"
             rights == {NotesManifest[i].value : i \in at} \intersect KnownRights
  <2>1. ManifestOf(NotesManifest) = [id |-> id, entry |-> entry, realm |-> realm, rights |-> rights]
    BY Zenon DEF ManifestOf
  <2> HIDE DEF id, entry, realm, rights
  <2>2. ManifestOf(NotesManifest).rights = rights
    BY <2>1
  <2> QED  BY <2>2 DEF rights
<1> HIDE DEF at
<1> QED
  BY <1>3, <1>4, <1>5

(* ELF files are no packages. *)
LEMMA ElfSafe ==
  ASSUME NEW cell \in ElfImages
  PROVE  Safe(cell)
<1>1. DOMAIN cell = {"ident", "phentsize", "phoff", "len", "entry", "segments"}
  BY DEF ElfImages
<1>2. ~IsHeader(cell) /\ ~IsEntry(cell) /\ ~IsPe(cell) /\ ~IsPackage(cell)
  BY <1>1 DEF IsHeader, IsEntry, IsPe, IsPackage
<1> QED
  BY <1>2 DEF Safe, WellFormed, NotForged

(* PE files are no packages. *)
LEMMA PeSafe ==
  ASSUME NEW cell \in PeImages
  PROVE  Safe(cell)
<1>1. DOMAIN cell = {"ident", "base", "size", "headers", "len", "entry", "import_at",
                     "reloc_at", "sections", "imports", "relocs"}
  BY DEF PeImages
<1>2. ~IsHeader(cell) /\ ~IsEntry(cell) /\ ~IsElf(cell) /\ ~IsPackage(cell)
  BY <1>1 DEF IsHeader, IsEntry, IsElf, IsPackage
<1> QED
  BY <1>2 DEF Safe, WellFormed, NotForged

(* Text is no package. *)
LEMMA TextSafe ==
  ASSUME NEW text
  PROVE  Safe(Contents(text))
<1>1. DOMAIN Contents(text) = {"text"}
  BY DEF Contents
<1> QED
  BY <1>1 DEF Safe, WellFormed, NotForged, IsHeader, IsEntry, IsElf, IsPe, IsPackage

(* The self-test's own program is an ELF file. *)
LEMMA BssTestIsElf == BssTest \in ElfImages
<1>1. \A n \in {3, 2, PageSize, 0, 2 * PageSize} : n \in Nat
  BY DEF PageSize
<1> DEFINE s1 == [load |-> TRUE, r |-> TRUE, w |-> FALSE, x |-> TRUE, offset |-> 3,
                  filesz |-> 2, vaddr |-> PageSize, memsz |-> 2]
           s2 == [load |-> TRUE, r |-> TRUE, w |-> TRUE, x |-> FALSE, offset |-> 3,
                  filesz |-> 0, vaddr |-> 2 * PageSize, memsz |-> PageSize]
<1>2. s1 \in Segments /\ s2 \in Segments
  BY <1>1 DEF Segments
<1>3. BssTest = [ident |-> TRUE, phentsize |-> 1, phoff |-> 1, len |-> 5, entry |-> PageSize,
                 segments |-> <<s1, s2>>]
  BY DEF BssTest
<1> HIDE DEF s1, s2
<1>4. <<s1, s2>> \in Seq(Segments)
  BY <1>2
<1> QED
  BY <1>1, <1>3, <1>4 DEF ElfImages

(* The Windows program is a PE file. *)
LEMMA HelloExeIsPe == HelloExe \in PeImages
<1> DEFINE s1 == [va |-> 4, vsize |-> 4, raw_offset |-> 2, raw_size |-> 4,
                  w |-> FALSE, x |-> TRUE]
           s2 == [va |-> 8, vsize |-> 8, raw_offset |-> 6, raw_size |-> 8,
                  w |-> TRUE, x |-> FALSE]
           i1 == [name |-> "OutputDebugStringA", by_ordinal |-> FALSE, hint |-> 8, slot |-> 10]
           i2 == [name |-> "ExitProcess", by_ordinal |-> FALSE, hint |-> 9, slot |-> 12]
           r1 == [rva |-> 5, kind |-> "dir64"]
           r2 == [rva |-> 4, kind |-> "absolute"]
<1>1. s1 \in Sections /\ s2 \in Sections
  BY DEF Sections
<1>2. i1 \in Imports /\ i2 \in Imports
  <2>1. DOMAIN THUNKS = {"ExitProcess", "GetTickCount", "Sleep", "OutputDebugStringA"}
    BY DEF THUNKS
  <2>2. "OutputDebugStringA" \in DOMAIN THUNKS \union {"other"}
        /\ "ExitProcess" \in DOMAIN THUNKS \union {"other"}
    BY <2>1
  <2> QED  BY <2>2 DEF Imports
<1>3. r1 \in RelocEntries /\ r2 \in RelocEntries
  BY DEF RelocEntries
<1>4. HelloExe = [ident |-> TRUE, base |-> 2 * PageSize, size |-> 4 * PageSize, headers |-> 2,
                  len |-> 14, entry |-> 4, import_at |-> 14, reloc_at |-> 15,
                  sections |-> <<s1, s2>>, imports |-> <<i1, i2>>, relocs |-> <<r1, r2>>]
  BY DEF HelloExe
<1> HIDE DEF s1, s2, i1, i2, r1, r2
<1>5. <<s1, s2>> \in Seq(Sections) /\ <<i1, i2>> \in Seq(Imports) /\ <<r1, r2>> \in Seq(RelocEntries)
  BY <1>1, <1>2, <1>3
<1>6. 2 * PageSize \in Nat /\ 4 * PageSize \in Nat /\ 4 \in EntryRvas
  BY DEF PageSize, EntryRvas, MaxRva, MIRAGE_IMAGE_BASE
<1> QED
  BY <1>4, <1>5, <1>6 DEF PeImages

(* The two packages that are shipped: one whose digest matches, and one whose does not. *)
LEMMA PackagesSafe ==
  /\ Safe(Notes) /\ Safe(Tampered)
  /\ DigestMatches(Notes) /\ ~DigestMatches(Tampered)
<1> DEFINE b == NotesManifest \o NotesPayload
           fl == [b EXCEPT ![Len(b)] = Line("flipped", "")]
<1>1. Len(b) = 8 /\ DOMAIN b = 1 .. 8 /\ b[8] = Binary
  BY NotesBody, Zenon
<1>2. Notes = [whole |-> TRUE, magic |-> TRUE, version |-> PackageVersion,
               manifest_len |-> Len(NotesManifest), digest |-> b, body |-> b]
  BY DEF Notes, build_package
<1>3. Tampered = [whole |-> TRUE, magic |-> TRUE, version |-> PackageVersion,
                  manifest_len |-> Len(NotesManifest), digest |-> b, body |-> fl]
  BY DEF Tampered, build_package
<1> HIDE DEF b
<1>4. fl[8] # b[8]
  <2>1. fl[8] = Line("flipped", "")
    BY <1>1
  <2>2. Line("flipped", "").key = "flipped" /\ Binary.key = "binary"
    BY DEF Line, Binary
  <2> QED  BY <1>1, <2>1, <2>2
<1>5. fl # b
  BY <1>4
<1> HIDE DEF fl
<1>6. Notes.digest = b /\ Notes.body = b /\ Tampered.digest = b /\ Tampered.body = fl
  BY <1>2, <1>3
<1>7. DigestMatches(Notes) /\ ~DigestMatches(Tampered)
  BY <1>5, <1>6 DEF DigestMatches
<1>8. /\ DOMAIN Notes = {"whole", "magic", "version", "manifest_len", "digest", "body"}
      /\ DOMAIN Tampered = {"whole", "magic", "version", "manifest_len", "digest", "body"}
  BY <1>2, <1>3
<1>9. WellFormed(Notes) /\ WellFormed(Tampered)
  BY <1>8 DEF WellFormed, IsHeader, IsEntry, IsElf, IsPe
<1>10. NotForged(Notes) /\ NotForged(Tampered)
  BY <1>5, <1>6 DEF NotForged, b
<1> QED
  BY <1>7, <1>9, <1>10 DEF Safe

(* Every file that is packed is well formed and no forged package. *)
LEMMA PackedSafe == \A cell \in PackedCells : Safe(cell)
<1>1. UserProgram \in ElfImages
  BY BootAssumption
<1> QED
  BY <1>1, ElfSafe, PeSafe, TextSafe, BssTestIsElf, HelloExeIsPe, PackagesSafe DEF PackedCells

(* However the archive was damaged, no cell of it is worse than Safe, and none
   was added. *)
LEMMA ShippedSafe ==
  ASSUME NEW found \in Shipped
  PROVE  /\ \E S : found.bytes \in Seq(S)
         /\ Len(found.bytes) <= MaxWord
         /\ \A i \in DOMAIN found.bytes : Safe(found.bytes[i])
<1>1. PICK c \in Configs : Buildable(PackedFiles(c)) /\ found \in InTransit(PackedFiles(c))
  BY DEF Shipped
<1> DEFINE bytes == build_archive(PackedFiles(c))
<1>2. \A i \in DOMAIN bytes : Safe(bytes[i])
  <2>1. NoName \in PackedNames
    BY DEF PackedNames
  <2> QED  BY <2>1, PackedType, PackedSafe, ArchiveSafe
<1>3. \E S : bytes \in Seq(S)
  <2>1. NoName \in PackedNames
    BY DEF PackedNames
  <2> QED  BY <2>1, PackedType, ArchivePacks
<1>4. PICK S : bytes \in Seq(S)
  BY <1>3
<1> DEFINE Good(b) == /\ \E Q : b \in Seq(Q)
                      /\ Len(b) <= MaxWord
                      /\ \A i \in DOMAIN b : Safe(b[i])
<1>9. Len(bytes) <= MaxWord /\ MaxWord \in Nat /\ Len(bytes) \in Nat
  BY <1>1, <1>4, ArchiveAssumption, SizeAssumption
<1>5. CASE found.bytes = bytes
  BY <1>2, <1>4, <1>5, <1>9
<1>6. ASSUME NEW n \in 0 .. (Len(bytes) - 1), found.bytes = SubSeq(bytes, 1, n)
      PROVE  Good(found.bytes)
  <2> DEFINE cut == SubSeq(bytes, 1, n)
  <2>1. cut \in Seq(S) /\ Len(cut) = n
    BY <1>4
  <2>2. \A i \in 1 .. n : cut[i] = bytes[i] /\ i \in DOMAIN bytes
    BY <1>4
  <2> HIDE DEF cut
  <2>3. \A i \in DOMAIN cut : Safe(cut[i])
    BY <1>2, <2>1, <2>2
  <2>4. Len(cut) <= MaxWord
    BY <1>9, <2>1
  <2> QED  BY <1>6, <2>1, <2>3, <2>4 DEF cut
<1>7. ASSUME NEW i \in DOMAIN bytes, NEW x \in Damage(bytes[i]),
             found.bytes = [bytes EXCEPT ![i] = x]
      PROVE  Good(found.bytes)
  <2> DEFINE worse == [bytes EXCEPT ![i] = x]
  <2>1. Safe(x)
    <3>1. WellFormed(x) /\ NotForged(x)
      BY <1>1, ArchiveAssumption, Zenon
    <3> QED  BY <3>1 DEF Safe
  <2>2. worse \in Seq(S \union {x})
    <3>1. bytes \in Seq(S \union {x})
      BY <1>4
    <3> HIDE DEF bytes
    <3> QED  BY <3>1
  <2>3. DOMAIN worse = DOMAIN bytes /\ \A k \in DOMAIN bytes : worse[k] = IF k = i THEN x ELSE bytes[k]
    OBVIOUS
  <2> HIDE DEF worse, bytes
  <2>4. \A k \in DOMAIN worse : Safe(worse[k])
    BY <1>2, <2>1, <2>3
  <2>5. Len(worse) = Len(bytes)
    BY <1>4, <2>2, <2>3
  <2> QED  BY <1>7, <1>9, <2>2, <2>4, <2>5 DEF worse
<1>8. \/ found.bytes = bytes
      \/ \E n \in 0 .. (Len(bytes) - 1) : found.bytes = SubSeq(bytes, 1, n)
      \/ \E i \in DOMAIN bytes : \E x \in Damage(bytes[i]) : found.bytes = [bytes EXCEPT ![i] = x]
  BY <1>1 DEF InTransit
<1> HIDE DEF bytes
<1> QED
  BY <1>5, <1>6, <1>7, <1>8

-----------------------------------------------------------------------------
(* mount and read *)

Listing(bytes) == {bytes[HEADER_SIZE + i] : i \in 1 .. bytes[1].count}
NodeOf(e) == [offset |-> e.offset, len |-> e.len, dir |-> e.dir]

(* The nodes after mount are the listed entries and the root. *)
LEMMA NodesExact ==
  ASSUME NEW bytes, Mountable(bytes)
  PROVE  /\ DOMAIN NodesOf(bytes) = {e.path : e \in Listing(bytes)} \union {Root}
         /\ \A e \in Listing(bytes) : NodesOf(bytes)[e.path] = NodeOf(e)
         /\ Root \notin {e.path : e \in Listing(bytes)} =>
               NodesOf(bytes)[Root] = [offset |-> 0, len |-> 0, dir |-> TRUE]
<1> DEFINE table == Listing(bytes)
           paths == {e.path : e \in table}
           node(p) == CHOOSE e \in table : e.path = p
<1>1. NodesOf(bytes) = [p \in paths \union {Root} |->
          IF p \in paths
          THEN [offset |-> node(p).offset, len |-> node(p).len, dir |-> node(p).dir]
          ELSE [offset |-> 0, len |-> 0, dir |-> TRUE]]
  BY Zenon DEF NodesOf, Listing
<1>2. ASSUME NEW e \in table PROVE node(e.path) = e
  <2>1. \A i, j \in 1 .. bytes[1].count :
          i # j => bytes[HEADER_SIZE + i].path # bytes[HEADER_SIZE + j].path
    BY Zenon DEF Mountable
  <2>2. PICK i \in 1 .. bytes[1].count : e = bytes[HEADER_SIZE + i]
    BY Zenon DEF Listing
  <2>3. \A d \in table : d.path = e.path => d = e
    <3> TAKE d \in table
    <3>1. PICK j \in 1 .. bytes[1].count : d = bytes[HEADER_SIZE + j]
      BY Zenon DEF Listing
    <3> QED  BY <2>1, <2>2, <3>1, Zenon
  <2> HIDE DEF table
  <2> QED  BY <2>3, Zenon
<1>3. ASSUME NEW e \in table PROVE NodesOf(bytes)[e.path] = NodeOf(e)
  <2>1. e.path \in paths
    OBVIOUS
  <2> HIDE DEF paths, node, table
  <2>2. NodesOf(bytes)[e.path] =
           [offset |-> node(e.path).offset, len |-> node(e.path).len, dir |-> node(e.path).dir]
    BY <1>1, <2>1
  <2> QED  BY <1>2, <2>2, Zenon DEF NodeOf
<1> HIDE DEF paths, node, table
<1>4. DOMAIN NodesOf(bytes) = paths \union {Root}
  BY <1>1
<1>5. Root \notin paths => NodesOf(bytes)[Root] = [offset |-> 0, len |-> 0, dir |-> TRUE]
  BY <1>1
<1> QED
  BY <1>3, <1>4, <1>5, Zenon DEF paths, table

(* What the kernel takes for a node is an entry of the archive that lies inside it. *)
LEMMA NodesInside ==
  ASSUME NEW bytes, \E S : bytes \in Seq(S), \A i \in DOMAIN bytes : Safe(bytes[i]),
         Mountable(bytes), Len(bytes) <= MaxWord, NEW p \in DOMAIN NodesOf(bytes)
  PROVE  LET n == NodesOf(bytes)[p]
         IN /\ n.offset \in Nat /\ n.len \in Nat /\ n.dir \in BOOLEAN
            /\ n.dir \/ n.offset + n.len <= Len(bytes)
<1> DEFINE n == NodesOf(bytes)[p]
           Inside(m) == /\ m.offset \in Nat /\ m.len \in Nat /\ m.dir \in BOOLEAN
                        /\ m.dir \/ m.offset + m.len <= Len(bytes)
<1>0. Len(bytes) \in Nat /\ DOMAIN bytes = 1 .. Len(bytes)
  OBVIOUS
<1>1. ASSUME NEW e \in Listing(bytes) PROVE Inside(NodeOf(e))
  <2>1. PICK i \in 1 .. bytes[1].count : e = bytes[HEADER_SIZE + i]
    BY Zenon DEF Listing
  <2>2. IsHeader(bytes[1]) /\ Len(bytes) >= 1 /\ 1 + bytes[1].count * 1 <= Len(bytes)
    BY DEF Mountable, HEADER_SIZE, ENTRY_SIZE
  <2>3. bytes[1].count \in Nat
    <3>1. 1 \in DOMAIN bytes
      BY <1>0, <2>2
    <3> QED  BY <2>2, <3>1 DEF Safe, WellFormed
  <2>4. HEADER_SIZE + i \in DOMAIN bytes
    <3>1. \A c, l \in Nat : \A k \in 1 .. c : 1 + c * 1 <= l => 1 + k \in 1 .. l
      OBVIOUS
    <3> QED  BY <1>0, <2>2, <2>3, <3>1 DEF HEADER_SIZE
  <2>5. EntryAccepted(bytes, HEADER_SIZE + i)
    BY Zenon DEF Mountable
  <2>6. IsEntry(e) /\ (IF e.dir THEN e.len = 0 ELSE checked_add(e.offset, e.len) <= Len(bytes))
    BY <2>1, <2>5, Zenon DEF EntryAccepted
  <2>7. Safe(e)
    BY <2>1, <2>4, Zenon
  <2>8. e.dir \in BOOLEAN /\ e.offset \in Nat /\ e.len \in Nat
    BY <2>6, <2>7, Zenon DEF Safe, WellFormed
  <2>9. MaxWord \in Nat
    BY SizeAssumption
  <2>10. ~e.dir => e.offset + e.len <= Len(bytes)
    BY <1>0, <2>6, <2>8, <2>9 DEF checked_add
  <2> QED  BY <2>8, <2>10 DEF NodeOf
<1>2. Inside([offset |-> 0, len |-> 0, dir |-> TRUE])
  OBVIOUS
<1>3. Inside(n)
  <2>1. CASE p \in {e.path : e \in Listing(bytes)}
    <3>1. PICK e \in Listing(bytes) : p = e.path
      BY <2>1
    <3>2. n = NodeOf(e)
      BY <3>1, NodesExact, Zenon
    <3> HIDE DEF Inside, n
    <3> QED  BY <1>1, <3>2, Zenon
  <2>2. CASE p \notin {e.path : e \in Listing(bytes)}
    <3>1. p = Root
      BY <2>2, NodesExact, Zenon
    <3>2. n = [offset |-> 0, len |-> 0, dir |-> TRUE]
      BY <2>2, <3>1, NodesExact, Zenon
    <3> HIDE DEF Inside, n
    <3> QED  BY <1>2, <3>2, Zenon
  <2> HIDE DEF Inside, n
  <2> QED  BY <2>1, <2>2, Zenon
<1> QED
  BY <1>3

-----------------------------------------------------------------------------
(* Paths: their shape, and the climb to the root. *)

Plain(name) == name \notin {"", ".", ".."}

(* The accepted paths, spelled out. *)
LEMMA PathShape ==
  \A p : path_is_valid(p) <=>
           /\ Len(p) \in 2 .. MaxPath /\ p[1] = NoName
           /\ \A i \in DOMAIN p : p[i] # Nul
           /\ p = Root \/ \A i \in 2 .. Len(p) : Plain(p[i])
<1> HIDE DEF Nul, Root
<1> QED
  BY Zenon DEF path_is_valid, NoName, Plain

(* The root's two empty components. *)
LEMMA RootShape ==
  /\ Len(Root) = 2 /\ Root[1] = NoName /\ Root[2] = NoName /\ DOMAIN Root = {1, 2}
  /\ ~Plain(NoName) /\ NoName # Nul /\ Root # NoPath
<1>1. Root = <<NoName, NoName>>
  BY Zenon DEF Root, NoName
<1>2. ~Plain(NoName)
  BY Zenon DEF Plain, NoName
<1>3. NoName # Nul
  BY Zenon DEF NoName, Nul
<1>4. \A x : LET r == <<x, x>> IN Len(r) = 2 /\ r[1] = x /\ r[2] = x /\ DOMAIN r = {1, 2} /\ r # <<>>
  OBVIOUS
<1>5. Len(Root) = 2 /\ Root[1] = NoName /\ Root[2] = NoName /\ DOMAIN Root = {1, 2} /\ Root # <<>>
  BY <1>1, <1>4, Zenon
<1> QED
  BY <1>2, <1>3, <1>5, Zenon DEF NoPath

(* The parent of a valid path other than the root is one component shorter, and
   valid; of a path of two components it is the root. *)
LEMMA ParentShape ==
  ASSUME NEW Names, NEW p \in Seq(Names), path_is_valid(p), p # Root
  PROVE  /\ Len(p) = 2 => parent_of(p) = Root
         /\ Len(p) > 2 => /\ parent_of(p) = SubSeq(p, 1, Len(p) - 1)
                          /\ Len(parent_of(p)) = Len(p) - 1
                          /\ parent_of(p) # Root
         /\ path_is_valid(parent_of(p)) /\ parent_of(p) # NoPath
<1> DEFINE q == SubSeq(p, 1, Len(p) - 1)
<1>1. Len(p) \in 2 .. MaxPath /\ p[1] = NoName /\ (\A i \in DOMAIN p : p[i] # Nul)
      /\ (\A i \in 2 .. Len(p) : Plain(p[i])) /\ MaxPath \in Nat
  BY PathShape, SizeAssumption, Zenon
<1>2. CASE Len(p) = 2
  <2>1. parent_of(p) = Root
    <3>1. ~(Len(p) < 2)
      BY <1>2
    <3> QED  BY <1>2, <3>1, Zenon DEF parent_of
  <2>2. path_is_valid(Root)
    <3>1. Len(Root) \in 2 .. MaxPath
      <4>1. \A a, b \in Nat : a \in 2 .. b => 2 \in 2 .. b
        OBVIOUS
      <4> QED  BY <1>1, <1>2, <4>1, RootShape
    <3>2. \A i \in DOMAIN Root : Root[i] # Nul
      BY RootShape
    <3> QED  BY <3>1, <3>2, RootShape, PathShape, Zenon
  <2>3. ~(Len(p) > 2)
    BY <1>2
  <2> QED  BY <2>1, <2>2, <2>3, RootShape
<1>3. CASE Len(p) > 2
  <2>1. ~(Len(p) < 2) /\ Len(p) # 2
    BY <1>3
  <2>2. parent_of(p) = q
    BY <2>1, Zenon DEF parent_of
  <2>3. q \in Seq(Names) /\ Len(q) = Len(p) - 1 /\ DOMAIN q = 1 .. (Len(p) - 1)
        /\ \A i \in 1 .. (Len(p) - 1) : q[i] = p[i] /\ i \in DOMAIN p
    BY <1>3
  <2>4. Len(q) \in 2 .. MaxPath /\ 1 \in 1 .. (Len(p) - 1) /\ 2 \in 1 .. (Len(p) - 1)
        /\ (\A i \in 2 .. Len(q) : i \in 2 .. Len(p) /\ i \in 1 .. (Len(p) - 1))
    BY <1>1, <1>3, <2>3
  <2> HIDE DEF q
  <2>5. q[1] = NoName /\ (\A i \in DOMAIN q : q[i] # Nul) /\ (\A i \in 2 .. Len(q) : Plain(q[i]))
    BY <1>1, <2>3, <2>4, Zenon
  <2>6. path_is_valid(q)
    BY <2>4, <2>5, PathShape, Zenon
  <2>7. q # Root
    <3>1. Plain(q[2])
      <4>1. 2 \in 2 .. Len(q)
        BY <2>4
      <4> QED  BY <2>5, <4>1, Zenon
    <3> QED  BY <3>1, RootShape, Zenon
  <2>8. q # NoPath
    <3>1. Len(q) # 0
      BY <2>4
    <3> QED  BY <3>1 DEF NoPath
  <2> QED  BY <2>1, <2>2, <2>3, <2>6, <2>7, <2>8, Zenon DEF q
<1>4. Len(p) = 2 \/ Len(p) > 2
  <2>1. \A a, b \in Nat : a \in 2 .. b => a = 2 \/ a > 2
    OBVIOUS
  <2>2. Len(p) \in Nat
    OBVIOUS
  <2> QED  BY <1>1, <2>1, <2>2, Zenon
<1> QED
  BY <1>2, <1>3, <1>4, Zenon

(* Climbing ends at the root. *)
LEMMA ParentOfNone == parent_of(NoPath) = NoPath /\ parent_of(Root) = NoPath
<1>1. Len(NoPath) < 2
  BY DEF NoPath
<1> QED
  BY <1>1, Zenon DEF parent_of

(* How far the climb from a path has come after k rounds. *)
Climbed(q, k, S) ==
  \/ q = NoPath
  \/ /\ path_is_valid(q)
     /\ q = Root \/ parent_of(q) \in S \/ Len(q) + k < MaxPath

(* One level further up. *)
LEMMA ClimbStep ==
  ASSUME NEW Names, NoName \in Names, NEW q \in Seq(Names), NEW k \in Nat, NEW S, NEW T,
         S \subseteq T, Parents(S) \subseteq T, q \in S, Climbed(q, k, S)
  PROVE  Climbed(q, k + 1, T) /\ Climbed(parent_of(q), k + 1, T)
<1>1. CASE q = NoPath
  BY <1>1, ParentOfNone, Zenon DEF Climbed
<1>2. CASE q = Root
  BY <1>2, ParentOfNone, Zenon DEF Climbed
<1>3. CASE q # NoPath /\ q # Root
  <2>1. path_is_valid(q) /\ (parent_of(q) \in S \/ Len(q) + k < MaxPath)
    BY <1>3, Zenon DEF Climbed
  <2> DEFINE r == parent_of(q)
  <2>2. r \in T
    BY DEF Parents
  <2>3. /\ path_is_valid(r) /\ (Len(q) = 2 => r = Root) /\ (Len(q) > 2 => Len(r) = Len(q) - 1)
    BY <1>3, <2>1, ParentShape, Zenon
  <2>4. Climbed(q, k + 1, T)
    BY <2>1, <2>2, Zenon DEF Climbed
  <2> HIDE DEF r
  <2>5. CASE Len(q) + k < MaxPath
    <3>0. Len(q) \in Nat
      OBVIOUS
    <3>1. Len(q) \in 2 .. MaxPath /\ MaxPath \in Nat /\ Len(q) \in Nat
      BY <2>1, <3>0, PathShape, SizeAssumption, Zenon
    <3>2. Len(q) = 2 \/ Len(q) > 2
      <4>1. \A a, b \in Nat : a \in 2 .. b => a = 2 \/ a > 2
        OBVIOUS
      <4> QED  BY <3>1, <4>1, Zenon
    <3>3. Len(q) > 2 => Len(r) + (k + 1) < MaxPath
      <4>1. \A a \in Nat : a + k < MaxPath => (a - 1) + (k + 1) < MaxPath
        BY <3>1
      <4>2. Len(q) - 1 + (k + 1) < MaxPath
        BY <2>5, <3>1, <4>1, Zenon
      <4> QED  BY <2>3, <4>2, Zenon
    <3> QED  BY <2>3, <2>4, <3>2, <3>3, Zenon DEF Climbed, r
  <2>6. CASE r \in S
    <3>1. parent_of(r) \in T
      BY <2>6 DEF Parents
    <3> QED  BY <2>3, <2>4, <3>1, Zenon DEF Climbed, r
  <2> QED  BY <2>1, <2>5, <2>6, Zenon DEF r
<1> QED
  BY <1>1, <1>2, <1>3, Zenon

(* Every directory the builder lists is valid, and so is its parent's listing. *)
LEMMA DirectoriesClosed ==
  ASSUME NEW Names, NoName \in Names, NEW paths \in SUBSET Seq(Names), IsFiniteSet(paths),
         \A p \in paths : path_is_valid(p), 2 <= MaxPath
  PROVE  /\ Root \in Directories(paths)
         /\ \A q \in Directories(paths) : path_is_valid(q)
         /\ \A q \in (paths \union Directories(paths)) \ {Root} : parent_of(q) \in Directories(paths)
<1>1. PICK c : Climbs(c, paths, Names)
  BY ClimbExists
<1>2. MaxPath \in Nat
  BY SizeAssumption
<1> DEFINE T == {k \in 0 .. MaxPath : /\ c[0] \subseteq c[k]
                                      /\ \A q \in c[k] : Climbed(q, k, c[k])}
<1>3. \A k \in 0 .. MaxPath : c[k] \subseteq Seq(Names)
  BY <1>1 DEF Climbs
<1>4. path_is_valid(Root)
  <2>1. Len(Root) \in 2 .. MaxPath
    BY <1>2, RootShape
  <2>2. \A i \in DOMAIN Root : Root[i] # Nul
    BY RootShape
  <2> QED  BY <2>1, <2>2, RootShape, PathShape, Zenon
<1>5. 0 \in T
  <2> SUFFICES ASSUME NEW q \in c[0] PROVE Climbed(q, 0, c[0])
    BY <1>2
  <2>1. c[0] = {Root} \union Parents(paths)
    BY <1>1, Zenon DEF Climbs
  <2>2. CASE q = Root
    BY <1>4, <2>2, Zenon DEF Climbed
  <2>3. CASE q # Root
    <3>1. PICK p \in paths : q = parent_of(p)
      BY <2>1, <2>3 DEF Parents
    <3>2. CASE p = Root
      <4>1. q = NoPath
        BY <3>1, <3>2, ParentOfNone, Zenon
      <4> QED  BY <4>1, Zenon DEF Climbed
    <3>3. CASE p # Root
      <4>1. path_is_valid(p) /\ p \in Seq(Names) /\ Len(p) \in Nat
        OBVIOUS
      <4>2. /\ path_is_valid(q) /\ (Len(p) = 2 => q = Root)
            /\ (Len(p) > 2 => Len(q) = Len(p) - 1)
        BY <3>1, <3>3, <4>1, ParentShape, Zenon
      <4>3. Len(p) \in 2 .. MaxPath
        BY <4>1, PathShape, Zenon
      <4>4. Len(p) = 2 \/ (Len(p) > 2 /\ Len(p) - 1 + 0 < MaxPath)
        <5>1. \A a, b \in Nat : a \in 2 .. b => a = 2 \/ (a > 2 /\ a - 1 + 0 < b)
          OBVIOUS
        <5> QED  BY <1>2, <4>1, <4>3, <5>1, Zenon
      <4>5. q # Root => Len(q) + 0 < MaxPath
        BY <4>2, <4>4, Zenon
      <4> QED  BY <4>2, <4>5, Zenon DEF Climbed
    <3> QED  BY <3>2, <3>3
  <2> QED  BY <2>2, <2>3
<1>6. \A k \in 1 .. MaxPath : k - 1 \in T => k \in T
  <2> SUFFICES ASSUME NEW k \in 1 .. MaxPath, c[0] \subseteq c[k - 1],
                      \A q \in c[k - 1] : Climbed(q, k - 1, c[k - 1])
               PROVE  k \in 0 .. MaxPath /\ c[0] \subseteq c[k]
                      /\ \A q \in c[k] : Climbed(q, k, c[k])
    BY Zenon
  <2>1. k \in 0 .. MaxPath /\ k - 1 \in 0 .. MaxPath /\ k - 1 \in Nat /\ (k - 1) + 1 = k
    BY <1>2
  <2>2. c[k] = c[k - 1] \union Parents(c[k - 1])
    BY <1>1, Zenon DEF Climbs
  <2>3. ASSUME NEW q \in c[k - 1] PROVE Climbed(q, k, c[k]) /\ Climbed(parent_of(q), k, c[k])
    <3>1. q \in Seq(Names) /\ c[k - 1] \subseteq c[k] /\ Parents(c[k - 1]) \subseteq c[k]
      BY <1>3, <2>1, <2>2
    <3>2. Climbed(q, k - 1, c[k - 1])
      OBVIOUS
    <3>3. Climbed(q, (k - 1) + 1, c[k]) /\ Climbed(parent_of(q), (k - 1) + 1, c[k])
      BY <2>1, <3>1, <3>2, ClimbStep, Zenon
    <3> QED  BY <2>1, <3>3, Zenon
  <2>4. \A q \in c[k] : Climbed(q, k, c[k])
    <3> TAKE q \in c[k]
    <3>1. q \in c[k - 1] \/ \E r \in c[k - 1] : q = parent_of(r)
      BY <2>2 DEF Parents
    <3> QED  BY <2>3, <3>1, Zenon
  <2> QED  BY <2>1, <2>2, <2>4
<1>7. T \in SUBSET (0 .. MaxPath)
  OBVIOUS
<1>8. MaxPath \in T
  <2> HIDE DEF T
  <2>1. T = 0 .. MaxPath
    BY <1>2, <1>5, <1>6, <1>7, UpTo
  <2> QED  BY <1>2, <2>1
<1> DEFINE last == c[MaxPath]
           dirs == Directories(paths)
<1>9. c[0] \subseteq last /\ \A q \in last : Climbed(q, MaxPath, last)
  BY <1>8
<1>10. dirs = last \ {NoPath}
  BY <1>1, Zenon DEF Climbs
<1>11. c[0] = {Root} \union Parents(paths)
  BY <1>1, Zenon DEF Climbs
<1>12. last \subseteq Seq(Names)
  BY <1>2, <1>3
<1> HIDE DEF last, dirs, T
<1>13. Root \in dirs
  BY <1>9, <1>10, <1>11, RootShape
<1>14. \A q \in dirs : path_is_valid(q)
  BY <1>9, <1>10 DEF Climbed
<1>15. ASSUME NEW q \in dirs, q # Root PROVE parent_of(q) \in dirs
  <2>1. q \in Seq(Names) /\ q \in last /\ q # NoPath /\ path_is_valid(q)
    BY <1>10, <1>12, <1>14
  <2>2. ~(Len(q) + MaxPath < MaxPath)
    <3>1. Len(q) \in Nat
      BY <2>1
    <3> QED  BY <1>2, <3>1
  <2>3. parent_of(q) \in last
    BY <1>9, <1>15, <2>1, <2>2, Zenon DEF Climbed
  <2>4. parent_of(q) # NoPath
    BY <1>15, <2>1, ParentShape, Zenon
  <2> QED  BY <1>10, <2>3, <2>4
<1>16. ASSUME NEW q \in paths, q # Root PROVE parent_of(q) \in dirs
  <2>1. q \in Seq(Names) /\ path_is_valid(q)
    OBVIOUS
  <2>2. parent_of(q) # NoPath
    BY <1>16, <2>1, ParentShape, Zenon
  <2>3. parent_of(q) \in last
    BY <1>9, <1>11 DEF Parents
  <2> QED  BY <1>10, <2>2, <2>3
<1> QED
  BY <1>13, <1>14, <1>15, <1>16 DEF dirs

-----------------------------------------------------------------------------
(* What the kernel mounts is what the builder packed. *)

(* A row is a directory of the climb or one of the files. *)
RowKind(i, L, files, m, d) ==
  \/ i \in 1 .. m /\ L[i] = DirEntry(d[i]) /\ d[i] \in Directories(PathsOf(files))
  \/ i > m /\ \E k \in 1 .. Len(files) : i = m + k /\ L[i] = FileEntry(files[k])

(* A row of the table is a directory's or a file's. *)
LEMMA RowKinds ==
  ASSUME NEW Names, NEW Data, NEW files \in Seq(Files(Names, Data)), NEW L, NEW m, NEW d,
         Lists(L, files, m, d), NEW i \in 1 .. Len(L)
  PROVE  RowKind(i, L, files, m, d)
<1> DEFINE D == Directories(PathsOf(files))
           F == Len(files)
<1>1. m \in Nat /\ d \in Bijection(1 .. m, D)
  BY Zenon DEF Lists
<1>2. Len(L) = m + F
  BY Zenon DEF Lists
<1>3. F \in Nat
  OBVIOUS
<1>4. (\A k \in 1 .. m : L[k] = DirEntry(d[k]))
      /\ \A k \in 1 .. F : L[m + k] = FileEntry(files[k])
  BY Zenon DEF Lists
<1> HIDE DEF D, F
<1>5. \A k \in 1 .. m : d[k] \in D
  BY <1>1 DEF Bijection, Injection
<1>6. CASE i \in 1 .. m
  BY <1>4, <1>5, <1>6, Zenon DEF D, RowKind
<1>7. CASE i \notin 1 .. m
  <2>1. i > m /\ i - m \in 1 .. F /\ i = m + (i - m)
    BY <1>1, <1>2, <1>3, <1>7
  <2> QED  BY <1>4, <2>1, Zenon DEF F, RowKind
<1> QED
  BY <1>6, <1>7

(* Files of different numbers have different paths. *)
LEMMA FilesDiffer ==
  ASSUME NEW files, Len(files) \in Nat, DOMAIN files = 1 .. Len(files),
         Cardinality(PathsOf(files)) = Len(files),
         NEW j \in 1 .. Len(files), NEW k \in 1 .. Len(files), files[j].path = files[k].path
  PROVE  j = k
<1> DEFINE P == PathsOf(files)
           n == Len(files)
           f == [i \in 1 .. n |-> files[i].path]
<1>1. f \in Surjection(1 .. n, P)
  BY DEF Surjection, PathsOf
<1>2. IsFiniteSet(1 .. n) /\ Cardinality(1 .. n) = n
  <2>1. \A a \in Nat : IsFiniteSet(1 .. a) /\ Cardinality(1 .. a) = a
    <3> TAKE a \in Nat
    <3>1. 1 \in Int /\ a \in Int
      OBVIOUS
    <3>2. IsFiniteSet(1 .. a) /\ Cardinality(1 .. a) = IF 1 > a THEN 0 ELSE a - 1 + 1
      BY <3>1, FS_Interval, Zenon
    <3> QED  BY <3>2
  <2> QED  BY <2>1, Zenon
<1>3. Cardinality(P) = n
  OBVIOUS
<1> HIDE DEF P, f
<1>4. f \in Injection(1 .. n, P)
  BY <1>1, <1>2, <1>3, FS_SurjSameCardinalityImpliesInj
<1>5. f[j] = f[k]
  BY DEF f
<1> QED
  BY <1>4, <1>5 DEF Injection, IsInjective

(* No two rows have the same path. *)
LEMMA RowsDiffer ==
  ASSUME NEW Names, NEW Data, NEW files \in Seq(Files(Names, Data)), Buildable(files),
         NEW L, NEW m, NEW d, Lists(L, files, m, d),
         NEW i \in 1 .. Len(L), NEW j \in 1 .. Len(L), L[i].path = L[j].path
  PROVE  i = j
<1> DEFINE D == Directories(PathsOf(files))
<1>1. Cardinality(PathsOf(files)) = Len(files) /\ PathsOf(files) \intersect D = {}
  BY Zenon DEF Buildable, PathsOf
<1>2. Len(files) \in Nat /\ DOMAIN files = 1 .. Len(files)
  OBVIOUS
<1>3. d \in Bijection(1 .. m, D)
  BY Zenon DEF Lists
<1> HIDE DEF D
<1>4. \A p : DirEntry(p).path = p /\ \A f : FileEntry(f).path = f.path
  BY DEF DirEntry, FileEntry
<1>5. \A k \in 1 .. Len(files) : files[k].path \in PathsOf(files)
  BY <1>2, Zenon DEF PathsOf
<1>6. \A k \in 1 .. Len(L) :
         \/ k \in 1 .. m /\ L[k].path = d[k] /\ d[k] \in D
         \/ \E x \in 1 .. Len(files) : k = m + x /\ L[k].path = files[x].path
  <2> TAKE k \in 1 .. Len(L)
  <2>1. RowKind(k, L, files, m, d)
    BY RowKinds, Zenon
  <2>2. CASE k \in 1 .. m /\ L[k] = DirEntry(d[k]) /\ d[k] \in D
    BY <1>4, <2>2, Zenon
  <2>3. ASSUME NEW x \in 1 .. Len(files), k = m + x, L[k] = FileEntry(files[x])
        PROVE  k = m + x /\ L[k].path = files[x].path
    BY <1>4, <2>3, Zenon
  <2> QED  BY <2>1, <2>2, <2>3, Zenon DEF RowKind, D
<1>7. CASE i \in 1 .. m /\ L[i].path = d[i] /\ d[i] \in D
  <2>1. CASE j \in 1 .. m /\ L[j].path = d[j]
    BY <1>3, <1>7, <2>1 DEF Bijection, Injection, IsInjective
  <2>2. ASSUME NEW x \in 1 .. Len(files), L[j].path = files[x].path PROVE FALSE
    BY <1>1, <1>5, <1>7, <2>2
  <2>3. ASSUME NEW x \in 1 .. Len(files), j = m + x, L[j].path = files[x].path PROVE i = j
    BY <2>2, <2>3
  <2> QED  BY <1>6, <2>1, <2>3, Zenon
<1>8. ASSUME NEW x \in 1 .. Len(files), i = m + x, L[i].path = files[x].path PROVE i = j
  <2>1. ASSUME L[j].path = d[j], d[j] \in D PROVE FALSE
    BY <1>1, <1>5, <1>8, <2>1
  <2>2. ASSUME NEW y \in 1 .. Len(files), j = m + y, L[j].path = files[y].path PROVE i = j
    <3>1. x = y
      <4>1. files[x].path = files[y].path
        BY <1>8, <2>2
      <4> QED  BY <1>1, <1>2, <4>1, FilesDiffer
    <3> QED  BY <1>8, <2>2, <3>1
  <2> QED  BY <1>6, <2>1, <2>2, Zenon
<1> QED
  BY <1>6, <1>7, <1>8, Zenon

(* An archive, the rows of its table and the data they lead to. *)
Packing(Names, Data, files, L, B, bytes, m, d) ==
  /\ files \in Seq(Files(Names, Data)) /\ L \in Seq(Rows(Names, Data))
  /\ Lists(L, files, m, d) /\ Concats(B, L, Data) /\ Packs(bytes, L, B)

(* What build_archive writes is a packing of its files. *)
LEMMA ArchiveIsPacking ==
  ASSUME NEW Names, NoName \in Names, NEW Data, NEW files \in Seq(Files(Names, Data))
  PROVE  \E L, B, m, d : Packing(Names, Data, files, L, B, build_archive(files), m, d)
<1> DEFINE L == Listed(files)
           B == Blobs(L)
<1>1. L \in Seq(Rows(Names, Data)) /\ \E m, d : Lists(L, files, m, d)
  BY ListedExact
<1>2. Packs(build_archive(files), L, B)
  BY ArchivePacks
<1> HIDE DEF L
<1>3. Concats(B, L, Data)
  BY <1>1, BlobsExact
<1> HIDE DEF B
<1> QED
  BY <1>1, <1>2, <1>3, Zenon DEF Packing

(* What the table holds for row i: its path, and where its data lies. *)
RowEntry(e, row, start, B, i) ==
  /\ DOMAIN e = {"path", "dir", "offset", "len"}
  /\ e.path = row.path /\ e.dir = row.dir /\ e.len = Len(row.data)
  /\ ~row.dir => e.offset = start + Len(B[i - 1])

Table(Names, Data, L, B, bytes) ==
  /\ bytes[1] = Header(L) /\ bytes[1].count = Len(L) /\ Len(L) \in Nat
  /\ Len(bytes) = 1 + Len(L) + Len(B[Len(L)]) /\ Len(B[Len(L)]) \in Nat
  /\ \A i \in 1 .. Len(L) : RowEntry(bytes[HEADER_SIZE + i], L[i], 1 + Len(L), B, i)
  /\ \A i \in 1 .. Len(L) : L[i] \in Rows(Names, Data)

(* Reading the table of a built archive gives its rows back. *)
LEMMA TableExact ==
  ASSUME NEW Names, NEW Data, NEW files, NEW L, NEW B, NEW bytes, NEW m, NEW d,
         Packing(Names, Data, files, L, B, bytes, m, d)
  PROVE  Table(Names, Data, L, B, bytes)
<1>1. Packs(bytes, L, B) /\ L \in Seq(Rows(Names, Data)) /\ Concats(B, L, Data)
  BY Zenon DEF Packing
<1>2. bytes[1] = Header(L) /\ Header(L).count = Len(L) /\ Len(bytes) = 1 + Len(L) + Len(B[Len(L)])
  BY <1>1 DEF Packs, Header
<1>3. Len(L) \in Nat /\ \A i \in 1 .. Len(L) : L[i] \in Rows(Names, Data)
  BY <1>1
<1>4. Len(B[Len(L)]) \in Nat
  <2>1. Len(L) \in 0 .. Len(L)
    BY <1>3
  <2>2. B[Len(L)] \in Seq(Data)
    BY <1>1, <2>1, Zenon DEF Concats
  <2> QED  BY <2>2
<1>5. ASSUME NEW i \in 1 .. Len(L) PROVE RowEntry(bytes[HEADER_SIZE + i], L[i], 1 + Len(L), B, i)
  <2>1. bytes[HEADER_SIZE + i] = EntryOf(L, B, i)
    BY <1>1, Zenon DEF Packs, HEADER_SIZE
  <2>2. Len(L) * 1 = Len(L)
    BY <1>3
  <2>3. HEADER_SIZE + Len(L) * ENTRY_SIZE = 1 + Len(L)
    BY <2>2, Zenon DEF HEADER_SIZE, ENTRY_SIZE
  <2> DEFINE e == EntryOf(L, B, i)
  <2>4. /\ DOMAIN e = {"path", "dir", "offset", "len"}
        /\ e.path = L[i].path /\ e.dir = L[i].dir /\ e.len = Len(L[i].data)
    BY DEF EntryOf
  <2>5. e.offset = IF L[i].dir THEN 0 ELSE HEADER_SIZE + Len(L) * ENTRY_SIZE + Len(B[i - 1])
    BY DEF EntryOf
  <2> HIDE DEF e
  <2>6. ~L[i].dir => e.offset = 1 + Len(L) + Len(B[i - 1])
    BY <2>3, <2>5, Zenon
  <2>7. RowEntry(e, L[i], 1 + Len(L), B, i)
    BY <2>4, <2>6, Zenon DEF RowEntry
  <2> QED  BY <2>1, <2>7, Zenon DEF e
<1> QED
  BY <1>2, <1>3, <1>4, <1>5, Zenon DEF Table

(* The data of row i, in the table's terms. *)
DataIs(bytes, i, row) ==
  LET e == bytes[HEADER_SIZE + i]
  IN /\ e.offset \in Nat /\ e.len \in Nat /\ e.offset + e.len <= Len(bytes)
     /\ \A j \in 1 .. e.len : bytes[e.offset + j] = row.data[j]

(* The data of a file's row is its own, and lies within the archive. *)
LEMMA DataInside ==
  ASSUME NEW Names, NEW Data, NEW files, NEW L, NEW B, NEW bytes, NEW m, NEW d,
         Packing(Names, Data, files, L, B, bytes, m, d), NEW i \in 1 .. Len(L), ~L[i].dir
  PROVE  DataIs(bytes, i, L[i])
<1> DEFINE e == bytes[HEADER_SIZE + i]
           a == Len(L)
           b == Len(B[i - 1])
           all == Len(B[Len(L)])
           n == Len(L[i].data)
<1>1. Packs(bytes, L, B) /\ Concats(B, L, Data)
  BY Zenon DEF Packing
<1>2. a \in Nat /\ all \in Nat /\ Len(bytes) = 1 + a + all
      /\ e.len = n /\ e.offset = 1 + a + b
      /\ \A k \in 1 .. Len(L) : L[k] \in Rows(Names, Data)
  <2>0. Table(Names, Data, L, B, bytes)
    BY TableExact, Zenon
  <2>1. RowEntry(bytes[HEADER_SIZE + i], L[i], 1 + Len(L), B, i)
    BY <2>0, Zenon DEF Table
  <2>2. e.len = n /\ e.offset = 1 + a + b
    BY <2>1, Zenon DEF RowEntry
  <2>3. a \in Nat /\ all \in Nat /\ Len(bytes) = 1 + a + all
    BY <2>0, Zenon DEF Table
  <2>4. \A k \in 1 .. Len(L) : L[k] \in Rows(Names, Data)
    BY <2>0, Zenon DEF Table
  <2> QED  BY <2>2, <2>3, <2>4, Zenon
<1>3. \A k \in 1 .. Len(L) : L[k].data \in Seq(Data)
  BY <1>2 DEF Rows
<1>4. /\ b \in Nat /\ b + n <= all
      /\ \A j \in 1 .. n : B[Len(L)][b + j] = L[i].data[j]
  <2>1. Len(L) \in Nat
    BY <1>2, Zenon
  <2>2. DataAt(L, B, i)
    BY <1>1, <1>3, <2>1, RowData, Zenon
  <2> QED  BY <2>2, Zenon DEF DataAt
<1>5. n \in Nat
  BY <1>3
<1>6. \A j \in 1 .. all : bytes[1 + a + j] = B[Len(L)][j]
  BY <1>1, Zenon DEF Packs
<1> HIDE DEF e, a, b, all, n
<1>7. e.offset \in Nat /\ e.len \in Nat /\ e.offset + e.len <= Len(bytes)
  BY <1>2, <1>4, <1>5
<1>8. ASSUME NEW j \in 1 .. n PROVE bytes[e.offset + j] = L[i].data[j]
  <2>1. b + j \in 1 .. all /\ e.offset + j = 1 + a + (b + j)
    BY <1>2, <1>4, <1>5
  <2>2. bytes[1 + a + (b + j)] = B[Len(L)][b + j]
    BY <1>6, <2>1, Zenon
  <2>3. B[Len(L)][b + j] = L[i].data[j]
    BY <1>4, Zenon
  <2> QED  BY <2>1, <2>2, <2>3, Zenon
<1> QED
  BY <1>2, <1>7, <1>8, Zenon DEF e, DataIs

(* The fields of a row. *)
LEMMA RowType ==
  ASSUME NEW Names, NEW Data, NEW row \in Rows(Names, Data)
  PROVE  row.path \in Seq(Names) /\ row.data \in Seq(Data) /\ row.dir \in BOOLEAN
BY DEF Rows

(* What a row says, by its kind. *)
RowIs(row, files) ==
  \/ /\ row.dir = TRUE /\ Len(row.data) = 0
     /\ row.path \in Directories(PathsOf(files))
  \/ /\ row.dir = FALSE /\ row.path \in PathsOf(files)
     /\ \E k \in DOMAIN files : row.path = files[k].path /\ row.data = files[k].data

(* A row is a directory's or a file's, whole. *)
LEMMA RowSays ==
  ASSUME NEW Names, NEW Data, NEW files, NEW L, NEW B, NEW bytes, NEW m, NEW d,
         Packing(Names, Data, files, L, B, bytes, m, d), NEW i \in 1 .. Len(L)
  PROVE  RowIs(L[i], files)
<1>1. files \in Seq(Files(Names, Data)) /\ Lists(L, files, m, d)
  BY Zenon DEF Packing
<1>2. RowKind(i, L, files, m, d)
  BY <1>1, RowKinds, Zenon
<1>3. DOMAIN files = 1 .. Len(files)
  BY <1>1
<1>4. CASE L[i] = DirEntry(d[i]) /\ d[i] \in Directories(PathsOf(files))
  <2>1. \A p : LET e == DirEntry(p) IN e.path = p /\ e.dir = TRUE /\ e.data = <<>>
    BY DEF DirEntry
  <2>2. Len(<<>>) = 0
    OBVIOUS
  <2> QED  BY <1>4, <2>1, <2>2, Zenon DEF RowIs
<1>5. ASSUME NEW k \in 1 .. Len(files), L[i] = FileEntry(files[k])
      PROVE  /\ L[i].dir = FALSE /\ L[i].path \in PathsOf(files)
             /\ k \in DOMAIN files /\ L[i].path = files[k].path /\ L[i].data = files[k].data
  <2>1. \A f : LET e == FileEntry(f) IN e.path = f.path /\ e.dir = FALSE /\ e.data = f.data
    BY DEF FileEntry
  <2>2. L[i].path = files[k].path /\ L[i].data = files[k].data /\ L[i].dir = FALSE
    BY <1>5, <2>1, Zenon
  <2>3. files[k].path \in PathsOf(files)
    BY <1>3, Zenon DEF PathsOf
  <2> QED  BY <1>3, <2>2, <2>3, Zenon
<1> QED
  BY <1>2, <1>4, <1>5, Zenon DEF RowKind, RowIs

(* Each directory and each file has its row. *)
DirRow(q, L) == \E i \in 1 .. Len(L) : L[i].path = q /\ L[i].dir = TRUE
FileRow(f, L) == \E i \in 1 .. Len(L) : /\ L[i].path = f.path /\ L[i].dir = FALSE
                                        /\ L[i].data = f.data

(* Every directory and every file has a row. *)
LEMMA HasRow ==
  ASSUME NEW Names, NEW Data, NEW files, NEW L, NEW B, NEW bytes, NEW m, NEW d,
         Packing(Names, Data, files, L, B, bytes, m, d)
  PROVE  /\ \A q \in Directories(PathsOf(files)) : DirRow(q, L)
         /\ \A k \in DOMAIN files : FileRow(files[k], L)
<1> DEFINE D == Directories(PathsOf(files))
           n == Len(L)
<1>1. files \in Seq(Files(Names, Data)) /\ Lists(L, files, m, d)
  BY Zenon DEF Packing
<1>2. m \in Nat /\ d \in Bijection(1 .. m, D) /\ n = m + Len(files)
  BY <1>1, Zenon DEF Lists
<1>3. (\A i \in 1 .. m : L[i] = DirEntry(d[i]))
      /\ \A i \in 1 .. Len(files) : L[m + i] = FileEntry(files[i])
  BY <1>1, Zenon DEF Lists
<1>4. Len(files) \in Nat /\ DOMAIN files = 1 .. Len(files)
  BY <1>1
<1> HIDE DEF D, n
<1>5. ASSUME NEW q \in D PROVE DirRow(q, L)
  <2>1. PICK i \in 1 .. m : d[i] = q
    BY <1>2 DEF Bijection, Surjection
  <2>2. i \in 1 .. n
    BY <1>2, <1>4
  <2>3. DirEntry(q).path = q /\ DirEntry(q).dir = TRUE
    BY DEF DirEntry
  <2> QED  BY <1>3, <2>1, <2>2, <2>3, Zenon DEF DirRow, n
<1>6. ASSUME NEW k \in DOMAIN files PROVE FileRow(files[k], L)
  <2>1. m + k \in 1 .. n /\ k \in 1 .. Len(files)
    BY <1>2, <1>4
  <2>2. \A f : LET e == FileEntry(f) IN e.path = f.path /\ e.dir = FALSE /\ e.data = f.data
    BY DEF FileEntry
  <2>3. L[m + k] = FileEntry(files[k])
    BY <1>3, <2>1, Zenon
  <2>4. L[m + k].path = files[k].path /\ L[m + k].dir = FALSE /\ L[m + k].data = files[k].data
    BY <2>2, <2>3, Zenon
  <2> QED  BY <2>1, <2>4, Zenon DEF FileRow, n
<1> QED
  BY <1>5, <1>6, Zenon DEF D

(* The kernel mounts every archive the builder builds. *)
LEMMA ArchiveMounts ==
  ASSUME NEW Names, NoName \in Names, NEW Data, NEW files, NEW L, NEW B, NEW bytes, NEW m, NEW d,
         Packing(Names, Data, files, L, B, bytes, m, d), Buildable(files), 2 <= MaxPath,
         IsFiniteSet(PathsOf(files)), PathsOf(files) \in SUBSET Seq(Names),
         Len(bytes) <= MaxWord
  PROVE  Mountable(bytes)
<1> DEFINE n == Len(L)
<1>0. Table(Names, Data, L, B, bytes)
  BY TableExact, Zenon
<1>1. /\ bytes[1] = Header(L) /\ bytes[1].count = n /\ n \in Nat
      /\ Len(bytes) = 1 + n + Len(B[n]) /\ Len(B[n]) \in Nat
  BY <1>0, Zenon DEF Table
<1>8. Len(bytes) \in Nat /\ Len(bytes) >= 1 /\ 1 + n * 1 <= Len(bytes)
  <2>1. \A a, b \in Nat : 1 + a + b \in Nat /\ 1 + a + b >= 1 /\ 1 + a * 1 <= 1 + a + b
    OBVIOUS
  <2> QED  BY <1>1, <2>1, Zenon
<1>2. \A i \in 1 .. n : /\ RowEntry(bytes[HEADER_SIZE + i], L[i], 1 + Len(L), B, i)
                        /\ L[i] \in Rows(Names, Data)
  BY <1>0, Zenon DEF Table
<1>3. /\ IsHeader(Header(L)) /\ Header(L).magic = TRUE /\ Header(L).version = Version
  BY DEF IsHeader, Header
<1>4. \A q \in PathsOf(files) \union Directories(PathsOf(files)) : path_is_valid(q)
  <2>1. \A q \in PathsOf(files) : path_is_valid(q)
    BY Zenon DEF Buildable, PathsOf
  <2>2. \A q \in Directories(PathsOf(files)) : path_is_valid(q)
    BY <2>1, DirectoriesClosed, Zenon
  <2> QED  BY <2>1, <2>2, Zenon
<1>5. ASSUME NEW i \in 1 .. n PROVE EntryAccepted(bytes, HEADER_SIZE + i)
  <2> DEFINE e == bytes[HEADER_SIZE + i]
  <2>1. /\ DOMAIN e = {"path", "dir", "offset", "len"}
        /\ e.path = L[i].path /\ e.dir = L[i].dir /\ e.len = Len(L[i].data)
    BY <1>2, Zenon DEF RowEntry
  <2>2. ~L[i].dir => e.offset \in Nat /\ e.len \in Nat /\ e.offset + e.len <= Len(bytes)
    <3> SUFFICES ASSUME ~L[i].dir PROVE DataIs(bytes, i, L[i])
      BY Zenon DEF DataIs
    <3> QED  BY DataInside, Zenon
  <2> HIDE DEF e
  <2>3. IsEntry(e)
    BY <2>1 DEF IsEntry
  <2>r. RowIs(L[i], files)
    BY RowSays, Zenon
  <2>4. path_is_valid(e.path)
    BY <1>4, <2>1, <2>r, Zenon DEF RowIs
  <2>5. L[i].dir = TRUE => e.len = 0
    BY <2>1, <2>r, Zenon DEF RowIs
  <2>6. L[i].dir \in BOOLEAN
    BY <1>2, RowType, Zenon
  <2>7. ~L[i].dir => checked_add(e.offset, e.len) <= Len(bytes)
    <3> SUFFICES ASSUME ~L[i].dir PROVE checked_add(e.offset, e.len) <= Len(bytes)
      OBVIOUS
    <3>1. ~(e.offset + e.len > MaxWord)
      <4>1. \A a, b \in Nat : a <= b /\ b <= MaxWord => ~(a > MaxWord)
        BY SizeAssumption
      <4>2. e.offset + e.len \in Nat
        BY <2>2
      <4> QED  BY <1>8, <2>2, <4>1, <4>2, Zenon
    <3> QED  BY <2>2, <3>1, Zenon DEF checked_add
  <2>8. IF e.dir THEN e.len = 0 ELSE checked_add(e.offset, e.len) <= Len(bytes)
    BY <2>1, <2>5, <2>6, <2>7, Zenon
  <2> QED  BY <2>3, <2>4, <2>8, Zenon DEF EntryAccepted, e
<1>6. ASSUME NEW i \in 1 .. n, NEW j \in 1 .. n, i # j
      PROVE  bytes[HEADER_SIZE + i].path # bytes[HEADER_SIZE + j].path
  <2>1. bytes[HEADER_SIZE + i].path = L[i].path /\ bytes[HEADER_SIZE + j].path = L[j].path
    BY <1>2, Zenon DEF RowEntry
  <2>2. files \in Seq(Files(Names, Data)) /\ Lists(L, files, m, d)
    BY Zenon DEF Packing
  <2>3. L[i].path # L[j].path
    BY <1>6, <2>2, RowsDiffer, Zenon
  <2> QED  BY <2>1, <2>3, Zenon
<1>7. Len(bytes) >= HEADER_SIZE /\ HEADER_SIZE + n * ENTRY_SIZE <= Len(bytes)
  BY <1>8, Zenon DEF HEADER_SIZE, ENTRY_SIZE
<1> HIDE DEF n
<1> QED
  BY <1>1, <1>3, <1>5, <1>6, <1>7, Zenon DEF Mountable

(* The nodes of a mounted archive: the files and the directories above them. *)
NodesFrom(nodes, bytes, L) ==
  /\ DOMAIN nodes = {L[i].path : i \in 1 .. Len(L)}
  /\ \A i \in 1 .. Len(L) : /\ path_is_valid(L[i].path)
                           /\ nodes[L[i].path] = NodeOf(bytes[HEADER_SIZE + i])

(* The nodes of a mounted archive that is whole are its rows. *)
LEMMA NodesAreRows ==
  ASSUME NEW Names, NoName \in Names, NEW Data, NEW files, NEW L, NEW B, NEW bytes, NEW m, NEW d,
         Packing(Names, Data, files, L, B, bytes, m, d), Mountable(bytes),
         Root \in Directories(PathsOf(files))
  PROVE  NodesFrom(NodesOf(bytes), bytes, L)
<1> DEFINE n == Len(L)
<1>0. Table(Names, Data, L, B, bytes)
  BY TableExact, Zenon
<1>1. bytes[1].count = n /\ n \in Nat
  BY <1>0, Zenon DEF Table
<1>2. \A i \in 1 .. n : bytes[HEADER_SIZE + i].path = L[i].path
  BY <1>0, Zenon DEF Table, RowEntry
<1>3. Listing(bytes) = {bytes[HEADER_SIZE + i] : i \in 1 .. n}
  BY <1>1, Zenon DEF Listing
<1>4. /\ DOMAIN NodesOf(bytes) = {e.path : e \in Listing(bytes)} \union {Root}
      /\ \A e \in Listing(bytes) : NodesOf(bytes)[e.path] = NodeOf(e)
  BY NodesExact, Zenon
<1>5. \E i \in 1 .. n : L[i].path = Root
  <2>1. DirRow(Root, L)
    BY HasRow, Zenon
  <2> QED  BY <2>1, Zenon DEF DirRow
<1>6. {e.path : e \in Listing(bytes)} = {L[i].path : i \in 1 .. n}
  BY <1>2, <1>3
<1>7. DOMAIN NodesOf(bytes) = {L[i].path : i \in 1 .. n}
  BY <1>4, <1>5, <1>6
<1>8. ASSUME NEW i \in 1 .. n
      PROVE  /\ path_is_valid(L[i].path)
             /\ NodesOf(bytes)[L[i].path] = NodeOf(bytes[HEADER_SIZE + i])
  <2>1. bytes[HEADER_SIZE + i] \in Listing(bytes)
    BY <1>3, Zenon
  <2>2. EntryAccepted(bytes, HEADER_SIZE + i)
    BY <1>1, Zenon DEF Mountable
  <2> QED  BY <1>2, <1>4, <2>1, <2>2, Zenon DEF EntryAccepted
<1> QED
  BY <1>7, <1>8, Zenon DEF NodesFrom

(* A path's parent lists it. *)
LEMMA ParentLists ==
  ASSUME NEW Names, NoName \in Names, NEW p \in Seq(Names), path_is_valid(p), p # Root,
         p \in DOMAIN fs.nodes
  PROVE  p \in read_dir(parent_of(p))
<1> DEFINE q == parent_of(p)
           depth == IF q = Root THEN 1 ELSE Len(q)
<1>1. read_dir(q) = {c \in DOMAIN fs.nodes : /\ c # q /\ Len(c) = depth + 1
                                             /\ SubSeq(c, 1, depth) = SubSeq(q, 1, depth)}
  BY Zenon DEF read_dir
<1>2. /\ Len(p) = 2 => q = Root
      /\ Len(p) > 2 => q = SubSeq(p, 1, Len(p) - 1) /\ Len(q) = Len(p) - 1 /\ q # Root
  BY ParentShape, Zenon
<1>3. Len(p) \in 2 .. MaxPath /\ p[1] = NoName
  BY PathShape, Zenon
<1>4. Len(p) = 2 \/ Len(p) > 2
  <2>1. \A a \in Nat : a \in 2 .. MaxPath => a = 2 \/ a > 2
    BY SizeAssumption
  <2>2. Len(p) \in Nat
    OBVIOUS
  <2> QED  BY <1>3, <2>1, <2>2, Zenon
<1> HIDE DEF q
<1>5. CASE Len(p) = 2
  <2>1. q = Root /\ depth = 1
    BY <1>2, <1>5
  <2>2. \A s, t \in Seq(Names) : Len(s) = 2 /\ Len(t) = 2 /\ s[1] = t[1] =>
                                   SubSeq(s, 1, 1) = SubSeq(t, 1, 1)
    <3> SUFFICES ASSUME NEW s \in Seq(Names), NEW t \in Seq(Names), Len(s) = 2, Len(t) = 2,
                        s[1] = t[1]
                 PROVE  SubSeq(s, 1, 1) = SubSeq(t, 1, 1)
      OBVIOUS
    <3>0. ASSUME NEW r \in Seq(Names), Len(r) = 2
          PROVE  /\ SubSeq(r, 1, 1) \in Seq(Names) /\ Len(SubSeq(r, 1, 1)) = 1
                 /\ SubSeq(r, 1, 1)[1] = r[1]
      <4>1. 1 \in Int /\ \A i \in 1 .. 1 : r[i] \in Names
        BY <3>0
      <4>2. /\ SubSeq(r, 1, 1) \in Seq(Names)
            /\ Len(SubSeq(r, 1, 1)) = IF 1 <= 1 THEN 1 - 1 + 1 ELSE 0
            /\ \A i \in 1 .. 1 - 1 + 1 : SubSeq(r, 1, 1)[i] = r[1 + i - 1]
        BY <4>1, SubSeqProperties
      <4> QED  BY <4>2
    <3>1. /\ SubSeq(s, 1, 1) \in Seq(Names) /\ Len(SubSeq(s, 1, 1)) = 1
          /\ SubSeq(s, 1, 1)[1] = s[1]
      BY <3>0
    <3>2. /\ SubSeq(t, 1, 1) \in Seq(Names) /\ Len(SubSeq(t, 1, 1)) = 1
          /\ SubSeq(t, 1, 1)[1] = t[1]
      BY <3>0
    <3> QED  BY <3>1, <3>2
  <2>4. SubSeq(p, 1, 1) = SubSeq(q, 1, 1)
    <3>1. Root \in Seq(Names)
      BY RootIsPath, Zenon
    <3> QED  BY <1>3, <1>5, <2>1, <2>2, <3>1, RootShape, Zenon
  <2>5. Len(p) = 1 + 1
    BY <1>5
  <2>6. p # q
    BY <2>1, Zenon
  <2> HIDE DEF depth
  <2> QED  BY <1>1, <2>1, <2>4, <2>5, <2>6, Zenon DEF q
<1>6. CASE Len(p) > 2
  <2>1. q = SubSeq(p, 1, Len(p) - 1) /\ Len(q) = Len(p) - 1 /\ depth = Len(q)
    BY <1>2, <1>6, Zenon
  <2> HIDE DEF depth
  <2>2. Len(p) = depth + 1 /\ p # q /\ SubSeq(p, 1, depth) = q
    <3>1. Len(p) \in Nat
      OBVIOUS
    <3>2. Len(p) = Len(p) - 1 + 1 /\ Len(p) # Len(p) - 1
      BY <3>1
    <3> QED  BY <2>1, <3>2, Zenon
  <2>3. SubSeq(q, 1, depth) = q
    <3>1. q \in Seq(Names)
      BY <1>6, <2>1
    <3>2. \A s \in Seq(Names) : SubSeq(s, 1, Len(s)) = s
      OBVIOUS
    <3> QED  BY <2>1, <3>1, <3>2, Zenon
  <2> QED  BY <1>1, <2>2, <2>3, Zenon DEF q
<1> QED
  BY <1>4, <1>5, <1>6, Zenon

(* Whatever files the builder accepts, the namespace mounted from its archive
   gives back: build_archive against mount, read and read_dir. *)
LEMMA RoundTrip ==
  ASSUME NEW Names, NoName \in Names, NEW Data, NEW files, NEW L, NEW B, NEW m, NEW d,
         Packing(Names, Data, files, L, B, ramdisk, m, d), Buildable(files), 2 <= MaxPath,
         IsFiniteSet(PathsOf(files)), PathsOf(files) \in SUBSET Seq(Names), Mountable(ramdisk),
         fs.nodes = NodesOf(ramdisk), fs.len = Len(ramdisk), NEW S, ramdisk \in Seq(S)
  PROVE  HoldsAll(files)
<1> DEFINE n == Len(L)
           D == Directories(PathsOf(files))
           row(i) == ramdisk[HEADER_SIZE + i]
<1>0. Table(Names, Data, L, B, ramdisk)
  BY TableExact, Zenon
<1>1. \A q \in PathsOf(files) : path_is_valid(q)
  BY Zenon DEF Buildable, PathsOf
<1>2. /\ Root \in D
      /\ \A q \in (PathsOf(files) \union D) \ {Root} : parent_of(q) \in D
  BY <1>1, DirectoriesClosed, Zenon
<1>3. /\ DOMAIN fs.nodes = {L[i].path : i \in 1 .. n}
      /\ \A i \in 1 .. n : path_is_valid(L[i].path) /\ fs.nodes[L[i].path] = NodeOf(row(i))
  <2>1. NodesFrom(NodesOf(ramdisk), ramdisk, L)
    BY <1>2, NodesAreRows, Zenon
  <2> QED  BY <2>1, Zenon DEF NodesFrom
<1>4. ASSUME NEW i \in 1 .. n
      PROVE  /\ fs.nodes[L[i].path].dir = L[i].dir
             /\ fs.nodes[L[i].path].len = row(i).len
             /\ fs.nodes[L[i].path].offset = row(i).offset
             /\ row(i).len = Len(L[i].data)
             /\ L[i].path \in Seq(Names) /\ L[i].data \in Seq(Data)
  <2>1. RowEntry(row(i), L[i], 1 + n, B, i) /\ L[i] \in Rows(Names, Data)
    BY <1>0, Zenon DEF Table
  <2>2. \A e : LET x == NodeOf(e) IN x.dir = e.dir /\ x.len = e.len /\ x.offset = e.offset
    BY DEF NodeOf
  <2>3. L[i].path \in Seq(Names) /\ L[i].data \in Seq(Data)
    BY <2>1, RowType, Zenon
  <2> HIDE DEF row
  <2> QED  BY <1>3, <2>1, <2>2, <2>3, Zenon DEF RowEntry
<1>5. ASSUME NEW k \in DOMAIN files
      PROVE  /\ Readable(files[k].path) /\ read_all(files[k].path) = files[k].data
  <2>1. FileRow(files[k], L)
    BY HasRow, Zenon
  <2>2. PICK i \in 1 .. n : /\ L[i].path = files[k].path /\ L[i].dir = FALSE
                            /\ L[i].data = files[k].data
    BY <2>1, Zenon DEF FileRow
  <2> DEFINE p == files[k].path
             x == fs.nodes[p]
             data == L[i].data
  <2>3. /\ p \in DOMAIN fs.nodes /\ x.dir = FALSE /\ x.len = Len(data)
        /\ x.len = row(i).len /\ x.offset = row(i).offset /\ data \in Seq(Data)
    BY <1>3, <1>4, <2>2, Zenon
  <2>4. Readable(p)
    BY <2>3, Zenon DEF Readable, lookup
  <2>5. /\ row(i).offset \in Nat /\ row(i).len \in Nat
        /\ row(i).offset + row(i).len <= Len(ramdisk)
        /\ \A j \in 1 .. row(i).len : ramdisk[row(i).offset + j] = data[j]
    <3>1. DataIs(ramdisk, i, L[i])
      BY <2>2, DataInside, Zenon
    <3> QED  BY <3>1, Zenon DEF DataIs
  <2>6. /\ x.offset \in Nat /\ x.len \in Nat /\ x.offset + x.len <= Len(ramdisk)
        /\ \A j \in 1 .. x.len : ramdisk[x.offset + j] = data[j]
    BY <2>3, <2>5, Zenon
  <2> HIDE DEF p, data, x, row
  <2>7. x.len - 0 = x.len /\ x.offset + 0 = x.offset
    BY <2>6
  <2>8. read_all(p) = IF 0 >= x.len \/ x.offset + x.len > Len(ramdisk) THEN <<>>
                      ELSE SubSeq(ramdisk, x.offset + 1, x.offset + x.len)
    BY <2>3, <2>6, <2>7 DEF read_all, read, x
  <2>9. CASE 0 >= x.len
    <3>1. x.len = 0
      BY <2>6, <2>9
    <3>2. data = <<>>
      <4>1. \A s \in Seq(Data) : Len(s) = 0 => s = <<>>
        OBVIOUS
      <4>2. Len(data) = 0
        BY <2>3, <3>1, Zenon
      <4> QED  BY <2>3, <4>1, <4>2, Zenon
    <3>3. read_all(p) = <<>>
      BY <2>8, <2>9, Zenon
    <3> QED  BY <2>2, <2>4, <3>2, <3>3, Zenon DEF p, data
  <2>10. CASE ~(0 >= x.len)
    <3> DEFINE a == x.offset
               l == x.len
               got == SubSeq(ramdisk, a + 1, a + l)
    <3>1. read_all(p) = got
      <4>1. ~(x.offset + x.len > Len(ramdisk))
        BY <2>6
      <4> QED  BY <2>8, <2>10, <4>1, Zenon
    <3>2. a \in Nat /\ l \in Nat /\ l > 0 /\ a + l <= Len(ramdisk)
      BY <2>6, <2>10
    <3>3. \A j \in 1 .. l : ramdisk[a + j] = data[j]
      BY <2>6, Zenon
    <3>4. data \in Seq(Data) /\ Len(data) = l
      BY <2>3, Zenon
    <3> HIDE DEF a, l
    <3>5. got \in Seq(S) /\ Len(got) = l /\ \A j \in 1 .. l : got[j] = ramdisk[a + j]
      <4>1. a + 1 \in Int /\ a + l \in Int /\ a + 1 <= a + l
            /\ (\A j \in a + 1 .. a + l : j \in 1 .. Len(ramdisk))
            /\ (a + l) - (a + 1) + 1 = l /\ \A j \in 1 .. l : a + 1 + j - 1 = a + j
        BY <3>2
      <4>2. \A j \in a + 1 .. a + l : ramdisk[j] \in S
        BY <4>1
      <4>3. /\ got \in Seq(S)
            /\ Len(got) = IF a + 1 <= a + l THEN (a + l) - (a + 1) + 1 ELSE 0
            /\ \A j \in 1 .. (a + l) - (a + 1) + 1 : got[j] = ramdisk[a + 1 + j - 1]
        BY <4>1, <4>2, SubSeqProperties
      <4> HIDE DEF got
      <4> QED  BY <4>1, <4>3
    <3> HIDE DEF got
    <3>6. got = data
      BY <3>3, <3>4, <3>5
    <3> QED  BY <2>2, <2>4, <3>1, <3>6, Zenon DEF p, data
  <2> QED  BY <2>9, <2>10
<1>6. \A p \in DOMAIN fs.nodes : p \in PathsOf(files) \union D /\ p \in Seq(Names) /\ path_is_valid(p)
  <2> TAKE p \in DOMAIN fs.nodes
  <2>1. PICK i \in 1 .. n : p = L[i].path
    BY <1>3, Zenon
  <2>2. p \in PathsOf(files) \/ p \in D
    <3>1. RowIs(L[i], files)
      BY RowSays, Zenon
    <3> QED  BY <2>1, <3>1, Zenon DEF RowIs
  <2> QED  BY <1>3, <1>4, <2>1, <2>2, Zenon
<1>7. ASSUME NEW q \in D PROVE q \in DOMAIN fs.nodes /\ fs.nodes[q].dir
  <2>1. DirRow(q, L)
    BY HasRow, Zenon
  <2>2. PICK i \in 1 .. n : L[i].path = q /\ L[i].dir = TRUE
    BY <2>1, Zenon DEF DirRow
  <2> QED  BY <1>3, <1>4, <2>2, Zenon
<1>8. ASSUME NEW p \in DOMAIN fs.nodes \ {Root}
      PROVE  \E q \in DOMAIN fs.nodes : fs.nodes[q].dir /\ p \in read_dir(q)
  <2>1. p \in PathsOf(files) \union D /\ p \in Seq(Names) /\ path_is_valid(p) /\ p # Root
    BY <1>6, Zenon
  <2>2. parent_of(p) \in D
    BY <1>2, <2>1
  <2>3. p \in read_dir(parent_of(p))
    BY <2>1, ParentLists, Zenon
  <2> QED  BY <1>7, <2>2, <2>3, Zenon
<1>9. ASSUME NEW p \in DOMAIN fs.nodes
      PROVE  fs.nodes[p].dir = (\A k \in DOMAIN files : files[k].path # p)
  <2>1. PICK i \in 1 .. n : p = L[i].path
    BY <1>3, Zenon
  <2>2. fs.nodes[p].dir = L[i].dir
    BY <1>4, <2>1, Zenon
  <2>3. CASE L[i].dir = TRUE /\ L[i].path \in D
    <3>1. p \notin PathsOf(files)
      <4>1. PathsOf(files) \intersect D = {}
        BY Zenon DEF Buildable, PathsOf
      <4> QED  BY <2>1, <2>3, <4>1
    <3>2. \A k \in DOMAIN files : files[k].path # p
      BY <3>1, Zenon DEF PathsOf
    <3> QED  BY <2>2, <2>3, <3>2, Zenon
  <2>4. CASE L[i].dir = FALSE /\ L[i].path \in PathsOf(files)
    <3>1. \E k \in DOMAIN files : files[k].path = p
      BY <2>1, <2>4, Zenon DEF PathsOf
    <3> QED  BY <2>2, <2>4, <3>1, Zenon
  <2>5. RowIs(L[i], files)
    BY RowSays, Zenon
  <2> QED  BY <2>3, <2>4, <2>5, Zenon DEF RowIs
<1> QED
  BY <1>5, <1>8, <1>9, Zenon DEF HoldsAll

-----------------------------------------------------------------------------
(* The invariant. *)

(* What is in memory was shipped, and what is mounted was built from it. *)
ArchiveInv ==
  /\ ramdisk # <<>> => \E found \in Shipped : /\ ramdisk = found.bytes
                                              /\ image.files = found.files
                                              /\ image.damaged = found.damaged
  /\ fs # NotMounted => /\ ramdisk # <<>> /\ Mountable(ramdisk)
                        /\ fs = [nodes |-> NodesOf(ramdisk), len |-> Len(ramdisk)]

(* The cells of the ramdisk, damaged or not, are well formed and not forged. *)
LEMMA RamdiskSafe ==
  ASSUME ArchiveInv
  PROVE  /\ \E S : ramdisk \in Seq(S)
         /\ \A i \in DOMAIN ramdisk : Safe(ramdisk[i])
         /\ Len(ramdisk) <= MaxWord
<1>1. CASE ramdisk = <<>>
  <2>1. ramdisk \in Seq({}) /\ Len(ramdisk) = 0 /\ DOMAIN ramdisk = {}
    BY <1>1
  <2>2. MaxWord \in Nat
    BY SizeAssumption
  <2> QED  BY <2>1, <2>2
<1>2. CASE ramdisk # <<>>
  <2>1. PICK found \in Shipped : ramdisk = found.bytes
    BY <1>2, Zenon DEF ArchiveInv
  <2> QED  BY <2>1, ShippedSafe
<1> QED
  BY <1>1, <1>2

(* Whatever is read of a file, a single cell of it is a cell of the archive. *)
InArchive(cell) == \E i \in DOMAIN ramdisk : ramdisk[i] = cell

(* What is read from a file is a cell of the archive, or nothing that is looked at. *)
LEMMA ReadSafe ==
  ASSUME ArchiveInv, NEW p, Readable(p)
  PROVE  LET cell == Only(read_all(p))
         IN Safe(cell) /\ (InArchive(cell) \/ cell = Contents("other"))
<1>1. fs # NotMounted
  BY DEF Readable, lookup, NotMounted
<1>2. /\ ramdisk # <<>> /\ Mountable(ramdisk) /\ fs.nodes = NodesOf(ramdisk)
      /\ fs.len = Len(ramdisk)
  BY <1>1 DEF ArchiveInv
<1>3. PICK S : ramdisk \in Seq(S)
  BY RamdiskSafe
<1> DEFINE n == fs.nodes[p]
<1>4. /\ n.offset \in Nat /\ n.len \in Nat /\ n.dir \in BOOLEAN
      /\ n.dir \/ n.offset + n.len <= Len(ramdisk)
  <2>1. p \in DOMAIN NodesOf(ramdisk)
    BY <1>2 DEF Readable, lookup
  <2> QED  BY <1>2, <1>3, <2>1, RamdiskSafe, NodesInside, Zenon
<1>5. ~n.dir
  BY DEF Readable
<1> HIDE DEF n
<1>6. n.len - 0 = n.len /\ n.offset + 0 = n.offset
  BY <1>4
<1>7. read_all(p) = IF n.len <= 0 \/ n.offset + n.len > Len(ramdisk) THEN <<>>
                    ELSE SubSeq(ramdisk, n.offset + 1, n.offset + n.len)
  BY <1>2, <1>4, <1>5 DEF read_all, read, n
<1>8. Safe(Contents("other"))
  BY TextSafe
<1>9. CASE Len(read_all(p)) = 1
  <2>1. read_all(p) # <<>>
    BY <1>9
  <2>2. n.len > 0 /\ read_all(p) = SubSeq(ramdisk, n.offset + 1, n.offset + n.len)
    <3>1. ~(n.len <= 0) /\ read_all(p) = SubSeq(ramdisk, n.offset + 1, n.offset + n.len)
      BY <1>7, <2>1, Zenon
    <3>2. \A k \in Nat : ~(k <= 0) => k > 0
      OBVIOUS
    <3> QED  BY <1>4, <3>1, <3>2, Zenon
  <2>3. n.offset + 1 \in DOMAIN ramdisk
    BY <1>3, <1>4, <1>5, <2>2
  <2>4. read_all(p)[1] = ramdisk[n.offset + 1]
    BY <1>3, <1>4, <1>5, <2>2
  <2>5. Safe(ramdisk[n.offset + 1])
    BY <2>3, RamdiskSafe
  <2> QED  BY <1>9, <2>3, <2>4, <2>5, Zenon DEF Only, InArchive
<1>10. CASE Len(read_all(p)) # 1
  BY <1>8, <1>10 DEF Only
<1> QED
  BY <1>9, <1>10

(* Two steps change what is known of the archive. *)
ArchiveStays == UNCHANGED <<image, ramdisk, fs>>

(* Only taking the ramdisk and mounting it change the archive's variables. *)
LEMMA ArchiveSteps ==
  ASSUME [Next]_vars
  PROVE  TakeRamdisk \/ MountArchive \/ ArchiveStays
<1> USE DEF ArchiveStays, archiveVars
<1>1. StartMemory \/ EnumeratePci \/ ClockRead \/ init_mouse \/ RunRing3Tests => ArchiveStays
  BY Zenon DEF StartMemory, EnumeratePci, ClockRead, init_mouse, RunRing3Tests
<1>2. ReadMotd \/ LoadTheme \/ CheckPaths \/ TakeLock \/ DropLock => ArchiveStays
  BY Zenon DEF ReadMotd, LoadTheme, CheckPaths, TakeLock, DropLock
<1>3. LoadHello \/ LoadGui \/ LoadFstest => ArchiveStays
  BY Zenon DEF LoadHello, LoadGui, LoadFstest, ElfStage
<1>4. ScanPackages \/ LoadMirage \/ RunUntilIdle \/ Report => ArchiveStays
  BY Zenon DEF ScanPackages, LoadMirage, RunUntilIdle, Report
<1>5. ClockRuns \/ InputArrives \/ HandlerStep \/ Stopped \/ UNCHANGED vars => ArchiveStays
  BY Zenon DEF ClockRuns, InputArrives, HandlerStep, Stopped, vars, bootVars
<1> HIDE DEF ArchiveStays, archiveVars
<1> QED
  BY <1>1, <1>2, <1>3, <1>4, <1>5, Zenon DEF Next, KernelMain

(* Every step keeps the archive's invariant. *)
LEMMA ArchiveInvHolds ==
  ASSUME ArchiveInv, [Next]_vars
  PROVE  ArchiveInv'
<1>1. CASE TakeRamdisk
  <2>1. PICK found \in Shipped :
          /\ ramdisk' = found.bytes
          /\ image' = [files |-> found.files, damaged |-> found.damaged,
                       healthy |-> ~boot.failed]
    BY <1>1, Zenon DEF TakeRamdisk
  <2>2. image'.files = found.files /\ image'.damaged = found.damaged
    BY <2>1
  <2>3. fs' = fs /\ fs = NotMounted
    BY <1>1, Zenon DEF TakeRamdisk, ArchiveInv
  <2> QED  BY <2>1, <2>2, <2>3, Zenon DEF ArchiveInv
<1>2. CASE MountArchive
  <2>1. image' = image /\ ramdisk' = ramdisk
    BY <1>2, Zenon DEF MountArchive, Mount, archiveVars
  <2>2. CASE Mount
    <3>1. Mountable(ramdisk) /\ fs' = [nodes |-> NodesOf(ramdisk), len |-> Len(ramdisk)]
      BY <2>2, Zenon DEF Mount
    <3>2. ramdisk # <<>>
      <4>1. Len(ramdisk) >= 1
        BY <3>1 DEF Mountable, HEADER_SIZE
      <4> QED  BY <4>1
    <3> QED  BY <2>1, <3>1, <3>2, Zenon DEF ArchiveInv
  <2>3. CASE ~Mount
    <3>1. fs' = fs
      BY <1>2, <2>3, Zenon DEF MountArchive, archiveVars
    <3> QED  BY <2>1, <3>1, Zenon DEF ArchiveInv
  <2> QED  BY <2>2, <2>3
<1>3. CASE ArchiveStays
  BY <1>3, Zenon DEF ArchiveStays, ArchiveInv
<1> QED
  BY <1>1, <1>2, <1>3, ArchiveSteps

-----------------------------------------------------------------------------
(* kernel_main's record: its fields, the programs and the verdicts. *)

BootFields == {"stage", "nx", "mouse", "held", "failed", "loud", "why", "screen", "procs",
               "verdicts", "exit"}

(* A program's cell is one of the archive's; what was made of it is what a loader makes. *)
ProcOk(q, nx) ==
  /\ InArchive(q.cell) /\ WellFormed(q.cell) /\ q.loaded.outcome = "loaded"
  /\ \/ IsElf(q.cell) /\ q.loaded = load_image(q.cell, nx)
     \/ IsPe(q.cell) /\ q.loaded = load_pe(q.cell, nx)
VerdictOk(v) == \E p : NotForged(p) /\ IsPackage(p) /\ v = [package |-> p, verdict |-> verify(p)]

RecordInv ==
  /\ DOMAIN boot = BootFields
  /\ boot.nx \in BOOLEAN
  /\ boot.stage = "memory" => boot.procs = <<>>
  /\ boot.held # {} => boot.stage \in DOMAIN LockUses
  /\ \E S : boot.procs \in Seq(S)
  /\ \A i \in DOMAIN boot.procs : ProcOk(boot.procs[i], boot.nx)
  /\ \A v \in boot.verdicts : VerdictOk(v)

(* Two states of the record that differ in nothing the invariant is about. *)
Same(b, a) == /\ DOMAIN b = BootFields
              /\ b.nx = a.nx /\ b.procs = a.procs /\ b.verdicts = a.verdicts
              /\ b.held = a.held

(* A self-test's report changes no more than the failure marks. *)
LEMMA CheckIsSame ==
  ASSUME NEW b, DOMAIN b = BootFields, NEW passed
  PROVE  Same(check(b, passed), b) /\ check(b, passed).stage = b.stage
  BY DEF check, Same, BootFields

(* Moving on changes no more than the stage. *)
LEMMA GotoIsSame ==
  ASSUME DOMAIN boot = BootFields, NEW s
  PROVE  Same(Goto(s), boot) /\ Goto(s).stage = s
  BY DEF Goto, Same, BootFields

(* A panic changes no more than the stage, the reason and the locks. *)
LEMMA PanicIsSame ==
  ASSUME DOMAIN boot = BootFields, NEW why
  PROVE  /\ Same(Panic(why), [boot EXCEPT !.held = {}])
         /\ Panic(why).stage = "panicked" /\ Panic(why).held = {}
  BY DEF Panic, Same, BootFields

(* The stages that take a lock, and those they lead to. *)
LEMMA LockStages ==
  /\ DOMAIN LockUses = {"set_bounds", "set_pointer", "present", "probe_layout", "stats", "position"}
  /\ \A s \in DOMAIN LockUses :
        LockUses[s].next \in {"set_pointer", "present", "paths", "stats", "position", "report"}
<1>1. DOMAIN LockUses = {"set_bounds", "set_pointer", "present", "probe_layout", "stats", "position"}
  BY DEF LockUses
<1>2. /\ LockUses["set_bounds"].next = "set_pointer" /\ LockUses["set_pointer"].next = "present"
      /\ LockUses["present"].next = "paths" /\ LockUses["probe_layout"].next = "stats"
      /\ LockUses["stats"].next = "position" /\ LockUses["position"].next = "report"
  BY DEF LockUses, LockUse
<1> HIDE DEF LockUses
<1> QED
  BY <1>1, <1>2

(* The stages at which kernel_main cannot be holding a lock. *)
Unlocked == {"memory", "pci", "clock", "mouse", "ring3", "ramdisk", "mount", "motd", "theme",
             "paths", "hello", "gui", "store", "mirage", "fstest", "run", "report"}

(* No lock is held in the other stages. *)
LEMMA NothingHeld ==
  ASSUME RecordInv, NEW s \in Unlocked, At(s)
  PROVE  DOMAIN boot = BootFields /\ boot.held = {} /\ boot.stage = s
<1>1. boot.stage = s /\ s \notin DOMAIN LockUses
  BY LockStages DEF At, Unlocked
<1> QED
  BY <1>1 DEF RecordInv

(* What a step that only reports and moves on leaves of the record. *)
MovesOn == /\ Same(boot', boot) /\ boot'.held = {} /\ boot'.stage # "memory"

(* The steps before mount add no program and no verdict. *)
LEMMA EarlySteps ==
  ASSUME RecordInv, EnumeratePci \/ ClockRead \/ init_mouse \/ RunRing3Tests \/ TakeRamdisk
  PROVE  MovesOn
<1>1. CASE EnumeratePci
  <2>1. DOMAIN boot = BootFields /\ boot.held = {}
    BY <1>1, NothingHeld DEF EnumeratePci, Unlocked
  <2>2. PICK passed : boot' = check(Goto("clock"), passed)
    BY <1>1, Zenon DEF EnumeratePci
  <2> QED  BY <2>1, <2>2, GotoIsSame, CheckIsSame DEF MovesOn, Same
<1>2. CASE ClockRead
  <2>1. DOMAIN boot = BootFields /\ boot.held = {}
    BY <1>2, NothingHeld DEF ClockRead, Unlocked
  <2>2. PICK passed : boot' = check(Goto("mouse"), passed)
    BY <1>2, Zenon DEF ClockRead
  <2> QED  BY <2>1, <2>2, GotoIsSame, CheckIsSame DEF MovesOn, Same
<1>3. CASE init_mouse
  <2>1. DOMAIN boot = BootFields /\ boot.held = {}
    BY <1>3, NothingHeld DEF init_mouse, Unlocked
  <2>2. PICK writable : boot' = [Goto("ring3") EXCEPT !.mouse = writable]
    BY <1>3, Zenon DEF init_mouse
  <2> QED  BY <2>1, <2>2, GotoIsSame DEF MovesOn, Same, BootFields
<1>4. CASE RunRing3Tests
  <2>1. DOMAIN boot = BootFields /\ boot.held = {}
    BY <1>4, NothingHeld DEF RunRing3Tests, Unlocked
  <2>2. PICK one, two : \/ boot' = check(Goto("ramdisk"), one)
                        \/ boot' = check(check(Goto("ramdisk"), one), two)
    BY <1>4, Zenon DEF RunRing3Tests
  <2> QED  BY <2>1, <2>2, GotoIsSame, CheckIsSame DEF MovesOn, Same
<1>5. CASE TakeRamdisk
  <2>1. DOMAIN boot = BootFields /\ boot.held = {}
    BY <1>5, NothingHeld DEF TakeRamdisk, Unlocked
  <2>2. boot' = Goto("mount")
    BY <1>5, Zenon DEF TakeRamdisk
  <2> QED  BY <2>1, <2>2, GotoIsSame DEF MovesOn, Same
<1> QED
  BY <1>1, <1>2, <1>3, <1>4, <1>5

(* Nor do the self-tests, the run and the report after it. *)
LEMMA LaterSteps ==
  ASSUME RecordInv, MountArchive \/ ReadMotd \/ LoadTheme \/ CheckPaths \/ RunUntilIdle \/ Report
  PROVE  MovesOn
<1>1. CASE MountArchive
  <2>1. DOMAIN boot = BootFields /\ boot.held = {}
    BY <1>1, NothingHeld DEF MountArchive, Unlocked
  <2>2. boot' = Panic("mount") \/ \E passed : boot' = check(Goto("motd"), passed)
    BY <1>1, Zenon DEF MountArchive
  <2>3. Same([boot EXCEPT !.held = {}], boot)
    BY <2>1 DEF Same, BootFields
  <2> QED  BY <2>1, <2>2, <2>3, GotoIsSame, CheckIsSame, PanicIsSame DEF MovesOn, Same
<1>2. CASE ReadMotd
  <2>1. DOMAIN boot = BootFields /\ boot.held = {}
    BY <1>2, NothingHeld DEF ReadMotd, Unlocked
  <2>2. PICK passed : boot' = check(Goto("theme"), passed)
    BY <1>2, Zenon DEF ReadMotd
  <2> QED  BY <2>1, <2>2, GotoIsSame, CheckIsSame DEF MovesOn, Same
<1>3. CASE LoadTheme
  <2>1. DOMAIN boot = BootFields /\ boot.held = {}
    BY <1>3, NothingHeld DEF LoadTheme, Unlocked
  <2>2. PICK screen, passed :
          LET b == [Goto(IF screen THEN "set_bounds" ELSE "paths") EXCEPT !.screen = screen]
          IN boot' = b \/ boot' = check(b, passed)
    BY <1>3, Zenon DEF LoadTheme
  <2> DEFINE b == [Goto(IF screen THEN "set_bounds" ELSE "paths") EXCEPT !.screen = screen]
  <2>3. Same(b, boot) /\ b.stage # "memory"
    BY <2>1, GotoIsSame DEF Same, BootFields
  <2> HIDE DEF b
  <2>4. boot' = b \/ boot' = check(b, passed)
    BY <2>2 DEF b
  <2> QED  BY <2>1, <2>3, <2>4, CheckIsSame DEF MovesOn, Same
<1>4. CASE CheckPaths
  <2>1. DOMAIN boot = BootFields /\ boot.held = {}
    BY <1>4, NothingHeld DEF CheckPaths, Unlocked
  <2>2. PICK passed : boot' = check(Goto("hello"), passed)
    BY <1>4, Zenon DEF CheckPaths
  <2> QED  BY <2>1, <2>2, GotoIsSame, CheckIsSame DEF MovesOn, Same
<1>5. CASE RunUntilIdle
  <2>1. DOMAIN boot = BootFields /\ boot.held = {}
    BY <1>5, NothingHeld DEF RunUntilIdle, Unlocked
  <2>2. \/ boot' = Goto("halted")
        \/ \E passed : boot' = check(Goto(IF boot.screen THEN "probe_layout" ELSE "stats"), passed)
    BY <1>5, Zenon DEF RunUntilIdle
  <2>3. (IF boot.screen THEN "probe_layout" ELSE "stats") # "memory"
    OBVIOUS
  <2> QED  BY <2>1, <2>2, <2>3, GotoIsSame, CheckIsSame DEF MovesOn, Same
<1>6. CASE Report
  <2>1. DOMAIN boot = BootFields /\ boot.held = {}
    BY <1>6, NothingHeld DEF Report, Unlocked
  <2>2. PICK e : boot' = [Goto("exited") EXCEPT !.exit = e]
    BY <1>6, Zenon DEF Report
  <2> QED  BY <2>1, <2>2, GotoIsSame DEF MovesOn, Same, BootFields
<1> QED
  BY <1>1, <1>2, <1>3, <1>4, <1>5, <1>6

-----------------------------------------------------------------------------
(* How a loader can end. *)

(* A segment panics the loader only where its end is not a user address. *)
LEMMA SegmentEnds ==
  ASSUME NEW img \in ElfImages, NEW nx \in BOOLEAN, NEW st \in LoadStates,
         NEW i \in DOMAIN img.segments,
         LoadSegment(img, nx, st, img.segments[i]).outcome = "panic"
  PROVE  st.outcome = "panic" \/ SegmentEndOutside(img)
<1> DEFINE s == img.segments[i]
           last == s.vaddr + s.memsz - 1
           grown == [st EXCEPT !.space = WithPages(@, PagesOf(s.vaddr, last), segment_flags(s, nx))]
<1>1. s \in Segments
  <2>1. img.segments \in Seq(Segments)
    BY DEF ElfImages
  <2> QED  BY <2>1
<1>2. s.vaddr \in Nat /\ s.memsz \in Nat /\ s.load \in BOOLEAN
  BY <1>1 DEF Segments
<1>3. grown.outcome = st.outcome /\ Refused.outcome = "refused"
  BY DEF Refused, LoadStates
<1>4. \/ LoadSegment(img, nx, st, s) \in {st, Refused, grown}
      \/ s.load /\ s.memsz # 0 /\ ~Canonical(last)
  BY Zenon DEF LoadSegment
<1>5. ASSUME s.load, s.memsz # 0, ~Canonical(last) PROVE SegmentEndOutside(img)
  <2>1. s.memsz > 0 /\ last \in (16 * PageSize) .. (48 * PageSize - 1)
    BY <1>2, <1>5 DEF Canonical, PageSize
  <2> QED  BY <1>5, <2>1, Zenon DEF SegmentEndOutside
<1> HIDE DEF grown
<1> QED
  BY <1>3, <1>4, <1>5

(* How the loop over the segments ends. *)
LEMMA LoopEnds ==
  ASSUME NEW img \in ElfImages, NEW nx \in BOOLEAN
  PROVE  LET st == LoadSegments(img, nx)
         IN /\ st \in LoadStates
            /\ st.outcome = "panic" => SegmentEndOutside(img)
            /\ st.outcome = "loaded" => st.entry = img.entry
<1> DEFINE n == Len(img.segments)
<1>1. PICK a : Loop(a, img, nx)
  BY LoopExists
<1>2. /\ a \in [0 .. n -> LoadStates]
      /\ a[0] = [outcome |-> "loaded", space |-> NoPages, entry |-> img.entry]
      /\ \A i \in 1 .. n : a[i] = LoadSegment(img, nx, a[i - 1], img.segments[i])
      /\ LoadSegments(img, nx) = a[n]
  BY <1>1, Zenon DEF Loop
<1>3. n \in Nat /\ img.segments \in Seq(Segments) /\ DOMAIN img.segments = 1 .. n
  BY DEF ElfImages
<1> DEFINE Ends(st) == /\ st.outcome = "panic" => SegmentEndOutside(img)
                       /\ st.outcome = "loaded" => st.entry = img.entry
           T == {i \in 0 .. n : Ends(a[i])}
<1>4. 0 \in T
  BY <1>2, <1>3
<1>5. ASSUME NEW i \in 1 .. n, Ends(a[i - 1]) PROVE Ends(a[i])
  <2>1. a[i - 1] \in LoadStates /\ img.segments[i] \in Segments /\ i \in DOMAIN img.segments
    BY <1>2, <1>3
  <2>2. a[i] = LoadSegment(img, nx, a[i - 1], img.segments[i])
    BY <1>2
  <2>3. a[i].outcome = "panic" => SegmentEndOutside(img)
    BY <1>5, <2>1, <2>2, SegmentEnds
  <2>4. a[i].outcome = "loaded" => a[i].entry = img.entry
    <3> DEFINE s == img.segments[i]
               st == a[i - 1]
               grown == [st EXCEPT !.space = WithPages(@, PagesOf(s.vaddr, s.vaddr + s.memsz - 1),
                                                       segment_flags(s, nx))]
    <3>1. a[i] \in {st, Refused, Panicked, grown}
      BY <2>2, Zenon DEF LoadSegment
    <3>2. grown.outcome = st.outcome /\ grown.entry = st.entry
      BY <2>1 DEF LoadStates
    <3>3. Refused.outcome = "refused" /\ Panicked.outcome = "panic"
      BY DEF Refused, Panicked
    <3> HIDE DEF grown
    <3> QED  BY <1>5, <3>1, <3>2, <3>3
  <2> QED  BY <2>3, <2>4
<1> HIDE DEF Ends
<1>6. \A i \in 1 .. n : i - 1 \in T => i \in T
  <2> SUFFICES ASSUME NEW i \in 1 .. n, Ends(a[i - 1])
               PROVE  i \in 0 .. n /\ Ends(a[i])
    BY Zenon
  <2> QED  BY <1>3, <1>5
<1>7. T \in SUBSET (0 .. n)
  OBVIOUS
<1> HIDE DEF T, n
<1>8. T = 0 .. n
  BY <1>3, <1>4, <1>6, <1>7, UpTo
<1>9. n \in 0 .. n
  BY <1>3
<1>10. Ends(a[n]) /\ a[n] \in LoadStates
  BY <1>2, <1>8, <1>9 DEF T
<1> QED
  BY <1>2, <1>10, Zenon DEF Ends

(* How load_image of loader.rs ends, and with which entry point. *)
LEMMA ElfEnds ==
  ASSUME NEW img \in ElfImages, NEW nx \in BOOLEAN
  PROVE  LET loaded == load_image(img, nx)
         IN /\ loaded.outcome \in {"loaded", "refused", "panic"}
            /\ loaded.outcome = "panic" => SegmentEndOutside(img)
            /\ loaded.outcome = "loaded" => loaded.entry = img.entry
<1> DEFINE st == LoadSegments(img, nx)
           new == [st EXCEPT !.space = WithPages(@, StackPages, StackPerm(nx))]
<1>1. /\ st \in LoadStates
      /\ st.outcome = "panic" => SegmentEndOutside(img)
      /\ st.outcome = "loaded" => st.entry = img.entry
  BY LoopEnds
<1>2. \/ load_image(img, nx) = Refused
      \/ load_image(img, nx) = st /\ st.outcome # "loaded"
      \/ load_image(img, nx) = new /\ st.outcome = "loaded"
  BY Zenon DEF load_image
<1> HIDE DEF st
<1>3. new.outcome = st.outcome /\ new.entry = st.entry
  BY <1>1 DEF LoadStates
<1>4. Refused.outcome = "refused"
  BY DEF Refused
<1>5. st.outcome \in {"loaded", "refused", "panic"}
  BY <1>1 DEF LoadStates
<1> HIDE DEF new
<1> QED
  BY <1>1, <1>2, <1>3, <1>4, <1>5

(* Where in the file a relative address lies. *)
LEMMA OffsetInFile ==
  ASSUME NEW img \in PeImages, img.headers <= img.len,
         \A i \in DOMAIN img.sections : SectionAccepted(img, img.sections[i]),
         NEW rva \in Nat, rva_to_offset(img, rva) # -1
  PROVE  rva_to_offset(img, rva) \in 0 .. (img.len - 1)
<1> DEFINE span(s) == IF s.vsize > s.raw_size THEN s.vsize ELSE s.raw_size
           holds == {i \in DOMAIN img.sections :
                       LET s == img.sections[i] IN rva \in s.va .. (s.va + span(s) - 1)}
           least == CHOOSE i \in holds : \A j \in holds : i <= j
           s == img.sections[least]
<1>1. img.headers \in Nat /\ img.len \in Nat /\ img.sections \in Seq(Sections)
  BY DEF PeImages
<1>2. rva_to_offset(img, rva) = IF rva < img.headers THEN rva
                                  ELSE IF holds = {} THEN -1
                                  ELSE IF rva - s.va >= s.raw_size THEN -1
                                  ELSE s.raw_offset + (rva - s.va)
  BY Zenon DEF rva_to_offset
<1>3. CASE rva < img.headers
  <2>1. rva_to_offset(img, rva) = rva
    BY <1>2, <1>3, Zenon
  <2>2. rva \in 0 .. (img.len - 1)
    BY <1>1, <1>3
  <2> QED  BY <2>1, <2>2
<1>4. CASE ~(rva < img.headers)
  <2>1. holds # {} /\ ~(rva - s.va >= s.raw_size)
        /\ rva_to_offset(img, rva) = s.raw_offset + (rva - s.va)
    BY <1>2, <1>4, Zenon
  <2>2. holds \in SUBSET Nat
    BY <1>1
  <2>3. least \in holds
    <3> HIDE DEF holds
    <3> QED  BY <2>1, <2>2, LeastMember, Zenon
  <2>4. least \in DOMAIN img.sections /\ s \in Sections /\ rva \in s.va .. (s.va + span(s) - 1)
    <3>1. least \in DOMAIN img.sections /\ rva \in s.va .. (s.va + span(s) - 1)
      <4> HIDE DEF least
      <4> QED  BY <2>3
    <3> HIDE DEF least
    <3> QED  BY <1>1, <3>1
  <2>5. SectionAccepted(img, s)
    BY <2>4
  <2> HIDE DEF s, span, holds, least
  <2>6. s.va \in Nat /\ s.raw_offset \in Nat /\ s.raw_size \in Nat
    BY <2>4 DEF Sections
  <2>7. rva >= s.va
    <3>1. \A a, b : rva \in a .. b => rva >= a
      OBVIOUS
    <3> QED  BY <2>4, <3>1
  <2>8. s.raw_size > 0
    BY <2>1, <2>6, <2>7
  <2>9. s.raw_offset + s.raw_size <= img.len
    BY <2>5, <2>8 DEF SectionAccepted
  <2> QED  BY <1>1, <2>1, <2>6, <2>7, <2>9
<1> QED
  BY <1>3, <1>4

(* A list is accepted, or it ends at an entry that is not. *)
LEMMA FailureOf ==
  ASSUME NEW outcomes, DOMAIN outcomes \in SUBSET Nat
  PROVE  \/ FirstFailure(outcomes) = "loaded"
         \/ \E k \in DOMAIN outcomes : FirstFailure(outcomes) = outcomes[k]
<1> DEFINE bad == {k \in DOMAIN outcomes : outcomes[k] # "loaded"}
           least == CHOOSE k \in bad : \A j \in bad : k <= j
<1>1. FirstFailure(outcomes) = IF bad = {} THEN "loaded" ELSE outcomes[least]
  BY Zenon DEF FirstFailure
<1>2. bad \in SUBSET Nat /\ bad \subseteq DOMAIN outcomes
  OBVIOUS
<1> HIDE DEF bad
<1>3. bad # {} => least \in bad
  BY <1>2, LeastMember, Zenon
<1> QED
  BY <1>1, <1>2, <1>3, Zenon

(* What makes the loader of mirage.rs panic. *)
PePanics(img) == HintEndsFile(img) \/ RvaOverflows(img)

(* How the reading of the imports ends. *)
LEMMA ImportsEnd ==
  ASSUME NEW img \in PeImages, img.headers <= img.len,
         \A i \in DOMAIN img.sections : SectionAccepted(img, img.sections[i])
  PROVE  /\ parse_imports(img) \in {"loaded", "refused", "panic"}
         /\ parse_imports(img) = "panic" => PePanics(img)
<1> DEFINE outcomes == [k \in DOMAIN img.imports |-> ImportOutcome(img, img.imports[k])]
<1>1. img.imports \in Seq(Imports) /\ img.len \in Nat
  BY DEF PeImages
<1>2. ASSUME NEW k \in DOMAIN img.imports
      PROVE  LET o == ImportOutcome(img, img.imports[k])
             IN o \in {"loaded", "refused", "panic"} /\ (o = "panic" => PePanics(img))
  <2> DEFINE i == img.imports[k]
             hint == rva_to_offset(img, i.hint)
  <2>1. i.hint \in Nat
    <3>1. i \in Imports
      BY <1>1
    <3> QED  BY <3>1 DEF Imports
  <2>2. hint # -1 => hint \in 0 .. (img.len - 1)
    BY <2>1, OffsetInFile
  <2>3. ASSUME hint # -1, hint + 1 >= img.len PROVE HintEndsFile(img)
    <3>1. hint = img.len - 1
      <4> HIDE DEF hint
      <4> QED  BY <1>1, <2>2, <2>3
    <3> QED  BY <3>1, Zenon DEF HintEndsFile
  <2>4. i.slot + WordSize > MaxRva => RvaOverflows(img)
    BY Zenon DEF RvaOverflows
  <2> QED  BY <2>3, <2>4, Zenon DEF ImportOutcome, PePanics
<1>3. DOMAIN outcomes = DOMAIN img.imports
      /\ \A k \in DOMAIN img.imports : outcomes[k] = ImportOutcome(img, img.imports[k])
  OBVIOUS
<1>4. parse_imports(img) \in {"refused", FirstFailure(outcomes)}
  BY Zenon DEF parse_imports
<1> HIDE DEF outcomes
<1>5. DOMAIN outcomes \in SUBSET Nat
  BY <1>1, <1>3
<1> QED
  BY <1>2, <1>3, <1>4, <1>5, FailureOf

(* How the reading of the relocations ends. *)
LEMMA RelocationsEnd ==
  ASSUME NEW img \in PeImages
  PROVE  /\ parse_relocations(img) \in {"loaded", "refused", "panic"}
         /\ parse_relocations(img) = "panic" => PePanics(img)
<1> DEFINE outcomes == [k \in DOMAIN img.relocs |-> RelocationOutcome(img.relocs[k])]
<1>1. img.relocs \in Seq(RelocEntries)
  BY DEF PeImages
<1>2. ASSUME NEW k \in DOMAIN img.relocs
      PROVE  LET o == RelocationOutcome(img.relocs[k])
             IN o \in {"loaded", "refused", "panic"} /\ (o = "panic" => PePanics(img))
  <2>1. img.relocs[k].kind = "dir64" /\ img.relocs[k].rva > MaxRva => RvaOverflows(img)
    BY DEF RvaOverflows, Relocations
  <2> QED  BY <2>1, Zenon DEF RelocationOutcome, PePanics
<1>3. DOMAIN outcomes = DOMAIN img.relocs
      /\ \A k \in DOMAIN img.relocs : outcomes[k] = RelocationOutcome(img.relocs[k])
  OBVIOUS
<1>4. parse_relocations(img) \in {"refused", FirstFailure(outcomes)}
  BY Zenon DEF parse_relocations
<1> HIDE DEF outcomes
<1>5. DOMAIN outcomes \in SUBSET Nat
  BY <1>1, <1>3
<1> QED
  BY <1>2, <1>3, <1>4, <1>5, FailureOf

(* How load_image of mirage.rs ends; what it loads has a canonical entry point. *)
LEMMA PeEnds ==
  ASSUME NEW img \in PeImages, NEW nx \in BOOLEAN
  PROVE  LET loaded == load_pe(img, nx)
         IN /\ loaded.outcome \in {"loaded", "refused", "panic"}
            /\ loaded.outcome = "panic" => PePanics(img)
            /\ loaded.outcome = "loaded" => Canonical(loaded.entry)
<1>1. \A how : PeFails(how).outcome = how
  BY DEF PeFails
<1>2. /\ parse(img) \in {"loaded", "refused", "panic"}
      /\ parse(img) = "panic" => PePanics(img)
  <2>1. \/ parse(img) \in {"loaded", "refused"}
        \/ /\ img.headers <= img.len
           /\ \A i \in DOMAIN img.sections : SectionAccepted(img, img.sections[i])
           /\ parse(img) \in {parse_imports(img), parse_relocations(img)}
    <3>1. img.headers \in Nat /\ img.len \in Nat
      BY DEF PeImages
    <3>2. ~(img.headers > img.len) => img.headers <= img.len
      BY <3>1
    <3> QED  BY <3>2, Zenon DEF parse
  <2>2. /\ parse_relocations(img) \in {"loaded", "refused", "panic"}
        /\ parse_relocations(img) = "panic" => PePanics(img)
    BY RelocationsEnd, Zenon
  <2>3. parse(img) = "panic" => parse(img) \notin {"loaded", "refused"}
    OBVIOUS
  <2> QED  BY <2>1, <2>2, <2>3, ImportsEnd, Zenon
<1>3. load_pe(img, nx).outcome \in {"loaded", "refused", parse(img)}
      /\ (load_pe(img, nx).outcome # "loaded" => load_pe(img, nx).outcome \in {"refused", parse(img)})
  <2> DEFINE done == [outcome |-> "loaded",
               space   |-> WithPages(Mapped3(img, nx), StackPages, StackPerm(nx)),
               memory  |-> bind_imports(img, apply_relocations(img, Filled(img))),
               entry   |-> MIRAGE_IMAGE_BASE + img.entry]
  <2>1. load_pe(img, nx) \in {PeFails(parse(img)), PeFails("refused"), done}
    BY Zenon DEF load_pe, Mapped1, Mapped2, Mapped3
  <2>2. done.outcome = "loaded"
    OBVIOUS
  <2> HIDE DEF done
  <2> QED  BY <1>1, <2>1, <2>2
<1>4. ASSUME load_pe(img, nx).outcome = "loaded" PROVE Canonical(load_pe(img, nx).entry)
  <2>1. load_pe(img, nx).entry = MIRAGE_IMAGE_BASE + img.entry
    BY <1>4, LoadedPe, Zenon DEF PeLoaded
  <2>2. img.entry \in EntryRvas
    BY DEF PeImages
  <2> QED  BY <2>1, <2>2 DEF Canonical, EntryRvas, MaxRva, MIRAGE_IMAGE_BASE, PageSize
<1> QED
  BY <1>2, <1>3, <1>4

-----------------------------------------------------------------------------
(* Every step keeps the record what it is. *)

(* A step that leaves the programs and verdicts alone, on the same archive. *)
LEMMA RecordMoves ==
  ASSUME RecordInv, DOMAIN boot' = BootFields,
         boot'.procs = boot.procs, boot'.verdicts = boot.verdicts,
         boot'.nx = boot.nx \/ (boot'.nx \in BOOLEAN /\ boot.procs = <<>>),
         ramdisk' = ramdisk \/ ramdisk = <<>>,
         boot'.stage = "memory" => boot'.procs = <<>>,
         boot'.held # {} => boot'.stage \in DOMAIN LockUses
  PROVE  RecordInv'
<1>1. /\ DOMAIN boot' = BootFields /\ boot'.procs = boot.procs /\ boot'.verdicts = boot.verdicts
      /\ boot'.nx \in BOOLEAN
      /\ boot'.nx = boot.nx \/ boot.procs = <<>>
  BY DEF RecordInv
<1>2. ASSUME NEW i \in DOMAIN boot.procs PROVE ProcOk(boot.procs[i], boot.nx)'
  <2>1. ProcOk(boot.procs[i], boot.nx) /\ boot.procs # <<>>
    BY DEF RecordInv
  <2>2. boot'.procs[i] = boot.procs[i] /\ boot'.nx = boot.nx
    BY <1>1, <2>1, Zenon
  <2>3. ramdisk # <<>>
    BY <2>1 DEF ProcOk, InArchive
  <2> QED  BY <2>1, <2>2, <2>3, Zenon DEF ProcOk, InArchive
<1>3. \A v \in boot'.verdicts : VerdictOk(v)
  BY <1>1, Zenon DEF RecordInv
<1>4. \A v : VerdictOk(v)' <=> VerdictOk(v)
  BY Zenon DEF VerdictOk
<1>5. \E S : boot'.procs \in Seq(S)
  BY <1>1, Zenon DEF RecordInv
<1> QED
  BY <1>1, <1>2, <1>3, <1>4, <1>5, Zenon DEF RecordInv

(* The memory self-tests keep the record's invariant. *)
LEMMA StartMemoryKeeps ==
  ASSUME RecordInv, StartMemory
  PROVE  RecordInv'
<1>1. DOMAIN boot = BootFields /\ boot.held = {} /\ boot.stage = "memory" /\ boot.procs = <<>>
  <2>1. "memory" \in Unlocked /\ At("memory")
    BY DEF StartMemory, Unlocked
  <2>2. boot.procs = <<>>
    BY <2>1 DEF At, RecordInv
  <2> QED  BY <2>1, <2>2, NothingHeld
<1> DEFINE split(left) ==
             LET used == pml4_entries_in_use(
                           clear_lower_half_mappings(left \union {KERNEL_PML4_FIRST_INDEX}))
             IN used[1] = 0 /\ used[2] > 0
           p3 == ~is_revoked({}, derive(issue(1)))
           p4 == is_revoked(revoke({}, issue(1)), derive(issue(1)))
<1>2. PICK p2 \in BOOLEAN, left \in SUBSET (0 .. (KERNEL_PML4_FIRST_INDEX - 1)) :
        boot' = [check(check(check(check(Goto("pci"), split(left)), p2), p3), p4)
                   EXCEPT !.nx = p2]
  BY Zenon DEF StartMemory
<1> DEFINE p1 == split(left)
           nx == p2
<1> HIDE DEF split, p3, p4
<1> DEFINE b == check(check(check(check(Goto("pci"), p1), p2), p3), p4)
<1>3. Same(b, boot) /\ b.stage = "pci"
  <2>1. Same(Goto("pci"), boot) /\ Goto("pci").stage = "pci"
    BY <1>1, GotoIsSame
  <2>2. Same(check(Goto("pci"), p1), boot) /\ check(Goto("pci"), p1).stage = "pci"
    BY <2>1, CheckIsSame DEF Same
  <2>3. /\ Same(check(check(Goto("pci"), p1), p2), boot)
        /\ check(check(Goto("pci"), p1), p2).stage = "pci"
    BY <2>2, CheckIsSame DEF Same
  <2>4. /\ Same(check(check(check(Goto("pci"), p1), p2), p3), boot)
        /\ check(check(check(Goto("pci"), p1), p2), p3).stage = "pci"
    BY <2>3, CheckIsSame DEF Same
  <2> QED  BY <2>4, CheckIsSame DEF Same
<1> HIDE DEF b, p1
<1>4. boot' = [b EXCEPT !.nx = nx]
  BY <1>2, Zenon DEF b, p1
<1>5. /\ DOMAIN boot' = BootFields /\ boot'.nx = nx /\ boot'.procs = boot.procs
      /\ boot'.verdicts = boot.verdicts /\ boot'.stage = "pci" /\ boot'.held = {}
  BY <1>1, <1>3, <1>4 DEF Same, BootFields
<1>6. ramdisk' = ramdisk
  BY Zenon DEF StartMemory, archiveVars
<1> QED
  BY <1>1, <1>5, <1>6, RecordMoves

(* So do the locks, *)
LEMMA LocksKeep ==
  ASSUME RecordInv, TakeLock \/ DropLock
  PROVE  RecordInv'
<1>0. DOMAIN boot = BootFields
  BY DEF RecordInv
<1>1. ramdisk' = ramdisk
  BY Zenon DEF TakeLock, DropLock, archiveVars
<1>2. \A b, lock : b = [boot EXCEPT !.held = lock] =>
         /\ DOMAIN b = BootFields /\ b.nx = boot.nx /\ b.procs = boot.procs
         /\ b.verdicts = boot.verdicts /\ b.stage = boot.stage /\ b.held = lock
  BY <1>0 DEF BootFields
<1> DEFINE Close == /\ DOMAIN boot' = BootFields /\ boot'.nx = boot.nx
                    /\ boot'.procs = boot.procs /\ boot'.verdicts = boot.verdicts
                    /\ boot'.held # {} => boot'.stage \in DOMAIN LockUses
                    /\ boot'.stage # "memory"
<1>3. CASE TakeLock
  <2>1. /\ boot.stage \in DOMAIN LockUses
        /\ boot' = [boot EXCEPT !.held = {LockUses[boot.stage].lock}]
    BY <1>3, Zenon DEF TakeLock
  <2>2. boot.stage # "memory"
    BY <2>1, LockStages
  <2>3. Close
    BY <1>2, <2>1, <2>2, Zenon
  <2> QED  BY <1>1, <2>3, RecordMoves
<1>4. CASE DropLock
  <2>1. /\ boot.held # {} /\ boot' = [Goto(LockUses[boot.stage].next) EXCEPT !.held = {}]
    BY <1>4, Zenon DEF DropLock
  <2>2. boot.stage \in DOMAIN LockUses
    BY <2>1 DEF RecordInv
  <2>3. LockUses[boot.stage].next # "memory"
    BY <2>2, LockStages
  <2> DEFINE b == Goto(LockUses[boot.stage].next)
  <2>4. Same(b, boot) /\ b.stage # "memory"
    BY <1>0, <2>3, GotoIsSame
  <2> HIDE DEF b
  <2>5. boot' = [b EXCEPT !.held = {}]
    BY <2>1 DEF b
  <2>6. Close
    BY <2>4, <2>5 DEF Same, BootFields
  <2> QED  BY <1>1, <2>6, RecordMoves
<1> QED
  BY <1>3, <1>4

(* A program is added to the others as the loader made it. *)
LEMMA ProcessIsOk ==
  ASSUME ArchiveInv, RecordInv, NEW path, Readable(path), NEW realm, NEW loaded,
         \/ loaded = LoadElf(path) \/ loaded = LoadExe(path),
         loaded.outcome \notin {"panic", "refused"}
  PROVE  ProcOk(Process(path, realm, loaded), boot.nx)
<1> DEFINE cell == Only(read_all(path))
<1>1. WellFormed(cell) /\ (InArchive(cell) \/ cell = Contents("other"))
  BY ReadSafe, Zenon DEF Safe
<1>2. ~IsElf(Contents("other")) /\ ~IsPe(Contents("other"))
  <2>1. DOMAIN Contents("other") = {"text"}
    BY DEF Contents
  <2> QED  BY <2>1 DEF IsElf, IsPe
<1>3. Process(path, realm, loaded).cell = cell /\ Process(path, realm, loaded).loaded = loaded
  BY DEF Process
<1>4. Refused.outcome = "refused" /\ PeFails("refused").outcome = "refused"
  BY DEF Refused, PeFails
<1>5. boot.nx \in BOOLEAN
  BY DEF RecordInv
<1> HIDE DEF cell
<1>6. CASE loaded = LoadElf(path)
  <2>1. loaded = IF IsElf(cell) THEN load_image(cell, boot.nx) ELSE Refused
    BY <1>6, Zenon DEF LoadElf, cell
  <2>2. IsElf(cell) /\ loaded = load_image(cell, boot.nx)
    BY <1>4, <2>1
  <2>3. cell \in ElfImages
    BY <1>1, <2>2 DEF WellFormed
  <2>4. loaded.outcome = "loaded"
    BY <1>5, <2>2, <2>3, ElfEnds
  <2> QED  BY <1>1, <1>2, <1>3, <2>2, <2>4, Zenon DEF ProcOk
<1>7. CASE loaded = LoadExe(path)
  <2>1. loaded = IF IsPe(cell) THEN load_pe(cell, boot.nx) ELSE PeFails("refused")
    BY <1>7, Zenon DEF LoadExe, cell
  <2>2. IsPe(cell) /\ loaded = load_pe(cell, boot.nx)
    BY <1>4, <2>1
  <2>3. cell \in PeImages
    BY <1>1, <2>2 DEF WellFormed
  <2>4. loaded.outcome = "loaded"
    BY <1>5, <2>2, <2>3, PeEnds
  <2> QED  BY <1>1, <1>2, <1>3, <2>2, <2>4, Zenon DEF ProcOk
<1> QED
  BY <1>6, <1>7

(* The programs afterwards are those before and some new ones. *)
LEMMA ProcsGrow ==
  ASSUME RecordInv, NEW Q, NEW new \in Seq(Q), \A i \in DOMAIN new : ProcOk(new[i], boot.nx),
         DOMAIN boot' = BootFields, boot'.procs = boot.procs \o new,
         boot'.verdicts = boot.verdicts, boot'.nx = boot.nx, boot'.held = {},
         boot'.stage # "memory", ramdisk' = ramdisk
  PROVE  RecordInv'
<1>1. PICK S : boot.procs \in Seq(S)
  BY DEF RecordInv
<1> DEFINE old == boot.procs
           both == old \o new
           R == S \union Q
<1>2. old \in Seq(R) /\ new \in Seq(R)
  BY <1>1
<1> HIDE DEF R, old
<1>3. both \in Seq(R) /\ Len(both) = Len(old) + Len(new) /\ \A i \in 1 .. Len(old) : both[i] = old[i]
  BY <1>2, Joined
<1>4. Len(old) \in Nat /\ Len(new) \in Nat /\ DOMAIN both = 1 .. (Len(old) + Len(new))
      /\ DOMAIN old = 1 .. Len(old) /\ DOMAIN new = 1 .. Len(new)
  BY <1>2, <1>3
<1>5. ASSUME NEW i \in DOMAIN both PROVE ProcOk(both[i], boot.nx)
  <2>1. CASE i \in 1 .. Len(old)
    <3>1. ProcOk(old[i], boot.nx)
      BY <1>4, <2>1, Zenon DEF RecordInv, old
    <3> QED  BY <1>3, <2>1, <3>1, Zenon
  <2>2. CASE i \notin 1 .. Len(old)
    <3> DEFINE j == i - Len(old)
    <3>1. j \in 1 .. Len(new)
      BY <1>4, <1>5, <2>2
    <3>2. Len(old) + j = i
      BY <1>4, <1>5
    <3> HIDE DEF j
    <3>3. both[Len(old) + j] = new[j]
      <4>1. old \in Seq(R) /\ new \in Seq(R)
        BY <1>2
      <4> QED  BY <3>1, <4>1, JoinedRight
    <3> HIDE DEF both
    <3> QED  BY <1>4, <3>1, <3>2, <3>3
  <2> QED  BY <2>1, <2>2
<1>7. \A v : VerdictOk(v)' <=> VerdictOk(v)
  BY Zenon DEF VerdictOk
<1>8. boot'.procs = both
  BY DEF old
<1>9. \A i \in DOMAIN boot'.procs : ProcOk(boot.procs[i], boot.nx)'
  <2> TAKE i \in DOMAIN boot'.procs
  <2>1. ProcOk(both[i], boot.nx)
    BY <1>5, <1>8
  <2>2. ProcOk(boot'.procs[i], boot'.nx)
    BY <1>8, <2>1, Zenon
  <2> QED  BY <2>2, Zenon DEF ProcOk, InArchive
<1>10. \E X : boot'.procs \in Seq(X)
  BY <1>3, <1>8
<1>11. \A v \in boot'.verdicts : VerdictOk(v)'
  BY <1>7, Zenon DEF RecordInv
<1>12. boot'.nx \in BOOLEAN
  BY Zenon DEF RecordInv
<1> QED
  BY <1>9, <1>10, <1>11, <1>12, Zenon DEF RecordInv

(* the stages of the ELF programs, which add what the loader made, *)
LEMMA ElfStageKeeps ==
  ASSUME ArchiveInv, RecordInv, NEW stage \in Unlocked, NEW path, NEW R, NEW realms \in Seq(R),
         NEW needed, NEW next, next # "memory", ElfStage(stage, path, realms, needed, next)
  PROVE  RecordInv'
<1> DEFINE loaded == LoadElf(path)
           new == [i \in DOMAIN realms |-> Process(path, realms[i], loaded)]
           Q == {Process(path, realms[i], loaded) : i \in DOMAIN realms}
<1>1. DOMAIN boot = BootFields /\ boot.held = {} /\ ramdisk' = ramdisk
  <2>1. At(stage) /\ ramdisk' = ramdisk
    BY Zenon DEF ElfStage, archiveVars
  <2> QED  BY <2>1, NothingHeld
<1>2. \/ \E why : boot' = Panic(why)
      \/ boot' = Goto(next)
      \/ /\ Readable(path) /\ loaded.outcome # "panic" /\ loaded.outcome # "refused"
         /\ boot' = [Goto(next) EXCEPT !.procs = @ \o new]
  BY Zenon DEF ElfStage
<1> HIDE DEF loaded, new
<1>3. CASE \E why : boot' = Panic(why)
  <2>1. PICK why : boot' = Panic(why)
    BY <1>3
  <2>2. /\ Same(boot', [boot EXCEPT !.held = {}]) /\ boot'.stage = "panicked" /\ boot'.held = {}
    BY <1>1, <2>1, PanicIsSame
  <2>3. DOMAIN boot' = BootFields /\ boot'.procs = boot.procs /\ boot'.verdicts = boot.verdicts
        /\ boot'.nx = boot.nx
    BY <1>1, <2>2 DEF Same, BootFields
  <2> QED  BY <1>1, <2>2, <2>3, RecordMoves
<1>4. CASE boot' = Goto(next)
  <2>1. Same(boot', boot) /\ boot'.stage = next
    BY <1>1, <1>4, GotoIsSame
  <2> QED  BY <1>1, <2>1, RecordMoves DEF Same
<1>5. CASE /\ Readable(path) /\ loaded.outcome # "panic" /\ loaded.outcome # "refused"
           /\ boot' = [Goto(next) EXCEPT !.procs = @ \o new]
  <2>1. DOMAIN realms = 1 .. Len(realms) /\ Len(realms) \in Nat
    OBVIOUS
  <2>2. new \in Seq(Q) /\ DOMAIN new = DOMAIN realms
    <3>1. \A i \in 1 .. Len(realms) : Process(path, realms[i], loaded) \in Q
      BY <2>1
    <3>2. new = [i \in 1 .. Len(realms) |-> Process(path, realms[i], loaded)]
      BY <2>1 DEF new
    <3> HIDE DEF Q
    <3> QED  BY <2>1, <3>1, <3>2
  <2> HIDE DEF Q
  <2>3. \A i \in DOMAIN new : ProcOk(new[i], boot.nx)
    <3> TAKE i \in DOMAIN new
    <3>1. new[i] = Process(path, realms[i], loaded)
      BY <2>2 DEF new
    <3>2. ProcOk(Process(path, realms[i], loaded), boot.nx)
      BY <1>5, ProcessIsOk DEF loaded
    <3> QED  BY <3>1, <3>2
  <2> DEFINE b == Goto(next)
  <2>4. Same(b, boot) /\ b.stage = next
    BY <1>1, GotoIsSame
  <2> HIDE DEF b
  <2>5. boot' = [b EXCEPT !.procs = b.procs \o new]
    BY <1>5 DEF b
  <2>6. /\ DOMAIN boot' = BootFields /\ boot'.procs = boot.procs \o new
        /\ boot'.verdicts = boot.verdicts /\ boot'.nx = boot.nx /\ boot'.held = {}
        /\ boot'.stage # "memory"
    BY <1>1, <2>4, <2>5 DEF Same, BootFields
  <2> QED  BY <1>1, <2>2, <2>3, <2>6, ProcsGrow
<1> QED
  BY <1>2, <1>3, <1>4, <1>5

(* the stage of the Windows program, *)
LEMMA LoadMirageKeeps ==
  ASSUME ArchiveInv, RecordInv, LoadMirage
  PROVE  RecordInv'
<1> DEFINE path == Bin("hello.exe")
           loaded == LoadExe(path)
           q == Process(path, "Gaming", loaded)
<1>1. DOMAIN boot = BootFields /\ boot.held = {} /\ ramdisk' = ramdisk
  <2>1. "mirage" \in Unlocked /\ At("mirage") /\ ramdisk' = ramdisk
    BY DEF LoadMirage, archiveVars, Unlocked
  <2> QED  BY <2>1, NothingHeld
<1>2. \/ boot' = Goto("fstest") \/ boot' = Panic("loader")
      \/ boot' = [Goto("fstest") EXCEPT !.loud = TRUE]
      \/ /\ Readable(path) /\ loaded.outcome # "panic" /\ loaded.outcome # "refused"
         /\ boot' = [Goto("fstest") EXCEPT !.procs = Append(@, q)]
  BY Zenon DEF LoadMirage
<1>3. Same(Goto("fstest"), boot) /\ Goto("fstest").stage = "fstest"
  BY <1>1, GotoIsSame
<1> HIDE DEF loaded, q, path
<1>4. CASE boot' = Goto("fstest")
  BY <1>1, <1>3, <1>4, RecordMoves DEF Same
<1>5. CASE boot' = Panic("loader")
  <2>2. /\ Same(boot', [boot EXCEPT !.held = {}]) /\ boot'.stage = "panicked" /\ boot'.held = {}
    BY <1>1, <1>5, PanicIsSame
  <2>3. DOMAIN boot' = BootFields /\ boot'.procs = boot.procs /\ boot'.verdicts = boot.verdicts
        /\ boot'.nx = boot.nx
    BY <1>1, <2>2 DEF Same, BootFields
  <2> QED  BY <1>1, <2>2, <2>3, RecordMoves
<1>6. CASE boot' = [Goto("fstest") EXCEPT !.loud = TRUE]
  <2>1. /\ DOMAIN boot' = BootFields /\ boot'.procs = boot.procs /\ boot'.verdicts = boot.verdicts
        /\ boot'.nx = boot.nx /\ boot'.stage = "fstest" /\ boot'.held = {}
    BY <1>1, <1>3, <1>6 DEF Same, BootFields
  <2> QED  BY <1>1, <2>1, RecordMoves
<1>7. CASE /\ Readable(path) /\ loaded.outcome # "panic" /\ loaded.outcome # "refused"
           /\ boot' = [Goto("fstest") EXCEPT !.procs = Append(@, q)]
  <2>1. <<q>> \in Seq({q}) /\ DOMAIN <<q>> = {1} /\ <<q>>[1] = q
    OBVIOUS
  <2>2. ProcOk(q, boot.nx)
    BY <1>7, ProcessIsOk DEF loaded, q
  <2>3. \A i \in DOMAIN <<q>> : ProcOk(<<q>>[i], boot.nx)
    BY <2>1, <2>2
  <2>4. /\ DOMAIN boot' = BootFields /\ boot'.procs = Append(boot.procs, q)
        /\ boot'.verdicts = boot.verdicts /\ boot'.nx = boot.nx /\ boot'.held = {}
        /\ boot'.stage # "memory"
    BY <1>1, <1>3, <1>7 DEF Same, BootFields
  <2>5. Append(boot.procs, q) = boot.procs \o <<q>>
    <3>1. PICK S : boot.procs \in Seq(S)
      BY DEF RecordInv
    <3> QED  BY <3>1
  <2> QED  BY <1>1, <2>1, <2>3, <2>4, <2>5, ProcsGrow
<1> QED
  BY <1>2, <1>4, <1>5, <1>6, <1>7

(* and the scan, whose verdicts are those of packages in the archive. *)
LEMMA ScanKeeps ==
  ASSUME ArchiveInv, RecordInv, ScanPackages
  PROVE  RecordInv'
<1> DEFINE packages == {Only(read_all(p)) : p \in {q \in read_dir(Apps) : Readable(q)}}
           verdicts == {[package |-> p, verdict |-> verify(p)] :
                          p \in {q \in packages : IsPackage(q) /\ Examinable(q)}}
           b == [Goto("mirage") EXCEPT !.verdicts = verdicts]
<1>1. DOMAIN boot = BootFields /\ boot.held = {} /\ ramdisk' = ramdisk
  <2>1. "store" \in Unlocked /\ At("store") /\ ramdisk' = ramdisk
    BY DEF ScanPackages, archiveVars, Unlocked
  <2> QED  BY <2>1, NothingHeld
<1>2. ASSUME NEW v \in verdicts PROVE VerdictOk(v)
  <2>1. PICK p \in packages : IsPackage(p) /\ v = [package |-> p, verdict |-> verify(p)]
    OBVIOUS
  <2>2. NotForged(p)
    BY ReadSafe DEF Safe
  <2> QED  BY <2>1, <2>2, Zenon DEF VerdictOk
<1> DEFINE p1 == {v.verdict.integrity : v \in verdicts} = BOOLEAN
           p2 == verdicts # {} /\ \A v \in verdicts : v.verdict.granted = "Home"
<1>3. boot' = check(check(b, p1), p2)
  BY Zenon DEF ScanPackages
<1> HIDE DEF verdicts, p1, p2
<1>4. /\ DOMAIN b = BootFields /\ b.procs = boot.procs /\ b.verdicts = verdicts
      /\ b.nx = boot.nx /\ b.held = {} /\ b.stage = "mirage"
  BY <1>1, GotoIsSame DEF Same, BootFields
<1> HIDE DEF b
<1>5. /\ Same(check(b, p1), b) /\ check(b, p1).stage = b.stage
  BY <1>4, CheckIsSame
<1>6. /\ Same(boot', check(b, p1)) /\ boot'.stage = b.stage
  BY <1>3, <1>5, CheckIsSame DEF Same
<1>7. /\ DOMAIN boot' = BootFields /\ boot'.procs = boot.procs /\ boot'.verdicts = verdicts
      /\ boot'.nx = boot.nx /\ boot'.held = {} /\ boot'.stage = "mirage"
  BY <1>4, <1>5, <1>6 DEF Same
<1>8. \A i \in DOMAIN boot'.procs : ProcOk(boot.procs[i], boot.nx)'
  <2> TAKE i \in DOMAIN boot'.procs
  <2>1. ProcOk(boot.procs[i], boot.nx)
    BY <1>7, Zenon DEF RecordInv
  <2> QED  BY <1>1, <1>7, <2>1, Zenon DEF ProcOk, InArchive
<1>9. \A v \in boot'.verdicts : VerdictOk(v)'
  BY <1>2, <1>7, Zenon DEF VerdictOk
<1>10. \E S : boot'.procs \in Seq(S)
  BY <1>7, Zenon DEF RecordInv
<1>11. boot'.nx \in BOOLEAN
  BY <1>7, Zenon DEF RecordInv
<1>12. boot'.stage # "memory" /\ ~(boot'.held # {})
  BY <1>7
<1> QED
  BY <1>7, <1>8, <1>9, <1>10, <1>11, <1>12, Zenon DEF RecordInv

BootInv == ArchiveInv /\ RecordInv

(* The invariant holds when kernel_main starts. *)
LEMMA BootInvInit == Init => BootInv
<1> SUFFICES ASSUME Init PROVE BootInv
  OBVIOUS
<1>1. PICK none : boot = [stage |-> "memory", nx |-> TRUE, mouse |-> FALSE, held |-> {},
               failed |-> FALSE, loud |-> FALSE, why |-> none, screen |-> FALSE, procs |-> <<>>,
               verdicts |-> {}, exit |-> none]
  BY Zenon DEF Init
<1>2. ramdisk = <<>> /\ fs = NotMounted
  BY Zenon DEF Init, ArchiveInit
<1>3. ArchiveInv
  BY <1>2, Zenon DEF ArchiveInv
<1>4. DOMAIN boot = BootFields /\ boot.nx = TRUE /\ boot.procs = <<>> /\ boot.held = {}
      /\ boot.verdicts = {}
  BY <1>1 DEF BootFields
<1>5. boot.procs \in Seq({}) /\ DOMAIN boot.procs = {}
  BY <1>4
<1>6. RecordInv
  BY <1>4, <1>5 DEF RecordInv
<1> QED
  BY <1>3, <1>6 DEF BootInv

(* Every step keeps the invariant. *)
LEMMA BootInvNext ==
  ASSUME BootInv, [Next]_vars
  PROVE  BootInv'
<1>a. ArchiveInv
  BY Zenon DEF BootInv
<1>r. RecordInv
  BY Zenon DEF BootInv
<1>n. ArchiveInv'
  BY <1>a, ArchiveInvHolds, Zenon
<1> SUFFICES RecordInv'
  BY <1>n, Zenon DEF BootInv
<1> USE <1>a, <1>r
<1>1. ASSUME MovesOn, ramdisk' = ramdisk \/ ramdisk = <<>> PROVE RecordInv'
  BY <1>1, RecordMoves, Zenon DEF MovesOn, Same
<1>2. CASE EnumeratePci \/ ClockRead \/ init_mouse \/ RunRing3Tests \/ TakeRamdisk
  <2>1. ramdisk' = ramdisk \/ ramdisk = <<>>
    BY <1>2, Zenon DEF EnumeratePci, ClockRead, init_mouse, RunRing3Tests, TakeRamdisk, archiveVars
  <2>2. MovesOn
    BY <1>2, EarlySteps, Zenon
  <2> QED  BY <1>1, <2>1, <2>2, Zenon
<1>3. CASE MountArchive \/ ReadMotd \/ LoadTheme \/ CheckPaths \/ RunUntilIdle \/ Report
  <2>1. ramdisk' = ramdisk
    BY <1>3, Zenon DEF MountArchive, Mount, ReadMotd, LoadTheme, CheckPaths, RunUntilIdle, Report,
                       archiveVars
  <2>2. MovesOn
    BY <1>3, LaterSteps, Zenon
  <2> QED  BY <1>1, <2>1, <2>2, Zenon
<1>4. CASE StartMemory
  BY <1>4, StartMemoryKeeps, Zenon
<1>5. CASE TakeLock \/ DropLock
  BY <1>5, LocksKeep, Zenon
<1>6. CASE LoadHello \/ LoadGui \/ LoadFstest
  <2>1. /\ "hello" \in Unlocked /\ "gui" \in Unlocked /\ "fstest" \in Unlocked
        /\ "gui" # "memory" /\ "store" # "memory" /\ "run" # "memory"
    BY DEF Unlocked
  <2>2. <<"Home", "Gaming">> \in Seq({"Home", "Gaming"}) /\ <<"Gaming">> \in Seq({"Gaming"})
        /\ <<"Home">> \in Seq({"Home"})
    OBVIOUS
  <2>3. CASE LoadHello
    BY <2>1, <2>2, <2>3, ElfStageKeeps, Zenon DEF LoadHello
  <2>4. CASE LoadGui
    BY <2>1, <2>2, <2>4, ElfStageKeeps, Zenon DEF LoadGui
  <2>5. CASE LoadFstest
    BY <2>1, <2>2, <2>5, ElfStageKeeps, Zenon DEF LoadFstest
  <2> QED  BY <1>6, <2>3, <2>4, <2>5
<1>7. CASE LoadMirage
  BY <1>7, LoadMirageKeeps, Zenon
<1>8. CASE ScanPackages
  BY <1>8, ScanKeeps, Zenon
<1>9. CASE ClockRuns \/ InputArrives \/ HandlerStep \/ Stopped \/ UNCHANGED vars
  <2>1. boot' = boot /\ ramdisk' = ramdisk
    BY <1>9, Zenon DEF ClockRuns, InputArrives, HandlerStep, Stopped, vars, bootVars, archiveVars
  <2> QED  BY <2>1, Zenon DEF RecordInv, ProcOk, VerdictOk, InArchive
<1> QED
  BY <1>2, <1>3, <1>4, <1>5, <1>6, <1>7, <1>8, <1>9, Zenon DEF Next, KernelMain

(* In every state the archive's cells are well formed and no package is forged, the
   nodes are those of the archive as mounted, and every program and verdict in
   kernel_main's record is what the loaders and verify make of a cell of the archive. *)
THEOREM BootInvariant == Spec => []BootInv
<1>1. Init => BootInv
  BY BootInvInit
<1>2. BootInv /\ [Next]_vars => BootInv'
  BY BootInvNext
<1> QED
  BY <1>1, <1>2, PTL DEF Spec

(* Every copy to and from user memory is exact in every space a loader made:
   for every program, damaged or not, and whatever the machine. *)
THEOREM CopiesExactInEverySpace == Spec => []UserCopiesExact
<1>1. BootInv => UserCopiesExact
  <2> SUFFICES ASSUME BootInv, NEW i \in DOMAIN boot.procs, NEW ptr \in Pointers,
                      NEW len \in Lengths
               PROVE  CopiesExact(boot.procs[i].loaded.space, ptr, len)
    BY DEF UserCopiesExact
  <2> DEFINE q == boot.procs[i]
  <2>1. ProcOk(q, boot.nx) /\ boot.nx \in BOOLEAN
    BY Zenon DEF BootInv, RecordInv
  <2> HIDE DEF q
  <2>2. q.loaded.space \in Spaces
    <3>1. CASE IsElf(q.cell) /\ q.loaded = load_image(q.cell, boot.nx)
      BY <2>1, <3>1, ElfSpace DEF ProcOk, WellFormed
    <3>2. CASE IsPe(q.cell) /\ q.loaded = load_pe(q.cell, boot.nx)
      BY <2>1, <3>2, PeSpace DEF ProcOk, WellFormed
    <3> QED  BY <2>1, <3>1, <3>2 DEF ProcOk
  <2>3. ptr \in 0 .. MaxAddress /\ len \in 0 .. (MaxAddress + 1)
    BY BootAssumption
  <2>4. CopiesExact(q.loaded.space, ptr, len)
    BY <2>2, <2>3, CopiesAreExact
  <2> QED  BY <2>4 DEF q
<1> QED
  BY <1>1, BootInvariant, PTL

(* Every address space handed to spawn is what its file declares. *)
THEOREM ImagesAreSound == Spec => []ImagesSound
<1>1. BootInv => ImagesSound
  <2> SUFFICES ASSUME BootInv PROVE ImagesSound
    OBVIOUS
  <2>1. ASSUME NEW i \in DOMAIN boot.procs
        PROVE  LET p == boot.procs[i]
               IN IF IsElf(p.cell) THEN ElfPagesSound(p.cell, boot.nx, p.loaded)
                  ELSE /\ PePagesSound(p.cell, boot.nx, p.loaded)
                       /\ PeMemorySound(p.cell, p.loaded)
    <3> DEFINE q == boot.procs[i]
    <3>1. ProcOk(q, boot.nx) /\ boot.nx \in BOOLEAN
      BY Zenon DEF BootInv, RecordInv
    <3> HIDE DEF q
    <3>2. CASE IsElf(q.cell)
      <4>1. q.cell \in ElfImages
        BY <3>1, <3>2 DEF ProcOk, WellFormed
      <4>2. ~IsPe(q.cell)
        BY <4>1 DEF ElfImages, IsPe
      <4>3. q.loaded = load_image(q.cell, boot.nx) /\ q.loaded.outcome = "loaded"
        BY <3>1, <4>2, Zenon DEF ProcOk
      <4>4. ElfPagesSound(q.cell, boot.nx, q.loaded)
        BY <3>1, <4>1, <4>3, ElfIsSound
      <4> QED  BY <3>2, <4>4, Zenon DEF q
    <3>3. CASE ~IsElf(q.cell)
      <4>1. IsPe(q.cell) /\ q.loaded = load_pe(q.cell, boot.nx) /\ q.loaded.outcome = "loaded"
        BY <3>1, <3>3, Zenon DEF ProcOk
      <4>2. q.cell \in PeImages
        BY <3>1, <4>1 DEF ProcOk, WellFormed
      <4>3. PePagesSound(q.cell, boot.nx, q.loaded)
        BY <3>1, <4>1, <4>2, PePagesAreSound
      <4>4. PeMemorySound(q.cell, q.loaded)
        BY <3>1, <4>1, <4>2, PeMemoryIsSound
      <4> QED  BY <3>3, <4>3, <4>4, Zenon DEF q
    <3> QED  BY <3>2, <3>3
  <2> QED  BY <2>1, ThunksDeliver, Zenon DEF ImagesSound
<1> QED
  BY <1>1, BootInvariant, PTL

(* No package, damaged or not, is placed above Home; one that passes the check
   with the manifest length it was built with is the package that was built. *)
THEOREM VerdictsAreFaithful == Spec => []VerdictsFaithful
<1>1. BootInv => VerdictsFaithful
  <2> SUFFICES ASSUME BootInv, NEW v \in boot.verdicts
               PROVE  /\ v.verdict.granted = "Home"
                      /\ effective_profile(v.verdict) \subseteq RealmRights["Home"]
                      /\ (v.verdict.integrity /\ v.package.manifest_len = Len(NotesManifest)) =>
                           /\ v.verdict.manifest = ManifestOf(NotesManifest)
                           /\ Payload(v.package) = NotesPayload
                           /\ effective_profile(v.verdict) \subseteq v.verdict.manifest.rights
    BY Zenon DEF VerdictsFaithful
  <2>1. PICK p : NotForged(p) /\ IsPackage(p) /\ v = [package |-> p, verdict |-> verify(p)]
    BY Zenon DEF BootInv, RecordInv, VerdictOk
  <2>2. v.package = p /\ v.verdict = verify(p)
    BY <2>1
  <2> DEFINE m == ManifestOf(SubSeq(p.body, 1, p.manifest_len))
             w == v.verdict
  <2>3. verify_signature(p) # "Verified"
    BY DEF verify_signature
  <2>4. w.manifest = m /\ w.integrity = DigestMatches(p) /\ w.granted = "Home"
    <3>1. verify(p) = [manifest |-> m, integrity |-> DigestMatches(p), granted |-> "Home",
                       denied |-> m.realm # "Home"]
      BY <2>3, Zenon DEF verify
    <3> HIDE DEF m
    <3> QED  BY <2>2, <3>1
  <2> HIDE DEF m, w
  <2>5. effective_profile(w) = IF m.rights # {} THEN RealmRights["Home"] \intersect m.rights
                               ELSE RealmRights["Home"]
    BY <2>4, Zenon DEF effective_profile
  <2>6. effective_profile(w) \subseteq RealmRights["Home"]
    <3> HIDE DEF RealmRights
    <3> QED  BY <2>5
  <2>7. ASSUME w.integrity, p.manifest_len = Len(NotesManifest)
        PROVE  /\ w.manifest = ManifestOf(NotesManifest)
               /\ Payload(p) = NotesPayload
               /\ effective_profile(w) \subseteq w.manifest.rights
    <3>1. p.body = NotesManifest \o NotesPayload
      BY <2>1, <2>4, <2>7, Zenon DEF NotForged, DigestMatches
    <3>2. /\ Len(NotesManifest) = 6 /\ Len(p.body) = 8
          /\ SubSeq(p.body, 1, 6) = NotesManifest /\ SubSeq(p.body, 7, 8) = NotesPayload
      BY <3>1, NotesBody, Zenon
    <3>3. m = ManifestOf(NotesManifest)
      BY <2>7, <3>2, Zenon DEF m
    <3>4. Payload(p) = NotesPayload
      <4>1. Payload(p) = SubSeq(p.body, 6 + 1, 8)
        BY <2>7, <3>2, Zenon DEF Payload
      <4>2. 6 + 1 = 7
        OBVIOUS
      <4> QED  BY <3>2, <4>1, <4>2
    <3>5. m.rights # {}
      BY <3>3, NotesRights
    <3>6. effective_profile(w) \subseteq m.rights
      BY <2>5, <3>5
    <3> QED  BY <2>4, <3>3, <3>4, <3>6
  <2> QED  BY <2>2, <2>4, <2>6, <2>7 DEF w
<1> QED
  BY <1>1, BootInvariant, PTL

(* An archive nothing was damaged in is what the builder built. *)
LEMMA Undamaged ==
  ASSUME NEW found \in Shipped, ~found.damaged
  PROVE  \E c \in Configs : /\ found.files = PackedFiles(c) /\ Buildable(PackedFiles(c))
                            /\ found.bytes = build_archive(PackedFiles(c))
<1>1. PICK c \in Configs : Buildable(PackedFiles(c)) /\ found \in InTransit(PackedFiles(c))
  BY DEF Shipped
<1> DEFINE files == PackedFiles(c)
           bytes == build_archive(files)
           Found(b, damaged) == [files |-> files, bytes |-> b, damaged |-> damaged]
<1>2. \/ found = Found(bytes, FALSE)
      \/ \E b : found = Found(b, TRUE)
  BY <1>1 DEF InTransit
<1> HIDE DEF bytes, files
<1>3. found = Found(bytes, FALSE)
  BY <1>2
<1>4. found.files = files /\ found.bytes = bytes
  BY <1>3
<1> QED
  BY <1>1, <1>4, Zenon DEF files, bytes

(* After mount every node lies within the ramdisk, whatever was damaged; and of
   an archive nothing was damaged in, every file reads back as it was packed and
   every path is listed in its directory. *)
THEOREM NamespaceIsSound == Spec => []NamespaceSound
<1>1. BootInv => NamespaceSound
  <2> SUFFICES ASSUME BootInv, fs # NotMounted
               PROVE  NodesInBounds /\ (~image.damaged => HoldsAll(image.files))
    BY Zenon DEF NamespaceSound
  <2>1. ArchiveInv
    BY Zenon DEF BootInv
  <2>2. /\ ramdisk # <<>> /\ Mountable(ramdisk)
        /\ fs = [nodes |-> NodesOf(ramdisk), len |-> Len(ramdisk)]
    BY <2>1, Zenon DEF ArchiveInv
  <2>3. fs.nodes = NodesOf(ramdisk) /\ fs.len = Len(ramdisk)
    BY <2>2
  <2>4. PICK S : ramdisk \in Seq(S)
    BY <2>1, RamdiskSafe
  <2>5. (\A i \in DOMAIN ramdisk : Safe(ramdisk[i])) /\ Len(ramdisk) <= MaxWord
    BY <2>1, RamdiskSafe, Zenon
  <2>6. NodesInBounds
    <3> SUFFICES ASSUME NEW p \in DOMAIN NodesOf(ramdisk)
                 PROVE  LET n == NodesOf(ramdisk)[p]
                        IN n.dir \/ n.offset + n.len <= Len(ramdisk)
      BY <2>3, Zenon DEF NodesInBounds
    <3> QED  BY <2>2, <2>4, <2>5, NodesInside, Zenon
  <2>7. ASSUME ~image.damaged PROVE HoldsAll(image.files)
    <3>1. PICK found \in Shipped : /\ ramdisk = found.bytes /\ image.files = found.files
                                   /\ image.damaged = found.damaged
      BY <2>1, <2>2, Zenon DEF ArchiveInv
    <3>2. PICK c \in Configs : /\ found.files = PackedFiles(c) /\ Buildable(PackedFiles(c))
                               /\ found.bytes = build_archive(PackedFiles(c))
      BY <2>7, <3>1, Undamaged
    <3> DEFINE files == PackedFiles(c)
    <3>3. NoName \in PackedNames
      BY Zenon DEF PackedNames
    <3>4. files \in Seq(Files(PackedNames, PackedCells)) /\ 1 \in DOMAIN files
      BY PackedType, Zenon
    <3>5. ramdisk = build_archive(files) /\ image.files = files /\ Buildable(files)
      BY <3>1, <3>2, Zenon
    <3> HIDE DEF files
    <3>6. PICK L, B, m, d : Packing(PackedNames, PackedCells, files, L, B, ramdisk, m, d)
      BY <3>3, <3>4, <3>5, ArchiveIsPacking, Zenon
    <3>7. IsFiniteSet(PathsOf(files)) /\ PathsOf(files) \in SUBSET Seq(PackedNames)
      BY <3>4, PathsAreFinite, Zenon
    <3>8. 2 <= MaxPath
      <4>1. path_is_valid(files[1].path)
        BY <3>4, <3>5, Zenon DEF Buildable
      <4>2. Len(files[1].path) \in 2 .. MaxPath
        BY <4>1, PathShape, Zenon
      <4>3. \A k : k \in 2 .. MaxPath => 2 <= MaxPath
        BY SizeAssumption
      <4> QED  BY <4>2, <4>3, Zenon
    <3>9. HoldsAll(files)
      BY <2>2, <2>3, <2>4, <3>3, <3>5, <3>6, <3>7, <3>8, RoundTrip, Zenon
    <3> QED  BY <3>5, <3>9, Zenon
  <2> QED  BY <2>6, <2>7
<1> QED
  BY <1>1, BootInvariant, PTL

-----------------------------------------------------------------------------
(* The clock.  Fewer than sixty updates fall into a call, so every time the  *)
(* chip shows is a count of seconds after the first, with at most one        *)
(* rollover of the minute among them.                                        *)

Years == 1970 .. 2070       \* one more than CivilTimes has
Months == 1 .. 12
Days == 1 .. 31
Hours == 0 .. 23
Sixty == 0 .. 59
ShownTimes == [year : Years, month : Months, day : Days,
               hour : Hours, minute : Sixty, second : Sixty]
LastSecond(t) == [t EXCEPT !.second = 59]
After(t, j) == IF t.second + j < 60 THEN [t EXCEPT !.second = t.second + j]
               ELSE [Later(LastSecond(t)) EXCEPT !.second = t.second + j - 60]

(* Two times that agree in every field are the same. *)
LEMMA SameTime ==
  ASSUME NEW t \in ShownTimes, NEW u \in ShownTimes,
         t.year = u.year, t.month = u.month, t.day = u.day,
         t.hour = u.hour, t.minute = u.minute, t.second = u.second
  PROVE  t = u
  BY DEF ShownTimes, Years, Months, Days, Hours, Sixty

(* Records of six fields, one field at a time. *)
Time(y, mo, d, h, mi, s) ==
  [year |-> y, month |-> mo, day |-> d, hour |-> h, minute |-> mi, second |-> s]
SetOf(t, y, mo, d, h, mi, s, x) ==
  /\ [t EXCEPT !.year = x] = Time(x, mo, d, h, mi, s)
  /\ [t EXCEPT !.month = x] = Time(y, x, d, h, mi, s)
  /\ [t EXCEPT !.day = x] = Time(y, mo, x, h, mi, s)
  /\ [t EXCEPT !.hour = x] = Time(y, mo, d, x, mi, s)
  /\ [t EXCEPT !.minute = x] = Time(y, mo, d, h, x, s)
  /\ [t EXCEPT !.second = x] = Time(y, mo, d, h, mi, x)

(* The other fields stay when one is set. *)
LEMMA FieldSet ==
  ASSUME NEW t, NEW y, NEW mo, NEW d, NEW h, NEW mi, NEW s, NEW x, t = Time(y, mo, d, h, mi, s)
  PROVE  SetOf(t, y, mo, d, h, mi, s, x)
<1>1. [t EXCEPT !.year = x] = Time(x, mo, d, h, mi, s)
  BY DEF Time
<1>2. [t EXCEPT !.month = x] = Time(y, x, d, h, mi, s)
  BY DEF Time
<1>3. [t EXCEPT !.day = x] = Time(y, mo, x, h, mi, s)
  BY DEF Time
<1>4. [t EXCEPT !.hour = x] = Time(y, mo, d, x, mi, s)
  BY DEF Time
<1>5. [t EXCEPT !.minute = x] = Time(y, mo, d, h, x, s)
  BY DEF Time
<1>6. [t EXCEPT !.second = x] = Time(y, mo, d, h, mi, x)
  BY DEF Time
<1> QED
  BY <1>1, <1>2, <1>3, <1>4, <1>5, <1>6, Zenon DEF SetOf

(* A time with fields in range is one the chip can show. *)
LEMMA TimeShown ==
  ASSUME NEW y \in Years, NEW mo \in Months, NEW d \in Days,
         NEW h \in Hours, NEW mi \in Sixty, NEW s \in Sixty
  PROVE  Time(y, mo, d, h, mi, s) \in ShownTimes
  BY DEF Time, ShownTimes

(* What Later makes of the last second of a minute. *)
Carried(t, y, mo, d, h, mi) ==
  /\ [t EXCEPT !.second = 0, !.minute = @ + 1] = Time(y, mo, d, h, mi + 1, 0)
  /\ [t EXCEPT !.second = 0, !.minute = 0, !.hour = @ + 1] = Time(y, mo, d, h + 1, 0, 0)
  /\ [t EXCEPT !.second = 0, !.minute = 0, !.hour = 0, !.day = @ + 1]
        = Time(y, mo, d + 1, 0, 0, 0)
  /\ [t EXCEPT !.second = 0, !.minute = 0, !.hour = 0, !.day = 1, !.month = @ + 1]
        = Time(y, mo + 1, 1, 0, 0, 0)

(* The carries of a second, minute, hour, day and month. *)
LEMMA Carries ==
  ASSUME NEW y, NEW mo, NEW d, NEW h, NEW mi, NEW s, NEW t, t = Time(y, mo, d, h, mi, s)
  PROVE  Carried(t, y, mo, d, h, mi)
<1> DEFINE p == [t EXCEPT !.second = 0]
           q == [p EXCEPT !.minute = 0]
           r == [q EXCEPT !.hour = 0]
           u == [r EXCEPT !.day = 1]
<1>1. /\ [t EXCEPT !.second = 0, !.minute = @ + 1] = [p EXCEPT !.minute = p.minute + 1]
      /\ [t EXCEPT !.second = 0, !.minute = 0, !.hour = @ + 1] = [q EXCEPT !.hour = q.hour + 1]
      /\ [t EXCEPT !.second = 0, !.minute = 0, !.hour = 0, !.day = @ + 1]
            = [r EXCEPT !.day = r.day + 1]
      /\ [t EXCEPT !.second = 0, !.minute = 0, !.hour = 0, !.day = 1, !.month = @ + 1]
            = [u EXCEPT !.month = u.month + 1]
  OBVIOUS
<1>2. p = Time(y, mo, d, h, mi, 0) /\ p.minute = mi
  <2>1. SetOf(t, y, mo, d, h, mi, s, 0)
    BY FieldSet, Zenon
  <2>2. p = Time(y, mo, d, h, mi, 0)
    BY <2>1, Zenon DEF SetOf
  <2> HIDE DEF p
  <2> QED  BY <2>2 DEF Time
<1> HIDE DEF p
<1>3. q = Time(y, mo, d, h, 0, 0) /\ q.hour = h
  <2>1. SetOf(p, y, mo, d, h, mi, 0, 0)
    BY <1>2, FieldSet, Zenon
  <2>2. q = Time(y, mo, d, h, 0, 0)
    BY <2>1, Zenon DEF SetOf
  <2> HIDE DEF q
  <2> QED  BY <2>2 DEF Time
<1> HIDE DEF q
<1>4. r = Time(y, mo, d, 0, 0, 0) /\ r.day = d
  <2>1. SetOf(q, y, mo, d, h, 0, 0, 0)
    BY <1>3, FieldSet, Zenon
  <2>2. r = Time(y, mo, d, 0, 0, 0)
    BY <2>1, Zenon DEF SetOf
  <2> HIDE DEF r
  <2> QED  BY <2>2 DEF Time
<1> HIDE DEF r
<1>5. u = Time(y, mo, 1, 0, 0, 0) /\ u.month = mo
  <2>1. SetOf(r, y, mo, d, 0, 0, 0, 1)
    BY <1>4, FieldSet, Zenon
  <2>2. u = Time(y, mo, 1, 0, 0, 0)
    BY <2>1, Zenon DEF SetOf
  <2> HIDE DEF u
  <2> QED  BY <2>2 DEF Time
<1> HIDE DEF u
<1>6. /\ SetOf(p, y, mo, d, h, mi, 0, mi + 1) /\ SetOf(q, y, mo, d, h, 0, 0, h + 1)
      /\ SetOf(r, y, mo, d, 0, 0, 0, d + 1) /\ SetOf(u, y, mo, 1, 0, 0, 0, mo + 1)
  BY <1>2, <1>3, <1>4, <1>5, FieldSet, Zenon
<1> QED
  BY <1>1, <1>2, <1>3, <1>4, <1>5, <1>6, Zenon DEF SetOf, Carried

(* The first second of a year. *)
LEMMA NextYear ==
  ASSUME NEW y
  PROVE  [NoTime EXCEPT !.year = y, !.month = 1, !.day = 1] = Time(y, 1, 1, 0, 0, 0)
<1> DEFINE p == [NoTime EXCEPT !.year = y]
           q == [p EXCEPT !.month = 1]
<1>1. [NoTime EXCEPT !.year = y, !.month = 1, !.day = 1] = [q EXCEPT !.day = 1]
  OBVIOUS
<1>2. NoTime = Time(0, 0, 0, 0, 0, 0)
  BY DEF NoTime, Time
<1>3. p = Time(y, 0, 0, 0, 0, 0)
  <2>1. SetOf(NoTime, 0, 0, 0, 0, 0, 0, y)
    BY <1>2, FieldSet, Zenon
  <2> QED  BY <2>1, Zenon DEF SetOf
<1> HIDE DEF p
<1>4. q = Time(y, 1, 0, 0, 0, 0)
  <2>1. SetOf(p, y, 0, 0, 0, 0, 0, 1)
    BY <1>3, FieldSet, Zenon
  <2> QED  BY <2>1, Zenon DEF SetOf
<1> HIDE DEF q
<1>5. SetOf(q, y, 1, 0, 0, 0, 0, 1)
  BY <1>4, FieldSet, Zenon
<1> QED
  BY <1>1, <1>5, Zenon DEF SetOf

(* The second after 59 is 0, of a time the chip can show. *)
LEMMA NextMinute ==
  ASSUME NEW t \in CivilTimes, t.second = 59
  PROVE  Later(t) \in ShownTimes /\ Later(t).second = 0
<1> DEFINE y == t.year
           mo == t.month
           d == t.day
           h == t.hour
           mi == t.minute
<1>0. /\ t = Time(y, mo, d, h, mi, 59)
      /\ y \in Years /\ y + 1 \in Years /\ mo \in Months /\ d \in Days
      /\ h \in Hours /\ mi \in Sixty
  BY DEF CivilTimes, Time, Years, Months, Days, Hours, Sixty
<1>1. MonthDays(y, mo) \in 28 .. 31
  BY DEF MonthDays, Leap
<1>2. ~(t.second < 59)
  OBVIOUS
<1> HIDE DEF y, mo, d, h, mi
<1>3. ASSUME NEW a \in Years, NEW b \in Months, NEW c \in Days,
             NEW e \in Hours, NEW f \in Sixty, Later(t) = Time(a, b, c, e, f, 0)
      PROVE  Later(t) \in ShownTimes /\ Later(t).second = 0
  <2>1. Time(a, b, c, e, f, 0).second = 0
    BY DEF Time
  <2>2. Time(a, b, c, e, f, 0) \in ShownTimes
    <3>1. 0 \in Sixty
      BY DEF Sixty
    <3> QED  BY <3>1, TimeShown, Zenon
  <2> QED  BY <1>3, <2>1, <2>2, Zenon
<1>c. Carried(t, y, mo, d, h, mi)
  BY <1>0, Carries, Zenon
<1>v. 1 \in Months /\ 1 \in Days /\ 0 \in Hours /\ 0 \in Sixty
  BY DEF Months, Days, Hours, Sixty
<1>4. CASE mi < 59
  <2>1. Later(t) = Time(y, mo, d, h, mi + 1, 0)
    BY <1>2, <1>4, <1>c, Zenon DEF Later, Carried, mi
  <2>2. mi + 1 \in Sixty
    BY <1>0, <1>4 DEF Sixty
  <2> QED  BY <1>0, <1>v, <1>3, <2>1, <2>2
<1>5. CASE ~(mi < 59) /\ h < 23
  <2>1. Later(t) = Time(y, mo, d, h + 1, 0, 0)
    BY <1>2, <1>5, <1>c, Zenon DEF Later, Carried, mi, h
  <2>2. h + 1 \in Hours
    BY <1>0, <1>5 DEF Hours
  <2> QED  BY <1>0, <1>v, <1>3, <2>1, <2>2
<1>6. CASE ~(mi < 59) /\ ~(h < 23) /\ d < MonthDays(y, mo)
  <2>1. Later(t) = Time(y, mo, d + 1, 0, 0, 0)
    BY <1>2, <1>6, <1>c, Zenon DEF Later, Carried, y, mo, d, h, mi
  <2>2. d + 1 \in Days
    BY <1>0, <1>1, <1>6 DEF Days
  <2> QED  BY <1>0, <1>v, <1>3, <2>1, <2>2
<1>7. CASE ~(mi < 59) /\ ~(h < 23) /\ ~(d < MonthDays(y, mo)) /\ mo < 12
  <2>1. Later(t) = Time(y, mo + 1, 1, 0, 0, 0)
    BY <1>2, <1>7, <1>c, Zenon DEF Later, Carried, y, mo, d, h, mi
  <2>2. mo + 1 \in Months
    BY <1>0, <1>7 DEF Months
  <2> QED  BY <1>0, <1>v, <1>3, <2>1, <2>2
<1>8. CASE ~(mi < 59) /\ ~(h < 23) /\ ~(d < MonthDays(y, mo)) /\ ~(mo < 12)
  <2>1. Later(t) = Time(y + 1, 1, 1, 0, 0, 0)
    BY <1>2, <1>8, NextYear, Zenon DEF Later, y, mo, d, h, mi
  <2> QED  BY <1>0, <1>v, <1>3, <2>1
<1> QED
  BY <1>4, <1>5, <1>6, <1>7, <1>8, Zenon

(* The time j seconds after t, as far as a minute. *)
LEMMA AfterType ==
  ASSUME NEW t \in CivilTimes, NEW j \in 0 .. 59
  PROVE  /\ After(t, j) \in ShownTimes
         /\ After(t, j).second = (IF t.second + j < 60 THEN t.second + j ELSE t.second + j - 60)
         /\ After(t, 0) = t
<1>1. LastSecond(t) \in CivilTimes /\ LastSecond(t).second = 59
  BY DEF CivilTimes, LastSecond
<1>2. Later(LastSecond(t)) \in ShownTimes
  BY <1>1, NextMinute
<1>3. t.second \in 0 .. 59
  BY DEF CivilTimes
<1>4. CASE t.second + j < 60
  <2>1. After(t, j) = [t EXCEPT !.second = t.second + j]
    BY <1>4 DEF After
  <2> QED  BY <1>3, <1>4, <2>1 DEF CivilTimes, ShownTimes, Years, Months, Days, Hours, Sixty, After
<1>5. CASE ~(t.second + j < 60)
  <2>1. After(t, j) = [Later(LastSecond(t)) EXCEPT !.second = t.second + j - 60]
    BY <1>5 DEF After
  <2>2. After(t, 0) = t
    BY <1>3 DEF CivilTimes, After
  <2> HIDE DEF LastSecond
  <2> QED  BY <1>2, <1>3, <1>5, <2>1, <2>2 DEF ShownTimes, Years, Months, Days, Hours, Sixty
<1> QED
  BY <1>4, <1>5

(* Within a minute only the second counts up. *)
LEMMA NextSecond ==
  ASSUME NEW t \in ShownTimes, NEW n \in 0 .. 58
  PROVE  LET u == [t EXCEPT !.second = n] IN Later(u) = [t EXCEPT !.second = n + 1]
<1> DEFINE u == [t EXCEPT !.second = n]
           y == t.year
           mo == t.month
           d == t.day
           h == t.hour
           mi == t.minute
<1>1. t = Time(y, mo, d, h, mi, t.second)
  BY DEF ShownTimes, Years, Months, Days, Hours, Sixty, Time
<1> HIDE DEF y, mo, d, h, mi
<1>2. SetOf(t, y, mo, d, h, mi, t.second, n) /\ SetOf(t, y, mo, d, h, mi, t.second, n + 1)
  BY <1>1, FieldSet, Zenon
<1>3. u = Time(y, mo, d, h, mi, n) /\ [t EXCEPT !.second = n + 1] = Time(y, mo, d, h, mi, n + 1)
  BY <1>2, Zenon DEF SetOf
<1> HIDE DEF u
<1>4. u.second = n
  BY <1>3 DEF Time
<1>5. n < 59
  OBVIOUS
<1>6. Later(u) = [u EXCEPT !.second = @ + 1]
  BY <1>4, <1>5, Zenon DEF Later
<1>7. SetOf(u, y, mo, d, h, mi, n, n + 1)
  BY <1>3, FieldSet, Zenon
<1>8. Later(u) = [t EXCEPT !.second = n + 1]
  BY <1>3, <1>4, <1>6, <1>7, Zenon DEF SetOf
<1> QED
  BY <1>8 DEF u

(* One update more. *)
LEMMA AfterStep ==
  ASSUME NEW t \in CivilTimes, NEW j \in 0 .. 58
  PROVE  Later(After(t, j)) = After(t, j + 1)
<1> DEFINE u == After(t, j)
           v == After(t, j + 1)
<1>0. j \in 0 .. 59 /\ j + 1 \in 0 .. 59
  OBVIOUS
<1>1. u \in ShownTimes /\ v \in ShownTimes
  BY <1>0, AfterType
<1>2. t.second \in 0 .. 59
  BY DEF CivilTimes
<1>3. CASE t.second + j < 59
  <2>1. /\ u = [t EXCEPT !.second = t.second + j]
        /\ v = [t EXCEPT !.second = t.second + j + 1]
    BY <1>2, <1>3 DEF After
  <2>2. t \in ShownTimes /\ t.second + j \in 0 .. 58
    BY <1>2, <1>3 DEF CivilTimes, ShownTimes, Years, Months, Days, Hours, Sixty
  <2>3. Later([t EXCEPT !.second = t.second + j]) = [t EXCEPT !.second = t.second + j + 1]
    BY <2>2, NextSecond, Zenon
  <2> QED  BY <2>1, <2>3, Zenon
<1>4. CASE t.second + j = 59
  <2>1. u = LastSecond(t)
    BY <1>2, <1>4 DEF After, LastSecond
  <2>2. v = [Later(LastSecond(t)) EXCEPT !.second = 0]
    BY <1>2, <1>4 DEF After
  <2>3. LastSecond(t) \in CivilTimes /\ LastSecond(t).second = 59
    BY DEF CivilTimes, LastSecond
  <2>4. Later(LastSecond(t)) \in ShownTimes /\ Later(LastSecond(t)).second = 0
    BY <2>3, NextMinute
  <2> DEFINE w == Later(LastSecond(t))
  <2>5. [w EXCEPT !.second = 0] = w
    <3>1. w \in ShownTimes /\ w.second = 0
      BY <2>4
    <3> HIDE DEF w
    <3> QED  BY <3>1 DEF ShownTimes, Years, Months, Days, Hours, Sixty
  <2> QED  BY <2>1, <2>2, <2>5
<1>5. CASE t.second + j > 59
  <2> DEFINE w == Later(LastSecond(t))
  <2>1. /\ u = [w EXCEPT !.second = t.second + j - 60]
        /\ v = [w EXCEPT !.second = t.second + j - 60 + 1]
    BY <1>2, <1>5 DEF After
  <2>2. w \in ShownTimes
    <3>1. LastSecond(t) \in CivilTimes /\ LastSecond(t).second = 59
      BY DEF CivilTimes, LastSecond
    <3> QED  BY <3>1, NextMinute
  <2>3. t.second + j - 60 \in 0 .. 58
    BY <1>2, <1>5
  <2> HIDE DEF w
  <2>4. Later([w EXCEPT !.second = t.second + j - 60]) = [w EXCEPT !.second = t.second + j - 60 + 1]
    BY <2>2, <2>3, NextSecond, Zenon
  <2> QED  BY <2>1, <2>4, Zenon
<1> QED
  BY <1>2, <1>3, <1>4, <1>5

(* Two of them with the same second are the same; the others differ from each
   other only across the one rollover. *)
SameAbove(t, u) == /\ t.year = u.year /\ t.month = u.month /\ t.day = u.day
                   /\ t.hour = u.hour /\ t.minute = u.minute

(* Within a minute's updates, no second comes twice. *)
LEMMA AfterDiffers ==
  ASSUME NEW t \in CivilTimes, NEW i \in 0 .. 59, NEW j \in 0 .. 59,
         After(t, i).second = After(t, j).second
  PROVE  i = j
<1>1. t.second \in 0 .. 59
  BY DEF CivilTimes
<1>2. After(t, i).second = (IF t.second + i < 60 THEN t.second + i ELSE t.second + i - 60)
  BY AfterType
<1>3. After(t, j).second = (IF t.second + j < 60 THEN t.second + j ELSE t.second + j - 60)
  BY AfterType
<1> DEFINE s == t.second
<1> HIDE DEF s
<1>4. (IF s + i < 60 THEN s + i ELSE s + i - 60) = (IF s + j < 60 THEN s + j ELSE s + j - 60)
  BY <1>2, <1>3 DEF s
<1>5. s \in 0 .. 59
  BY <1>1 DEF s
<1> QED
  BY <1>4, <1>5

(* Two times on the same side of the turn of the minute agree above the second. *)
LEMMA AfterSides ==
  ASSUME NEW t \in CivilTimes, NEW i \in 0 .. 59, NEW j \in 0 .. 59,
         (t.second + i < 60) <=> (t.second + j < 60)
  PROVE  SameAbove(After(t, i), After(t, j))
<1>1. CASE t.second + i < 60
  <2>1. /\ After(t, i) = [t EXCEPT !.second = t.second + i]
        /\ After(t, j) = [t EXCEPT !.second = t.second + j]
    BY <1>1 DEF After
  <2> QED  BY <2>1 DEF CivilTimes, SameAbove
<1>2. CASE ~(t.second + i < 60)
  <2> DEFINE w == Later(LastSecond(t))
  <2>1. /\ After(t, i) = [w EXCEPT !.second = t.second + i - 60]
        /\ After(t, j) = [w EXCEPT !.second = t.second + j - 60]
    BY <1>2 DEF After
  <2>2. w \in ShownTimes
    <3>1. LastSecond(t) \in CivilTimes /\ LastSecond(t).second = 59
      BY DEF CivilTimes, LastSecond
    <3> QED  BY <3>1, NextMinute
  <2> HIDE DEF w
  <2> QED  BY <2>1, <2>2 DEF ShownTimes, Years, Months, Days, Hours, Sixty, SameAbove
<1> QED
  BY <1>1, <1>2

-----------------------------------------------------------------------------
(* What read_raw makes of the registers. *)

Modes == [binary : BOOLEAN, day24 : BOOLEAN]
Century(y) == IF y % 100 < 70 THEN 2000 + (y % 100) ELSE 1900 + (y % 100)
Hundred == 0 .. 99
Plain2(mode, v) == IF mode.binary THEN v ELSE from_bcd(v)

(* from_bcd undoes the encoding of two digits. *)
LEMMA Digits ==
  ASSUME NEW v \in Hundred
  PROVE  from_bcd((v \div 10) * 16 + (v % 10)) = v
<1>1. v \div 10 \in 0 .. 9
  BY DEF Hundred
<1>2. v % 10 \in 0 .. 9
  BY DEF Hundred
<1>3. v = 10 * (v \div 10) + (v % 10)
  BY DEF Hundred
<1>4. ASSUME NEW q \in 0 .. 9, NEW r \in 0 .. 9
      PROVE  from_bcd(q * 16 + r) = 10 * q + r
  <2>1. (q * 16 + r) % 16 = r
    OBVIOUS
  <2>2. (q * 16 + r) \div 16 = q
    OBVIOUS
  <2> HIDE <1>1, <1>2, <1>3
  <2> QED  BY <2>1, <2>2 DEF from_bcd
<1> QED
  BY <1>1, <1>2, <1>3, <1>4, Zenon

(* A register's value converts back, binary or BCD. *)
LEMMA EncodedBack ==
  ASSUME NEW mode \in Modes, NEW v \in Hundred
  PROVE  Plain2(mode, Encoded(mode, v)) = v
  BY Digits, Zenon DEF Plain2, Encoded

(* The century of a two-digit year. *)
LEMMA CenturyOf ==
  ASSUME NEW y \in Years
  PROVE  /\ y % 100 \in Hundred
         /\ Century(y) = IF y = 2070 THEN 1970 ELSE y
<1>1. y % 100 \in Hundred
  BY DEF Years, Hundred
<1>2. (IF y % 100 < 70 THEN 2000 + (y % 100) ELSE 1900 + (y % 100)) = IF y = 2070 THEN 1970 ELSE y
  BY DEF Years
<1> QED
  BY <1>1, <1>2, Zenon DEF Century

(* The hour converts back from the twelve-hour clock, noon and midnight included. *)
LEMMA HourBack ==
  ASSUME NEW mode \in Modes, NEW h \in Hours
  PROVE  LET r == IF mode.day24 THEN Encoded(mode, h)
                  ELSE Encoded(mode, IF h % 12 = 0 THEN 12 ELSE h % 12)
                         + (IF h >= 12 THEN 128 ELSE 0)
             pm == ~mode.day24 /\ r >= 128
             hour == Plain2(mode, r % 128)
         IN h = IF pm /\ hour # 12 THEN hour + 12
                ELSE IF ~mode.day24 /\ ~pm /\ hour = 12 THEN 0 ELSE hour
<1>1. ASSUME NEW v \in 0 .. 23
      PROVE  /\ Encoded(mode, v) \in 0 .. 35
             /\ Encoded(mode, v) % 128 = Encoded(mode, v)
             /\ (Encoded(mode, v) + 128) % 128 = Encoded(mode, v)
             /\ Plain2(mode, Encoded(mode, v)) = v
  <2>1. v \in Hundred
    BY DEF Hundred
  <2>2. Plain2(mode, Encoded(mode, v)) = v
    BY <2>1, EncodedBack, Zenon
  <2>4. Encoded(mode, v) \in 0 .. 35
    <3>1. (v \div 10) * 16 + (v % 10) \in 0 .. 35
      OBVIOUS
    <3>2. v \in 0 .. 35
      OBVIOUS
    <3> QED  BY <3>1, <3>2 DEF Encoded
  <2>5. \A e \in 0 .. 35 : e % 128 = e /\ (e + 128) % 128 = e
    OBVIOUS
  <2> QED  BY <2>2, <2>4, <2>5
<1>2. CASE mode.day24
  <2>1. h \in 0 .. 23
    BY DEF Hours
  <2> QED  BY <1>1, <1>2, <2>1, Zenon
<1>3. CASE ~mode.day24
  <2> DEFINE w == IF h % 12 = 0 THEN 12 ELSE h % 12
             e == Encoded(mode, w)
  <2>1. w \in 1 .. 12 /\ w \in 0 .. 23
    BY DEF Hours
  <2>2. /\ h >= 12 => h = IF w # 12 THEN w + 12 ELSE w
        /\ ~(h >= 12) => h = IF w = 12 THEN 0 ELSE w
    BY DEF Hours
  <2> HIDE DEF w
  <2>3. e \in 0 .. 35 /\ e % 128 = e /\ (e + 128) % 128 = e /\ Plain2(mode, e) = w
    BY <1>1, <2>1, Zenon
  <2> HIDE DEF e
  <2>4. ~(e + 0 >= 128) /\ e + 128 >= 128 /\ e + 0 = e
    BY <2>3
  <2>5. CASE h >= 12
    <3>1. (e + 128) % 128 = e /\ e + 128 >= 128
      BY <2>3, <2>4, Zenon
    <3>2. h = IF w # 12 THEN w + 12 ELSE w
      BY <2>2, <2>5, Zenon
    <3>3. e = Encoded(mode, IF h % 12 = 0 THEN 12 ELSE h % 12)
      BY DEF e, w
    <3>4. Plain2(mode, (e + 128) % 128) = w
      BY <2>3, Zenon
    <3> QED  BY <1>3, <2>5, <3>1, <3>2, <3>3, <3>4
  <2>6. CASE ~(h >= 12)
    <3>1. (e + 0) % 128 = e /\ ~(e + 0 >= 128)
      BY <2>3, <2>4, Zenon
    <3>2. h = IF w = 12 THEN 0 ELSE w
      BY <2>2, <2>6, Zenon
    <3>3. e = Encoded(mode, IF h % 12 = 0 THEN 12 ELSE h % 12)
      BY DEF e, w
    <3>4. Plain2(mode, (e + 0) % 128) = w
      BY <2>3, <3>1, Zenon
    <3> QED  BY <1>3, <2>6, <3>1, <3>2, <3>3, <3>4
  <2> QED  BY <2>5, <2>6
<1> QED
  BY <1>2, <1>3

(* Six registers, each read while the chip showed the time After(t, a[k]). *)
Read(t, a, mode, regs) ==
  \A k \in 1 .. Len(regs) : regs[k] = RegisterOf(mode, After(t, a[k]), Fields[k])
Mix(t, a) == Time(Century(After(t, a[6]).year), After(t, a[5]).month, After(t, a[4]).day,
                  After(t, a[3]).hour, After(t, a[2]).minute, After(t, a[1]).second)

(* Registers read at different updates convert to the mix of those times. *)
LEMMA MixConverted ==
  ASSUME NEW t \in CivilTimes, NEW a, \A k \in 1 .. 6 : a[k] \in Sixty,
         NEW mode \in Modes, NEW regs, Len(regs) = 6, Read(t, a, mode, regs)
  PROVE  Converted(mode, regs) = Mix(t, a)
<1>1. \A k \in 1 .. 6 : After(t, a[k]) \in ShownTimes
  BY AfterType DEF Sixty
<1>2. \A k \in 1 .. 6 : regs[k] = RegisterOf(mode, After(t, a[k]), Fields[k])
  BY DEF Read
<1>3. \A u : /\ RegisterOf(mode, u, "second") = Encoded(mode, u.second)
             /\ RegisterOf(mode, u, "minute") = Encoded(mode, u.minute)
             /\ RegisterOf(mode, u, "day") = Encoded(mode, u.day)
             /\ RegisterOf(mode, u, "month") = Encoded(mode, u.month)
             /\ RegisterOf(mode, u, "year") = Encoded(mode, u.year % 100)
             /\ RegisterOf(mode, u, "hour") =
                  IF mode.day24 THEN Encoded(mode, u.hour)
                  ELSE Encoded(mode, IF u.hour % 12 = 0 THEN 12 ELSE u.hour % 12)
                         + (IF u.hour >= 12 THEN 128 ELSE 0)
  BY DEF RegisterOf
<1>4. /\ Fields[1] = "second" /\ Fields[2] = "minute" /\ Fields[3] = "hour"
      /\ Fields[4] = "day" /\ Fields[5] = "month" /\ Fields[6] = "year"
  BY DEF Fields
<1>5. ASSUME NEW u \in ShownTimes
      PROVE  /\ u.second \in Hundred /\ u.minute \in Hundred /\ u.day \in Hundred
             /\ u.month \in Hundred /\ u.year % 100 \in Hundred /\ u.hour \in Hours
  <2>1. /\ u.second \in 0 .. 59 /\ u.minute \in 0 .. 59 /\ u.day \in 1 .. 31
        /\ u.month \in 1 .. 12 /\ u.year \in Years /\ u.hour \in Hours
    BY DEF ShownTimes, Months, Days, Sixty
  <2> QED  BY <2>1, CenturyOf DEF Hundred
<1>6. /\ 1 \in 1 .. 6 /\ 2 \in 1 .. 6 /\ 3 \in 1 .. 6 /\ 4 \in 1 .. 6 /\ 5 \in 1 .. 6
      /\ 6 \in 1 .. 6
  OBVIOUS
<1> DEFINE v1 == After(t, a[1])
           v2 == After(t, a[2])
           v3 == After(t, a[3])
           v4 == After(t, a[4])
           v5 == After(t, a[5])
           v6 == After(t, a[6])
<1>7. /\ v1 \in ShownTimes /\ v2 \in ShownTimes /\ v3 \in ShownTimes
      /\ v4 \in ShownTimes /\ v5 \in ShownTimes /\ v6 \in ShownTimes
  BY <1>1, <1>6, Zenon
<1>8. /\ regs[1] = RegisterOf(mode, v1, "second") /\ regs[2] = RegisterOf(mode, v2, "minute")
      /\ regs[3] = RegisterOf(mode, v3, "hour") /\ regs[4] = RegisterOf(mode, v4, "day")
      /\ regs[5] = RegisterOf(mode, v5, "month") /\ regs[6] = RegisterOf(mode, v6, "year")
  BY <1>2, <1>4, <1>6
<1>m. Mix(t, a) = Time(Century(v6.year), v5.month, v4.day, v3.hour, v2.minute, v1.second)
  BY DEF Mix
<1> HIDE DEF v1, v2, v3, v4, v5, v6
<1>9. /\ Plain2(mode, regs[1]) = v1.second /\ Plain2(mode, regs[2]) = v2.minute
      /\ Plain2(mode, regs[4]) = v4.day /\ Plain2(mode, regs[5]) = v5.month
      /\ Plain2(mode, regs[6]) = v6.year % 100
  <2>1. \A v \in Hundred : Plain2(mode, Encoded(mode, v)) = v
    BY EncodedBack, Zenon
  <2>2. Plain2(mode, regs[1]) = v1.second
    <3>1. v1.second \in Hundred
      BY <1>5, <1>7, Zenon
    <3>2. regs[1] = Encoded(mode, v1.second)
      BY <1>3, <1>8, Zenon
    <3> QED  BY <2>1, <3>1, <3>2, Zenon
  <2>3. Plain2(mode, regs[2]) = v2.minute
    <3>1. v2.minute \in Hundred
      BY <1>5, <1>7, Zenon
    <3>2. regs[2] = Encoded(mode, v2.minute)
      BY <1>3, <1>8, Zenon
    <3> QED  BY <2>1, <3>1, <3>2, Zenon
  <2>4. Plain2(mode, regs[4]) = v4.day
    <3>1. v4.day \in Hundred
      BY <1>5, <1>7, Zenon
    <3>2. regs[4] = Encoded(mode, v4.day)
      BY <1>3, <1>8, Zenon
    <3> QED  BY <2>1, <3>1, <3>2, Zenon
  <2>5. Plain2(mode, regs[5]) = v5.month
    <3>1. v5.month \in Hundred
      BY <1>5, <1>7, Zenon
    <3>2. regs[5] = Encoded(mode, v5.month)
      BY <1>3, <1>8, Zenon
    <3> QED  BY <2>1, <3>1, <3>2, Zenon
  <2>6. Plain2(mode, regs[6]) = v6.year % 100
    <3>1. v6.year % 100 \in Hundred
      BY <1>5, <1>7, Zenon
    <3>2. regs[6] = Encoded(mode, v6.year % 100)
      BY <1>3, <1>8, Zenon
    <3> QED  BY <2>1, <3>1, <3>2, Zenon
  <2> QED  BY <2>2, <2>3, <2>4, <2>5, <2>6, Zenon
<1> DEFINE pm == ~mode.day24 /\ regs[3] >= 128
           hour == Plain2(mode, regs[3] % 128)
<1>10. v3.hour = IF pm /\ hour # 12 THEN hour + 12
                 ELSE IF ~mode.day24 /\ ~pm /\ hour = 12 THEN 0 ELSE hour
  <2>1. regs[3] = IF mode.day24 THEN Encoded(mode, v3.hour)
                  ELSE Encoded(mode, IF v3.hour % 12 = 0 THEN 12 ELSE v3.hour % 12)
                         + (IF v3.hour >= 12 THEN 128 ELSE 0)
    <3> DEFINE X(x) == IF mode.day24 THEN Encoded(mode, x)
                       ELSE Encoded(mode, IF x % 12 = 0 THEN 12 ELSE x % 12)
                              + (IF x >= 12 THEN 128 ELSE 0)
    <3>1. RegisterOf(mode, v3, "hour") = X(v3.hour)
      BY <1>3
    <3> HIDE DEF X
    <3>2. regs[3] = X(v3.hour)
      BY <1>8, <3>1, Zenon
    <3> QED  BY <3>2 DEF X
  <2>2. v3.hour \in Hours
    BY <1>5, <1>7, Zenon
  <2> QED  BY <2>1, <2>2, HourBack
<1>11. Converted(mode, regs) =
         Time(IF Plain2(mode, regs[6]) < 70 THEN 2000 + Plain2(mode, regs[6])
              ELSE 1900 + Plain2(mode, regs[6]),
              Plain2(mode, regs[5]), Plain2(mode, regs[4]), v3.hour,
              Plain2(mode, regs[2]), Plain2(mode, regs[1]))
  BY <1>10 DEF Converted, Time, Plain2
<1>12. (IF v6.year % 100 < 70 THEN 2000 + (v6.year % 100) ELSE 1900 + (v6.year % 100))
         = Century(v6.year)
  BY DEF Century
<1> QED
  BY <1>9, <1>11, <1>12, <1>m

-----------------------------------------------------------------------------
(* Two readings, the first over before the second begins. *)

Still(n) == [k \in 1 .. 6 |-> n]

(* Two readings that agree, one before and one after an update, are of that moment. *)
LEMMA Agreement ==
  ASSUME NEW t \in CivilTimes, NEW lo \in Sixty, NEW a, NEW b,
         \A k \in 1 .. 6 : a[k] \in Sixty /\ lo <= a[k],
         \A k \in 1 .. 6 : b[k] \in Sixty /\ b[k] <= lo,
         Mix(t, a) = Mix(t, b)
  PROVE  Mix(t, a) = Mix(t, Still(lo))
<1> DEFINE x(k) == After(t, a[k])
           y(k) == After(t, b[k])
           z == After(t, lo)
<1>1. Mix(t, Still(lo)) = Time(Century(z.year), z.month, z.day, z.hour, z.minute, z.second)
  <2>1. /\ Still(lo)[1] = lo /\ Still(lo)[2] = lo /\ Still(lo)[3] = lo
        /\ Still(lo)[4] = lo /\ Still(lo)[5] = lo /\ Still(lo)[6] = lo
    BY DEF Still
  <2> QED  BY <2>1, Zenon DEF Mix
<1>2. /\ Mix(t, a) = Time(Century(x(6).year), x(5).month, x(4).day, x(3).hour, x(2).minute,
                          x(1).second)
      /\ Mix(t, b) = Time(Century(y(6).year), y(5).month, y(4).day, y(3).hour, y(2).minute,
                          y(1).second)
  BY Zenon DEF Mix
<1>3. 1 \in 1 .. 6 /\ 2 \in 1 .. 6 /\ 3 \in 1 .. 6 /\ 4 \in 1 .. 6 /\ 5 \in 1 .. 6 /\ 6 \in 1 .. 6
  OBVIOUS
<1>4. x(1).second = y(1).second
  <2> HIDE DEF x, y
  <2>1. \A v, c, mo, d, h, mi, s : v = Time(c, mo, d, h, mi, s) => v.second = s
    BY DEF Time
  <2>2. Mix(t, a).second = x(1).second /\ Mix(t, b).second = y(1).second
    BY <1>2, <2>1
  <2> QED  BY <2>2, Zenon
<1>5. a[1] = lo /\ b[1] = lo
  <2>1. a[1] \in 0 .. 59 /\ lo <= a[1] /\ b[1] \in 0 .. 59 /\ b[1] <= lo /\ lo \in 0 .. 59
    BY <1>3 DEF Sixty
  <2>2. a[1] = b[1]
    BY <1>4, <2>1, AfterDiffers, Zenon
  <2> QED  BY <2>1, <2>2
<1>6. x(1).second = z.second
  BY <1>5, Zenon
<1>7. t.second \in 0 .. 59 /\ lo \in 0 .. 59
  BY DEF CivilTimes, Sixty
<1>8. CASE t.second + lo < 60
  <2>1. ASSUME NEW k \in 1 .. 6 PROVE SameAbove(y(k), z)
    <3>1. b[k] \in 0 .. 59 /\ b[k] <= lo
      BY DEF Sixty
    <3>2. t.second + b[k] < 60
      BY <1>7, <1>8, <3>1
    <3> QED  BY <1>7, <1>8, <3>1, <3>2, AfterSides, Zenon
  <2>2. /\ y(6).year = z.year /\ y(5).month = z.month /\ y(4).day = z.day
        /\ y(3).hour = z.hour /\ y(2).minute = z.minute
    BY <1>3, <2>1, Zenon DEF SameAbove
  <2> HIDE DEF x, y, z
  <2> QED  BY <1>1, <1>2, <1>4, <1>6, <2>2, Zenon
<1>9. CASE ~(t.second + lo < 60)
  <2>1. ASSUME NEW k \in 1 .. 6 PROVE SameAbove(x(k), z)
    <3>1. a[k] \in 0 .. 59 /\ lo <= a[k]
      BY DEF Sixty
    <3>2. ~(t.second + a[k] < 60)
      BY <1>7, <1>9, <3>1
    <3> QED  BY <1>7, <1>9, <3>1, <3>2, AfterSides, Zenon
  <2>2. /\ x(6).year = z.year /\ x(5).month = z.month /\ x(4).day = z.day
        /\ x(3).hour = z.hour /\ x(2).minute = z.minute
    BY <1>3, <2>1, Zenon DEF SameAbove
  <2> HIDE DEF x, y, z
  <2> QED  BY <1>1, <1>2, <1>6, <2>2, Zenon
<1> QED
  BY <1>8, <1>9

(* A reading taken while the chip stood still is what it showed, if two digits
   carry its year. *)
Kept(v) == IF is_plausible(v) THEN v ELSE NoTime

(* A mix of one moment only is that moment's time, where the year is one the code keeps. *)
LEMMA StillShown ==
  ASSUME NEW t \in CivilTimes, NEW j \in Sixty
  PROVE  LET x == After(t, j)
         IN /\ x \in ShownTimes
            /\ IF x.year \in 2000 .. 2069 THEN Kept(Mix(t, Still(j))) = x
               ELSE Kept(Mix(t, Still(j))) = NoTime
<1> DEFINE x == After(t, j)
           c == Century(x.year)
           v == Time(c, x.month, x.day, x.hour, x.minute, x.second)
<1>1. x \in ShownTimes
  BY AfterType DEF Sixty
<1>2. Mix(t, Still(j)) = v
  <2>1. /\ Still(j)[1] = j /\ Still(j)[2] = j /\ Still(j)[3] = j
        /\ Still(j)[4] = j /\ Still(j)[5] = j /\ Still(j)[6] = j
    BY DEF Still
  <2> QED  BY <2>1, Zenon DEF Mix
<1> HIDE DEF x
<1>3. c = IF x.year = 2070 THEN 1970 ELSE x.year
  <2>1. x.year \in Years
    BY <1>1 DEF ShownTimes
  <2> QED  BY <2>1, CenturyOf
<1>4. x.year \in 1970 .. 2070
  BY <1>1 DEF ShownTimes, Years
<1>5. x = Time(x.year, x.month, x.day, x.hour, x.minute, x.second)
  BY <1>1 DEF ShownTimes, Years, Months, Days, Hours, Sixty, Time
<1> HIDE DEF c
<1>6. is_plausible(v) <=> c \in 2000 .. 2199
  <2>1. /\ v.year = c /\ v.month = x.month /\ v.day = x.day /\ v.hour = x.hour
        /\ v.minute = x.minute /\ v.second = x.second
    BY DEF Time
  <2>2. /\ x.month \in 1 .. 12 /\ x.day \in 1 .. 31 /\ x.hour < 24 /\ x.minute < 60
        /\ x.second <= 60
    BY <1>1 DEF ShownTimes, Months, Days, Hours, Sixty
  <2> HIDE DEF v
  <2> QED  BY <2>1, <2>2 DEF is_plausible
<1>7. CASE x.year \in 2000 .. 2069
  <2>1. c = x.year /\ c \in 2000 .. 2199
    BY <1>3, <1>7
  <2>2. v = x
    BY <1>5, <2>1
  <2>3. is_plausible(v)
    BY <1>6, <2>1
  <2> QED  BY <1>1, <1>2, <1>7, <2>2, <2>3 DEF Kept, x
<1>8. CASE ~(x.year \in 2000 .. 2069)
  <2>1. ~(c \in 2000 .. 2199)
    BY <1>3, <1>4, <1>8
  <2>2. ~is_plausible(v)
    BY <1>6, <2>1
  <2>3. Kept(Mix(t, Still(j))) = NoTime
    BY <1>2, <2>2 DEF Kept
  <2> QED  BY <1>1, <1>8, <2>3 DEF x
<1> QED
  BY <1>7, <1>8

-----------------------------------------------------------------------------
(* The clock's invariant.  An update spoils at most two comparisons, that of a
   reading it falls into with the one before and with the one after; so the
   retries never run out, and the reading returned is one that agreed. *)

Chip(t, mode, busy, n) == [time |-> After(t, n), mode |-> mode, busy |-> busy, updates |-> n]
Rtc(pc, regs, previous, tries, result, seen) ==
  [pc |-> pc, regs |-> regs, previous |-> previous, tries |-> tries, result |-> result,
   seen |-> seen]

\* The updates begun so far, and the times shown after n of them.
Began(busy, n) == n + (IF busy THEN 1 ELSE 0)
Seen(t, n) == {After(t, j) : j \in 0 .. n}
ChipBytes(t, mode) == {RegisterOf(mode, After(t, j), f) : j \in Sixty, f \in {Fields[k] : k \in 1 .. 6}}
Within(a, lo, hi) == \A k \in 1 .. 6 : a[k] \in lo .. hi

Counted(t, busy, n, previous, tries) ==
  \/ tries <= 2 * Began(busy, n)
  \/ tries <= 2 * n + 1 /\ ~busy /\ previous = Mix(t, Still(n))

Waiting(t, busy, n) ==
  \E previous : \E tries \in Nat :
    /\ rtc = Rtc("wait", <<>>, previous, tries, NoTime, Seen(t, n))
    /\ tries # 0 => /\ Counted(t, busy, n, previous, tries)
                    /\ \E b : Within(b, 0, Began(busy, n)) /\ previous = Mix(t, b)

\* lo updates were over when the reading began.
Begun(t, hi, lo, previous, tries) ==
  tries # 0 =>
    /\ \E b : Within(b, 0, lo) /\ previous = Mix(t, b)
    /\ IF lo < hi THEN tries + 1 <= 2 * hi
       ELSE tries <= 2 * hi \/ (tries <= 2 * hi + 1 /\ previous = Mix(t, Still(lo)))

Reading(t, mode, busy, n) ==
  \E previous, regs, a : \E tries \in Nat, lo \in 0 .. n :
    /\ rtc = Rtc("read", regs, previous, tries, NoTime, Seen(t, n))
    /\ regs \in Seq(ChipBytes(t, mode)) /\ Len(regs) <= 6
    /\ Read(t, a, mode, regs) /\ Within(a, lo, Began(busy, n))
    /\ Begun(t, Began(busy, n), lo, previous, tries)

Told(t, n) ==
  \E j \in 0 .. n, tries \in Nat :
    rtc = Rtc("done", <<>>, NoTime, tries, Kept(Mix(t, Still(j))), Seen(t, n))

Clocked(t, mode, busy, n) ==
  /\ chip = Chip(t, mode, busy, n) /\ Began(busy, n) <= MaxUpdates
  /\ \/ rtc = Rtc("off", <<>>, NoTime, 0, NoTime, {}) /\ ~busy /\ n = 0
     \/ Waiting(t, busy, n) \/ Reading(t, mode, busy, n) \/ Told(t, n)

ClockInv ==
  \/ rtc.pc = "over" /\ ~chip.busy
  \/ \E t \in StartTimes, mode \in Modes, busy \in BOOLEAN, n \in Nat : Clocked(t, mode, busy, n)

ChipHas(c, t, mode, busy, n) ==
  c.time = After(t, n) /\ c.mode = mode /\ c.busy = busy /\ c.updates = n

(* The chip's fields. *)
LEMMA ChipFields ==
  ASSUME NEW t, NEW mode, NEW busy, NEW n, NEW c, c = Chip(t, mode, busy, n)
  PROVE  ChipHas(c, t, mode, busy, n)
<1>1. c.time = After(t, n) /\ c.mode = mode /\ c.updates = n
  BY DEF Chip
<1>2. c.busy = busy
  BY Zenon DEF Chip
<1> QED
  BY <1>1, <1>2 DEF ChipHas

ChipSetOf(c, t, mode, busy, n, x) ==
  /\ [c EXCEPT !.busy = x] = [time |-> After(t, n), mode |-> mode, busy |-> x, updates |-> n]
  /\ [c EXCEPT !.time = x] = [time |-> x, mode |-> mode, busy |-> busy, updates |-> n]

(* The other fields of the chip stay when one is set. *)
LEMMA ChipSet ==
  ASSUME NEW t, NEW mode, NEW busy, NEW n, NEW c, NEW x, c = Chip(t, mode, busy, n)
  PROVE  ChipSetOf(c, t, mode, busy, n, x)
<1>1. [c EXCEPT !.busy = x] = [time |-> After(t, n), mode |-> mode, busy |-> x, updates |-> n]
  BY DEF Chip
<1>2. [c EXCEPT !.time = x] = [time |-> x, mode |-> mode, busy |-> busy, updates |-> n]
  BY DEF Chip
<1> QED
  BY <1>1, <1>2, Zenon DEF ChipSetOf

ChipMove(c, t, mode, busy, n) ==
  /\ [c EXCEPT !.busy = TRUE] = Chip(t, mode, TRUE, n)
  /\ [c EXCEPT !.busy = FALSE, !.time = After(t, n + 1), !.updates = n + 1]
       = Chip(t, mode, FALSE, n + 1)

(* The chip's moves. *)
LEMMA ChipBusy ==
  ASSUME NEW t, NEW mode, NEW busy, NEW n, NEW c, c = Chip(t, mode, busy, n)
  PROVE  ChipMove(c, t, mode, busy, n)
<1> DEFINE d == [c EXCEPT !.busy = FALSE]
           e == [d EXCEPT !.time = After(t, n + 1)]
<1>0. \A x : ChipSetOf(c, t, mode, busy, n, x)
  BY ChipSet, Zenon
<1>1. [c EXCEPT !.busy = TRUE] = Chip(t, mode, TRUE, n)
  BY <1>0, Zenon DEF ChipSetOf, Chip
<1>2. d = Chip(t, mode, FALSE, n)
  BY <1>0, Zenon DEF ChipSetOf, Chip
<1>3. [c EXCEPT !.busy = FALSE, !.time = After(t, n + 1), !.updates = n + 1]
        = [e EXCEPT !.updates = n + 1]
  OBVIOUS
<1> HIDE DEF d
<1>4. ChipSetOf(d, t, mode, FALSE, n, After(t, n + 1))
  BY <1>2, ChipSet, Zenon
<1>5. e = [time |-> After(t, n + 1), mode |-> mode, busy |-> FALSE, updates |-> n]
  BY <1>4, Zenon DEF ChipSetOf
<1> HIDE DEF e
<1>6. ASSUME NEW a, NEW b, NEW f, e = [time |-> a, mode |-> mode, busy |-> b, updates |-> n]
      PROVE  [e EXCEPT !.updates = f] = [time |-> a, mode |-> mode, busy |-> b, updates |-> f]
  BY <1>6
<1>7. [e EXCEPT !.updates = n + 1] = Chip(t, mode, FALSE, n + 1)
  BY <1>5, <1>6, Zenon DEF Chip
<1> QED
  BY <1>1, <1>3, <1>7, Zenon DEF ChipMove

RtcHas(r, pc, regs, previous, tries, result, seen) ==
  /\ r.pc = pc /\ r.regs = regs /\ r.previous = previous /\ r.tries = tries
  /\ r.result = result /\ r.seen = seen

(* The reader's fields. *)
LEMMA RtcFields ==
  ASSUME NEW pc, NEW regs, NEW previous, NEW tries, NEW result, NEW seen, NEW r,
         r = Rtc(pc, regs, previous, tries, result, seen)
  PROVE  RtcHas(r, pc, regs, previous, tries, result, seen)
  BY DEF Rtc, RtcHas

RtcSetOf(r, pc, regs, previous, tries, result, seen, x) ==
  /\ [r EXCEPT !.pc = x] = Rtc(x, regs, previous, tries, result, seen)
  /\ [r EXCEPT !.regs = x] = Rtc(pc, x, previous, tries, result, seen)
  /\ [r EXCEPT !.previous = x] = Rtc(pc, regs, x, tries, result, seen)
  /\ [r EXCEPT !.tries = x] = Rtc(pc, regs, previous, x, result, seen)
  /\ [r EXCEPT !.result = x] = Rtc(pc, regs, previous, tries, x, seen)
  /\ [r EXCEPT !.seen = x] = Rtc(pc, regs, previous, tries, result, x)

(* The other fields of the reader stay when one is set. *)
LEMMA RtcSet ==
  ASSUME NEW pc, NEW regs, NEW previous, NEW tries, NEW result, NEW seen, NEW r,
         r = Rtc(pc, regs, previous, tries, result, seen), NEW x
  PROVE  RtcSetOf(r, pc, regs, previous, tries, result, seen, x)
<1>1. [r EXCEPT !.pc = x] = Rtc(x, regs, previous, tries, result, seen)
  BY DEF Rtc
<1>2. [r EXCEPT !.regs = x] = Rtc(pc, x, previous, tries, result, seen)
  BY DEF Rtc
<1>3. [r EXCEPT !.previous = x] = Rtc(pc, regs, x, tries, result, seen)
  BY DEF Rtc
<1>4. [r EXCEPT !.tries = x] = Rtc(pc, regs, previous, x, result, seen)
  BY DEF Rtc
<1>5. [r EXCEPT !.result = x] = Rtc(pc, regs, previous, tries, x, seen)
  BY DEF Rtc
<1>6. [r EXCEPT !.seen = x] = Rtc(pc, regs, previous, tries, result, x)
  BY DEF Rtc
<1> QED
  BY <1>1, <1>2, <1>3, <1>4, <1>5, <1>6, Zenon DEF RtcSetOf

RtcMove(r, pc, regs, previous, tries, result, seen, x, y) ==
  /\ [r EXCEPT !.pc = x, !.regs = y] = Rtc(x, y, previous, tries, result, seen)
  /\ [r EXCEPT !.pc = x, !.seen = y] = Rtc(x, regs, previous, tries, result, y)

(* The reader's moves. *)
LEMMA RtcMoved ==
  ASSUME NEW pc, NEW regs, NEW previous, NEW tries, NEW result, NEW seen, NEW r,
         r = Rtc(pc, regs, previous, tries, result, seen), NEW x, NEW y
  PROVE  RtcMove(r, pc, regs, previous, tries, result, seen, x, y)
<1> DEFINE p == [r EXCEPT !.pc = x]
<1>1. /\ [r EXCEPT !.pc = x, !.regs = y] = [p EXCEPT !.regs = y]
      /\ [r EXCEPT !.pc = x, !.seen = y] = [p EXCEPT !.seen = y]
  OBVIOUS
<1>2. p = Rtc(x, regs, previous, tries, result, seen)
  <2>1. RtcSetOf(r, pc, regs, previous, tries, result, seen, x)
    BY RtcSet, Zenon
  <2> QED  BY <2>1, Zenon DEF RtcSetOf
<1> HIDE DEF p
<1>3. RtcSetOf(p, x, regs, previous, tries, result, seen, y)
  BY <1>2, RtcSet, Zenon
<1> QED
  BY <1>1, <1>3, Zenon DEF RtcSetOf, RtcMove

Answer(pc, regs, previous, tries, seen, reading) ==
  Now(reading) =
    IF tries > 0 /\ (reading = previous \/ tries = ReadRetries)
    THEN Rtc("done", <<>>, NoTime, tries, Kept(reading), seen)
    ELSE Rtc("wait", <<>>, reading, tries + 1, NoTime, seen)

(* The answer a reading gives. *)
LEMMA ReadingKept ==
  ASSUME NEW pc, NEW regs, NEW previous, NEW tries, NEW seen, NEW reading,
         rtc = Rtc(pc, regs, previous, tries, NoTime, seen)
  PROVE  Answer(pc, regs, previous, tries, seen, reading)
<1> DEFINE p == [rtc EXCEPT !.pc = "done", !.regs = <<>>]
           q == [rtc EXCEPT !.pc = "wait", !.regs = <<>>]
           p1 == [p EXCEPT !.previous = NoTime]
           q1 == [q EXCEPT !.previous = reading]
<1>1. rtc.tries = tries /\ rtc.previous = previous
  <2>1. RtcHas(rtc, pc, regs, previous, tries, NoTime, seen)
    BY RtcFields, Zenon
  <2> QED  BY <2>1, Zenon DEF RtcHas
<1>2. /\ p = Rtc("done", <<>>, previous, tries, NoTime, seen)
      /\ q = Rtc("wait", <<>>, previous, tries, NoTime, seen)
  <2>1. /\ RtcMove(rtc, pc, regs, previous, tries, NoTime, seen, "done", <<>>)
        /\ RtcMove(rtc, pc, regs, previous, tries, NoTime, seen, "wait", <<>>)
    BY RtcMoved, Zenon
  <2> QED  BY <2>1, Zenon DEF RtcMove
<1>3. /\ [rtc EXCEPT !.pc = "done", !.regs = <<>>, !.previous = NoTime, !.result = Kept(reading)]
           = [p1 EXCEPT !.result = Kept(reading)]
      /\ [rtc EXCEPT !.pc = "wait", !.regs = <<>>, !.previous = reading, !.tries = tries + 1]
           = [q1 EXCEPT !.tries = tries + 1]
  OBVIOUS
<1> HIDE DEF p, q
<1>4. /\ RtcSetOf(p, "done", <<>>, previous, tries, NoTime, seen, NoTime)
      /\ RtcSetOf(q, "wait", <<>>, previous, tries, NoTime, seen, reading)
  BY <1>2, RtcSet, Zenon
<1>5. /\ p1 = Rtc("done", <<>>, NoTime, tries, NoTime, seen)
      /\ q1 = Rtc("wait", <<>>, reading, tries, NoTime, seen)
  BY <1>4, Zenon DEF RtcSetOf
<1> HIDE DEF p1, q1
<1>6. /\ RtcSetOf(p1, "done", <<>>, NoTime, tries, NoTime, seen, Kept(reading))
      /\ RtcSetOf(q1, "wait", <<>>, reading, tries, NoTime, seen, tries + 1)
  BY <1>5, RtcSet, Zenon
<1>7. /\ [p1 EXCEPT !.result = Kept(reading)] = Rtc("done", <<>>, NoTime, tries, Kept(reading), seen)
      /\ [q1 EXCEPT !.tries = tries + 1] = Rtc("wait", <<>>, reading, tries + 1, NoTime, seen)
  BY <1>6, Zenon DEF RtcSetOf
<1>8. Now(reading) =
        IF rtc.tries > 0 /\ (reading = rtc.previous \/ rtc.tries = ReadRetries)
        THEN [rtc EXCEPT !.pc = "done", !.regs = <<>>, !.previous = NoTime, !.result = Kept(reading)]
        ELSE [rtc EXCEPT !.pc = "wait", !.regs = <<>>, !.previous = reading,
                         !.tries = rtc.tries + 1]
  BY Zenon DEF Now, Kept
<1> QED
  BY <1>1, <1>3, <1>7, <1>8, Zenon DEF Answer

(* One update more has been seen. *)
LEMMA SeenStep ==
  ASSUME NEW t, NEW n \in Nat
  PROVE  Seen(t, n + 1) = Seen(t, n) \union {After(t, n + 1)}
<1>1. 0 .. (n + 1) = (0 .. n) \union {n + 1}
  OBVIOUS
<1> QED
  BY <1>1, Zenon DEF Seen

Counts(busy, n) ==
  /\ Began(busy, n) \in 0 .. 59 /\ n <= Began(busy, n)
  /\ Began(busy, n) <= n + 1 /\ (~busy => Began(busy, n) = n)
  /\ (busy => Began(busy, n) = n + 1) /\ 2 * Began(busy, n) < ReadRetries
  /\ ReadRetries \in Nat

(* What the invariant says of the chip. *)
LEMMA Clocks ==
  ASSUME NEW t \in StartTimes, NEW mode \in Modes, NEW busy \in BOOLEAN, NEW n \in Nat,
         Clocked(t, mode, busy, n)
  PROVE  t \in CivilTimes /\ Counts(busy, n) /\ ChipHas(chip, t, mode, busy, n)
<1>1. t \in CivilTimes
  BY ClockAssumption
<1>2. /\ Began(busy, n) \in 0 .. 59 /\ n <= Began(busy, n)
      /\ Began(busy, n) <= n + 1 /\ (~busy => Began(busy, n) = n)
      /\ (busy => Began(busy, n) = n + 1)
  BY ClockAssumption DEF Clocked, Began
<1>3. 2 * Began(busy, n) < ReadRetries /\ ReadRetries \in Nat
  <2>1. Began(busy, n) <= MaxUpdates /\ 2 * MaxUpdates < ReadRetries /\ MaxUpdates \in 0 .. 59
        /\ ReadRetries \in Nat
    BY ClockAssumption DEF Clocked
  <2> QED  BY <1>2, <2>1
<1>4. ChipHas(chip, t, mode, busy, n)
  <2>1. chip = Chip(t, mode, busy, n)
    BY Zenon DEF Clocked
  <2> QED  BY <2>1, ChipFields, Zenon
<1> QED
  BY <1>1, <1>2, <1>3, <1>4, Zenon DEF Counts

(* The reader's phases, each with what has been read so far. *)
LEMMA Phases ==
  ASSUME NEW t \in StartTimes, NEW mode \in Modes, NEW busy \in BOOLEAN, NEW n \in Nat,
         Clocked(t, mode, busy, n)
  PROVE  \/ rtc.pc = "off" /\ rtc = Rtc("off", <<>>, NoTime, 0, NoTime, {}) /\ ~busy /\ n = 0
         \/ rtc.pc = "wait" /\ Waiting(t, busy, n)
         \/ rtc.pc = "read" /\ Reading(t, mode, busy, n)
         \/ rtc.pc = "done" /\ Told(t, n)
<1>1. ASSUME NEW pc, NEW regs, NEW previous, NEW tries, NEW result, NEW seen,
             rtc = Rtc(pc, regs, previous, tries, result, seen)
      PROVE  rtc.pc = pc
  <2>1. RtcHas(rtc, pc, regs, previous, tries, result, seen)
    BY <1>1, RtcFields, Zenon
  <2> QED  BY <2>1, Zenon DEF RtcHas
<1>2. CASE rtc = Rtc("off", <<>>, NoTime, 0, NoTime, {}) /\ ~busy /\ n = 0
  BY <1>1, <1>2, Zenon
<1>3. CASE Waiting(t, busy, n)
  BY <1>1, <1>3, Zenon DEF Waiting
<1>4. CASE Reading(t, mode, busy, n)
  BY <1>1, <1>4, Zenon DEF Reading
<1>5. CASE Told(t, n)
  BY <1>1, <1>5, Zenon DEF Told
<1> QED
  BY <1>2, <1>3, <1>4, <1>5, Zenon DEF Clocked

(* Reading begins at the chip's own time. *)
LEMMA ClockStarts ==
  ASSUME NEW t \in StartTimes, NEW mode \in Modes, NEW busy \in BOOLEAN, NEW n \in Nat,
         Clocked(t, mode, busy, n), StartReading
  PROVE  Clocked(t, mode, FALSE, 0)'
<1>1. rtc = Rtc("off", <<>>, NoTime, 0, NoTime, {}) /\ ~busy /\ n = 0
  BY Phases DEF StartReading
<1>2. /\ chip' = chip /\ chip.time = After(t, 0)
      /\ rtc' = [rtc EXCEPT !.pc = "wait", !.seen = {chip.time}]
  BY <1>1, Clocks, Zenon DEF StartReading, ChipHas
<1>3. RtcMove(rtc, "off", <<>>, NoTime, 0, NoTime, {}, "wait", {chip.time})
  BY <1>1, RtcMoved, Zenon
<1>4. Seen(t, 0) = {chip.time}
  <2>1. 0 .. 0 = {0}
    OBVIOUS
  <2> QED  BY <1>2, <2>1 DEF Seen
<1>5. rtc' = Rtc("wait", <<>>, NoTime, 0, NoTime, Seen(t, 0))
  BY <1>2, <1>3, <1>4, Zenon DEF RtcMove
<1>6. Waiting(t, FALSE, 0)'
  BY <1>5 DEF Waiting
<1>7. chip' = Chip(t, mode, FALSE, 0) /\ Began(FALSE, 0) <= MaxUpdates
  <2>1. busy = FALSE
    BY <1>1
  <2> QED  BY <1>1, <1>2, <2>1, Zenon DEF Clocked
<1> QED
  BY <1>6, <1>7, Zenon DEF Clocked

(* A read of the update flag keeps the invariant. *)
LEMMA ClockCleared ==
  ASSUME NEW t \in StartTimes, NEW mode \in Modes, NEW busy \in BOOLEAN, NEW n \in Nat,
         Clocked(t, mode, busy, n), UpdateFlagClear
  PROVE  Clocked(t, mode, busy, n)'
<1>1. Waiting(t, busy, n) /\ ~busy
  <2>1. chip.busy = busy
    BY Clocks, Zenon DEF ChipHas
  <2> QED  BY <2>1, Phases DEF UpdateFlagClear
<1>2. PICK previous : \E tries \in Nat :
        /\ rtc = Rtc("wait", <<>>, previous, tries, NoTime, Seen(t, n))
        /\ tries # 0 => /\ Counted(t, busy, n, previous, tries)
                        /\ \E b : Within(b, 0, Began(busy, n)) /\ previous = Mix(t, b)
  BY <1>1, Zenon DEF Waiting
<1>3. PICK tries \in Nat :
        /\ rtc = Rtc("wait", <<>>, previous, tries, NoTime, Seen(t, n))
        /\ tries # 0 => /\ Counted(t, busy, n, previous, tries)
                        /\ \E b : Within(b, 0, Began(busy, n)) /\ previous = Mix(t, b)
  BY <1>2, Zenon
<1>4. Began(busy, n) = n /\ t \in CivilTimes
  BY <1>1, Clocks, Zenon DEF Counts
<1>5. RtcMove(rtc, "wait", <<>>, previous, tries, NoTime, Seen(t, n), "read", <<>>)
  BY <1>3, RtcMoved, Zenon
<1>6. rtc' = Rtc("read", <<>>, previous, tries, NoTime, Seen(t, n)) /\ chip' = chip
  BY <1>5, Zenon DEF RtcMove, UpdateFlagClear
<1>7. Begun(t, n, n, previous, tries)
  <2> SUFFICES ASSUME tries # 0
               PROVE  /\ \E b : Within(b, 0, n) /\ previous = Mix(t, b)
                      /\ IF n < n THEN tries + 1 <= 2 * n
                         ELSE \/ tries <= 2 * n
                              \/ tries <= 2 * n + 1 /\ previous = Mix(t, Still(n))
    BY Zenon DEF Begun
  <2>1. Counted(t, busy, n, previous, tries)
    BY <1>3
  <2>2. tries <= 2 * n \/ (tries <= 2 * n + 1 /\ previous = Mix(t, Still(n)))
    BY <1>4, <2>1, Zenon DEF Counted
  <2> QED  BY <1>3, <1>4, <2>2
<1>8. Read(t, Still(n), mode, <<>>) /\ Within(Still(n), n, n)
  BY DEF Read, Within, Still
<1>9. /\ <<>> \in Seq(ChipBytes(t, mode)) /\ Len(<<>>) <= 6 /\ n \in 0 .. n
  OBVIOUS
<1>10. Reading(t, mode, busy, n)'
  BY <1>4, <1>6, <1>7, <1>8, <1>9, Zenon DEF Reading
<1>11. chip' = Chip(t, mode, busy, n) /\ Began(busy, n) <= MaxUpdates
  BY <1>6, Zenon DEF Clocked
<1> QED
  BY <1>10, <1>11, Zenon DEF Clocked

(* Six registers are read. *)
LEMMA FieldsSix == Len(Fields) = 6
  BY DEF Fields

(* A register read keeps the invariant: its value is of the moment it is read at. *)
LEMMA ClockReads ==
  ASSUME NEW t \in StartTimes, NEW mode \in Modes, NEW busy \in BOOLEAN, NEW n \in Nat,
         Clocked(t, mode, busy, n), ReadRegister
  PROVE  Clocked(t, mode, busy, n)'
<1> DEFINE hi == Began(busy, n)
<1>1. Reading(t, mode, busy, n)
  BY Phases DEF ReadRegister
<1>2. PICK previous, regs, a : \E tries \in Nat, lo \in 0 .. n :
        /\ rtc = Rtc("read", regs, previous, tries, NoTime, Seen(t, n))
        /\ regs \in Seq(ChipBytes(t, mode)) /\ Len(regs) <= 6
        /\ Read(t, a, mode, regs) /\ Within(a, lo, hi) /\ Begun(t, hi, lo, previous, tries)
  BY <1>1, Zenon DEF Reading
<1>3. PICK tries \in Nat, lo \in 0 .. n :
        /\ rtc = Rtc("read", regs, previous, tries, NoTime, Seen(t, n))
        /\ regs \in Seq(ChipBytes(t, mode)) /\ Len(regs) <= 6
        /\ Read(t, a, mode, regs) /\ Within(a, lo, hi) /\ Begun(t, hi, lo, previous, tries)
  BY <1>2, Zenon
<1>4. RtcHas(rtc, "read", regs, previous, tries, NoTime, Seen(t, n))
  BY <1>3, RtcFields, Zenon
<1>5. rtc.regs = regs
  BY <1>4, Zenon DEF RtcHas
<1>6. /\ chip.time = After(t, n) /\ chip.mode = mode /\ chip.busy = busy /\ t \in CivilTimes
      /\ hi \in 0 .. 59 /\ n <= hi /\ (~busy => hi = n) /\ (busy => hi = n + 1)
  <2>1. t \in CivilTimes /\ Counts(busy, n) /\ ChipHas(chip, t, mode, busy, n)
    BY Clocks, Zenon
  <2>2. chip.time = After(t, n) /\ chip.mode = mode /\ chip.busy = busy
    BY <2>1, Zenon DEF ChipHas
  <2>3. hi \in 0 .. 59 /\ n <= hi /\ (~busy => hi = n) /\ (busy => hi = n + 1)
    BY <2>1, Zenon DEF Counts
  <2> QED  BY <2>1, <2>2, <2>3, Zenon
<1> HIDE DEF hi
<1>7. PICK x \in {chip.time} \union (IF chip.busy THEN {Later(chip.time)} ELSE {}) :
        rtc' = [rtc EXCEPT !.regs = Append(@, RegisterOf(chip.mode, x, Fields[Len(@) + 1]))]
  BY Zenon DEF ReadRegister
<1>8. PICK m \in n .. hi : x = After(t, m)
  <2>1. CASE x = chip.time
    <3>1. n \in n .. hi
      BY <1>6
    <3> QED  BY <1>6, <2>1, <3>1, Zenon
  <2>2. CASE chip.busy /\ x = Later(chip.time)
    <3>1. hi = n + 1 /\ n \in 0 .. 58 /\ n + 1 \in n .. hi
      BY <1>6, <2>2
    <3>2. Later(After(t, n)) = After(t, n + 1)
      BY <1>6, <3>1, AfterStep, Zenon
    <3> QED  BY <1>6, <2>2, <3>1, <3>2, Zenon
  <2> QED  BY <1>7, <2>1, <2>2
<1>9. m \in Sixty /\ m \in lo .. hi
  BY <1>6, <1>3 DEF Sixty
<1> DEFINE k == Len(regs) + 1
           v == RegisterOf(mode, After(t, m), Fields[k])
           regs2 == Append(regs, v)
           a2 == [i \in 1 .. 6 |-> IF i = k THEN m ELSE a[i]]
<1>10. Len(regs) < 6
  BY <1>5, FieldsSix DEF ReadRegister
<1>11. k \in 1 .. 6 /\ Len(regs) \in Nat
  <2>1. Len(regs) \in Nat
    BY <1>3
  <2> QED  BY <1>10, <2>1
<1>12. RtcSetOf(rtc, "read", regs, previous, tries, NoTime, Seen(t, n), regs2)
  BY <1>3, RtcSet, Zenon
<1>13. rtc' = Rtc("read", regs2, previous, tries, NoTime, Seen(t, n)) /\ chip' = chip
  <2>1. rtc' = [rtc EXCEPT !.regs = regs2]
    <3>1. rtc' = [rtc EXCEPT !.regs = Append(rtc.regs, RegisterOf(chip.mode, x, Fields[Len(rtc.regs) + 1]))]
      BY <1>7, Zenon
    <3> QED  BY <1>5, <1>6, <1>8, <3>1, Zenon
  <2> QED  BY <1>12, <2>1, Zenon DEF RtcSetOf, ReadRegister
<1>14. v \in ChipBytes(t, mode)
  <2>1. Fields[k] \in {Fields[i] : i \in 1 .. 6}
    BY <1>11, Zenon
  <2> HIDE DEF k
  <2> QED  BY <1>9, <2>1 DEF ChipBytes
<1> HIDE DEF v
<1>15. /\ regs2 \in Seq(ChipBytes(t, mode)) /\ Len(regs2) = k /\ regs2[k] = v
       /\ \A i \in 1 .. Len(regs) : regs2[i] = regs[i]
  BY <1>3, <1>14
<1>16. Len(regs2) <= 6
  BY <1>11, <1>15
<1>17. Within(a2, lo, hi)
  <2>1. \A i \in 1 .. 6 : a[i] \in lo .. hi
    BY <1>3, Zenon DEF Within
  <2>2. ASSUME NEW i \in 1 .. 6 PROVE a2[i] \in lo .. hi
    <3>1. a2[i] = IF i = k THEN m ELSE a[i]
      OBVIOUS
    <3> QED  BY <1>9, <2>1, <3>1
  <2> HIDE DEF a2
  <2> QED  BY <2>2, Zenon DEF Within
<1>18. Read(t, a2, mode, regs2)
  <2> SUFFICES ASSUME NEW i \in 1 .. Len(regs2)
               PROVE  regs2[i] = RegisterOf(mode, After(t, a2[i]), Fields[i])
    BY Zenon DEF Read
  <2>1. i \in 1 .. 6 /\ (i = k \/ i \in 1 .. Len(regs))
    BY <1>11, <1>15, <1>16
  <2>2. a2[i] = IF i = k THEN m ELSE a[i]
    BY <2>1
  <2> HIDE DEF a2, regs2
  <2>3. CASE i = k
    BY <1>15, <2>2, <2>3, Zenon DEF v
  <2>4. CASE i # k /\ i \in 1 .. Len(regs)
    BY <1>3, <1>15, <2>2, <2>4, Zenon DEF Read
  <2> QED  BY <2>1, <2>3, <2>4
<1> HIDE DEF a2, regs2
<1>19. Reading(t, mode, busy, n)'
  BY <1>3, <1>13, <1>15, <1>16, <1>17, <1>18, Zenon DEF Reading, hi
<1>20. chip' = Chip(t, mode, busy, n) /\ Began(busy, n) <= MaxUpdates
  BY <1>13, Zenon DEF Clocked
<1> QED
  BY <1>19, <1>20, Zenon DEF Clocked

(* An update that begins keeps the invariant, *)
LEMMA ClockBegins ==
  ASSUME NEW t \in StartTimes, NEW mode \in Modes, NEW busy \in BOOLEAN, NEW n \in Nat,
         Clocked(t, mode, busy, n), UpdateBegins
  PROVE  Clocked(t, mode, TRUE, n)'
<1> DEFINE hi == n + 1
<1>1. rtc' = rtc /\ ~busy /\ Began(busy, n) = n /\ n < MaxUpdates /\ (rtc.pc = "wait" \/ rtc.pc = "read")
  BY Clocks, Zenon DEF UpdateBegins, ChipHas, Counts
<1>2. Began(TRUE, n) = hi /\ hi <= MaxUpdates
  BY <1>1, ClockAssumption DEF Began
<1>3. chip' = Chip(t, mode, TRUE, n)
  <2>1. chip = Chip(t, mode, busy, n) /\ chip' = [chip EXCEPT !.busy = TRUE]
    BY Zenon DEF Clocked, UpdateBegins
  <2>2. ChipMove(chip, t, mode, busy, n)
    BY <2>1, ChipBusy, Zenon
  <2> QED  BY <2>1, <2>2, Zenon DEF ChipMove
<1>4. ASSUME NEW b, NEW lo, Within(b, lo, n), lo \in Int PROVE Within(b, lo, hi)
  BY <1>4 DEF Within
<1>5. ASSUME Waiting(t, busy, n) PROVE Waiting(t, TRUE, n)'
  <2>1. PICK previous : \E tries \in Nat :
          /\ rtc = Rtc("wait", <<>>, previous, tries, NoTime, Seen(t, n))
          /\ tries # 0 => /\ Counted(t, busy, n, previous, tries)
                          /\ \E b : Within(b, 0, n) /\ previous = Mix(t, b)
    BY <1>1, <1>5, Zenon DEF Waiting
  <2>2. PICK tries \in Nat :
          /\ rtc = Rtc("wait", <<>>, previous, tries, NoTime, Seen(t, n))
          /\ tries # 0 => /\ Counted(t, busy, n, previous, tries)
                          /\ \E b : Within(b, 0, n) /\ previous = Mix(t, b)
    BY <2>1, Zenon
  <2>3. ASSUME tries # 0 PROVE Counted(t, TRUE, n, previous, tries)
    <3>1. tries <= 2 * n \/ tries <= 2 * n + 1
      BY <1>1, <2>2, <2>3, Zenon DEF Counted
    <3>2. tries <= 2 * hi
      BY <3>1
    <3> QED  BY <1>2, <3>2, Zenon DEF Counted
  <2>4. ASSUME tries # 0 PROVE \E b : Within(b, 0, hi) /\ previous = Mix(t, b)
    <3>1. 0 \in Int
      OBVIOUS
    <3> QED  BY <1>4, <2>2, <2>4, <3>1, Zenon
  <2> QED  BY <1>1, <1>2, <2>2, <2>3, <2>4, Zenon DEF Waiting
<1>6. ASSUME Reading(t, mode, busy, n) PROVE Reading(t, mode, TRUE, n)'
  <2>1. PICK previous, regs, a : \E tries \in Nat, lo \in 0 .. n :
          /\ rtc = Rtc("read", regs, previous, tries, NoTime, Seen(t, n))
          /\ regs \in Seq(ChipBytes(t, mode)) /\ Len(regs) <= 6
          /\ Read(t, a, mode, regs) /\ Within(a, lo, n) /\ Begun(t, n, lo, previous, tries)
    BY <1>1, <1>6, Zenon DEF Reading
  <2>2. PICK tries \in Nat, lo \in 0 .. n :
          /\ rtc = Rtc("read", regs, previous, tries, NoTime, Seen(t, n))
          /\ regs \in Seq(ChipBytes(t, mode)) /\ Len(regs) <= 6
          /\ Read(t, a, mode, regs) /\ Within(a, lo, n) /\ Begun(t, n, lo, previous, tries)
    BY <2>1, Zenon
  <2>3. Within(a, lo, hi)
    <3>1. lo \in Int
      OBVIOUS
    <3> QED  BY <1>4, <2>2, <3>1, Zenon
  <2>4. Begun(t, hi, lo, previous, tries)
    <3> SUFFICES ASSUME tries # 0
                 PROVE  /\ \E b : Within(b, 0, lo) /\ previous = Mix(t, b)
                        /\ IF lo < hi THEN tries + 1 <= 2 * hi
                           ELSE \/ tries <= 2 * hi
                                \/ tries <= 2 * hi + 1 /\ previous = Mix(t, Still(lo))
      BY Zenon DEF Begun
    <3>1. /\ \E b : Within(b, 0, lo) /\ previous = Mix(t, b)
          /\ IF lo < n THEN tries + 1 <= 2 * n
             ELSE tries <= 2 * n \/ (tries <= 2 * n + 1 /\ previous = Mix(t, Still(lo)))
      BY <2>2, Zenon DEF Begun
    <3>2. lo < hi /\ tries + 1 <= 2 * hi
      BY <3>1
    <3> HIDE DEF hi
    <3> QED  BY <3>1, <3>2, Zenon
  <2> QED  BY <1>1, <1>2, <2>2, <2>3, <2>4, Zenon DEF Reading
<1>7. Waiting(t, TRUE, n)' \/ Reading(t, mode, TRUE, n)'
  <2>1. Waiting(t, busy, n) \/ Reading(t, mode, busy, n)
    BY <1>1, Phases
  <2> QED  BY <1>5, <1>6, <2>1, Zenon
<1> QED
  BY <1>2, <1>3, <1>7, Zenon DEF Clocked

(* and so does one that ends. *)
LEMMA ClockEnds ==
  ASSUME NEW t \in StartTimes, NEW mode \in Modes, NEW busy \in BOOLEAN, NEW n \in Nat,
         Clocked(t, mode, busy, n), UpdateEnds
  PROVE  Clocked(t, mode, FALSE, n + 1)'
<1> DEFINE hi == n + 1
<1>1. /\ busy /\ Began(busy, n) = hi /\ n \in 0 .. 58 /\ t \in CivilTimes /\ hi \in Nat
      /\ chip.time = After(t, n) /\ chip.updates = n
  <2>1. /\ chip.time = After(t, n) /\ chip.updates = n /\ chip.busy = busy /\ t \in CivilTimes
        /\ Counts(busy, n)
    BY Clocks, Zenon DEF ChipHas
  <2>2. busy
    BY <2>1, Zenon DEF UpdateEnds
  <2>3. Began(busy, n) = n + 1 /\ Began(busy, n) \in 0 .. 59
    BY <2>1, <2>2, Zenon DEF Counts
  <2>4. n \in 0 .. 58 /\ n + 1 \in Nat
    BY <2>3
  <2> QED  BY <2>1, <2>2, <2>3, <2>4, Zenon
<1>2. Began(FALSE, hi) = hi /\ hi <= MaxUpdates
  BY <1>1 DEF Began, Clocked
<1>3. Later(After(t, n)) = After(t, hi)
  BY <1>1, AfterStep, Zenon
<1>4. chip' = Chip(t, mode, FALSE, hi)
  <2>1. chip' = [chip EXCEPT !.busy = FALSE, !.time = Later(chip.time), !.updates = chip.updates + 1]
    BY Zenon DEF UpdateEnds
  <2>2. chip' = [chip EXCEPT !.busy = FALSE, !.time = After(t, n + 1), !.updates = n + 1]
    BY <1>1, <1>3, <2>1, Zenon
  <2>3. chip = Chip(t, mode, busy, n)
    BY Zenon DEF Clocked
  <2>4. ChipMove(chip, t, mode, busy, n)
    BY <2>3, ChipBusy, Zenon
  <2> QED  BY <2>2, <2>4, Zenon DEF ChipMove
<1>5. ASSUME NEW pc, NEW regs, NEW previous, NEW tries, NEW result,
             rtc = Rtc(pc, regs, previous, tries, result, Seen(t, n))
      PROVE  rtc' = Rtc(pc, regs, previous, tries, result, Seen(t, hi))
  <2>1. RtcHas(rtc, pc, regs, previous, tries, result, Seen(t, n))
    BY <1>5, RtcFields, Zenon
  <2>2. rtc.seen = Seen(t, n)
    BY <2>1, Zenon DEF RtcHas
  <2>3. RtcSetOf(rtc, pc, regs, previous, tries, result, Seen(t, n), Seen(t, hi))
    BY <1>5, RtcSet, Zenon
  <2>4. rtc' = [rtc EXCEPT !.seen = rtc.seen \union {Later(chip.time)}]
    BY Zenon DEF UpdateEnds
  <2>5. rtc.seen \union {Later(chip.time)} = Seen(t, hi)
    <3>1. Seen(t, hi) = Seen(t, n) \union {After(t, hi)}
      BY SeenStep, Zenon
    <3> HIDE DEF hi
    <3> QED  BY <1>1, <1>3, <2>2, <3>1, Zenon
  <2> QED  BY <2>3, <2>4, <2>5, Zenon DEF RtcSetOf
<1>6. 0 .. n \subseteq 0 .. hi
  OBVIOUS
<1> HIDE DEF hi
<1>7. ASSUME Waiting(t, busy, n) PROVE Waiting(t, FALSE, hi)'
  <2>1. PICK previous : \E tries \in Nat :
          /\ rtc = Rtc("wait", <<>>, previous, tries, NoTime, Seen(t, n))
          /\ tries # 0 => /\ Counted(t, busy, n, previous, tries)
                          /\ \E b : Within(b, 0, hi) /\ previous = Mix(t, b)
    BY <1>1, <1>7, Zenon DEF Waiting
  <2>2. PICK tries \in Nat :
          /\ rtc = Rtc("wait", <<>>, previous, tries, NoTime, Seen(t, n))
          /\ tries # 0 => /\ Counted(t, busy, n, previous, tries)
                          /\ \E b : Within(b, 0, hi) /\ previous = Mix(t, b)
    BY <2>1, Zenon
  <2>3. tries # 0 => Counted(t, FALSE, hi, previous, tries)
    BY <1>1, <1>2, <2>2, Zenon DEF Counted
  <2> QED  BY <1>2, <1>5, <2>2, <2>3, Zenon DEF Waiting
<1>8. ASSUME Reading(t, mode, busy, n) PROVE Reading(t, mode, FALSE, hi)'
  <2>1. PICK previous, regs, a : \E tries \in Nat, lo \in 0 .. n :
          /\ rtc = Rtc("read", regs, previous, tries, NoTime, Seen(t, n))
          /\ regs \in Seq(ChipBytes(t, mode)) /\ Len(regs) <= 6
          /\ Read(t, a, mode, regs) /\ Within(a, lo, hi) /\ Begun(t, hi, lo, previous, tries)
    BY <1>1, <1>8, Zenon DEF Reading
  <2>2. PICK tries \in Nat, lo \in 0 .. n :
          /\ rtc = Rtc("read", regs, previous, tries, NoTime, Seen(t, n))
          /\ regs \in Seq(ChipBytes(t, mode)) /\ Len(regs) <= 6
          /\ Read(t, a, mode, regs) /\ Within(a, lo, hi) /\ Begun(t, hi, lo, previous, tries)
    BY <2>1, Zenon
  <2>3. rtc' = Rtc("read", regs, previous, tries, NoTime, Seen(t, hi)) /\ lo \in 0 .. hi
    BY <1>5, <1>6, <2>2, Zenon
  <2> QED  BY <1>2, <2>2, <2>3, Zenon DEF Reading
<1>9. ASSUME Told(t, n) PROVE Told(t, hi)'
  BY <1>5, <1>6, <1>9, Zenon DEF Told
<1>10. Waiting(t, FALSE, hi)' \/ Reading(t, mode, FALSE, hi)' \/ Told(t, hi)'
  <2>1. Waiting(t, busy, n) \/ Reading(t, mode, busy, n) \/ Told(t, n)
    BY <1>1, Phases
  <2> QED  BY <1>7, <1>8, <1>9, <2>1, Zenon
<1>11. Clocked(t, mode, FALSE, hi)'
  BY <1>2, <1>4, <1>10, Zenon DEF Clocked
<1> QED
  BY <1>11 DEF hi

(* A reading that ends keeps the invariant: what it answers was shown. *)
LEMMA ReadingEnds ==
  ASSUME NEW t \in StartTimes, NEW mode \in Modes, NEW busy \in BOOLEAN, NEW n \in Nat,
         Clocked(t, mode, busy, n), ReadingDone
  PROVE  Clocked(t, mode, busy, n)'
<1> DEFINE hi == Began(busy, n)
<1>1. Reading(t, mode, busy, n)
  BY Phases DEF ReadingDone
<1>2. PICK previous, regs, a : \E tries \in Nat, lo \in 0 .. n :
        /\ rtc = Rtc("read", regs, previous, tries, NoTime, Seen(t, n))
        /\ regs \in Seq(ChipBytes(t, mode)) /\ Len(regs) <= 6
        /\ Read(t, a, mode, regs) /\ Within(a, lo, hi) /\ Begun(t, hi, lo, previous, tries)
  BY <1>1, Zenon DEF Reading
<1>3. PICK tries \in Nat, lo \in 0 .. n :
        /\ rtc = Rtc("read", regs, previous, tries, NoTime, Seen(t, n))
        /\ regs \in Seq(ChipBytes(t, mode)) /\ Len(regs) <= 6
        /\ Read(t, a, mode, regs) /\ Within(a, lo, hi) /\ Begun(t, hi, lo, previous, tries)
  BY <1>2, Zenon
<1>4. RtcHas(rtc, "read", regs, previous, tries, NoTime, Seen(t, n))
  BY <1>3, RtcFields, Zenon
<1>5. rtc.regs = regs
  BY <1>4, Zenon DEF RtcHas
<1>6. t \in CivilTimes /\ Counts(busy, n) /\ chip.mode = mode
  <2>1. t \in CivilTimes /\ Counts(busy, n) /\ ChipHas(chip, t, mode, busy, n)
    BY Clocks, Zenon
  <2> QED  BY <2>1, Zenon DEF ChipHas
<1>7. /\ hi \in 0 .. 59 /\ n <= hi /\ (~busy => hi = n) /\ (busy => hi = n + 1)
      /\ 2 * hi < ReadRetries /\ ReadRetries \in Nat
  BY <1>6, Zenon DEF Counts
<1> HIDE DEF hi
<1>8. lo \in Sixty /\ \A k \in 1 .. 6 : a[k] \in Sixty /\ lo <= a[k] /\ a[k] <= hi
  <2>1. \A k \in 1 .. 6 : a[k] \in lo .. hi
    BY <1>3, Zenon DEF Within
  <2> QED  BY <1>7, <2>1 DEF Sixty
<1> DEFINE reading == Mix(t, a)
<1>9. Converted(chip.mode, rtc.regs) = reading
  <2>1. Len(regs) = 6
    BY <1>5, FieldsSix DEF ReadingDone
  <2>2. \A k \in 1 .. 6 : a[k] \in Sixty
    BY <1>8, Zenon
  <2>3. Converted(mode, regs) = Mix(t, a)
    BY <1>3, <1>6, <2>1, <2>2, MixConverted, Zenon
  <2> QED  BY <1>5, <1>6, <2>3, Zenon
<1>10. chip' = chip /\ rtc' = Now(reading)
  BY <1>9, Zenon DEF ReadingDone
<1>11. rtc' = IF tries > 0 /\ (reading = previous \/ tries = ReadRetries)
              THEN Rtc("done", <<>>, NoTime, tries, Kept(reading), Seen(t, n))
              ELSE Rtc("wait", <<>>, reading, tries + 1, NoTime, Seen(t, n))
  <2>1. Answer("read", regs, previous, tries, Seen(t, n), reading)
    BY <1>3, ReadingKept, Zenon
  <2> QED  BY <1>10, <2>1, Zenon DEF Answer
\* A reading no update fell into.
<1>12. ASSUME ~(lo < hi) PROVE lo = hi /\ hi = n /\ ~busy /\ reading = Mix(t, Still(lo))
  <2>1. lo = hi /\ hi = n
    BY <1>7, <1>12
  <2>2. ~busy
    BY <1>7, <2>1
  <2>3. ASSUME NEW k \in 1 .. 6 PROVE a[k] = lo
    <3>1. a[k] \in 0 .. 59 /\ lo \in 0 .. 59 /\ lo <= a[k] /\ a[k] <= hi
      BY <1>8, Zenon DEF Sixty
    <3> HIDE <1>7, <1>8
    <3> QED  BY <2>1, <3>1
  <2>4. \A k \in 1 .. 6 : Still(lo)[k] = lo
    BY DEF Still
  <2>5. 1 \in 1 .. 6 /\ 2 \in 1 .. 6 /\ 3 \in 1 .. 6 /\ 4 \in 1 .. 6 /\ 5 \in 1 .. 6 /\ 6 \in 1 .. 6
    OBVIOUS
  <2>6. /\ a[1] = Still(lo)[1] /\ a[2] = Still(lo)[2] /\ a[3] = Still(lo)[3]
        /\ a[4] = Still(lo)[4] /\ a[5] = Still(lo)[5] /\ a[6] = Still(lo)[6]
    BY <2>3, <2>4, <2>5
  <2> QED  BY <2>1, <2>2, <2>6, Zenon DEF Mix
<1>13. \E b : Within(b, 0, hi) /\ reading = Mix(t, b)
  <2>1. Within(a, 0, hi)
    BY <1>7, <1>8 DEF Within, Sixty
  <2> QED  BY <2>1, Zenon
\* The one before, if there was one, was over before this one began.
<1>14. ASSUME tries # 0
       PROVE  /\ \E b : Within(b, 0, lo) /\ previous = Mix(t, b)
              /\ IF lo < hi THEN tries + 1 <= 2 * hi
                 ELSE tries <= 2 * hi \/ (tries <= 2 * hi + 1 /\ previous = Mix(t, Still(lo)))
  BY <1>3, <1>14, Zenon DEF Begun
<1> HIDE DEF reading
<1>15. CASE tries > 0 /\ reading = previous
  <2>1. tries # 0
    BY <1>15
  <2>2. PICK b : Within(b, 0, lo) /\ previous = Mix(t, b)
    BY <1>14, <2>1, Zenon
  <2>3. \A k \in 1 .. 6 : b[k] \in Sixty /\ b[k] <= lo
    BY <1>7, <1>8, <2>2 DEF Within, Sixty
  <2>4. Mix(t, a) = Mix(t, Still(lo))
    <3>1. Mix(t, a) = Mix(t, b)
      BY <1>15, <2>2, Zenon DEF reading
    <3> QED  BY <1>6, <1>8, <2>3, <3>1, Agreement, Zenon
  <2>5. rtc' = Rtc("done", <<>>, NoTime, tries, Kept(Mix(t, Still(lo))), Seen(t, n))
    BY <1>11, <1>15, <2>4, Zenon DEF reading
  <2>6. Told(t, n)'
    BY <2>5, Zenon DEF Told
  <2>7. chip' = Chip(t, mode, busy, n) /\ Began(busy, n) <= MaxUpdates
    BY <1>10, Zenon DEF Clocked
  <2> QED  BY <2>6, <2>7, Zenon DEF Clocked
<1>16. CASE ~(tries > 0 /\ reading = previous)
  <2>1. tries = 0 \/ reading # previous
    BY <1>16
  <2>2. tries = 0 \/ tries + 1 <= 2 * hi \/ (~(lo < hi) /\ tries <= 2 * hi)
    <3>1. CASE tries # 0 /\ ~(lo < hi)
      <4>1. reading = Mix(t, Still(lo)) /\ reading # previous
        BY <1>12, <2>1, <3>1, Zenon
      <4> QED  BY <1>14, <3>1, <4>1, Zenon
    <3>2. CASE tries # 0 /\ lo < hi
      BY <1>14, <3>2, Zenon
    <3> QED  BY <3>1, <3>2, Zenon
  <2>3. ~(tries > 0 /\ tries = ReadRetries)
    BY <1>7, <2>2
  <2>4. rtc' = Rtc("wait", <<>>, reading, tries + 1, NoTime, Seen(t, n))
    BY <1>11, <1>16, <2>3, Zenon
  <2>5. Counted(t, busy, n, reading, tries + 1)
    <3>1. CASE lo < hi
      <4>1. tries + 1 <= 2 * hi
        BY <1>3, <1>7, <1>14, <3>1
      <4> QED  BY <4>1, Zenon DEF Counted, hi
    <3>2. CASE ~(lo < hi)
      <4>1. lo = hi /\ hi = n /\ ~busy /\ reading = Mix(t, Still(n))
        BY <1>12, <3>2, Zenon
      <4>2. tries + 1 <= 2 * n + 1
        BY <1>7, <2>2, <4>1
      <4> QED  BY <4>1, <4>2, Zenon DEF Counted
    <3> QED  BY <3>1, <3>2, Zenon
  <2>6. tries + 1 \in Nat
    OBVIOUS
  <2>7. Waiting(t, busy, n)'
    BY <1>13, <2>4, <2>5, <2>6, Zenon DEF Waiting, hi
  <2>8. chip' = Chip(t, mode, busy, n) /\ Began(busy, n) <= MaxUpdates
    BY <1>10, Zenon DEF Clocked
  <2> QED  BY <2>7, <2>8, Zenon DEF Clocked
<1> QED
  BY <1>15, <1>16, Zenon

(* The invariant holds before the clock is read. *)
LEMMA ClockInvInit ==
  ASSUME ClockInit
  PROVE  ClockInv
<1>1. PICK t \in StartTimes, mode \in ClockModes :
        chip = [time |-> t, mode |-> mode, busy |-> FALSE, updates |-> 0]
  BY Zenon DEF ClockInit
<1>2. t \in CivilTimes /\ mode \in Modes /\ MaxUpdates \in 0 .. 59
  BY ClockAssumption DEF Modes
<1>3. After(t, 0) = t
  <2>1. 0 \in 0 .. 59
    OBVIOUS
  <2> QED  BY <1>2, <2>1, AfterType
<1>4. chip = Chip(t, mode, FALSE, 0)
  BY <1>1, <1>3, Zenon DEF Chip
<1>5. rtc = Rtc("off", <<>>, NoTime, 0, NoTime, {})
  BY Zenon DEF ClockInit, Rtc
<1>6. Began(FALSE, 0) <= MaxUpdates
  BY <1>2 DEF Began
<1>7. Clocked(t, mode, FALSE, 0)
  BY <1>4, <1>5, <1>6, Zenon DEF Clocked
<1>8. FALSE \in BOOLEAN /\ 0 \in Nat
  OBVIOUS
<1> QED
  BY <1>2, <1>7, <1>8, Zenon DEF ClockInv

(* Every step of the clock keeps the invariant. *)
LEMMA ClockInvNext ==
  ASSUME ClockInv, ClockNext \/ ClockRead \/ UNCHANGED clockVars
  PROVE  ClockInv'
<1>1. CASE rtc.pc = "over" /\ ~chip.busy
  <2>1. ~ClockNext /\ ~ClockRead
    BY <1>1 DEF ClockNext, ClockRead, StartReading, ReadClock, UpdateFlagClear, ReadRegister,
                ReadingDone, UpdateBegins, UpdateEnds
  <2>2. chip' = chip /\ rtc' = rtc
    BY <2>1, Zenon DEF clockVars
  <2> QED  BY <1>1, <2>2, Zenon DEF ClockInv
<1>2. ASSUME NEW t \in StartTimes, NEW mode \in Modes, NEW busy \in BOOLEAN, NEW n \in Nat,
             Clocked(t, mode, busy, n)
      PROVE  ClockInv'
  <2>0. ASSUME NEW b \in BOOLEAN, NEW m \in Nat, Clocked(t, mode, b, m)' PROVE ClockInv'
    BY <2>0, Zenon DEF ClockInv
  <2>1. TRUE \in BOOLEAN /\ FALSE \in BOOLEAN /\ 0 \in Nat /\ n + 1 \in Nat
    OBVIOUS
  <2>2. CASE StartReading
    BY <1>2, <2>0, <2>1, <2>2, ClockStarts, Zenon
  <2>3. CASE UpdateFlagClear
    BY <1>2, <2>0, <2>3, ClockCleared, Zenon
  <2>4. CASE ReadRegister
    BY <1>2, <2>0, <2>4, ClockReads, Zenon
  <2>5. CASE ReadingDone
    BY <1>2, <2>0, <2>5, ReadingEnds, Zenon
  <2>6. CASE UpdateBegins
    BY <1>2, <2>0, <2>1, <2>6, ClockBegins, Zenon
  <2>7. CASE UpdateEnds
    BY <1>2, <2>0, <2>1, <2>7, ClockEnds, Zenon
  <2>8. CASE ClockRead
    <3>1. rtc'.pc = "over" /\ ~chip'.busy
      BY <2>8 DEF ClockRead
    <3> QED  BY <3>1, Zenon DEF ClockInv
  <2>9. CASE UNCHANGED clockVars
    <3>1. chip' = chip /\ rtc' = rtc
      BY <2>9, Zenon DEF clockVars
    <3>2. Clocked(t, mode, busy, n)'
      BY <1>2, <3>1, Zenon DEF Clocked, Waiting, Reading, Told
    <3> QED  BY <2>0, <3>2, Zenon
  <2> QED  BY <2>2, <2>3, <2>4, <2>5, <2>6, <2>7, <2>8, <2>9, Zenon DEF ClockNext, ReadClock
<1> QED
  BY <1>1, <1>2, Zenon DEF ClockInv

-----------------------------------------------------------------------------
(* The calendar: YearStart and MonthStart are sums, to_unix_seconds a formula. *)

LeapDay(y) == IF Leap(y) THEN 1 ELSE 0
YearAt(y) == 365 * (y - 1970) + ((y - 1969) \div 4) - (IF y > 2100 THEN 1 ELSE 0)
MonthAt(y, k) == IF k = 1 THEN 0 ELSE IF k = 2 THEN 31
                 ELSE (153 * (k - 3) + 2) \div 5 + 59 + LeapDay(y)
YearDays(y) == IF Leap(y) THEN 366 ELSE 365
CountedYears == 1970 .. 2200
NextYears == 1971 .. 2200

(* The leap years of the years that are counted. *)
LEMMA LeapYears ==
  ASSUME NEW y \in 1970 .. 2199
  PROVE  Leap(y) <=> y % 4 = 0 /\ y # 2100
<1>1. y % 100 = 0 => y = 2000 \/ y = 2100
  OBVIOUS
<1>2. 2000 % 400 = 0 /\ 2100 % 400 # 0 /\ 2000 % 4 = 0 /\ 2100 % 100 = 0
  OBVIOUS
<1>3. y % 400 = 0 => y % 100 = 0
  OBVIOUS
<1> QED
  BY <1>1, <1>2, <1>3 DEF Leap

(* The closed form of a year's first day, one year on. *)
LEMMA YearAtStep ==
  ASSUME NEW y \in NextYears
  PROVE  YearAt(y) = YearAt(y - 1) + YearDays(y - 1)
<1>0. y \in 1971 .. 2200
  BY DEF NextYears
<1>1. y - 1 \in 1970 .. 2199
  BY <1>0
<1>2. Leap(y - 1) <=> (y - 1) % 4 = 0 /\ y - 1 # 2100
  BY <1>1, LeapYears
<1>3. (y - 1969) \div 4 = ((y - 1) - 1969) \div 4 + (IF (y - 1) % 4 = 0 THEN 1 ELSE 0)
  BY <1>0
<1>4. (y - 1969) \div 4 \in Int /\ ((y - 1) - 1969) \div 4 \in Int
  BY <1>0
<1>5. CASE (y - 1) % 4 = 0
  BY <1>0, <1>2, <1>3, <1>4, <1>5 DEF YearAt, YearDays
<1>6. CASE (y - 1) % 4 # 0
  BY <1>0, <1>2, <1>3, <1>4, <1>6 DEF YearAt, YearDays
<1> QED
  BY <1>5, <1>6

(* The days before a year, counted and in closed form. *)
LEMMA YearStarts ==
  ASSUME NEW y \in CountedYears
  PROVE  YearStart[y] = YearAt(y)
<1> DEFINE step(f, z) == IF z = 1970 THEN 0 ELSE f[z - 1] + YearDays(z - 1)
           w == [z \in CountedYears |-> YearAt(z)]
           T == {i \in 0 .. 230 : YearStart[1970 + i] = YearAt(1970 + i)}
<1>1. \A z \in CountedYears : w[z] = step(w, z)
  <2> TAKE z \in CountedYears
  <2>1. CASE z = 1970
    <3>1. YearAt(1970) = 0
      BY DEF YearAt
    <3> QED  BY <2>1, <3>1
  <2>2. CASE z # 1970
    <3>1. z \in NextYears /\ z - 1 \in CountedYears
      BY <2>2 DEF CountedYears, NextYears
    <3>2. w[z] = YearAt(z) /\ w[z - 1] = YearAt(z - 1)
      BY <3>1
    <3>3. YearAt(z) = YearAt(z - 1) + YearDays(z - 1)
      BY <3>1, YearAtStep, Zenon
    <3> HIDE DEF w
    <3> QED  BY <2>2, <3>2, <3>3
  <2> QED  BY <2>1, <2>2
<1>2. w = [z \in CountedYears |-> step(w, z)]
  <2>1. w = [z \in CountedYears |-> w[z]]
    OBVIOUS
  <2> HIDE DEF w, step
  <2> QED  BY <1>1, <2>1, Zenon
<1>3. YearStart = CHOOSE f : f = [z \in CountedYears |-> step(f, z)]
  BY DEF YearStart, CountedYears, YearDays
<1> HIDE DEF w, step
<1>4. YearStart = [z \in CountedYears |-> step(YearStart, z)]
  BY <1>2, <1>3, Zenon
<1>5. \A z \in CountedYears : YearStart[z] = step(YearStart, z)
  BY <1>4, Zenon
<1>6. 0 \in T
  <2>1. YearStart[1970] = 0
    <3>1. 1970 \in CountedYears
      BY DEF CountedYears
    <3> QED  BY <1>5, <3>1 DEF step
  <2>2. YearAt(1970) = 0
    BY DEF YearAt
  <2> QED  BY <2>1, <2>2
<1>7. ASSUME NEW i \in 1 .. 230, i - 1 \in T PROVE i \in T
  <2> DEFINE z == 1970 + i
  <2>1. z \in NextYears /\ z \in CountedYears /\ z - 1 = 1970 + (i - 1) /\ z # 1970
    BY DEF CountedYears, NextYears
  <2>2. YearStart[z - 1] = YearAt(z - 1)
    BY <1>7, <2>1
  <2> HIDE DEF z
  <2>3. YearStart[z] = YearStart[z - 1] + YearDays(z - 1)
    BY <1>5, <2>1 DEF step
  <2>4. YearAt(z) = YearAt(z - 1) + YearDays(z - 1)
    BY <2>1, YearAtStep
  <2>5. YearStart[z] = YearAt(z)
    BY <2>2, <2>3, <2>4, Zenon
  <2> QED  BY <2>5 DEF z
<1>8. T \in SUBSET (0 .. 230) /\ 230 \in Nat
  OBVIOUS
<1> HIDE DEF T
<1>9. T = 0 .. 230
  BY <1>6, <1>7, <1>8, UpTo
<1>10. y - 1970 \in 0 .. 230 /\ 1970 + (y - 1970) = y
  BY DEF CountedYears
<1>11. YearStart[1970 + (y - 1970)] = YearAt(1970 + (y - 1970))
  BY <1>9, <1>10 DEF T
<1> QED
  BY <1>10, <1>11

(* The closed form of a month's first day, one month on. *)
LEMMA MonthAtStep ==
  ASSUME NEW y, NEW k \in 2 .. 12
  PROVE  MonthAt(y, k) = MonthAt(y, k - 1) + MonthDays(y, k - 1)
<1> DEFINE l == LeapDay(y)
<1>1. l \in 0 .. 1
  BY DEF LeapDay
<1>2. MonthDays(y, k - 1) = IF k - 1 = 2 THEN 28 + l
                            ELSE IF k - 1 \in {4, 6, 9, 11} THEN 30 ELSE 31
  BY DEF MonthDays, LeapDay
<1> HIDE DEF l
<1>3. /\ MonthAt(y, k) = IF k = 1 THEN 0 ELSE IF k = 2 THEN 31
                         ELSE (153 * (k - 3) + 2) \div 5 + 59 + l
      /\ MonthAt(y, k - 1) = IF k - 1 = 1 THEN 0 ELSE IF k - 1 = 2 THEN 31
                             ELSE (153 * ((k - 1) - 3) + 2) \div 5 + 59 + l
  BY Zenon DEF MonthAt, l
<1>4. k \in {2, 3, 4, 5, 6, 7, 8, 9, 10, 11, 12}
  OBVIOUS
<1> QED
  BY <1>1, <1>2, <1>3, <1>4

(* The days before a month, counted and in closed form. *)
LEMMA MonthStarts ==
  ASSUME NEW y, NEW m \in Months
  PROVE  MonthStart(y, m) = MonthAt(y, m)
<1> DEFINE step(f, k) == IF k = 1 THEN 0 ELSE f[k - 1] + MonthDays(y, k - 1)
           w == [k \in Months |-> MonthAt(y, k)]
           before == CHOOSE f : f = [k \in Months |-> step(f, k)]
           T == {i \in 0 .. 11 : before[1 + i] = MonthAt(y, 1 + i)}
<1>1. \A k \in Months : w[k] = step(w, k)
  <2> TAKE k \in Months
  <2>1. CASE k = 1
    BY <2>1 DEF MonthAt
  <2>2. CASE k # 1
    <3>1. k \in 2 .. 12 /\ k - 1 \in Months
      BY <2>2 DEF Months
    <3>2. w[k] = MonthAt(y, k) /\ w[k - 1] = MonthAt(y, k - 1)
      BY <3>1
    <3>3. MonthAt(y, k) = MonthAt(y, k - 1) + MonthDays(y, k - 1)
      BY <3>1, MonthAtStep, Zenon
    <3> HIDE DEF w
    <3> QED  BY <2>2, <3>2, <3>3
  <2> QED  BY <2>1, <2>2
<1>2. w = [k \in Months |-> step(w, k)]
  <2>1. w = [k \in Months |-> w[k]]
    OBVIOUS
  <2> HIDE DEF w, step
  <2> QED  BY <1>1, <2>1, Zenon
<1>3. MonthStart(y, m) = before[m]
  BY DEF MonthStart, Months
<1> HIDE DEF w, step
<1>4. before = [k \in Months |-> step(before, k)]
  BY <1>2, Zenon
<1>5. \A k \in Months : before[k] = step(before, k)
  <2> HIDE DEF before
  <2> QED  BY <1>4, Zenon
<1> HIDE DEF before
<1>6. 0 \in T
  <2>1. before[1] = 0
    <3>1. 1 \in Months
      BY DEF Months
    <3> QED  BY <1>5, <3>1 DEF step
  <2>2. MonthAt(y, 1) = 0
    BY DEF MonthAt
  <2> QED  BY <2>1, <2>2
<1>7. ASSUME NEW i \in 1 .. 11, i - 1 \in T PROVE i \in T
  <2>1. 1 + i \in 2 .. 12 /\ 1 + i \in Months /\ (1 + i) - 1 = 1 + (i - 1)
    BY DEF Months
  <2>2. before[(1 + i) - 1] = MonthAt(y, (1 + i) - 1)
    BY <1>7, <2>1
  <2>3. before[1 + i] = before[(1 + i) - 1] + MonthDays(y, (1 + i) - 1)
    BY <1>5, <2>1 DEF step
  <2>4. MonthAt(y, 1 + i) = MonthAt(y, (1 + i) - 1) + MonthDays(y, (1 + i) - 1)
    BY <2>1, MonthAtStep, Zenon
  <2>5. before[1 + i] = MonthAt(y, 1 + i)
    BY <2>2, <2>3, <2>4, Zenon
  <2> QED  BY <2>5
<1>8. T \in SUBSET (0 .. 11) /\ 11 \in Nat
  OBVIOUS
<1> HIDE DEF T
<1>9. T = 0 .. 11
  BY <1>6, <1>7, <1>8, UpTo
<1>10. m - 1 \in 0 .. 11 /\ 1 + (m - 1) = m
  BY DEF Months
<1>11. before[1 + (m - 1)] = MonthAt(y, 1 + (m - 1))
  BY <1>9, <1>10 DEF T
<1> QED
  BY <1>3, <1>10, <1>11

(* The formula of to_unix_seconds counts the days of the calendar. *)
FormulaDays(y, m, d) ==
  LET z   == IF m <= 2 THEN y - 1 ELSE y
      era == z \div 400
      yoe == z - era * 400
      k   == IF m > 2 THEN m - 3 ELSE m + 9
      doy == (153 * k + 2) \div 5 + d - 1
      doe == yoe * 365 + yoe \div 4 - yoe \div 100 + doy
  IN era * 146097 + doe - 719468

CarriedYears == 2000 .. 2069

(* The formula of to_unix_seconds counts the days. *)
LEMMA DaysCounted ==
  ASSUME NEW y \in CarriedYears, NEW m \in Months, NEW d \in Days
  PROVE  FormulaDays(y, m, d) = YearAt(y) + MonthAt(y, m) + d - 1
<1> DEFINE z   == IF m <= 2 THEN y - 1 ELSE y
           era == z \div 400
           yoe == z - era * 400
           k   == IF m > 2 THEN m - 3 ELSE m + 9
           doy == (153 * k + 2) \div 5 + d - 1
           doe == yoe * 365 + yoe \div 4 - yoe \div 100 + doy
           l == LeapDay(y)
<1> USE DEF CarriedYears, Months, Days
<1>1. l = IF y % 4 = 0 THEN 1 ELSE 0
  BY LeapYears DEF LeapDay
<1>2. YearAt(y) = 365 * (y - 1970) + ((y - 1969) \div 4)
  BY DEF YearAt
<1>3. MonthAt(y, m) = IF m = 1 THEN 0 ELSE IF m = 2 THEN 31
                      ELSE (153 * (m - 3) + 2) \div 5 + 59 + l
  BY DEF MonthAt
<1> HIDE DEF l
<1>4. CASE m > 2
  <2>1. z = y /\ k = m - 3
    BY <1>4
  <2> HIDE DEF z, k
  <2>2. era = 5
    BY <2>1
  <2> HIDE DEF era
  <2>3. yoe = y - 2000
    BY <2>1, <2>2
  <2> HIDE DEF yoe
  <2>4. yoe \div 100 = 0
    BY <2>3
  <2>5. (y - 1969) \div 4 + l = (y - 2000) \div 4 + 8
    BY <1>1
  <2>6. /\ (y - 1969) \div 4 \in Int /\ (y - 2000) \div 4 \in Int /\ l \in Int
        /\ (153 * (m - 3) + 2) \div 5 \in Int
    BY <1>1
  <2>7. doe = (y - 2000) * 365 + (y - 2000) \div 4 + ((153 * (m - 3) + 2) \div 5 + d - 1)
    BY <2>1, <2>3, <2>4, <2>6
  <2>8. MonthAt(y, m) = (153 * (m - 3) + 2) \div 5 + 59 + l
    BY <1>3, <1>4
  <2>9. era * 146097 + doe - 719468 = YearAt(y) + MonthAt(y, m) + d - 1
    <3> HIDE DEF doe
    <3> QED  BY <1>2, <2>2, <2>5, <2>6, <2>7, <2>8
  <2> QED  BY <2>9 DEF FormulaDays, z, era, yoe, k
<1>5. CASE m <= 2 /\ y # 2000
  <2>1. z = y - 1 /\ k = m + 9 /\ (m = 1 \/ m = 2)
    BY <1>5
  <2> HIDE DEF z, k
  <2>2. era = 5
    BY <1>5, <2>1
  <2> HIDE DEF era
  <2>3. yoe = y - 2001
    BY <2>1, <2>2
  <2> HIDE DEF yoe
  <2>4. yoe \div 100 = 0 /\ yoe \div 4 = (y - 2001) \div 4
    BY <1>5, <2>3
  <2>5. (y - 1969) \div 4 = (y - 2001) \div 4 + 8
    OBVIOUS
  <2>6. (y - 1969) \div 4 \in Int /\ (y - 2001) \div 4 \in Int
    OBVIOUS
  <2>7. (153 * k + 2) \div 5 = IF m = 1 THEN 306 ELSE 337
    BY <2>1
  <2>8. doy = (IF m = 1 THEN 306 ELSE 337) + d - 1
    BY <2>7
  <2> HIDE DEF doy
  <2>9. doe = (y - 2001) * 365 + (y - 2001) \div 4 + doy
    BY <2>3, <2>4, <2>6, <2>8
  <2>10. MonthAt(y, m) = IF m = 1 THEN 0 ELSE 31
    BY <1>3, <2>1
  <2>11. era * 146097 + doe - 719468 = YearAt(y) + MonthAt(y, m) + d - 1
    <3> HIDE DEF doe
    <3> QED  BY <1>2, <2>1, <2>2, <2>5, <2>6, <2>8, <2>9, <2>10
  <2> QED  BY <2>11 DEF FormulaDays, z, era, yoe, k, doy
<1>6. CASE m <= 2 /\ y = 2000
  <2>1. z = 1999 /\ k = m + 9 /\ (m = 1 \/ m = 2)
    BY <1>6
  <2> HIDE DEF z, k
  <2>2. era = 4
    BY <2>1
  <2> HIDE DEF era
  <2>3. yoe = 399
    BY <2>1, <2>2
  <2> HIDE DEF yoe
  <2>4. yoe \div 100 = 3 /\ yoe \div 4 = 99
    BY <2>3
  <2>5. (153 * k + 2) \div 5 = IF m = 1 THEN 306 ELSE 337
    BY <2>1
  <2>6. doe = 399 * 365 + 99 - 3 + ((IF m = 1 THEN 306 ELSE 337) + d - 1)
    BY <2>3, <2>4, <2>5
  <2>7. MonthAt(y, m) = IF m = 1 THEN 0 ELSE 31
    BY <1>3, <2>1
  <2>8. YearAt(y) = 10957
    BY <1>2, <1>6
  <2>9. era * 146097 + doe - 719468 = YearAt(y) + MonthAt(y, m) + d - 1
    <3> HIDE DEF doe
    <3> QED  BY <2>1, <2>2, <2>6, <2>7, <2>8
  <2> QED  BY <2>9 DEF FormulaDays, z, era, yoe, k
<1> QED
  BY <1>4, <1>5, <1>6

(* to_unix_seconds is the time since 1970 by the calendar. *)
LEMMA UnixTimeExact ==
  ASSUME NEW t \in ShownTimes, t.year \in CarriedYears
  PROVE  UnixTime(t) = <<YearStart[t.year] + MonthStart(t.year, t.month) + t.day - 1,
                         (t.hour * 60 + t.minute) * 60 + t.second>>
<1> DEFINE y == t.year
           m == t.month
           d == t.day
<1>1. /\ m \in 1 .. 12 /\ d \in 1 .. 31 /\ t.hour \in 0 .. 23 /\ t.minute \in 0 .. 59
      /\ t.second \in 0 .. 59
  BY DEF ShownTimes, Months, Days, Hours, Sixty
<1>2. y \in CarriedYears
  OBVIOUS
<1>3. YearStart[y] = YearAt(y)
  <2>1. y \in CountedYears
    BY DEF CountedYears, CarriedYears
  <2> QED  BY <2>1, YearStarts
<1>4. MonthStart(y, m) = MonthAt(y, m)
  <2>1. m \in Months
    BY <1>1 DEF Months
  <2> QED  BY <2>1, MonthStarts
<1> HIDE DEF y, m, d
<1>5. FormulaDays(y, m, d) = YearAt(y) + MonthAt(y, m) + d - 1
  <2>1. m \in Months /\ d \in Days /\ y \in CarriedYears
    BY <1>1, <1>2 DEF Months, Days
  <2> QED  BY <2>1, DaysCounted, Zenon
<1>6. UnixTime(t) = <<FormulaDays(y, m, d), t.hour * 3600 + t.minute * 60 + t.second>>
  BY DEF UnixTime, FormulaDays, y, m, d
<1>7. t.hour * 3600 + t.minute * 60 + t.second = (t.hour * 60 + t.minute) * 60 + t.second
  BY <1>1
<1> QED
  BY <1>3, <1>4, <1>5, <1>6, <1>7 DEF y, m, d

ClockSteps == ClockNext \/ ClockRead \/ UNCHANGED clockVars

(* Only the steps of the clock change its variables. *)
LEMMA ClockStepsOnly ==
  ASSUME [Next]_vars
  PROVE  ClockSteps
<1> USE DEF ClockSteps
<1>1. StartMemory \/ EnumeratePci \/ ClockRead \/ init_mouse \/ RunRing3Tests => ClockSteps
  BY Zenon DEF StartMemory, EnumeratePci, init_mouse, RunRing3Tests
<1>2. TakeRamdisk \/ MountArchive \/ ReadMotd \/ LoadTheme \/ CheckPaths => ClockSteps
  BY Zenon DEF TakeRamdisk, MountArchive, ReadMotd, LoadTheme, CheckPaths
<1>3. TakeLock \/ DropLock \/ LoadHello \/ LoadGui \/ LoadFstest => ClockSteps
  BY Zenon DEF TakeLock, DropLock, LoadHello, LoadGui, LoadFstest, ElfStage
<1>4. ScanPackages \/ LoadMirage \/ RunUntilIdle \/ Report => ClockSteps
  BY Zenon DEF ScanPackages, LoadMirage, RunUntilIdle, Report
<1>5. ClockRuns \/ InputArrives \/ HandlerStep \/ Stopped \/ UNCHANGED vars => ClockSteps
  BY Zenon DEF ClockRuns, InputArrives, HandlerStep, Stopped, vars
<1> HIDE DEF ClockSteps
<1> QED
  BY <1>1, <1>2, <1>3, <1>4, <1>5, Zenon DEF Next, KernelMain

(* What rtc::init returns is a time the chip showed during the call, with its
   exact count of days; it gives up only on a year two digits cannot carry.  For
   every time, encoding and number of updates the retries allow for. *)
THEOREM ClockTellsTheTime == Spec => []TimeWasShown
<1>1. Init => ClockInv
  BY ClockInvInit DEF Init
<1>2. ClockInv /\ [Next]_vars => ClockInv'
  <2> SUFFICES ASSUME ClockInv, [Next]_vars PROVE ClockInv'
    OBVIOUS
  <2> QED  BY ClockStepsOnly, ClockInvNext, Zenon DEF ClockSteps
<1>3. ClockInv => TimeWasShown
  <2> SUFFICES ASSUME ClockInv, rtc.pc = "done"
               PROVE  \/ /\ rtc.result \in rtc.seen
                         /\ UnixTime(rtc.result) =
                              LET t == rtc.result
                              IN <<YearStart[t.year] + MonthStart(t.year, t.month) + t.day - 1,
                                   (t.hour * 60 + t.minute) * 60 + t.second>>
                      \/ rtc.result = NoTime /\ \E t \in rtc.seen : t.year \notin 2000 .. 2069
    BY Zenon DEF TimeWasShown
  <2>1. PICK t \in StartTimes, mode \in Modes, busy \in BOOLEAN, n \in Nat : Clocked(t, mode, busy, n)
    BY DEF ClockInv
  <2>2. t \in CivilTimes /\ Counts(busy, n)
    BY <2>1, Clocks, Zenon
  <2>3. Told(t, n)
    BY <2>1, Phases
  <2>4. PICK j \in 0 .. n : \E tries \in Nat :
          rtc = Rtc("done", <<>>, NoTime, tries, Kept(Mix(t, Still(j))), Seen(t, n))
    BY <2>3, Zenon DEF Told
  <2>5. PICK tries \in Nat :
          rtc = Rtc("done", <<>>, NoTime, tries, Kept(Mix(t, Still(j))), Seen(t, n))
    BY <2>4, Zenon
  <2>6. RtcHas(rtc, "done", <<>>, NoTime, tries, Kept(Mix(t, Still(j))), Seen(t, n))
    BY <2>5, RtcFields, Zenon
  <2>7. rtc.result = Kept(Mix(t, Still(j))) /\ rtc.seen = Seen(t, n)
    BY <2>6, Zenon DEF RtcHas
  <2> DEFINE x == After(t, j)
  <2>8. j \in Sixty
    <3>1. n <= Began(busy, n) /\ Began(busy, n) \in 0 .. 59
      BY <2>2, Zenon DEF Counts
    <3> QED  BY <3>1 DEF Sixty
  <2>9. /\ x \in ShownTimes
        /\ IF x.year \in 2000 .. 2069 THEN rtc.result = x ELSE rtc.result = NoTime
    BY <2>2, <2>7, <2>8, StillShown
  <2>10. x \in rtc.seen
    BY <2>7, Zenon DEF Seen
  <2> HIDE DEF x
  <2>11. CASE x.year \in 2000 .. 2069
    <3>1. rtc.result = x
      BY <2>9, <2>11
    <3>2. UnixTime(x) = <<YearStart[x.year] + MonthStart(x.year, x.month) + x.day - 1,
                          (x.hour * 60 + x.minute) * 60 + x.second>>
      BY <2>9, <2>11, UnixTimeExact DEF CarriedYears
    <3> QED  BY <2>10, <3>1, <3>2
  <2>12. CASE ~(x.year \in 2000 .. 2069)
    BY <2>9, <2>10, <2>12
  <2> QED  BY <2>11, <2>12
<1> QED
  BY <1>1, <1>2, <1>3, PTL DEF Spec
=============================================================================
