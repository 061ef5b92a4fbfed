-------------------------- MODULE Services_proofs --------------------------
(***************************************************************************)
(* Proofs about Services.tla, for any number of processes, any Realms, any *)
(* archive, and any limits on ports and queues.                            *)
(***************************************************************************)
EXTENDS Services, TLAPS, FiniteSetTheorems, SequenceTheorems

-----------------------------------------------------------------------------
(* Lemmas about small numbers and finite sets *)

(* A nonempty set of naturals has a least member. *)
LEMMA LeastMember ==
  ASSUME NEW T \in SUBSET Nat, T # {}
  PROVE  Min(T) \in T
<1> DEFINE R == {ss \in Nat \X Nat : ss[1] < ss[2]}
<1>1. IsWellFoundedOn(R, Nat)
  BY NatLessThanWellFounded, Zenon DEF OpToRel
<1>2. \E x \in T : \A y \in T : ~(<<y, x>> \in R)
  <2> HIDE DEF R
  <2> QED  BY <1>1, WFMin, Zenon
<1>3. PICK x \in T : \A y \in T : ~(<<y, x>> \in R)
  BY <1>2
<1>4. \A y \in T : x <= y
  <2> TAKE y \in T
  <2> DEFINE e == <<y, x>>
  <2>1. e \in Nat \X Nat /\ e[1] = y /\ e[2] = x
    OBVIOUS
  <2>2. ~(e \in R)
    BY <1>3
  <2> HIDE DEF e
  <2> QED  BY <2>1, <2>2
<1> QED
  BY <1>4 DEF Min

(* The smaller and the larger of two numbers. *)
LEMMA TwoNumbers ==
  ASSUME NEW a \in Int, NEW b \in Int
  PROVE  /\ Min({a, b}) = IF a <= b THEN a ELSE b
         /\ Max({a, b}) = IF a >= b THEN a ELSE b
<1>1. \E x \in {a, b} : \A y \in {a, b} : x <= y
  OBVIOUS
<1>2. \E x \in {a, b} : \A y \in {a, b} : x >= y
  OBVIOUS
<1> QED
  BY <1>1, <1>2 DEF Min, Max

(* The pairs of a finite set and finite sets over it are finitely many. *)
LEMMA PairsFinite ==
  ASSUME NEW S, IsFiniteSet(S), NEW f, \A x \in S : IsFiniteSet(f[x])
  PROVE  IsFiniteSet(UNION {{x} \X f[x] : x \in S})
<1> DEFINE g == [x \in S |-> {x} \X f[x]]
           T == {{x} \X f[x] : x \in S}
<1>1. g \in Surjection(S, T)
  BY DEF Surjection
<1>2. IsFiniteSet(T)
  <2> HIDE DEF g, T
  <2> QED  BY <1>1, FS_Surjection
<1>3. \A x \in S : IsFiniteSet({x} \X f[x])
  BY FS_Product, FS_Singleton
<1> QED
  BY <1>2, <1>3, FS_UNION

-----------------------------------------------------------------------------
(* Descriptors *)

Table == [node : Nodes, position : Nat]
View == [node : Nodes, expects : Nat]

(* What TypeOK says of descriptor tables, and the shape it rests on. *)
FilesTyped ==
  /\ state \in [Pids -> {"unborn", "Ready", "Running", "Exited", "Gone"}]
  /\ budget \in [handles : Nat, sent : Nat, open : Nat, longest : Nat]
  /\ DOMAIN files = Pids /\ DOMAIN opened = Pids
  /\ \A p \in Pids : /\ DOMAIN files[p] \subseteq Descriptors
                     /\ \A d \in DOMAIN files[p] : /\ files[p][d] \in Table
                                                   /\ files[p][d].position <= SizeOf[files[p][d].node]
                     /\ \A d \in DOMAIN opened[p] : opened[p][d] \in View

(* FilesAgree, from the birth of a process: nothing opens a file before its
   program runs. *)
TablesAgree ==
  \A p \in Pids : state[p] \in {"unborn", "Ready", "Running"} =>
    /\ DOMAIN files[p] = DOMAIN opened[p]
    /\ \A d \in DOMAIN opened[p] :
         /\ files[p][d].node = opened[p][d].node
         /\ files[p][d].position = opened[p][d].expects

FilesInv == FilesTyped /\ TablesAgree

(* A caller that is a process is running. *)
LEMMA CallerIsRunning ==
  ASSUME NEW c \in Pids \cup {NoProcess}, Calls(c), c # NoProcess
  PROVE  c \in Pids /\ state[c] = "Running"
BY DEF Calls

(* A caller that has a right is running, and its realm grants the right. *)
LEMMA RightMeansRunning ==
  ASSUME NEW c \in Pids \cup {NoProcess}, NEW r, Calls(c), Require(c, r)
  PROVE  c \in Pids /\ state[c] = "Running" /\ r \in RealmOf[c]
BY DEF Calls, Require

(* Below the limit of open files there is a free descriptor to take. *)
LEMMA LowestFreeFits ==
  ASSUME FilesInv, NEW c \in Pids, OpenTotal < budget.open
  PROVE  LowestFree(files[c]) \in Descriptors \ DOMAIN files[c]
<1> DEFINE D == DOMAIN files[c]
           n == Cardinality(D)
           I == FIRST_DYNAMIC .. FIRST_DYNAMIC + n
           free == {d \in I : d \notin D}
<1>1. \A p \in Pids : IsFiniteSet(DOMAIN files[p])
  <2>1. budget.open \in Nat
    BY DEF FilesInv, FilesTyped
  <2>2. IsFiniteSet(Descriptors)
    BY <2>1, FS_Interval DEF Descriptors, FIRST_DYNAMIC
  <2>3. \A p \in Pids : DOMAIN files[p] \subseteq Descriptors
    BY DEF FilesInv, FilesTyped
  <2> QED  BY <2>2, <2>3, FS_Subset
<1>2. n \in Nat
  BY <1>1, FS_CardinalityType
<1>3. free # {}
  <2>1. IsFiniteSet(I) /\ Cardinality(I) = n + 1
    BY <1>2, FS_Interval DEF FIRST_DYNAMIC
  <2>2. ~(I \subseteq D)
    <3>1. SUFFICES ASSUME I \subseteq D PROVE FALSE
      OBVIOUS
    <3>2. Cardinality(I) <= n
      BY <1>1, <3>1, FS_Subset
    <3> QED  BY <1>2, <2>1, <3>2
  <2> QED  BY <2>2
<1>4. free \subseteq Nat
  BY <1>2 DEF FIRST_DYNAMIC
<1>5. LowestFree(files[c]) \in free
  BY <1>3, <1>4, LeastMember DEF LowestFree
<1>6. n < budget.open
  <2> DEFINE pairs == UNION {{p} \X DOMAIN files[p] : p \in Pids}
             f == [p \in Pids |-> DOMAIN files[p]]
  <2>1. IsFiniteSet(Pids)
    BY ServicesAssumption, FS_Interval DEF Pids
  <2>2. IsFiniteSet(pairs)
    <3>1. \A p \in Pids : IsFiniteSet(f[p])
      BY <1>1
    <3>2. pairs = UNION {{p} \X f[p] : p \in Pids}
      OBVIOUS
    <3> HIDE DEF f, pairs
    <3> QED  BY <2>1, <3>1, <3>2, PairsFinite
  <2>3. {c} \X D \subseteq pairs
    OBVIOUS
  <2>4. Cardinality({c} \X D) = n
    <3>1. Cardinality({c}) = 1 /\ IsFiniteSet({c})
      BY FS_Singleton
    <3>2. IsFiniteSet(D)
      BY <1>1
    <3>3. Cardinality({c} \X D) = Cardinality({c}) * Cardinality(D)
      BY <3>1, <3>2, FS_Product
    <3> HIDE DEF D
    <3> QED  BY <1>2, <3>1, <3>3
  <2>5. n <= OpenTotal /\ OpenTotal \in Nat
    BY <2>2, <2>3, <2>4, FS_Subset, FS_CardinalityType DEF OpenTotal
  <2> QED  BY <1>2, <2>5 DEF FilesInv, FilesTyped
<1> HIDE DEF n
<1> QED
  BY <1>2, <1>5, <1>6 DEF Descriptors, FIRST_DYNAMIC, FilesInv, FilesTyped

(* A table within bounds and a program's view that matches it. *)
Matching(F, O) ==
  /\ DOMAIN F \subseteq Descriptors /\ DOMAIN O = DOMAIN F
  /\ \A d \in DOMAIN F : /\ F[d] \in Table /\ O[d] \in View
                         /\ F[d].position <= SizeOf[F[d].node]
                         /\ F[d].node = O[d].node
                         /\ F[d].position = O[d].expects

(* One running program's table and its own view of it change together. *)
LEMMA OneTable ==
  ASSUME FilesInv, NEW c \in Pids, NEW F, NEW O,
         files' = [files EXCEPT ![c] = F], opened' = [opened EXCEPT ![c] = O],
         state' = state, budget' = budget,
         Matching(F, O)
  PROVE  FilesInv'
<1> USE DEF FilesInv
<1>1. /\ DOMAIN files' = Pids /\ DOMAIN opened' = Pids
      /\ files'[c] = F /\ opened'[c] = O
      /\ \A p \in Pids : p # c => files'[p] = files[p] /\ opened'[p] = opened[p]
  BY DEF FilesTyped
<1>2. Descriptors' = Descriptors
  BY DEF Descriptors
<1>3. FilesTyped'
  <2>1. ASSUME NEW p \in Pids
        PROVE  /\ DOMAIN files'[p] \subseteq Descriptors
               /\ \A d \in DOMAIN files'[p] : /\ files'[p][d] \in Table
                                              /\ files'[p][d].position <= SizeOf[files'[p][d].node]
               /\ \A d \in DOMAIN opened'[p] : opened'[p][d] \in View
    <3>1. CASE p = c
      BY <1>1, <3>1 DEF Matching
    <3>2. CASE p # c
      BY <1>1, <3>2 DEF FilesTyped
    <3> QED  BY <3>1, <3>2
  <2>2. state' \in [Pids -> {"unborn", "Ready", "Running", "Exited", "Gone"}]
        /\ budget' \in [handles : Nat, sent : Nat, open : Nat, longest : Nat]
    BY DEF FilesTyped
  <2> QED  BY <1>1, <1>2, <2>1, <2>2 DEF FilesTyped
<1>4. TablesAgree'
  <2>1. SUFFICES ASSUME NEW p \in Pids, state[p] \in {"unborn", "Ready", "Running"}
                 PROVE  /\ DOMAIN files'[p] = DOMAIN opened'[p]
                        /\ \A d \in DOMAIN opened'[p] :
                             /\ files'[p][d].node = opened'[p][d].node
                             /\ files'[p][d].position = opened'[p][d].expects
    BY DEF TablesAgree
  <2>2. CASE p = c
    BY <1>1, <2>2 DEF Matching
  <2>3. CASE p # c
    BY <1>1, <2>1, <2>3 DEF TablesAgree
  <2> QED  BY <2>2, <2>3
<1> QED
  BY <1>3, <1>4

(* sys_open: the descriptor is free and within bounds. *)
LEMMA OpenFiles ==
  ASSUME FilesInv, budget' = budget, NEW c \in Pids \cup {NoProcess}, NEW n \in Nodes, SysOpen(c, n)
  PROVE  FilesInv'
<1>1. c \in Pids /\ state[c] = "Running"
  BY RightMeansRunning DEF SysOpen
<1> DEFINE d == LowestFree(files[c])
           F == With(files[c], d, [node |-> n, position |-> 0])
           O == With(opened[c], d, [node |-> n, expects |-> 0])
<1>2. d \in Descriptors \ DOMAIN files[c]
  BY <1>1, LowestFreeFits DEF SysOpen
<1>3. files' = [files EXCEPT ![c] = F] /\ opened' = [opened EXCEPT ![c] = O] /\ state' = state
  BY DEF SysOpen
<1>4. /\ DOMAIN files[c] = DOMAIN opened[c]
      /\ \A e \in DOMAIN files[c] : /\ files[c][e] \in Table /\ opened[c][e] \in View
                                    /\ files[c][e].position <= SizeOf[files[c][e].node]
                                    /\ files[c][e].node = opened[c][e].node
                                    /\ files[c][e].position = opened[c][e].expects
  BY <1>1 DEF FilesInv, FilesTyped, TablesAgree
<1>5. DOMAIN files[c] \subseteq Descriptors
  BY <1>1 DEF FilesInv, FilesTyped
<1>6. SizeOf[n] >= 0
  BY ServicesAssumption
<1> HIDE DEF d
<1>7. DOMAIN F \subseteq Descriptors /\ DOMAIN O = DOMAIN F
  BY <1>2, <1>4, <1>5 DEF With
<1>8. ASSUME NEW e \in DOMAIN F
      PROVE  /\ F[e] \in Table /\ O[e] \in View
             /\ F[e].position <= SizeOf[F[e].node]
             /\ F[e].node = O[e].node
             /\ F[e].position = O[e].expects
  <2>1. CASE e = d
    BY <1>4, <1>6, <2>1 DEF With, Table, View
  <2>2. CASE e # d
    BY <1>4, <2>2 DEF With
  <2> QED  BY <2>1, <2>2
<1> HIDE DEF F, O
<1>9. Matching(F, O)
  BY <1>7, <1>8 DEF Matching
<1> QED
  BY <1>1, <1>3, <1>9, OneTable

(* sys_read and sys_seek: a cursor moves to a place within the file. *)
LEMMA MovedFiles ==
  ASSUME FilesInv, budget' = budget, state' = state, NEW c \in Pids, state[c] = "Running",
         NEW d \in DOMAIN files[c], NEW n \in Nat, n <= SizeOf[files[c][d].node],
         files' = [files EXCEPT ![c][d].position = n],
         opened' = [opened EXCEPT ![c][d].expects = n]
  PROVE  FilesInv'
<1> DEFINE F == [files[c] EXCEPT ![d].position = n]
           O == [opened[c] EXCEPT ![d].expects = n]
<1>1. files' = [files EXCEPT ![c] = F] /\ opened' = [opened EXCEPT ![c] = O]
  OBVIOUS
<1>2. /\ DOMAIN files[c] = DOMAIN opened[c]
      /\ \A e \in DOMAIN files[c] : /\ files[c][e] \in Table /\ opened[c][e] \in View
                                    /\ files[c][e].position <= SizeOf[files[c][e].node]
                                    /\ files[c][e].node = opened[c][e].node
                                    /\ files[c][e].position = opened[c][e].expects
  BY DEF FilesInv, FilesTyped, TablesAgree
<1>3. DOMAIN F \subseteq Descriptors /\ DOMAIN O = DOMAIN F
  BY <1>2 DEF FilesInv, FilesTyped
<1>4. ASSUME NEW e \in DOMAIN F
      PROVE  /\ F[e] \in Table /\ O[e] \in View
             /\ F[e].position <= SizeOf[F[e].node]
             /\ F[e].node = O[e].node
             /\ F[e].position = O[e].expects
  <2>1. CASE e = d
    BY <1>2, <2>1 DEF Table, View
  <2>2. CASE e # d
    BY <1>2, <2>2
  <2> QED  BY <2>1, <2>2
<1> HIDE DEF F, O
<1>5. Matching(F, O)
  BY <1>3, <1>4 DEF Matching
<1> QED
  BY <1>1, <1>5, OneTable

(* A read keeps the invariant of the descriptors, *)
LEMMA ReadFiles ==
  ASSUME FilesInv, budget' = budget, NEW c \in Pids \cup {NoProcess}, NEW d \in Descriptors,
         NEW len \in 1 .. budget.longest, NEW copied \in BOOLEAN, SysRead(c, d, len, copied)
  PROVE  FilesInv'
<1>1. c \in Pids /\ state[c] = "Running" /\ d \in DOMAIN files[c] /\ state' = state
  BY CallerIsRunning DEF SysRead
<1> DEFINE file == files[c][d]
           size == SizeOf[file.node]
           got == Min({len, size - file.position})
<1>2. file \in Table /\ file.position <= size
  BY <1>1 DEF FilesInv, FilesTyped
<1>3. size \in Nat /\ file.position \in Nat /\ len \in Nat
  BY <1>2, ServicesAssumption DEF Table
<1>4. got \in Nat /\ file.position + got <= size
  <2> HIDE DEF size
  <2>1. got = IF len <= size - file.position THEN len ELSE size - file.position
    BY <1>3, TwoNumbers
  <2> HIDE DEF got
  <2> QED  BY <1>2, <1>3, <2>1
<1>5. opened[c][d].expects = file.position /\ d \in DOMAIN opened[c]
  BY <1>1 DEF FilesInv, TablesAgree
<1>6. /\ files' = [files EXCEPT ![c][d].position = @ + got]
      /\ opened' = [opened EXCEPT ![c][d].expects = @ + got]
  BY DEF SysRead
<1> DEFINE n == file.position + got
<1>7. /\ files' = [files EXCEPT ![c][d].position = n]
      /\ opened' = [opened EXCEPT ![c][d].expects = n]
  <2> HIDE DEF got
  <2> QED  BY <1>5, <1>6
<1>8. n \in Nat /\ n <= SizeOf[files[c][d].node]
  <2> HIDE DEF got
  <2> QED  BY <1>3, <1>4
<1> HIDE DEF n
<1> QED
  BY <1>1, <1>7, <1>8, MovedFiles

(* and so does a seek, *)
LEMMA SeekFiles ==
  ASSUME FilesInv, budget' = budget, NEW c \in Pids \cup {NoProcess}, NEW d \in Descriptors,
         NEW o \in 0 .. budget.longest, NEW w \in {"SET", "CURRENT", "END"}, SysSeek(c, d, o, w)
  PROVE  FilesInv'
<1>1. c \in Pids /\ state[c] = "Running" /\ d \in DOMAIN files[c] /\ state' = state
  BY CallerIsRunning DEF SysSeek
<1> DEFINE file == files[c][d]
           size == SizeOf[file.node]
           n == SeekTo(file, o, w)
<1>2. file \in Table
  BY <1>1 DEF FilesInv, FilesTyped
<1>3. size \in Nat /\ file.position \in Nat /\ o \in Nat
  BY <1>2, ServicesAssumption DEF Table
<1>4. n \in Nat /\ n <= size
  <2> DEFINE target == CASE w = "SET" -> o
                         [] w = "CURRENT" -> file.position + o
                         [] w = "END" -> Max({0, size - o})
  <2>1. n = Min({target, size})
    BY DEF SeekTo
  <2>2. Max({0, size - o}) \in Nat
    <3> HIDE DEF size
    <3>1. Max({0, size - o}) = IF 0 >= size - o THEN 0 ELSE size - o
      BY <1>3, TwoNumbers
    <3> QED  BY <1>3, <3>1
  <2>3. target \in Nat
    <3> HIDE DEF size, file
    <3>1. CASE w = "SET"
      BY <1>3, <3>1
    <3>2. CASE w = "CURRENT"
      BY <1>3, <3>2
    <3>3. CASE w = "END"
      BY <2>2, <3>3
    <3> QED  BY <3>1, <3>2, <3>3
  <2> HIDE DEF target, size, n
  <2>4. Min({target, size}) = IF target <= size THEN target ELSE size
    BY <1>3, <2>3, TwoNumbers
  <2> QED  BY <1>3, <2>1, <2>3, <2>4
<1>5. /\ files' = [files EXCEPT ![c][d].position = n]
      /\ opened' = [opened EXCEPT ![c][d].expects = n]
  BY DEF SysSeek
<1> HIDE DEF n
<1> QED
  BY <1>1, <1>4, <1>5, MovedFiles

(* and a close. *)
LEMMA CloseFiles ==
  ASSUME FilesInv, budget' = budget, NEW c \in Pids \cup {NoProcess}, NEW d \in Descriptors, SysClose(c, d)
  PROVE  FilesInv'
<1>1. c \in Pids /\ state[c] = "Running" /\ state' = state
  BY CallerIsRunning DEF SysClose
<1> DEFINE F == Without(files[c], d)
           O == Without(opened[c], d)
<1>2. files' = [files EXCEPT ![c] = F] /\ opened' = [opened EXCEPT ![c] = O]
  BY DEF SysClose
<1>3. /\ DOMAIN files[c] = DOMAIN opened[c]
      /\ \A e \in DOMAIN files[c] : /\ files[c][e] \in Table /\ opened[c][e] \in View
                                    /\ files[c][e].position <= SizeOf[files[c][e].node]
                                    /\ files[c][e].node = opened[c][e].node
                                    /\ files[c][e].position = opened[c][e].expects
  BY <1>1 DEF FilesInv, FilesTyped, TablesAgree
<1>4. DOMAIN F \subseteq Descriptors /\ DOMAIN O = DOMAIN F
  BY <1>1, <1>3 DEF FilesInv, FilesTyped, Without
<1>5. \A e \in DOMAIN F : /\ e \in DOMAIN files[c] /\ F[e] = files[c][e] /\ O[e] = opened[c][e]
  BY <1>3 DEF Without
<1> HIDE DEF F, O
<1>6. Matching(F, O)
  BY <1>3, <1>4, <1>5 DEF Matching
<1> QED
  BY <1>1, <1>2, <1>6, OneTable

(* The life of a process: opened changes only when the program ends. *)
LEMMA LifeFiles ==
  ASSUME FilesInv, budget' = budget, NEW p \in Pids,
         Spawn(p) \/ Begin(p) \/ SetExited(p) \/ CloseAllFor(p)
  PROVE  FilesInv'
<1> USE DEF FilesInv
<1>1. CASE Spawn(p) \/ Begin(p)
  <2>1. /\ files' = files /\ opened' = opened
        /\ state' \in [Pids -> {"unborn", "Ready", "Running", "Exited", "Gone"}]
        /\ \A q \in Pids : state'[q] \in {"unborn", "Ready", "Running"} => state[q] \in {"unborn", "Ready", "Running"}
    BY <1>1 DEF Spawn, Begin, kernelFiles, FilesTyped
  <2>2. FilesTyped'
    BY <2>1 DEF FilesTyped, Descriptors
  <2>3. TablesAgree'
    BY <2>1 DEF TablesAgree
  <2> QED  BY <2>2, <2>3
<1>2. CASE SetExited(p)
  <2>1. /\ files' = files /\ DOMAIN opened' = Pids
        /\ \A q \in Pids : q # p => opened'[q] = opened[q] /\ state'[q] = state[q]
        /\ opened'[p] = Empty /\ state'[p] = "Exited"
        /\ state' \in [Pids -> {"unborn", "Ready", "Running", "Exited", "Gone"}]
    BY <1>2 DEF SetExited, FilesTyped
  <2>2. DOMAIN Empty = {}
    BY DEF Empty
  <2>3. FilesTyped'
    <3>1. \A q \in Pids : \A d \in DOMAIN opened'[q] : opened'[q][d] \in View
      BY <2>1, <2>2 DEF FilesTyped
    <3> QED  BY <2>1, <3>1 DEF FilesTyped, Descriptors
  <2>4. TablesAgree'
    BY <2>1 DEF TablesAgree
  <2> QED  BY <2>3, <2>4
<1>3. CASE CloseAllFor(p)
  <2>1. /\ files' = files /\ opened' = opened
        /\ state' \in [Pids -> {"unborn", "Ready", "Running", "Exited", "Gone"}]
        /\ \A q \in Pids : state'[q] \in {"unborn", "Ready", "Running"} => state[q] \in {"unborn", "Ready", "Running"}
    BY <1>3 DEF CloseAllFor, kernelFiles, FilesTyped
  <2>2. FilesTyped'
    BY <2>1 DEF FilesTyped, Descriptors
  <2>3. TablesAgree'
    BY <2>1 DEF TablesAgree
  <2> QED  BY <2>2, <2>3
<1> QED
  BY <1>1, <1>2, <1>3

(* Nothing else touches the tables. *)
LEMMA OtherFiles ==
  ASSUME FilesInv, budget' = budget, state' = state, files' = files, opened' = opened
  PROVE  FilesInv'
<1>1. FilesTyped'
  BY DEF FilesInv, FilesTyped, Descriptors
<1>2. TablesAgree'
  BY DEF FilesInv, TablesAgree
<1> QED
  BY <1>1, <1>2 DEF FilesInv

(* Every step keeps the invariant of the descriptors. *)
LEMMA FilesStep ==
  ASSUME FilesInv, [Next /\ UNCHANGED budget]_vars
  PROVE  FilesInv'
<1>0. budget' = budget
  BY DEF vars
<1>1. CASE UNCHANGED vars
  BY <1>0, <1>1, OtherFiles DEF vars
<1>2. CASE \E p \in Pids : Spawn(p) \/ Begin(p) \/ SetExited(p) \/ CloseAllFor(p)
  BY <1>0, <1>2, LifeFiles
<1>3. ASSUME NEW c \in Pids \union {NoProcess}, NEW n \in Nodes, SysOpen(c, n)
      PROVE  FilesInv'
  BY <1>0, <1>3, OpenFiles
<1>4. ASSUME NEW c \in Pids \union {NoProcess}, NEW d \in Descriptors, NEW len \in 1 .. budget.longest,
             NEW copied \in BOOLEAN, SysRead(c, d, len, copied)
      PROVE  FilesInv'
  BY <1>0, <1>4, ReadFiles
<1>5. ASSUME NEW c \in Pids \union {NoProcess}, NEW d \in Descriptors, NEW o \in 0 .. budget.longest,
             NEW w \in {"SET", "CURRENT", "END"}, SysSeek(c, d, o, w)
      PROVE  FilesInv'
  BY <1>0, <1>5, SeekFiles
<1>6. ASSUME NEW c \in Pids \union {NoProcess}, NEW d \in Descriptors, SysClose(c, d)
      PROVE  FilesInv'
  BY <1>0, <1>6, CloseFiles
<1>7. ASSUME NEW c \in Pids \union {NoProcess}, NEW name \in Names, SysPortCreate(c, name) \/ SysPortConnect(c, name)
      PROVE  FilesInv'
  BY <1>0, <1>7, OtherFiles DEF SysPortCreate, Created, SysPortConnect, kernelFiles
<1>8. ASSUME NEW c \in Pids \union {NoProcess}, NEW h \in Handles,
             \/ \E len \in 0 .. budget.longest : SysPortSend(c, h, len)
             \/ SysPortClose(c, h)
      PROVE  FilesInv'
  BY <1>0, <1>8, OtherFiles DEF SysPortSend, SysPortClose, kernelFiles
<1>9. ASSUME NEW c \in Pids \union {NoProcess}, NEW h \in Handles, NEW room \in 0 .. budget.longest,
             NEW copied \in BOOLEAN, SysPortRecv(c, h, room, copied)
      PROVE  FilesInv'
  BY <1>0, <1>9, OtherFiles DEF SysPortRecv, kernelFiles
<1> QED
  BY <1>1, <1>2, <1>3, <1>4, <1>5, <1>6, <1>7, <1>8, <1>9 DEF Next

(* It holds at the start. *)
LEMMA FilesInit ==
  ASSUME Init
  PROVE  FilesInv
<1>1. DOMAIN Empty = {}
  BY DEF Empty
<1>2. budget \in [handles : Nat, sent : Nat, open : Nat, longest : Nat]
  BY ServicesAssumption DEF Init
<1>3. FilesTyped
  BY <1>1, <1>2 DEF Init, FilesTyped
<1>4. TablesAgree
  BY <1>1 DEF Init, TablesAgree
<1> QED
  BY <1>3, <1>4 DEF FilesInv

(* FilesAgree holds in every reachable state: a running program and the kernel
   agree on its descriptors, what they name, and how far they were read
   (open_file, sys_read, sys_seek, close_file). *)
THEOREM FilesSafe == Spec => []FilesAgree
<1>1. Init => FilesInv
  BY FilesInit
<1>2. FilesInv /\ [Next /\ UNCHANGED budget]_vars => FilesInv'
  BY FilesStep
<1>3. FilesInv => FilesAgree
  BY DEF FilesInv, TablesAgree, FilesAgree
<1> QED
  BY <1>1, <1>2, <1>3, PTL DEF Spec

-----------------------------------------------------------------------------
(* Ports *)

Connectors == {p \in Pids : "IPC_CONNECT" \in RealmOf[p]}
Creators == {p \in Pids : "IPC_CREATE" \in RealmOf[p]}
Messages == [from : Connectors, body : Nat, len : Nat]
Receipts == [by : Pids, room : Nat, got : [body : Nat, bytes : Nat]]

(* The history of one handle: only those with the right sent, only the creator
   took, and each receive gave what it may of the message in its place. *)
Entry(e) ==
  /\ DOMAIN e = {"creator", "sent", "taken"}
  /\ e.creator \in Creators
  /\ e.sent \in Seq(Messages) /\ e.taken \in Seq(Receipts)
  /\ Len(e.taken) <= Len(e.sent)
  /\ \A i \in 1 .. Len(e.taken) : Returned(e.sent[i], e.taken[i]) /\ e.taken[i].by = e.creator

(* A live port belongs to its creator and holds what was accepted and not yet taken. *)
Live(port, e) ==
  /\ DOMAIN port = {"name", "owner", "queue", "dropped"}
  /\ port.owner = e.creator
  /\ port.queue = SubSeq(e.sent, Len(e.taken) + 1, Len(e.sent))
  /\ Len(port.queue) <= QUEUE_DEPTH

Numbers ==
  /\ nextHandle \in 1 .. budget.handles + 1
  /\ DOMAIN ports \subseteq DOMAIN log
  /\ DOMAIN log \subseteq 1 .. nextHandle - 1
  /\ Cardinality(DOMAIN ports) <= MAX_PORTS

Histories == \A h \in DOMAIN log : Entry(log[h])

LivePorts == \A h \in DOMAIN ports : Live(ports[h], log[h])

Owned ==
  /\ DOMAIN mine = Pids /\ PortsAgree
  /\ \A p \in Pids : state[p] = "Gone" => mine[p] = {}

(* A handle once given is used up, whatever became of its port. *)
KnownOnce ==
  /\ DOMAIN known = Pids
  /\ \A p \in Pids : \A k \in known[p] :
       /\ k.handle \in 1 .. nextHandle - 1
       /\ k.handle \in DOMAIN ports => /\ ports[k.handle].name = k.name
                                       /\ ports[k.handle].owner = k.owner

PortsInv == Numbers /\ Histories /\ LivePorts /\ Owned /\ KnownOnce

(* What is queued grows with what was sent ... *)
LEMMA QueueGrows ==
  ASSUME NEW M, NEW s \in Seq(M), NEW t \in 0 .. Len(s), NEW m \in M
  PROVE  Append(SubSeq(s, t + 1, Len(s)), m) = SubSeq(Append(s, m), t + 1, Len(s) + 1)
<1> DEFINE q == SubSeq(s, t + 1, Len(s))
           r == SubSeq(Append(s, m), t + 1, Len(s) + 1)
<1>1. /\ Len(s) \in Nat /\ \A i \in 1 .. Len(s) : s[i] \in M
  BY LenProperties
<1>2. /\ Append(s, m) \in Seq(M)
      /\ Len(Append(s, m)) = Len(s) + 1
      /\ \A i \in 1 .. Len(s) : Append(s, m)[i] = s[i]
      /\ Append(s, m)[Len(s) + 1] = m
  BY AppendProperties
<1>3. q \in Seq(M) /\ Len(q) = Len(s) - t /\ \A i \in 1 .. Len(s) - t : q[i] = s[t + i]
  <2>1. \A i \in t + 1 .. Len(s) : s[i] \in M
    BY <1>1
  <2>2. /\ q \in Seq(M)
        /\ Len(q) = IF t + 1 <= Len(s) THEN Len(s) - (t + 1) + 1 ELSE 0
        /\ \A i \in 1 .. Len(s) - (t + 1) + 1 : q[i] = s[(t + 1) + i - 1]
    BY <1>1, <2>1, SubSeqProperties
  <2> HIDE DEF q
  <2> QED  BY <1>1, <2>2
<1>4. r \in Seq(M) /\ Len(r) = Len(s) + 1 - t /\ \A i \in 1 .. Len(s) + 1 - t : r[i] = Append(s, m)[t + i]
  <2>1. \A i \in t + 1 .. Len(s) + 1 : Append(s, m)[i] \in M
    BY <1>1, <1>2
  <2>2. /\ r \in Seq(M)
        /\ Len(r) = IF t + 1 <= Len(s) + 1 THEN Len(s) + 1 - (t + 1) + 1 ELSE 0
        /\ \A i \in 1 .. Len(s) + 1 - (t + 1) + 1 : r[i] = Append(s, m)[(t + 1) + i - 1]
    BY <1>1, <2>1, SubSeqProperties
  <2> HIDE DEF r
  <2> QED  BY <1>1, <2>2
<1>5. /\ Append(q, m) \in Seq(M)
      /\ Len(Append(q, m)) = Len(q) + 1
      /\ \A i \in 1 .. Len(q) : Append(q, m)[i] = q[i]
      /\ Append(q, m)[Len(q) + 1] = m
  <2> HIDE DEF q
  <2> QED  BY <1>3, AppendProperties
<1> DEFINE b == Append(q, m)
<1> HIDE DEF q, r, b
<1>6. \A i \in 1 .. Len(q) + 1 : Append(q, m)[i] = r[i]
  <2> TAKE i \in 1 .. Len(q) + 1
  <2>0. i \in 1 .. Len(s) + 1 - t /\ t + i \in 1 .. Len(s) + 1
    BY <1>1, <1>3
  <2>1. CASE i = Len(q) + 1
    <3>1. r[i] = m
      BY <1>1, <1>2, <1>3, <1>4, <2>0, <2>1
    <3> QED  BY <1>5, <2>1, <3>1
  <2>2. CASE i # Len(q) + 1
    <3>1. i \in 1 .. Len(q) /\ t + i \in 1 .. Len(s)
      BY <1>1, <1>3, <2>2
    <3>2. r[i] = s[t + i]
      BY <1>2, <1>4, <2>0, <3>1
    <3>3. b[i] = s[t + i]
      BY <1>1, <1>3, <1>5, <3>1 DEF b
    <3> QED  BY <3>2, <3>3 DEF b
  <2> QED  BY <2>1, <2>2
<1>7. Append(q, m) = r
  BY <1>1, <1>3, <1>4, <1>5, <1>6, SeqEqual
<1> QED
  BY <1>7 DEF q, r

(* ... and shrinks, from its head, with what was taken. *)
LEMMA QueueShrinks ==
  ASSUME NEW M, NEW s \in Seq(M), NEW t \in 0 .. Len(s), SubSeq(s, t + 1, Len(s)) # <<>>
  PROVE  /\ t < Len(s)
         /\ Head(SubSeq(s, t + 1, Len(s))) = s[t + 1]
         /\ Tail(SubSeq(s, t + 1, Len(s))) = SubSeq(s, t + 2, Len(s))
<1>1. Len(s) \in Nat
  BY LenProperties
<1>2. t < Len(s)
  BY <1>1, SubSeqEmpty
<1>3. t + 1 \in 1 .. Len(s) /\ Len(s) \in t + 1 .. Len(s) /\ (t + 1) + 1 = t + 2
  BY <1>1, <1>2
<1> QED
  BY <1>2, <1>3, HeadTailOfSubSeq

(* A step that leaves ports, histories and handles alone; a process may move on
   through its life, as long as it is not past close_all_for. *)
LEMMA SamePorts ==
  ASSUME PortsInv, budget' = budget, ports' = ports, nextHandle' = nextHandle, mine' = mine, log' = log,
         DOMAIN known' = Pids, \A p \in Pids : known'[p] \subseteq known[p],
         \A p \in Pids : (state'[p] = "Gone") <=> (state[p] = "Gone")
  PROVE  PortsInv'
<1> USE DEF PortsInv
<1>1. Numbers'
  BY DEF Numbers
<1>2. Histories'
  BY DEF Histories
<1>3. LivePorts'
  BY DEF LivePorts
<1>4. Owned'
  BY DEF Owned, PortsAgree
<1>5. KnownOnce'
  BY DEF KnownOnce
<1> QED
  BY <1>1, <1>2, <1>3, <1>4, <1>5

(* The life of a process, up to close_all_for. *)
LEMMA LifePorts ==
  ASSUME FilesInv, PortsInv, budget' = budget, NEW p \in Pids, Spawn(p) \/ Begin(p) \/ SetExited(p)
  PROVE  PortsInv'
<1>1. \A q \in Pids : (state'[q] = "Gone") <=> (state[q] = "Gone")
  BY DEF Spawn, Begin, SetExited, FilesInv, FilesTyped
<1>2. ports' = ports /\ nextHandle' = nextHandle /\ mine' = mine /\ log' = log
  BY DEF Spawn, Begin, SetExited, kernelPorts
<1>3. DOMAIN known' = Pids /\ \A q \in Pids : known'[q] \subseteq known[q]
  BY DEF Spawn, Begin, SetExited, kernelPorts, PortsInv, KnownOnce
<1> QED
  BY <1>1, <1>2, <1>3, SamePorts

(* Fewer ports: close_all_for and port_close take them from their owner. *)
LEMMA FewerPorts ==
  ASSUME PortsInv, budget' = budget, nextHandle' = nextHandle, known' = known, log' = log,
         DOMAIN ports' \subseteq DOMAIN ports,
         \A h \in DOMAIN ports' : ports'[h] = ports[h]
  PROVE  Numbers' /\ Histories' /\ LivePorts' /\ KnownOnce'
<1> USE DEF PortsInv
<1>1. Numbers'
  <2>1. IsFiniteSet(DOMAIN ports)
    <3>1. IsFiniteSet(1 .. nextHandle - 1)
      BY FS_Interval DEF Numbers
    <3> QED  BY <3>1, FS_Subset DEF Numbers
  <2>2. /\ IsFiniteSet(DOMAIN ports')
        /\ Cardinality(DOMAIN ports') <= Cardinality(DOMAIN ports)
    BY <2>1, FS_Subset
  <2>3. Cardinality(DOMAIN ports') \in Nat /\ Cardinality(DOMAIN ports) \in Nat
    BY <2>1, <2>2, FS_CardinalityType
  <2>4. Cardinality(DOMAIN ports') <= MAX_PORTS
    BY <2>2, <2>3, ServicesAssumption DEF Numbers
  <2> QED  BY <2>4 DEF Numbers
<1>2. Histories'
  BY DEF Histories
<1>3. LivePorts'
  BY DEF LivePorts
<1>4. KnownOnce'
  BY DEF KnownOnce
<1> QED
  BY <1>1, <1>2, <1>3, <1>4

(* The end of a process keeps the invariant of the ports, *)
LEMMA CloseAllPorts ==
  ASSUME FilesInv, PortsInv, budget' = budget, NEW p \in Pids, CloseAllFor(p)
  PROVE  PortsInv'
<1>1. /\ DOMAIN ports' = {k \in DOMAIN ports : ports[k].owner # p}
      /\ \A h \in DOMAIN ports' : ports'[h] = ports[h]
  BY DEF CloseAllFor
<1>2. Numbers' /\ Histories' /\ LivePorts' /\ KnownOnce'
  BY <1>1, FewerPorts DEF CloseAllFor
<1>3. Owned'
  <2>1. /\ DOMAIN mine' = Pids
        /\ state'[p] = "Gone" /\ mine'[p] = {}
        /\ \A q \in Pids : q # p => mine'[q] = mine[q] /\ state'[q] = state[q]
    BY DEF CloseAllFor, PortsInv, Owned, FilesInv, FilesTyped
  <2>2. ASSUME NEW q \in Pids
        PROVE  {h \in DOMAIN ports' : ports'[h].owner = q} = IF state'[q] = "Gone" THEN {} ELSE mine'[q]
    <3>1. CASE q = p
      BY <1>1, <2>1, <3>1
    <3>2. CASE q # p
      <4>1. {h \in DOMAIN ports' : ports'[h].owner = q} = {h \in DOMAIN ports : ports[h].owner = q}
        BY <1>1, <3>2
      <4>2. {h \in DOMAIN ports : ports[h].owner = q} = IF state[q] = "Gone" THEN {} ELSE mine[q]
        BY DEF PortsInv, Owned, PortsAgree
      <4> QED  BY <2>1, <3>2, <4>1, <4>2
    <3> QED  BY <3>1, <3>2
  <2>3. \A h, k \in DOMAIN ports' : ports'[h].name = ports'[k].name => h = k
    BY <1>1 DEF PortsInv, Owned, PortsAgree
  <2>4. \A q \in Pids : state'[q] = "Gone" => mine'[q] = {}
    BY <2>1 DEF PortsInv, Owned
  <2> QED  BY <2>1, <2>2, <2>3, <2>4 DEF Owned, PortsAgree
<1> QED
  BY <1>2, <1>3 DEF PortsInv

(* and so do a close, *)
LEMMA ClosePorts ==
  ASSUME FilesInv, PortsInv, budget' = budget, NEW c \in Pids \cup {NoProcess}, NEW h \in Handles, SysPortClose(c, h)
  PROVE  PortsInv'
<1>0. c \in Pids /\ state[c] = "Running" /\ h \in DOMAIN ports /\ ports[h].owner = c /\ state' = state
  BY CallerIsRunning DEF SysPortClose
<1>1. /\ DOMAIN ports' = DOMAIN ports \ {h}
      /\ \A k \in DOMAIN ports' : ports'[k] = ports[k]
  BY DEF SysPortClose, Without
<1>2. Numbers' /\ Histories' /\ LivePorts' /\ KnownOnce'
  BY <1>1, FewerPorts DEF SysPortClose
<1>3. Owned'
  <2>1. /\ DOMAIN mine' = Pids
        /\ mine'[c] = mine[c] \ {h}
        /\ \A q \in Pids : q # c => mine'[q] = mine[q]
    BY <1>0 DEF SysPortClose, PortsInv, Owned
  <2>2. ASSUME NEW q \in Pids
        PROVE  {k \in DOMAIN ports' : ports'[k].owner = q} = IF state'[q] = "Gone" THEN {} ELSE mine'[q]
    <3>0. {k \in DOMAIN ports : ports[k].owner = q} = IF state[q] = "Gone" THEN {} ELSE mine[q]
      BY DEF PortsInv, Owned, PortsAgree
    <3>1. CASE q = c
      <4>1. {k \in DOMAIN ports' : ports'[k].owner = q} = {k \in DOMAIN ports : ports[k].owner = q} \ {h}
        BY <1>1
      <4> QED  BY <1>0, <2>1, <3>0, <3>1, <4>1
    <3>2. CASE q # c
      <4>1. {k \in DOMAIN ports' : ports'[k].owner = q} = {k \in DOMAIN ports : ports[k].owner = q}
        BY <1>0, <1>1, <3>2
      <4> QED  BY <1>0, <2>1, <3>0, <3>2, <4>1
    <3> QED  BY <3>1, <3>2
  <2>3. \A k, l \in DOMAIN ports' : ports'[k].name = ports'[l].name => k = l
    BY <1>1 DEF PortsInv, Owned, PortsAgree
  <2>4. \A q \in Pids : state'[q] = "Gone" => mine'[q] = {}
    BY <1>0, <2>1 DEF PortsInv, Owned
  <2> QED  BY <2>1, <2>2, <2>3, <2>4 DEF Owned, PortsAgree
<1> QED
  BY <1>2, <1>3 DEF PortsInv

(* a connect, *)
LEMMA ConnectPorts ==
  ASSUME FilesInv, PortsInv, budget' = budget, NEW c \in Pids \cup {NoProcess}, NEW name \in Names, SysPortConnect(c, name)
  PROVE  PortsInv'
<1> USE DEF PortsInv
<1>0. c \in Pids
  BY RightMeansRunning DEF SysPortConnect
<1>1. state' = state /\ ports' = ports /\ nextHandle' = nextHandle /\ mine' = mine /\ log' = log
  BY DEF SysPortConnect
<1>2. PICK h \in DOMAIN ports : known' = Given(c, h, ports[h])
  BY DEF SysPortConnect
<1>3. Numbers' /\ Histories' /\ LivePorts' /\ Owned'
  BY <1>1 DEF Numbers, Histories, LivePorts, Owned, PortsAgree
<1>4. KnownOnce'
  <2> DEFINE new == [handle |-> h, name |-> ports[h].name, owner |-> ports[h].owner]
  <2>1. DOMAIN known' = Pids /\ \A p \in Pids : \A k \in known'[p] : k \in known[p] \/ k = new
    BY <1>0, <1>2 DEF Given, KnownOnce
  <2>2. h \in 1 .. nextHandle - 1
    BY DEF Numbers
  <2>3. new.handle = h /\ new.name = ports[h].name /\ new.owner = ports[h].owner
    OBVIOUS
  <2> HIDE DEF new
  <2> QED  BY <1>1, <2>1, <2>2, <2>3 DEF KnownOnce
<1> QED
  BY <1>3, <1>4

(* port_create: the handle is new to everyone. *)
LEMMA CreatePorts ==
  ASSUME FilesInv, PortsInv, budget' = budget, NEW c \in Pids \cup {NoProcess}, NEW name \in Names, SysPortCreate(c, name)
  PROVE  PortsInv'
<1> USE DEF PortsInv
<1> DEFINE h == nextHandle
           port == NewPort(c, name)
           entry == [creator |-> c, sent |-> <<>>, taken |-> <<>>]
<1>0. c \in Pids /\ state[c] = "Running" /\ c \in Creators
  BY RightMeansRunning DEF SysPortCreate, Created, Creators
<1>1. /\ nextHandle \in 1 .. budget.handles /\ nextHandle' = nextHandle + 1 /\ state' = state
      /\ \A k \in DOMAIN ports : ports[k].name # name
      /\ Cardinality(DOMAIN ports) < MAX_PORTS
  BY DEF SysPortCreate, Created, Handles
<1>2. h \notin DOMAIN log /\ h \notin DOMAIN ports /\ h \in 1 .. nextHandle' - 1
  BY <1>1 DEF Numbers
<1>3. /\ DOMAIN ports' = DOMAIN ports \union {h} /\ ports'[h] = port
      /\ \A k \in DOMAIN ports : ports'[k] = ports[k]
  BY <1>2 DEF SysPortCreate, Created, With
<1>4. /\ DOMAIN log' = DOMAIN log \union {h} /\ log'[h] = entry
      /\ \A k \in DOMAIN log : log'[k] = log[k]
  BY <1>2 DEF SysPortCreate, Created, With
<1>5. /\ DOMAIN port = {"name", "owner", "queue", "dropped"}
      /\ port.name = name /\ port.owner = c /\ port.queue = <<>>
  BY DEF NewPort
<1>6. Numbers'
  <2>1. IsFiniteSet(DOMAIN ports)
    <3>1. IsFiniteSet(1 .. nextHandle - 1)
      BY FS_Interval DEF Numbers
    <3> QED  BY <3>1, FS_Subset DEF Numbers
  <2>2. Cardinality(DOMAIN ports') = Cardinality(DOMAIN ports) + 1
    BY <1>2, <1>3, <2>1, FS_AddElement
  <2>3. Cardinality(DOMAIN ports') <= MAX_PORTS
    BY <1>1, <2>1, <2>2, FS_CardinalityType, ServicesAssumption
  <2>4. nextHandle' \in 1 .. budget.handles + 1
    BY <1>1 DEF FilesInv, FilesTyped
  <2>5. DOMAIN ports' \subseteq DOMAIN log'
    BY <1>3, <1>4 DEF Numbers
  <2>6. DOMAIN log' \subseteq 1 .. nextHandle' - 1
    BY <1>1, <1>2, <1>4 DEF Numbers
  <2> QED  BY <2>3, <2>4, <2>5, <2>6 DEF Numbers
<1>7. Entry(entry) /\ Live(port, entry)
  <2>1. /\ DOMAIN entry = {"creator", "sent", "taken"}
        /\ entry.creator = c /\ entry.sent = <<>> /\ entry.taken = <<>>
    OBVIOUS
  <2>2. Len(<<>>) = 0 /\ <<>> \in Seq(Messages) /\ <<>> \in Seq(Receipts)
    BY EmptySeq
  <2>3. SubSeq(<<>>, 0 + 1, 0) = <<>>
    BY SubSeqEmpty
  <2> HIDE DEF entry, port
  <2>4. Entry(entry)
    BY <1>0, <2>1, <2>2 DEF Entry
  <2>5. Live(port, entry)
    BY <1>5, <2>1, <2>2, <2>3, ServicesAssumption DEF Live
  <2> QED  BY <2>4, <2>5
<1> HIDE DEF port, entry
<1>8. Histories'
  BY <1>4, <1>7 DEF Histories
<1>9. LivePorts'
  <2> SUFFICES ASSUME NEW k \in DOMAIN ports' PROVE Live(ports'[k], log'[k])
    BY DEF LivePorts
  <2>1. CASE k = h
    BY <1>3, <1>4, <1>7, <2>1
  <2>2. CASE k # h
    <3>1. k \in DOMAIN ports /\ k \in DOMAIN log
      BY <1>3, <2>2 DEF Numbers
    <3> QED  BY <1>3, <1>4, <3>1 DEF LivePorts
  <2> QED  BY <2>1, <2>2
<1>10. Owned'
  <2>1. /\ DOMAIN mine' = Pids
        /\ mine'[c] = mine[c] \union {h}
        /\ \A q \in Pids : q # c => mine'[q] = mine[q]
    BY <1>0 DEF SysPortCreate, Created, Owned
  <2>2. ASSUME NEW q \in Pids
        PROVE  {k \in DOMAIN ports' : ports'[k].owner = q} = IF state'[q] = "Gone" THEN {} ELSE mine'[q]
    <3>0. {k \in DOMAIN ports : ports[k].owner = q} = IF state[q] = "Gone" THEN {} ELSE mine[q]
      BY DEF Owned, PortsAgree
    <3>1. CASE q = c
      <4>1. {k \in DOMAIN ports' : ports'[k].owner = q} = {k \in DOMAIN ports : ports[k].owner = q} \union {h}
        BY <1>3, <1>5, <3>1
      <4> QED  BY <1>0, <1>1, <2>1, <3>0, <3>1, <4>1
    <3>2. CASE q # c
      <4>1. {k \in DOMAIN ports' : ports'[k].owner = q} = {k \in DOMAIN ports : ports[k].owner = q}
        BY <1>2, <1>3, <1>5, <3>2
      <4> QED  BY <1>1, <2>1, <3>0, <3>2, <4>1
    <3> QED  BY <3>1, <3>2
  <2>3. \A k, l \in DOMAIN ports' : ports'[k].name = ports'[l].name => k = l
    BY <1>1, <1>3, <1>5 DEF Owned, PortsAgree
  <2>4. \A q \in Pids : state'[q] = "Gone" => mine'[q] = {}
    BY <1>0, <1>1, <2>1 DEF Owned
  <2> QED  BY <2>1, <2>2, <2>3, <2>4 DEF Owned, PortsAgree
<1>11. KnownOnce'
  <2> DEFINE new == [handle |-> h, name |-> port.name, owner |-> port.owner]
  <2>1. DOMAIN known' = Pids /\ \A p \in Pids : \A k \in known'[p] : k \in known[p] \/ k = new
    BY <1>0 DEF SysPortCreate, Created, Given, KnownOnce, port
  <2>2. new.handle = h /\ new.name = port.name /\ new.owner = port.owner
    OBVIOUS
  <2> HIDE DEF new
  <2> SUFFICES ASSUME NEW p \in Pids, NEW k \in known'[p]
               PROVE  /\ k.handle \in 1 .. nextHandle' - 1
                      /\ k.handle \in DOMAIN ports' => /\ ports'[k.handle].name = k.name
                                                       /\ ports'[k.handle].owner = k.owner
    BY <2>1 DEF KnownOnce
  <2>3. CASE k = new
    BY <1>2, <1>3, <2>2, <2>3
  <2>4. CASE k \in known[p]
    <3>1. k.handle \in 1 .. nextHandle - 1
      BY <2>4 DEF KnownOnce
    <3>2. k.handle # h /\ k.handle \in 1 .. nextHandle' - 1
      BY <1>1, <3>1
    <3> QED  BY <1>3, <2>4, <3>2 DEF KnownOnce
  <2> QED  BY <2>1, <2>3, <2>4
<1> QED
  BY <1>6, <1>8, <1>9, <1>10, <1>11

(* One port and its history move together: send and recv. *)
LEMMA OnePort ==
  ASSUME PortsInv, budget' = budget, state' = state, nextHandle' = nextHandle, mine' = mine, known' = known,
         NEW h \in DOMAIN ports,
         DOMAIN ports' = DOMAIN ports, DOMAIN log' = DOMAIN log,
         \A k \in DOMAIN ports : k # h => ports'[k] = ports[k],
         \A k \in DOMAIN log : k # h => log'[k] = log[k],
         ports'[h].name = ports[h].name, ports'[h].owner = ports[h].owner,
         Entry(log'[h]), Live(ports'[h], log'[h])
  PROVE  PortsInv'
<1> USE DEF PortsInv
<1>1. \A k \in DOMAIN ports : ports'[k].name = ports[k].name /\ ports'[k].owner = ports[k].owner
  OBVIOUS
<1>2. Numbers'
  BY DEF Numbers
<1>3. Histories'
  BY DEF Histories
<1>4. LivePorts'
  BY DEF LivePorts, Numbers
<1>5. Owned'
  <2>1. ASSUME NEW q \in Pids
        PROVE  {k \in DOMAIN ports' : ports'[k].owner = q} = IF state'[q] = "Gone" THEN {} ELSE mine'[q]
    <3>1. {k \in DOMAIN ports' : ports'[k].owner = q} = {k \in DOMAIN ports : ports[k].owner = q}
      BY <1>1
    <3> QED  BY <3>1 DEF Owned, PortsAgree
  <2>2. \A k, l \in DOMAIN ports' : ports'[k].name = ports'[l].name => k = l
    BY <1>1 DEF Owned, PortsAgree
  <2> QED  BY <2>1, <2>2 DEF Owned, PortsAgree
<1>6. KnownOnce'
  BY <1>1 DEF KnownOnce
<1> QED
  BY <1>2, <1>3, <1>4, <1>5, <1>6

(* (what is sent is a message) *)
LEMMA MessageType ==
  ASSUME PortsInv, NEW c \in Connectors, NEW len \in Nat
  PROVE  Message(c, len) \in Messages
<1> DEFINE f == [h \in DOMAIN log |-> DOMAIN log[h].sent]
           pairs == UNION {{h} \X DOMAIN log[h].sent : h \in DOMAIN log}
<1>1. IsFiniteSet(DOMAIN log)
  <2>1. IsFiniteSet(1 .. nextHandle - 1)
    BY FS_Interval DEF PortsInv, Numbers
  <2> QED  BY <2>1, FS_Subset DEF PortsInv, Numbers
<1>2. \A h \in DOMAIN log : IsFiniteSet(f[h])
  <2> TAKE h \in DOMAIN log
  <2>1. log[h].sent \in Seq(Messages)
    BY DEF PortsInv, Histories, Entry
  <2>2. Len(log[h].sent) \in Nat /\ DOMAIN log[h].sent = 1 .. Len(log[h].sent)
    BY <2>1, LenProperties
  <2> QED  BY <2>2, FS_Interval
<1>3. IsFiniteSet(pairs)
  <2>1. pairs = UNION {{h} \X f[h] : h \in DOMAIN log}
    OBVIOUS
  <2> HIDE DEF pairs, f
  <2> QED  BY <1>1, <1>2, <2>1, PairsFinite
<1>4. SentTotal \in Nat
  BY <1>3, FS_CardinalityType DEF SentTotal
<1> QED
  BY <1>4 DEF Message, Messages

(* a send, *)
LEMMA SendPorts ==
  ASSUME FilesInv, PortsInv, budget' = budget, NEW c \in Pids \cup {NoProcess}, NEW h \in Handles,
         NEW len \in 0 .. budget.longest, SysPortSend(c, h, len)
  PROVE  PortsInv'
<1> USE DEF PortsInv
<1>0. c \in Connectors /\ h \in DOMAIN ports
  BY RightMeansRunning DEF SysPortSend, Connectors, Send
<1>1. state' = state /\ nextHandle' = nextHandle /\ mine' = mine /\ known' = known
  BY DEF SysPortSend
<1> DEFINE m == Message(c, len)
           e == log[h]
           q == ports[h].queue
<1>2. m \in Messages
  <2>1. len \in Nat
    OBVIOUS
  <2> QED  BY <1>0, <2>1, MessageType
<1>3. h \in DOMAIN log /\ Entry(e) /\ Live(ports[h], e)
  BY <1>0 DEF Numbers, Histories, LivePorts
<1>4. CASE ports' = [ports EXCEPT ![h].dropped = TRUE] /\ log' = log
  <2>1. /\ DOMAIN ports' = DOMAIN ports
        /\ \A k \in DOMAIN ports : k # h => ports'[k] = ports[k]
        /\ ports'[h] = [ports[h] EXCEPT !.dropped = TRUE]
    BY <1>0, <1>4
  <2>2. /\ DOMAIN ports'[h] = DOMAIN ports[h] /\ ports'[h].name = ports[h].name
        /\ ports'[h].owner = ports[h].owner /\ ports'[h].queue = ports[h].queue
    BY <1>3, <2>1 DEF Live
  <2>3. Live(ports'[h], log'[h]) /\ Entry(log'[h])
    BY <1>3, <1>4, <2>2 DEF Live
  <2> QED  BY <1>0, <1>1, <1>4, <2>1, <2>2, <2>3, OnePort
<1>5. CASE /\ Len(q) < QUEUE_DEPTH
           /\ ports' = [ports EXCEPT ![h].queue = Append(@, m)]
           /\ log' = [log EXCEPT ![h].sent = Append(@, m)]
  <2> DEFINE s == e.sent
             s2 == Append(e.sent, m)
             q2 == Append(q, m)
             t == e.taken
  <2>0. /\ s \in Seq(Messages) /\ Len(s) \in Nat /\ Len(t) \in 0 .. Len(s)
        /\ q = SubSeq(s, Len(t) + 1, Len(s))
        /\ DOMAIN e = {"creator", "sent", "taken"}
        /\ DOMAIN ports[h] = {"name", "owner", "queue", "dropped"}
    BY <1>3, LenProperties DEF Entry, Live
  <2>1. /\ s2 \in Seq(Messages) /\ Len(s2) = Len(s) + 1 /\ \A i \in 1 .. Len(s) : s2[i] = s[i]
    BY <1>2, <2>0, AppendProperties
  <2>2. q2 = SubSeq(s2, Len(t) + 1, Len(s2))
    <3>1. Append(SubSeq(s, Len(t) + 1, Len(s)), m) = SubSeq(Append(s, m), Len(t) + 1, Len(s) + 1)
      <4>1. s \in Seq(Messages) /\ Len(t) \in 0 .. Len(s)
        BY <2>0
      <4> HIDE DEF m, s, t
      <4> QED  BY <1>2, <4>1, QueueGrows
    <3> QED  BY <2>0, <2>1, <3>1
  <2>3. Len(q2) = Len(q) + 1 /\ Len(q) \in Nat
    <3>1. \A i \in Len(t) + 1 .. Len(s) : s[i] \in Messages
      BY <2>0, ElementOfSeq
    <3>2. q \in Seq(Messages)
      BY <2>0, <3>1, SubSeqProperties
    <3> QED  BY <1>2, <3>2, AppendProperties, LenProperties
  <2> HIDE DEF s2, q2, m
  <2>4. /\ DOMAIN ports' = DOMAIN ports
        /\ \A k \in DOMAIN ports : k # h => ports'[k] = ports[k]
        /\ ports'[h] = [ports[h] EXCEPT !.queue = q2]
    BY <1>0, <1>5 DEF q2
  <2>5. /\ DOMAIN log' = DOMAIN log
        /\ \A k \in DOMAIN log : k # h => log'[k] = log[k]
        /\ log'[h] = [e EXCEPT !.sent = s2]
    BY <1>3, <1>5 DEF s2
  <2>6. /\ DOMAIN ports'[h] = DOMAIN ports[h] /\ ports'[h].name = ports[h].name
        /\ ports'[h].owner = ports[h].owner /\ ports'[h].queue = q2
    BY <2>0, <2>4
  <2>7. /\ DOMAIN log'[h] = DOMAIN e /\ log'[h].creator = e.creator
        /\ log'[h].sent = s2 /\ log'[h].taken = e.taken
    BY <2>0, <2>5
  <2>8. Entry(log'[h])
    <3>1. \A i \in 1 .. Len(t) : Returned(s[i], t[i]) /\ t[i].by = e.creator
      BY <1>3 DEF Entry
    <3>2. \A i \in 1 .. Len(t) : s2[i] = s[i]
      BY <2>0, <2>1
    <3>3. e.creator \in Creators /\ t \in Seq(Receipts) /\ Len(t) <= Len(s2)
      BY <1>3, <2>0, <2>1 DEF Entry
    <3> HIDE DEF s, t, e
    <3>4. log'[h].taken = t
      BY <2>7 DEF t
    <3> QED  BY <2>0, <2>1, <2>7, <3>1, <3>2, <3>3, <3>4 DEF Entry
  <2>9. Live(ports'[h], log'[h])
    <3>1. Len(q) < QUEUE_DEPTH
      BY <1>5
    <3>2. Len(q2) <= QUEUE_DEPTH
      BY <2>3, <3>1, ServicesAssumption
    <3> QED  BY <1>3, <2>0, <2>2, <2>6, <2>7, <3>2 DEF Live
  <2> QED  BY <1>0, <1>1, <2>4, <2>5, <2>6, <2>8, <2>9, OnePort
<1> QED
  BY <1>4, <1>5 DEF SysPortSend, Send

(* and a receive. *)
LEMMA RecvPorts ==
  ASSUME FilesInv, PortsInv, budget' = budget, NEW c \in Pids \cup {NoProcess}, NEW h \in Handles,
         NEW room \in 0 .. budget.longest, NEW copied \in BOOLEAN, SysPortRecv(c, h, room, copied)
  PROVE  PortsInv'
<1> USE DEF PortsInv
<1>0. c \in Pids /\ h \in DOMAIN ports /\ ports[h].owner = c /\ ports[h].queue # <<>>
  BY CallerIsRunning DEF SysPortRecv
<1>1. state' = state /\ nextHandle' = nextHandle /\ mine' = mine /\ known' = known
  BY DEF SysPortRecv
<1> DEFINE e == log[h]
           q == ports[h].queue
           s == e.sent
           t == e.taken
           n == Len(t)
           got == IF copied THEN Prefix(Head(q), room) ELSE NoMessage
           r == [by |-> c, room |-> room, got |-> got]
           q2 == Tail(q)
           t2 == Append(t, r)
<1>2. h \in DOMAIN log /\ Entry(e) /\ Live(ports[h], e)
  BY <1>0 DEF Numbers, Histories, LivePorts
<1>3. /\ s \in Seq(Messages) /\ t \in Seq(Receipts) /\ Len(s) \in Nat /\ n \in 0 .. Len(s)
      /\ q = SubSeq(s, n + 1, Len(s)) /\ e.creator = c
      /\ DOMAIN e = {"creator", "sent", "taken"}
      /\ DOMAIN ports[h] = {"name", "owner", "queue", "dropped"}
  BY <1>0, <1>2, LenProperties DEF Entry, Live
<1>4. n < Len(s) /\ Head(q) = s[n + 1] /\ q2 = SubSeq(s, n + 2, Len(s))
  BY <1>0, <1>3, QueueShrinks
<1>5. s[n + 1] \in Messages
  BY <1>3, <1>4, ElementOfSeq
<1>6. got \in [body : Nat, bytes : Nat] /\ r.by = c /\ Returned(s[n + 1], r)
  <2>1. s[n + 1].len \in Nat /\ s[n + 1].body \in Nat /\ room \in Nat
    BY <1>5 DEF Messages
  <2>2. Min({s[n + 1].len, room}) = IF s[n + 1].len <= room THEN s[n + 1].len ELSE room
    BY <2>1, TwoNumbers
  <2>3. got = IF copied THEN [body |-> s[n + 1].body, bytes |-> Min({s[n + 1].len, room})] ELSE NoMessage
    BY <1>4 DEF Prefix
  <2> HIDE DEF got
  <2> QED  BY <2>1, <2>2, <2>3 DEF Returned, NoMessage
<1>7. r \in Receipts
  <2> HIDE DEF got
  <2> QED  BY <1>0, <1>6 DEF Receipts
<1>8. t2 \in Seq(Receipts) /\ Len(t2) = n + 1 /\ t2[n + 1] = r /\ \A i \in 1 .. n : t2[i] = t[i]
  <2> HIDE DEF r
  <2> QED  BY <1>3, <1>7, AppendProperties
<1>9. Len(q2) <= QUEUE_DEPTH
  <2>1. \A i \in n + 1 .. Len(s) : s[i] \in Messages
    BY <1>3, ElementOfSeq
  <2>2. q \in Seq(Messages)
    BY <1>3, <2>1, SubSeqProperties
  <2>3. Len(q2) = Len(q) - 1 /\ Len(q) \in Nat
    BY <1>0, <2>2, HeadTailProperties, LenProperties
  <2>4. Len(q) <= QUEUE_DEPTH
    BY <1>2 DEF Live
  <2> QED  BY <2>3, <2>4, ServicesAssumption
<1>10. /\ ports' = [ports EXCEPT ![h].queue = q2]
       /\ log' = [log EXCEPT ![h].taken = t2]
  BY <1>0, <1>2, <1>3, Zenon DEF SysPortRecv
<1> HIDE DEF q2, t2, r, got
<1>11. /\ DOMAIN ports' = DOMAIN ports
       /\ \A k \in DOMAIN ports : k # h => ports'[k] = ports[k]
       /\ ports'[h] = [ports[h] EXCEPT !.queue = q2]
  BY <1>0, <1>10
<1>12. /\ DOMAIN log' = DOMAIN log
       /\ \A k \in DOMAIN log : k # h => log'[k] = log[k]
       /\ log'[h] = [e EXCEPT !.taken = t2]
  BY <1>2, <1>10
<1>13. /\ DOMAIN ports'[h] = DOMAIN ports[h] /\ ports'[h].name = ports[h].name
       /\ ports'[h].owner = ports[h].owner /\ ports'[h].queue = q2
  BY <1>3, <1>11
<1>14. /\ DOMAIN log'[h] = DOMAIN e /\ log'[h].creator = c
       /\ log'[h].sent = s /\ log'[h].taken = t2
  BY <1>3, <1>12
<1>15. Entry(log'[h])
  <2>1. ASSUME NEW i \in 1 .. n + 1
        PROVE  Returned(s[i], t2[i]) /\ t2[i].by = c
    <3>1. CASE i = n + 1
      BY <1>6, <1>7, <1>8, <3>1
    <3>2. CASE i # n + 1
      <4>1. i \in 1 .. n
        BY <1>3, <3>2
      <4> QED  BY <1>2, <1>3, <1>8, <4>1 DEF Entry
    <3> QED  BY <3>1, <3>2
  <2> QED  BY <1>2, <1>3, <1>4, <1>8, <1>14, <2>1 DEF Entry
<1>16. Live(ports'[h], log'[h])
  <2>1. (n + 1) + 1 = n + 2
    BY <1>3
  <2> QED  BY <1>2, <1>3, <1>4, <1>8, <1>9, <1>13, <1>14, <2>1 DEF Live
<1> QED
  BY <1>0, <1>1, <1>11, <1>12, <1>13, <1>15, <1>16, OnePort

-----------------------------------------------------------------------------
(* The whole *)

(* The inductive invariant of Services. *)
IInv == FilesInv /\ PortsInv

(* Every step keeps the invariant of the ports. *)
LEMMA PortsStep ==
  ASSUME IInv, [Next /\ UNCHANGED budget]_vars
  PROVE  PortsInv'
<1>0. budget' = budget /\ FilesInv /\ PortsInv /\ DOMAIN known = Pids
  BY DEF vars, IInv, PortsInv, KnownOnce
<1>1. CASE UNCHANGED vars
  BY <1>0, <1>1, SamePorts DEF vars
<1>2. ASSUME NEW p \in Pids, Spawn(p) \/ Begin(p) \/ SetExited(p)
      PROVE  PortsInv'
  BY <1>0, <1>2, LifePorts
<1>3. ASSUME NEW p \in Pids, CloseAllFor(p)
      PROVE  PortsInv'
  BY <1>0, <1>3, CloseAllPorts
<1>4. ASSUME NEW c \in Pids \union {NoProcess}, NEW n \in Nodes, SysOpen(c, n)
      PROVE  PortsInv'
  BY <1>0, <1>4, SamePorts DEF SysOpen, kernelPorts
<1>5. ASSUME NEW c \in Pids \union {NoProcess}, NEW d \in Descriptors, NEW len \in 1 .. budget.longest,
             NEW copied \in BOOLEAN, SysRead(c, d, len, copied)
      PROVE  PortsInv'
  BY <1>0, <1>5, SamePorts DEF SysRead, kernelPorts
<1>6. ASSUME NEW c \in Pids \union {NoProcess}, NEW d \in Descriptors, NEW o \in 0 .. budget.longest,
             NEW w \in {"SET", "CURRENT", "END"}, SysSeek(c, d, o, w)
      PROVE  PortsInv'
  BY <1>0, <1>6, SamePorts DEF SysSeek, kernelPorts
<1>7. ASSUME NEW c \in Pids \union {NoProcess}, NEW d \in Descriptors, SysClose(c, d)
      PROVE  PortsInv'
  BY <1>0, <1>7, SamePorts DEF SysClose, kernelPorts
<1>8. ASSUME NEW c \in Pids \union {NoProcess}, NEW name \in Names, SysPortCreate(c, name) \/ SysPortConnect(c, name)
      PROVE  PortsInv'
  BY <1>0, <1>8, CreatePorts, ConnectPorts
<1>9. ASSUME NEW c \in Pids \union {NoProcess}, NEW h \in Handles,
             \/ \E len \in 0 .. budget.longest : SysPortSend(c, h, len)
             \/ SysPortClose(c, h)
      PROVE  PortsInv'
  BY <1>0, <1>9, SendPorts, ClosePorts
<1>10. ASSUME NEW c \in Pids \union {NoProcess}, NEW h \in Handles, NEW room \in 0 .. budget.longest,
             NEW copied \in BOOLEAN, SysPortRecv(c, h, room, copied)
       PROVE  PortsInv'
  BY <1>0, <1>10, RecvPorts
<1> QED
  BY <1>1, <1>2, <1>3, <1>4, <1>5, <1>6, <1>7, <1>8, <1>9, <1>10 DEF Next

(* It holds at the start. *)
LEMMA PortsInit ==
  ASSUME Init
  PROVE  PortsInv
<1>1. DOMAIN Empty = {}
  BY DEF Empty
<1>2. budget.handles \in Nat
  BY ServicesAssumption DEF Init
<1>3. Numbers
  <2>1. Cardinality(DOMAIN ports) = 0
    BY <1>1, FS_EmptySet DEF Init
  <2> QED  BY <1>1, <1>2, <2>1, ServicesAssumption DEF Init, Numbers
<1>4. Histories /\ LivePorts
  BY <1>1 DEF Init, Histories, LivePorts
<1>5. Owned
  BY <1>1 DEF Init, Owned, PortsAgree
<1>6. KnownOnce
  BY DEF Init, KnownOnce
<1> QED
  BY <1>3, <1>4, <1>5, <1>6 DEF PortsInv

(* The invariant includes the type invariant. *)
LEMMA InvariantImpliesType ==
  ASSUME IInv
  PROVE  TypeOK
<1>1. /\ state \in [Pids -> {"unborn", "Ready", "Running", "Exited", "Gone"}]
      /\ budget.handles \in Nat
  BY DEF IInv, FilesInv, FilesTyped
<1>2. ASSUME NEW p \in Pids
      PROVE  /\ DOMAIN files[p] \subseteq Descriptors
             /\ \A d \in DOMAIN files[p] : files[p][d].position \in 0 .. SizeOf[files[p][d].node]
  <2>1. DOMAIN files[p] \subseteq Descriptors
    BY DEF IInv, FilesInv, FilesTyped
  <2>2. ASSUME NEW d \in DOMAIN files[p]
        PROVE  files[p][d].position \in 0 .. SizeOf[files[p][d].node]
    <3>1. files[p][d] \in Table /\ files[p][d].position <= SizeOf[files[p][d].node]
      BY DEF IInv, FilesInv, FilesTyped
    <3>2. files[p][d].position \in Nat /\ SizeOf[files[p][d].node] \in Nat
      BY <3>1, ServicesAssumption DEF Table
    <3> QED  BY <3>1, <3>2
  <2> QED  BY <2>1, <2>2
<1>3. DOMAIN ports \subseteq Handles /\ nextHandle \in 1 .. budget.handles + 1
  BY <1>1 DEF IInv, PortsInv, Numbers, Handles
<1>4. \A p \in Pids : mine[p] \subseteq Handles
  <2> TAKE p \in Pids
  <2>1. CASE state[p] # "Gone"
    BY <1>3, <2>1 DEF IInv, PortsInv, Owned, PortsAgree
  <2>2. CASE state[p] = "Gone"
    BY <2>2 DEF IInv, PortsInv, Owned
  <2> QED  BY <2>1, <2>2
<1>5. Cardinality(DOMAIN ports) <= MAX_PORTS
  BY DEF IInv, PortsInv, Numbers
<1>6. \A h \in DOMAIN ports : Len(ports[h].queue) <= QUEUE_DEPTH
  BY DEF IInv, PortsInv, LivePorts, Live
<1> QED
  BY <1>1, <1>2, <1>3, <1>4, <1>5, <1>6 DEF TypeOK

(* IInv holds in every reachable state. *)
THEOREM Invariance == Spec => []IInv
<1>1. Init => IInv
  BY FilesInit, PortsInit DEF IInv
<1>2. IInv /\ [Next /\ UNCHANGED budget]_vars => IInv'
  BY FilesStep, PortsStep DEF IInv
<1> QED
  BY <1>1, <1>2, PTL DEF Spec

(* TypeOK holds in every reachable state: descriptors, cursors and handles keep
   their types; no queue and not the port table outgrows its limit (ipc::send,
   ipc::create). *)
THEOREM TypeSafe == Spec => []TypeOK
BY Invariance, InvariantImpliesType, PTL

(* PortsAgree holds in every reachable state: the ports of a process are those
   its program created and did not close, a dead process has none, and a name
   leads to one port (ipc::create, ipc::close, close_all_for). *)
THEOREM PortsSafe == Spec => []PortsAgree
<1>1. IInv => PortsAgree
  BY DEF IInv, PortsInv, Owned
<1> QED
  BY <1>1, Invariance, PTL

(* HandlesKeepMeaning holds in every reachable state: a handle never comes to
   mean another port, however services die and return (NEXT_HANDLE). *)
THEOREM HandlesSafe == Spec => []HandlesKeepMeaning
<1>1. IInv => HandlesKeepMeaning
  BY DEF IInv, PortsInv, KnownOnce, HandlesKeepMeaning
<1> QED
  BY <1>1, Invariance, PTL

(* AcceptedInOrder holds in every reachable state, for messages and buffers
   of any length: the n-th receive on a port takes the n-th message it
   accepted, gives the bytes of it that its buffer has room for or fails, and
   costs no other message (ipc::send, ipc::recv, sys_port_recv). *)
THEOREM DeliverySafe == Spec => []AcceptedInOrder
<1>1. IInv => AcceptedInOrder
  <2> SUFFICES ASSUME IInv, NEW h \in DOMAIN log
               PROVE  /\ Len(log[h].taken) <= Len(log[h].sent)
                      /\ \A i \in DOMAIN log[h].taken : Returned(log[h].sent[i], log[h].taken[i])
                      /\ h \in DOMAIN ports => ports[h].queue = SubSeq(log[h].sent, Len(log[h].taken) + 1, Len(log[h].sent))
    BY DEF AcceptedInOrder
  <2>1. Entry(log[h])
    BY DEF IInv, PortsInv, Histories
  <2>2. DOMAIN log[h].taken = 1 .. Len(log[h].taken)
    BY <2>1, LenProperties DEF Entry
  <2>3. h \in DOMAIN ports => Live(ports[h], log[h])
    BY DEF IInv, PortsInv, LivePorts
  <2> QED  BY <2>1, <2>2, <2>3 DEF Entry, Live
<1> QED
  BY <1>1, Invariance, PTL

(* RightsBind holds in every reachable state: creators held IPC_CREATE, senders
   IPC_CONNECT, and only the creator of a port took from it (require,
   ipc::recv). *)
THEOREM RightsSafe == Spec => []RightsBind
<1>1. IInv => RightsBind
  <2> SUFFICES ASSUME IInv, NEW h \in DOMAIN log
               PROVE  /\ log[h].creator \in Creators
                      /\ \A i \in DOMAIN log[h].sent : log[h].sent[i].from \in Connectors
                      /\ \A i \in DOMAIN log[h].taken : log[h].taken[i].by = log[h].creator
    BY DEF RightsBind, Creators, Connectors
  <2>1. Entry(log[h])
    BY DEF IInv, PortsInv, Histories
  <2>2. DOMAIN log[h].taken = 1 .. Len(log[h].taken) /\ DOMAIN log[h].sent = 1 .. Len(log[h].sent)
    BY <2>1, LenProperties DEF Entry
  <2>3. \A i \in DOMAIN log[h].sent : log[h].sent[i] \in Messages
    BY <2>1, <2>2, ElementOfSeq DEF Entry
  <2> QED  BY <2>1, <2>2, <2>3 DEF Entry, Messages
<1> QED
  BY <1>1, Invariance, PTL
=============================================================================
