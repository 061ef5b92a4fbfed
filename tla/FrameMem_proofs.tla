-------------------------- MODULE FrameMem_proofs --------------------------
(***************************************************************************)
(* Proofs about FrameMem.tla, for any amount of memory, any number of      *)
(* loads, any images and any page table paths.                             *)
(***************************************************************************)
EXTENDS FrameMem, TLAPS, FiniteSetTheorems, SequenceTheorems

-----------------------------------------------------------------------------
(* Sequences of frames *)

Unique(s) == \A i, j \in 1 .. Len(s) : s[i] = s[j] => i = j

(* What an appended element adds. *)
LEMMA AppendElements ==
  ASSUME NEW s \in Seq(Nat), NEW f \in Nat
  PROVE  /\ Append(s, f) \in Seq(Nat)
         /\ Elements(Append(s, f)) = Elements(s) \cup {f}
         /\ Unique(s) /\ f \notin Elements(s) => Unique(Append(s, f))
<1> DEFINE a == Append(s, f)
<1>1. /\ a \in Seq(Nat) /\ Len(a) = Len(s) + 1 /\ Len(s) \in Nat
      /\ \A i \in 1 .. Len(s) : a[i] = s[i]
      /\ a[Len(s) + 1] = f
  BY AppendProperties, LenProperties
<1> HIDE DEF a
<1>2. Elements(a) = Elements(s) \cup {f}
  <2>1. \A x \in Elements(a) : x \in Elements(s) \cup {f}
    BY <1>1 DEF Elements
  <2>2. \A x \in Elements(s) : x \in Elements(a)
    BY <1>1 DEF Elements
  <2>3. f \in Elements(a)
    <3>1. Len(s) + 1 \in 1 .. Len(a)
      BY <1>1
    <3> QED  BY <1>1, <3>1 DEF Elements
  <2> QED  BY <2>1, <2>2, <2>3
<1>3. ASSUME Unique(s), f \notin Elements(s)
      PROVE  Unique(a)
  <2>1. \A i \in 1 .. Len(s) : s[i] # f
    BY <1>3 DEF Elements
  <2>2. \A i \in 1 .. Len(a) : i \in 1 .. Len(s) \/ i = Len(s) + 1
    BY <1>1
  <2>3. ASSUME NEW i \in 1 .. Len(a), NEW j \in 1 .. Len(a), a[i] = a[j]
        PROVE  i = j
    <3>1. CASE i \in 1 .. Len(s) /\ j \in 1 .. Len(s)
      <4>1. s[i] = s[j]
        BY <1>1, <2>3, <3>1
      <4> QED  BY <1>3, <3>1, <4>1 DEF Unique
    <3>2. CASE i \in 1 .. Len(s) /\ j = Len(s) + 1
      BY <1>1, <2>1, <2>3, <3>2
    <3>3. CASE i = Len(s) + 1 /\ j \in 1 .. Len(s)
      BY <1>1, <2>1, <2>3, <3>3
    <3>4. CASE i = Len(s) + 1 /\ j = Len(s) + 1
      BY <3>4
    <3> QED  BY <2>2, <3>1, <3>2, <3>3, <3>4
  <2> QED  BY <2>3 DEF Unique
<1> QED
  BY <1>1, <1>2, <1>3 DEF a

(* What a concatenation adds. *)
LEMMA ConcatElements ==
  ASSUME NEW s \in Seq(Nat), NEW t \in Seq(Nat)
  PROVE  /\ s \o t \in Seq(Nat)
         /\ Elements(s \o t) = Elements(s) \cup Elements(t)
         /\ Unique(s) /\ Unique(t) /\ Elements(s) \cap Elements(t) = {} => Unique(s \o t)
<1> DEFINE a == s \o t
<1>1. /\ a \in Seq(Nat) /\ Len(a) = Len(s) + Len(t) /\ Len(s) \in Nat /\ Len(t) \in Nat
      /\ \A i \in 1 .. Len(s) + Len(t) : a[i] = IF i <= Len(s) THEN s[i] ELSE t[i - Len(s)]
  BY ConcatProperties, LenProperties
<1> HIDE DEF a
<1>2. /\ \A i \in 1 .. Len(s) : a[i] = s[i] /\ i \in 1 .. Len(a)
      /\ \A i \in 1 .. Len(t) : a[Len(s) + i] = t[i] /\ Len(s) + i \in 1 .. Len(a)
      /\ \A i \in 1 .. Len(a) : i \in 1 .. Len(s) \/ i - Len(s) \in 1 .. Len(t)
  <2>1. \A i \in 1 .. Len(t) : Len(s) + i \in 1 .. Len(s) + Len(t) /\ ~(Len(s) + i <= Len(s)) /\ (Len(s) + i) - Len(s) = i
    BY <1>1
  <2>2. ASSUME NEW i \in 1 .. Len(s)
        PROVE  a[i] = s[i] /\ i \in 1 .. Len(a)
    <3>1. i \in 1 .. Len(s) + Len(t) /\ i <= Len(s)
      BY <1>1
    <3> QED  BY <1>1, <3>1
  <2>3. ASSUME NEW i \in 1 .. Len(t)
        PROVE  a[Len(s) + i] = t[i] /\ Len(s) + i \in 1 .. Len(a)
    <3>1. a[Len(s) + i] = t[(Len(s) + i) - Len(s)]
      BY <1>1, <2>1
    <3> QED  BY <1>1, <2>1, <3>1
  <2>4. ASSUME NEW i \in 1 .. Len(a)
        PROVE  i \in 1 .. Len(s) \/ i - Len(s) \in 1 .. Len(t)
    BY <1>1
  <2> QED  BY <2>2, <2>3, <2>4
<1>3. Elements(a) = Elements(s) \cup Elements(t)
  <2>1. \A x \in Elements(a) : x \in Elements(s) \cup Elements(t)
    <3> TAKE x \in Elements(a)
    <3>1. PICK i \in 1 .. Len(a) : a[i] = x
      BY DEF Elements
    <3>2. CASE i \in 1 .. Len(s)
      BY <1>2, <3>1, <3>2 DEF Elements
    <3>3. CASE i - Len(s) \in 1 .. Len(t)
      <4>1. a[Len(s) + (i - Len(s))] = t[i - Len(s)] /\ Len(s) + (i - Len(s)) = i
        BY <1>1, <1>2, <3>3
      <4> QED  BY <3>1, <3>3, <4>1 DEF Elements
    <3> QED  BY <1>2, <3>2, <3>3
  <2>2. \A x \in Elements(s) : x \in Elements(a)
    BY <1>2 DEF Elements
  <2>3. \A x \in Elements(t) : x \in Elements(a)
    BY <1>2 DEF Elements
  <2> QED  BY <2>1, <2>2, <2>3
<1>4. ASSUME Unique(s), Unique(t), Elements(s) \cap Elements(t) = {}
      PROVE  Unique(a)
  <2>1. \A i \in 1 .. Len(s), j \in 1 .. Len(t) : s[i] # t[j]
    BY <1>4 DEF Elements
  <2> SUFFICES ASSUME NEW i \in 1 .. Len(a), NEW j \in 1 .. Len(a), a[i] = a[j] PROVE i = j
    BY DEF Unique
  <2>2. \A k \in 1 .. Len(a) :
          \/ k \in 1 .. Len(s) /\ a[k] = s[k]
          \/ k - Len(s) \in 1 .. Len(t) /\ a[k] = t[k - Len(s)] /\ k \in Nat
    <3> TAKE k \in 1 .. Len(a)
    <3>1. CASE k \in 1 .. Len(s)
      BY <1>2, <3>1
    <3>2. CASE k - Len(s) \in 1 .. Len(t)
      <4>1. Len(s) + (k - Len(s)) = k
        BY <1>1
      <4> QED  BY <1>2, <3>2, <4>1
    <3> QED  BY <1>2, <3>1, <3>2
  <2>3. CASE i \in 1 .. Len(s) /\ a[i] = s[i]
    BY <1>4, <2>1, <2>2, <2>3 DEF Unique
  <2>4. CASE i - Len(s) \in 1 .. Len(t) /\ a[i] = t[i - Len(s)]
    <3>1. j - Len(s) \in 1 .. Len(t) /\ t[i - Len(s)] = t[j - Len(s)]
      BY <2>1, <2>2, <2>4
    <3>2. i - Len(s) = j - Len(s)
      BY <1>4, <2>4, <3>1 DEF Unique
    <3> QED  BY <1>1, <3>2
  <2> QED  BY <2>2, <2>3, <2>4
<1> QED
  BY <1>1, <1>3, <1>4 DEF a

(* The places of a list that is one shorter. *)
LEMMA Shift ==
  ASSUME NEW n \in Nat \ {0}, NEW i \in 1 .. n - 1
  PROVE  i + 1 \in 1 .. n /\ i \in 1 .. n /\ i # n
OBVIOUS

(* What is left of a list when its head is dropped. *)
LEMMA TailElements ==
  ASSUME NEW s \in Seq(Nat), Unique(s), s # <<>>
  PROVE  /\ Head(s) \in Elements(s) /\ Tail(s) \in Seq(Nat) /\ Unique(Tail(s))
         /\ Elements(Tail(s)) = Elements(s) \ {Head(s)}
<1> DEFINE t == Tail(s)
           f == Head(s)
<1>1. /\ t \in Seq(Nat) /\ Len(t) = Len(s) - 1 /\ Len(s) \in Nat \ {0}
      /\ \A i \in 1 .. Len(t) : t[i] = s[i + 1]
      /\ f = s[1]
  BY HeadTailProperties, LenProperties, EmptySeq
<1> HIDE DEF t, f
<1>2. f \in Elements(s)
  BY <1>1 DEF Elements
<1>3. \A x \in Elements(t) : x \in Elements(s) /\ x # f
  <2> TAKE x \in Elements(t)
  <2>1. PICK i \in 1 .. Len(t) : t[i] = x
    BY DEF Elements
  <2>2. i \in 1 .. Len(s) - 1 /\ s[i + 1] = x
    BY <1>1, <2>1
  <2>3. i + 1 \in 1 .. Len(s) /\ 1 \in 1 .. Len(s) /\ i + 1 # 1
    BY <1>1, <2>2, Shift
  <2>4. s[i + 1] # s[1]
    BY <2>3, Zenon DEF Unique
  <2> QED  BY <1>1, <2>2, <2>3, <2>4 DEF Elements
<1>4. \A x \in Elements(s) : x # f => x \in Elements(t)
  <2> TAKE x \in Elements(s)
  <2> HAVE x # f
  <2>1. PICK i \in 1 .. Len(s) : s[i] = x
    BY DEF Elements
  <2>2. i - 1 \in 1 .. Len(t)
    <3>1. i # 1
      BY <1>1, <2>1
    <3>2. Len(t) = Len(s) - 1 /\ Len(s) \in Nat \ {0}
      BY <1>1
    <3> QED  BY <3>1, <3>2
  <2>3. t[i - 1] = x
    <3>1. t[i - 1] = s[(i - 1) + 1] /\ (i - 1) + 1 = i
      BY <1>1, <2>2
    <3> QED  BY <2>1, <3>1
  <2> QED  BY <2>2, <2>3 DEF Elements
<1>5. Unique(t)
  <2> SUFFICES ASSUME NEW i \in 1 .. Len(t), NEW j \in 1 .. Len(t), t[i] = t[j] PROVE i = j
    BY DEF Unique
  <2>0. Len(s) \in Nat \ {0} /\ i \in 1 .. Len(s) - 1 /\ j \in 1 .. Len(s) - 1
    BY <1>1
  <2>1. i + 1 \in 1 .. Len(s) /\ j + 1 \in 1 .. Len(s)
    BY <2>0, Shift
  <2>2. s[i + 1] = s[j + 1]
    BY <1>1
  <2>3. i + 1 = j + 1
    BY <2>1, <2>2, Zenon DEF Unique
  <2> QED  BY <2>0, <2>3
<1> QED
  BY <1>1, <1>2, <1>3, <1>4, <1>5 DEF t, f

(* A list without repetitions has as many elements as places. *)
LEMMA UniqueCount ==
  ASSUME NEW s \in Seq(Nat), Unique(s)
  PROVE  IsFiniteSet(Elements(s)) /\ Cardinality(Elements(s)) = Len(s)
<1>1. Len(s) \in Nat /\ s \in [1 .. Len(s) -> Nat]
  BY LenProperties
<1> DEFINE D == 1 .. Len(s)
           E == Elements(s)
<1>2. s \in [D -> E] /\ (\A i, j \in D : s[i] = s[j] => i = j) /\ \A x \in E : \E i \in D : s[i] = x
  BY <1>1 DEF Elements, Unique
<1>3. s \in Bijection(D, E)
  <2> HIDE DEF D, E
  <2> QED  BY <1>2 DEF Bijection, Injection, Surjection, IsInjective
<1>4. IsFiniteSet(D) /\ Cardinality(D) = Len(s)
  <2>1. Cardinality(D) = IF 1 > Len(s) THEN 0 ELSE Len(s) - 1 + 1
    BY <1>1, FS_Interval
  <2> QED  BY <1>1, <2>1, FS_Interval
<1> HIDE DEF D, E
<1>5. IsFiniteSet(E) /\ Cardinality(E) = Cardinality(D)
  BY <1>3, <1>4, FS_Bijection DEF ExistsBijection
<1> QED
  BY <1>4, <1>5 DEF E

-----------------------------------------------------------------------------
(* allocate_frame *)

(* What n successful calls hand out: from the pool's end, then from the map. *)
LEMMA TakenFrames ==
  ASSUME pool \in Seq(Nat), Unique(pool), next \in 1 .. FrameCount + 1,
         Elements(pool) \subseteq 1 .. next - 1,
         NEW n \in Nat, n <= Available, TakeFrames(n)
  PROVE  /\ pool' \in Seq(Nat) /\ Unique(pool')
         /\ next' \in 1 .. FrameCount + 1 /\ next <= next'
         /\ Taken(n) \in Seq(Nat) /\ Len(Taken(n)) = n /\ Unique(Taken(n))
         /\ Elements(Taken(n)) \cup Elements(pool') = Elements(pool) \cup (next .. next' - 1)
         /\ Elements(Taken(n)) \cap Elements(pool') = {}
         /\ Elements(pool') \subseteq Elements(pool)
<1> DEFINE L == Len(pool)
           m == AtMost(n, L)
           T == Taken(n)
<1>0. /\ L \in Nat /\ FrameCount \in Nat
      /\ \A i \in 1 .. L : pool[i] \in 1 .. next - 1
  BY FrameMemAssumption, LenProperties DEF Elements
<1>1. m \in 0 .. L /\ m <= n /\ (m = n \/ m = L) /\ (L < n => m = L)
  BY <1>0 DEF AtMost
<1>2. next' = next + n - m /\ pool' = SubSeq(pool, 1, L - m)
  BY DEF TakeFrames
<1>3. n - m <= FrameCount + 1 - next
  BY <1>0, <1>1 DEF Available
<1> HIDE DEF m
<1>4. /\ pool' \in Seq(Nat) /\ Len(pool') = L - m
      /\ \A i \in 1 .. L - m : pool'[i] = pool[i]
  <2>1. \A i \in 1 .. L - m : pool[i] \in Nat
    BY <1>0, <1>1
  <2>2. /\ pool' \in Seq(Nat)
        /\ Len(pool') = IF 1 <= L - m THEN L - m - 1 + 1 ELSE 0
        /\ \A i \in 1 .. L - m - 1 + 1 : pool'[i] = pool[1 + i - 1]
    BY <1>0, <1>1, <1>2, <2>1, SubSeqProperties
  <2> QED  BY <1>0, <1>1, <2>2
<1>5. Unique(pool')
  <2> SUFFICES ASSUME NEW i \in 1 .. L - m, NEW j \in 1 .. L - m, pool'[i] = pool'[j] PROVE i = j
    BY <1>4 DEF Unique
  <2>1. i \in 1 .. L /\ j \in 1 .. L
    BY <1>0, <1>1
  <2>2. pool[i] = pool[j]
    BY <1>4
  <2> QED  BY <2>1, <2>2 DEF Unique
<1>6. next' \in 1 .. FrameCount + 1 /\ next <= next'
  BY <1>0, <1>1, <1>2, <1>3
<1>7. /\ T \in [1 .. n -> Nat]
      /\ \A k \in 1 .. n : T[k] = IF k <= L THEN pool[L - k + 1] ELSE next + k - L - 1
  BY <1>0 DEF Taken
<1>8. T \in Seq(Nat) /\ Len(T) = n
  BY <1>7, SeqDef, LenProperties
<1> HIDE DEF T
<1>9. Unique(T)
  <2> SUFFICES ASSUME NEW i \in 1 .. n, NEW j \in 1 .. n, T[i] = T[j] PROVE i = j
    BY <1>8 DEF Unique
  <2>1. CASE i <= L /\ j <= L
    <3>1. L - i + 1 \in 1 .. L /\ L - j + 1 \in 1 .. L
      BY <1>0, <2>1
    <3>2. L - i + 1 = L - j + 1
      BY <1>7, <2>1, <3>1 DEF Unique
    <3> QED  BY <1>0, <3>2
  <2>2. CASE i <= L /\ j > L
    <3>1. L - i + 1 \in 1 .. L
      BY <1>0, <2>2
    <3>2. T[i] = pool[L - i + 1] /\ T[j] = next + j - L - 1
      BY <1>0, <1>7, <2>2
    <3>3. pool[L - i + 1] \in 1 .. next - 1
      BY <1>0, <3>1
    <3>4. next + j - L - 1 >= next
      BY <1>0, <2>2
    <3>5. pool[L - i + 1] = next + j - L - 1
      BY <3>2
    <3> QED  BY <1>0, <3>3, <3>4, <3>5
  <2>3. CASE i > L /\ j <= L
    <3>1. L - j + 1 \in 1 .. L
      BY <1>0, <2>3
    <3>2. T[j] = pool[L - j + 1] /\ T[i] = next + i - L - 1
      BY <1>0, <1>7, <2>3
    <3>3. pool[L - j + 1] \in 1 .. next - 1
      BY <1>0, <3>1
    <3>4. next + i - L - 1 >= next
      BY <1>0, <2>3
    <3> QED  BY <3>2, <3>3, <3>4
  <2>4. CASE i > L /\ j > L
    BY <1>0, <1>7, <2>4
  <2> QED  BY <1>0, <2>1, <2>2, <2>3, <2>4
<1>10. \A x \in Elements(T) : x \in Elements(pool) \cup (next .. next' - 1) /\ x \notin Elements(pool')
  <2> TAKE x \in Elements(T)
  <2>1. PICK k \in 1 .. n : T[k] = x
    BY <1>8 DEF Elements
  <2>2. CASE k <= L
    <3>1. L - k + 1 \in L - m + 1 .. L /\ x = pool[L - k + 1]
      BY <1>0, <1>1, <1>7, <2>1, <2>2
    <3>2. x \in Elements(pool)
      BY <1>0, <1>1, <3>1 DEF Elements
    <3>3. ASSUME NEW i \in 1 .. L - m PROVE pool'[i] # x
      <4>1. i \in 1 .. L /\ i # L - k + 1 /\ L - k + 1 \in 1 .. L
        BY <1>0, <1>1, <3>1
      <4>2. pool'[i] = pool[i]
        BY <1>4
      <4> QED  BY <3>1, <4>1, <4>2 DEF Unique
    <3> QED  BY <1>4, <3>2, <3>3 DEF Elements
  <2>3. CASE k > L
    <3>1. x = next + k - L - 1 /\ x \in next .. next' - 1
      BY <1>0, <1>1, <1>2, <1>7, <2>1, <2>3
    <3>2. ASSUME NEW i \in 1 .. L - m PROVE pool'[i] # x
      <4>1. pool'[i] = pool[i] /\ i \in 1 .. L
        BY <1>0, <1>1, <1>4
      <4>2. pool'[i] \in 1 .. next - 1
        BY <1>0, <4>1
      <4> QED  BY <3>1, <4>2
    <3> QED  BY <1>4, <3>1, <3>2 DEF Elements
  <2> QED  BY <1>0, <2>2, <2>3
<1>11. \A x \in Elements(pool') : x \in Elements(pool)
  <2> TAKE x \in Elements(pool')
  <2>1. PICK i \in 1 .. L - m : pool'[i] = x
    BY <1>4 DEF Elements
  <2>2. i \in 1 .. L
    BY <1>0, <1>1
  <2>3. pool[i] = x
    BY <1>4, <2>1
  <2> QED  BY <2>2, <2>3 DEF Elements
<1>12. \A x \in Elements(pool) : x \in Elements(T) \/ x \in Elements(pool')
  <2> TAKE x \in Elements(pool)
  <2>1. PICK i \in 1 .. L : pool[i] = x
    BY DEF Elements
  <2>2. CASE i <= L - m
    <3>1. i \in 1 .. Len(pool') /\ pool'[i] = x
      BY <1>0, <1>1, <1>4, <2>1, <2>2
    <3> QED  BY <3>1 DEF Elements
  <2>3. CASE i > L - m
    <3>1. L - i + 1 \in 1 .. n /\ T[L - i + 1] = x
      <4>1. L - i + 1 \in 1 .. n /\ L - i + 1 <= L /\ L - (L - i + 1) + 1 = i
        BY <1>0, <1>1, <2>3
      <4> QED  BY <1>7, <2>1, <4>1
    <3> QED  BY <1>8, <3>1 DEF Elements
  <2> QED  BY <1>0, <1>1, <2>2, <2>3
<1>13. \A x \in next .. next' - 1 : x \in Elements(T)
  <2> TAKE x \in next .. next' - 1
  <2> DEFINE k == x - next + L + 1
  <2>1. k \in 1 .. n /\ ~(k <= L) /\ next + k - L - 1 = x
    BY <1>0, <1>1, <1>2
  <2>2. T[k] = x
    BY <1>7, <2>1
  <2> HIDE DEF k
  <2> QED  BY <1>8, <2>1, <2>2 DEF Elements
<1>14. Elements(T) \cup Elements(pool') = Elements(pool) \cup (next .. next' - 1)
  BY <1>10, <1>11, <1>12, <1>13
<1>15. Elements(T) \cap Elements(pool') = {}
  BY <1>10
<1> QED
  BY <1>4, <1>5, <1>6, <1>8, <1>9, <1>11, <1>14, <1>15 DEF T

-----------------------------------------------------------------------------
(* The inductive invariant *)

(* The frames an address space holds. *)
HeldBy(s) == Elements(owned[s]) \cup ({root[s]} \ {NoFrame})

States == {"unborn", "loading", "running", "failed", "dropping", "dropped", "gone"}

Types ==
  /\ next \in 1 .. FrameCount + 1
  /\ pool \in Seq(Nat) /\ owned \in [Spaces -> Seq(Nat)] /\ root \in [Spaces -> Nat]
  /\ pc \in [Spaces -> States]
  /\ plan \in [Spaces -> Plans \cup {<<>>}]
  /\ region \in [Spaces -> Nat] /\ page \in [Spaces -> Nat]
  /\ DOMAIN contents = Frames
  /\ DOMAIN table = Spaces /\ \A s \in Spaces : DOMAIN table[s] = Tables
  /\ DOMAIN leaf = Spaces /\ \A s \in Spaces : DOMAIN leaf[s] = Pages
  /\ slot \in [Spaces -> Int] /\ nextSlot \in 0 .. Slots /\ freeSlots \in Seq(Nat)
  /\ DOMAIN slotFrames = SlotIds
  /\ failedMaps \in Nat

(* The pool, the heap, the address spaces and the kernel stacks hold frames
   that were handed out, each in one place. *)
PoolApart == Unique(pool) /\ Elements(pool) \subseteq 1 .. next - 1

HeapApart == heap \subseteq (1 .. next - 1) \ Elements(pool)

SpacesApart ==
  \A s \in Spaces :
    /\ Unique(owned[s]) /\ root[s] \notin Elements(owned[s])
    /\ HeldBy(s) \subseteq (1 .. next - 1) \ (Elements(pool) \cup heap)
    /\ \A r \in Spaces : r # s => HeldBy(r) \cap HeldBy(s) = {}

StacksApart ==
  \A n \in SlotIds :
    /\ slotFrames[n] \subseteq (1 .. next - 1) \ (Elements(pool) \cup heap)
    /\ \A s \in Spaces : HeldBy(s) \cap slotFrames[n] = {}
    /\ \A m \in SlotIds : m # n => slotFrames[m] \cap slotFrames[n] = {}

Apart == PoolApart /\ HeapApart /\ SpacesApart /\ StacksApart

(* Frames handed out that nobody holds. *)
InUse(f) ==
  \/ f \in Elements(pool) \/ f \in heap
  \/ \E s \in Spaces : f \in HeldBy(s)
  \/ \E n \in SlotIds : f \in slotFrames[n]

Unheld == {f \in 1 .. next - 1 : ~InUse(f)}

LossCounted == Cardinality(Unheld) <= failedMaps

(* What a space has at each point of its life. *)
Born(s) ==
  /\ pc[s] = "unborn" => /\ root[s] = NoFrame /\ owned[s] = <<>> /\ region[s] = 1 /\ page[s] = 0
                         /\ \A p \in Pages : leaf[s][p] = NoFrame
                         /\ \A t \in Tables : table[s][t] = NoFrame
  /\ pc[s] \in {"loading", "running", "failed", "dropping"} => root[s] # NoFrame

MappedOwned(s) ==
  pc[s] \in {"loading", "running"} =>
    /\ \A p \in Pages : leaf[s][p] \in Elements(owned[s]) \cup {NoFrame}
    /\ \A t \in Tables : table[s][t] \in Elements(owned[s]) \cup {NoFrame}

(* A page that is mapped and not yet filled is one of the region in work. *)
Unfilled(s, p) ==
  /\ pc[s] = "loading" /\ region[s] \in 1 .. Len(plan[s])
  /\ \E i \in 1 .. page[s] : i <= Len(Region(s).pages) /\ Region(s).pages[i] = p

PagesFilled(s) ==
  pc[s] \in {"loading", "running"} =>
    \A p \in Pages : leaf[s][p] # NoFrame => contents[leaf[s][p]] \subseteq {s} \/ Unfilled(s, p)

(* The image is read from its first region on, each from its first page on. *)
Progress(s) ==
  pc[s] = "loading" =>
    /\ region[s] > 0
    /\ region[s] <= Len(plan[s]) => page[s] <= Len(Region(s).pages)

SpaceOK(s) == Born(s) /\ MappedOwned(s) /\ PagesFilled(s) /\ Progress(s)

(* A slot that was handed out is free or used, and only in one place. *)
SlotsApart ==
  /\ Unique(freeSlots) /\ Elements(freeSlots) \subseteq 0 .. nextSlot - 1
  /\ \A s \in Spaces :
       /\ pc[s] \in {"running", "dropping", "dropped"} => slot[s] \in (0 .. nextSlot - 1) \ Elements(freeSlots)
       /\ pc[s] \notin {"running", "dropping", "dropped"} => slot[s] = NoSlot
       /\ \A r \in Spaces : r # s /\ slot[r] = slot[s] => slot[s] = NoSlot
  /\ \A n \in 0 .. nextSlot - 1 : n \in Elements(freeSlots) \/ \E s \in Spaces : slot[s] = n
  /\ \A n \in SlotIds : IF n < nextSlot THEN Cardinality(slotFrames[n]) = StackPages
                        ELSE slotFrames[n] = {}

IInv == Types /\ Apart /\ LossCounted /\ SlotsApart /\ \A s \in Spaces : SpaceOK(s)

(* What the kernel's root leads to grows during boot only, and no space is
   created before it is complete: a copy is never behind the original. *)
KernelInv ==
  /\ "window" \in kernelRoot /\ kernelRoot \subseteq KernelRegions
  /\ heap # {} => "heap" \in kernelRoot
  /\ booted => kernelRoot = KernelRegions
  /\ ~booted => nextSlot = 0 /\ \A s \in Spaces : pc[s] = "unborn"
  /\ booted \in BOOLEAN /\ kernelHalf \in [Spaces -> SUBSET KernelRegions]
  /\ \A s \in Spaces : pc[s] \in {"loading", "running"} => kernelHalf[s] = KernelRegions

-----------------------------------------------------------------------------
(* How frames move *)

(* Frames handed out before, and between two points of the cursor. *)
LEMMA Cursor ==
  ASSUME NEW a \in Nat, NEW b \in Nat, 1 <= a, a <= b
  PROVE  /\ 1 .. a - 1 \subseteq 1 .. b - 1
         /\ \A f \in a .. b - 1 : f \in 1 .. b - 1 /\ f \notin 1 .. a - 1
         /\ \A f \in 1 .. b - 1 : f \in 1 .. a - 1 \/ f \in a .. b - 1
OBVIOUS

(* Frames just taken are held by nobody else. *)
LEMMA FreshFrames ==
  ASSUME Types, Apart, NEW n \in Nat, n <= Available, TakeFrames(n)
  PROVE  /\ next' \in 1 .. FrameCount + 1 /\ next <= next'
         /\ pool' \in Seq(Nat) /\ PoolApart'
         /\ Taken(n) \in Seq(Nat) /\ Len(Taken(n)) = n /\ Unique(Taken(n))
         /\ Elements(Taken(n)) \subseteq (1 .. next' - 1) \ (Elements(pool') \cup heap)
         /\ \A s \in Spaces : Elements(Taken(n)) \cap HeldBy(s) = {}
         /\ \A k \in SlotIds : Elements(Taken(n)) \cap slotFrames[k] = {}
         /\ \A f \in 1 .. next' - 1 : f \in 1 .. next - 1 \/ f \in Elements(Taken(n))
         /\ Elements(pool') \subseteq Elements(pool) 
         /\ Elements(pool) \subseteq Elements(pool') \cup Elements(Taken(n))
         /\ 1 .. next - 1 \subseteq 1 .. next' - 1
<1> DEFINE T == Elements(Taken(n))
           P == Elements(pool)
           Q == Elements(pool')
<1>1. /\ pool \in Seq(Nat) /\ Unique(pool) /\ next \in 1 .. FrameCount + 1
      /\ P \subseteq 1 .. next - 1
  BY DEF Types, Apart, PoolApart
<1>2. /\ pool' \in Seq(Nat) /\ Unique(pool')
      /\ next' \in 1 .. FrameCount + 1 /\ next <= next'
      /\ Taken(n) \in Seq(Nat) /\ Len(Taken(n)) = n /\ Unique(Taken(n))
      /\ T \cup Q = P \cup (next .. next' - 1)
      /\ T \cap Q = {} /\ Q \subseteq P
  BY <1>1, TakenFrames
<1>3. next \in Nat /\ next' \in Nat /\ next >= 1
  BY <1>1, <1>2, FrameMemAssumption
<1> DEFINE old == 1 .. next - 1
           new == next .. next' - 1
           all == 1 .. next' - 1
<1>4. /\ old \subseteq all
      /\ \A f \in new : f \in all /\ f \notin old
      /\ \A f \in all : f \in old \/ f \in new
  BY <1>2, <1>3, Cursor
<1>5. /\ P \subseteq old
      /\ \A f \in heap : f \in old /\ f \notin P
      /\ \A s \in Spaces : \A f \in HeldBy(s) : f \in old /\ f \notin P
      /\ \A k \in SlotIds : \A f \in slotFrames[k] : f \in old /\ f \notin P
  BY <1>1 DEF Apart, HeapApart, SpacesApart, StacksApart, P
<1>6. T \cup Q = P \cup new /\ T \cap Q = {} /\ Q \subseteq P
  BY <1>2
<1> HIDE DEF T, P, Q, old, new, all
<1>7. PoolApart'
  BY <1>2, <1>4, <1>5, <1>6 DEF PoolApart, Q, all
<1>8. T \subseteq all \ (Q \cup heap)
  BY <1>4, <1>5, <1>6
<1>9. /\ \A s \in Spaces : T \cap HeldBy(s) = {}
      /\ \A k \in SlotIds : T \cap slotFrames[k] = {}
  BY <1>4, <1>5, <1>6
<1>10. \A f \in all : f \in old \/ f \in T
  BY <1>4, <1>5, <1>6
<1>11. Q \subseteq P /\ P \subseteq Q \cup T /\ old \subseteq all
  BY <1>4, <1>6
<1> QED
  BY <1>2, <1>7, <1>8, <1>9, <1>10, <1>11 DEF T, P, Q, old, new, all

(* The heap takes frames, once. *)
LEMMA HeapTakes ==
  ASSUME Types, Apart, heap = {}, NEW n \in Nat, n <= Available, TakeFrames(n),
         heap' = Elements(Taken(n)), owned' = owned, root' = root, slotFrames' = slotFrames
  PROVE  Apart' /\ Unheld' \subseteq Unheld
<1> DEFINE T == Elements(Taken(n))
<1>0. \A s \in Spaces : HeldBy(s)' = HeldBy(s)
  BY DEF HeldBy
<1>1. /\ PoolApart'
      /\ T \subseteq (1 .. next' - 1) \ Elements(pool')
      /\ \A s \in Spaces : T \cap HeldBy(s) = {}
      /\ \A k \in SlotIds : T \cap slotFrames[k] = {}
      /\ \A f \in 1 .. next' - 1 : f \in 1 .. next - 1 \/ f \in T
      /\ Elements(pool') \subseteq Elements(pool)
      /\ Elements(pool) \subseteq Elements(pool') \cup T
      /\ 1 .. next - 1 \subseteq 1 .. next' - 1
  BY FreshFrames
<1> HIDE DEF T
<1>2. HeapApart'
  BY <1>1 DEF HeapApart, T
<1>3. SpacesApart'
  <2> SUFFICES ASSUME NEW s \in Spaces
               PROVE  /\ Unique(owned[s]) /\ root[s] \notin Elements(owned[s])
                      /\ HeldBy(s) \subseteq (1 .. next' - 1) \ (Elements(pool') \cup T)
                      /\ \A r \in Spaces : r # s => HeldBy(r) \cap HeldBy(s) = {}
    BY <1>0 DEF SpacesApart, T
  <2> QED  BY <1>1 DEF Apart, SpacesApart
<1>4. StacksApart'
  <2> SUFFICES ASSUME NEW k \in SlotIds
               PROVE  /\ slotFrames[k] \subseteq (1 .. next' - 1) \ (Elements(pool') \cup T)
                      /\ \A s \in Spaces : HeldBy(s) \cap slotFrames[k] = {}
                      /\ \A m \in SlotIds : m # k => slotFrames[m] \cap slotFrames[k] = {}
    BY <1>0 DEF StacksApart, T
  <2> QED  BY <1>1 DEF Apart, StacksApart
<1>5. Unheld' \subseteq Unheld
  <2>1. \A f : InUse(f)' <=> \/ f \in Elements(pool') \/ f \in T
                             \/ \E s \in Spaces : f \in HeldBy(s)
                             \/ \E k \in SlotIds : f \in slotFrames[k]
    BY <1>0 DEF InUse, T
  <2> QED  BY <1>1, <2>1 DEF Unheld, InUse
<1> QED
  BY <1>1, <1>2, <1>3, <1>4, <1>5 DEF Apart

(* A new kernel stack takes frames; its slot had none. *)
LEMMA StackTakes ==
  ASSUME Types, Apart, NEW n \in Nat, n <= Available, TakeFrames(n),
         NEW j \in SlotIds, slotFrames[j] = {},
         slotFrames' = [slotFrames EXCEPT ![j] = Elements(Taken(n))],
         owned' = owned, root' = root, heap' = heap
  PROVE  /\ Apart' /\ Unheld' \subseteq Unheld
         /\ Cardinality(slotFrames'[j]) = n
<1> DEFINE T == Elements(Taken(n))
<1>0. /\ \A s \in Spaces : HeldBy(s)' = HeldBy(s)
      /\ slotFrames'[j] = T /\ \A k \in SlotIds : k # j => slotFrames'[k] = slotFrames[k]
  BY DEF HeldBy, Types
<1>1. /\ PoolApart'
      /\ T \subseteq (1 .. next' - 1) \ (Elements(pool') \cup heap)
      /\ \A s \in Spaces : T \cap HeldBy(s) = {}
      /\ \A k \in SlotIds : T \cap slotFrames[k] = {}
      /\ \A f \in 1 .. next' - 1 : f \in 1 .. next - 1 \/ f \in T
      /\ Elements(pool') \subseteq Elements(pool)
      /\ Elements(pool) \subseteq Elements(pool') \cup T
      /\ 1 .. next - 1 \subseteq 1 .. next' - 1
  BY FreshFrames
<1>2. Cardinality(T) = n
  BY FreshFrames, UniqueCount
<1> HIDE DEF T
<1>3. HeapApart'
  BY <1>1 DEF Apart, HeapApart
<1>4. SpacesApart'
  <2> SUFFICES ASSUME NEW s \in Spaces
               PROVE  /\ Unique(owned[s]) /\ root[s] \notin Elements(owned[s])
                      /\ HeldBy(s) \subseteq (1 .. next' - 1) \ (Elements(pool') \cup heap)
                      /\ \A r \in Spaces : r # s => HeldBy(r) \cap HeldBy(s) = {}
    BY <1>0 DEF SpacesApart
  <2> QED  BY <1>1 DEF Apart, SpacesApart
<1>5. StacksApart'
  <2> SUFFICES ASSUME NEW k \in SlotIds
               PROVE  /\ slotFrames'[k] \subseteq (1 .. next' - 1) \ (Elements(pool') \cup heap)
                      /\ \A s \in Spaces : HeldBy(s) \cap slotFrames'[k] = {}
                      /\ \A m \in SlotIds : m # k => slotFrames'[m] \cap slotFrames'[k] = {}
    BY <1>0 DEF StacksApart
  <2>1. CASE k = j
    BY <1>0, <1>1, <2>1
  <2>2. CASE k # j
    <3>1. /\ slotFrames[k] \subseteq (1 .. next - 1) \ (Elements(pool) \cup heap)
          /\ \A s \in Spaces : HeldBy(s) \cap slotFrames[k] = {}
          /\ \A m \in SlotIds : m # k => slotFrames[m] \cap slotFrames[k] = {}
      BY DEF Apart, StacksApart
    <3> QED  BY <1>0, <1>1, <2>2, <3>1
  <2> QED  BY <2>1, <2>2
<1>6. Unheld' \subseteq Unheld
  <2>1. \A f : InUse(f)' <=> \/ f \in Elements(pool') \/ f \in heap
                             \/ \E s \in Spaces : f \in HeldBy(s)
                             \/ \E k \in SlotIds : f \in slotFrames'[k]
    BY <1>0 DEF InUse
  <2>2. \A f : (\E k \in SlotIds : f \in slotFrames[k]) => \E k \in SlotIds : f \in slotFrames'[k]
    BY <1>0
  <2>3. \A f \in T : \E k \in SlotIds : f \in slotFrames'[k]
    BY <1>0
  <2> QED  BY <1>1, <2>1, <2>2, <2>3 DEF Unheld, InUse
<1> QED
  BY <1>0, <1>1, <1>2, <1>3, <1>4, <1>5, <1>6 DEF Apart

(* An address space takes frames; those it does not record are lost. *)
LEMMA SpaceTakes ==
  ASSUME Types, Apart, NEW n \in Nat, n <= Available, TakeFrames(n),
         NEW s \in Spaces, NEW X, X \subseteq Elements(Taken(n)),
         HeldBy(s)' = HeldBy(s) \cup X,
         Unique(owned'[s]), root'[s] \notin Elements(owned'[s]),
         \A r \in Spaces : r # s => owned'[r] = owned[r] /\ root'[r] = root[r],
         heap' = heap, slotFrames' = slotFrames
  PROVE  Apart' /\ Unheld' \subseteq Unheld \cup (Elements(Taken(n)) \ X)
<1> DEFINE T == Elements(Taken(n))
           H(r) == HeldBy(r)'
<1>0. /\ H(s) = HeldBy(s) \cup X
      /\ \A r \in Spaces : r # s => H(r) = HeldBy(r)
  BY DEF HeldBy
<1>1. /\ PoolApart'
      /\ T \subseteq (1 .. next' - 1) \ (Elements(pool') \cup heap)
      /\ \A r \in Spaces : T \cap HeldBy(r) = {}
      /\ \A k \in SlotIds : T \cap slotFrames[k] = {}
      /\ \A f \in 1 .. next' - 1 : f \in 1 .. next - 1 \/ f \in T
      /\ Elements(pool') \subseteq Elements(pool)
      /\ Elements(pool) \subseteq Elements(pool') \cup T
      /\ 1 .. next - 1 \subseteq 1 .. next' - 1
  BY FreshFrames
<1>2. X \subseteq T
  OBVIOUS
<1> HIDE DEF T, H
<1>3. HeapApart'
  BY <1>1 DEF Apart, HeapApart
<1>4. SpacesApart'
  <2> SUFFICES ASSUME NEW r \in Spaces
               PROVE  /\ Unique(owned'[r]) /\ root'[r] \notin Elements(owned'[r])
                      /\ H(r) \subseteq (1 .. next' - 1) \ (Elements(pool') \cup heap)
                      /\ \A q \in Spaces : q # r => H(q) \cap H(r) = {}
    BY DEF SpacesApart, H
  <2>1. /\ HeldBy(r) \subseteq (1 .. next - 1) \ (Elements(pool) \cup heap)
        /\ \A q \in Spaces : q # r => HeldBy(q) \cap HeldBy(r) = {}
        /\ r # s => Unique(owned'[r]) /\ root'[r] \notin Elements(owned'[r])
    BY DEF Apart, SpacesApart
  <2>2. CASE r = s
    <3>1. H(r) \subseteq (1 .. next' - 1) \ (Elements(pool') \cup heap)
      BY <1>0, <1>1, <1>2, <2>1, <2>2
    <3>2. ASSUME NEW q \in Spaces, q # r PROVE H(q) \cap H(r) = {}
      <4>1. H(q) = HeldBy(q) /\ H(r) = HeldBy(r) \cup X /\ HeldBy(q) \cap HeldBy(r) = {} /\ T \cap HeldBy(q) = {}
        BY <1>0, <1>1, <2>1, <2>2, <3>2
      <4> QED  BY <1>2, <4>1
    <3> QED  BY <2>2, <3>1, <3>2
  <2>3. CASE r # s
    BY <1>0, <1>1, <1>2, <2>1, <2>3
  <2> QED  BY <2>2, <2>3
<1>5. StacksApart'
  <2> SUFFICES ASSUME NEW k \in SlotIds
               PROVE  /\ slotFrames[k] \subseteq (1 .. next' - 1) \ (Elements(pool') \cup heap)
                      /\ \A r \in Spaces : H(r) \cap slotFrames[k] = {}
                      /\ \A m \in SlotIds : m # k => slotFrames[m] \cap slotFrames[k] = {}
    BY DEF StacksApart, H
  <2> QED  BY <1>0, <1>1, <1>2 DEF Apart, StacksApart
<1>6. Unheld' \subseteq Unheld \cup (T \ X)
  <2>1. \A f : InUse(f)' <=> \/ f \in Elements(pool') \/ f \in heap
                             \/ \E r \in Spaces : f \in H(r)
                             \/ \E k \in SlotIds : f \in slotFrames[k]
    BY DEF InUse, H
  <2>2. \A f : (\E r \in Spaces : f \in HeldBy(r)) => \E r \in Spaces : f \in H(r)
    BY <1>0
  <2>3. \A f \in X : \E r \in Spaces : f \in H(r)
    BY <1>0
  <2> QED  BY <1>1, <2>1, <2>2, <2>3 DEF Unheld, InUse
<1> QED
  BY <1>1, <1>3, <1>4, <1>5, <1>6 DEF Apart, T

(* An address space gives a frame back to the pool. *)
LEMMA SpaceGives ==
  ASSUME Types, Apart, NEW s \in Spaces, NEW f \in HeldBy(s), f \in Nat, Release(f), next' = next,
         HeldBy(s)' = HeldBy(s) \ {f},
         Unique(owned'[s]), root'[s] \notin Elements(owned'[s]),
         \A r \in Spaces : r # s => owned'[r] = owned[r] /\ root'[r] = root[r],
         heap' = heap, slotFrames' = slotFrames
  PROVE  Apart' /\ Unheld' \subseteq Unheld /\ pool' \in Seq(Nat)
<1> DEFINE H(r) == HeldBy(r)'
           P == Elements(pool)
           Q == Elements(pool')
<1>0. /\ H(s) = HeldBy(s) \ {f}
      /\ \A r \in Spaces : r # s => H(r) = HeldBy(r)
  BY DEF HeldBy
<1>1. f \notin P /\ f \in 1 .. next - 1 /\ f \notin heap
  BY DEF Apart, SpacesApart
<1>2. pool' = Append(pool, f)
  BY <1>1 DEF Release, InPool, Elements
<1>3. pool' \in Seq(Nat) /\ Q = P \cup {f} /\ Unique(pool')
  BY <1>1, <1>2, AppendElements DEF Types, Apart, PoolApart
<1> HIDE DEF H, P, Q
<1>4. PoolApart'
  BY <1>1, <1>3 DEF Apart, PoolApart, P, Q
<1>5. HeapApart'
  BY <1>1, <1>3 DEF Apart, HeapApart, P, Q
<1>6. \A r \in Spaces : r # s => f \notin HeldBy(r)
  BY DEF Apart, SpacesApart
<1>7. SpacesApart'
  <2> SUFFICES ASSUME NEW r \in Spaces
               PROVE  /\ Unique(owned'[r]) /\ root'[r] \notin Elements(owned'[r])
                      /\ H(r) \subseteq (1 .. next - 1) \ (Q \cup heap)
                      /\ \A q \in Spaces : q # r => H(q) \cap H(r) = {}
    BY DEF SpacesApart, H, Q
  <2>1. /\ HeldBy(r) \subseteq (1 .. next - 1) \ (P \cup heap)
        /\ \A q \in Spaces : q # r => HeldBy(q) \cap HeldBy(r) = {}
        /\ r # s => Unique(owned'[r]) /\ root'[r] \notin Elements(owned'[r])
    BY DEF Apart, SpacesApart, P
  <2>2. CASE r = s
    BY <1>0, <1>3, <2>1, <2>2
  <2>3. CASE r # s
    BY <1>0, <1>3, <1>6, <2>1, <2>3
  <2> QED  BY <2>2, <2>3
<1>8. StacksApart'
  <2> SUFFICES ASSUME NEW k \in SlotIds
               PROVE  /\ slotFrames[k] \subseteq (1 .. next - 1) \ (Q \cup heap)
                      /\ \A r \in Spaces : H(r) \cap slotFrames[k] = {}
                      /\ \A m \in SlotIds : m # k => slotFrames[m] \cap slotFrames[k] = {}
    BY DEF StacksApart, H, Q
  <2> QED  BY <1>0, <1>3 DEF Apart, StacksApart, P
<1>9. Unheld' \subseteq Unheld
  <2>1. \A x : InUse(x)' <=> \/ x \in Q \/ x \in heap
                             \/ \E r \in Spaces : x \in H(r)
                             \/ \E k \in SlotIds : x \in slotFrames[k]
    BY DEF InUse, H, Q
  <2>2. \A x : (\E r \in Spaces : x \in HeldBy(r)) => x = f \/ \E r \in Spaces : x \in H(r)
    BY <1>0
  <2> QED  BY <1>3, <2>1, <2>2 DEF Unheld, InUse, P
<1> QED
  BY <1>3, <1>4, <1>5, <1>7, <1>8, <1>9 DEF Apart

(* Nothing moves. *)
LEMMA SameFrames ==
  ASSUME Apart, next' = next, pool' = pool, heap' = heap, owned' = owned, root' = root,
         slotFrames' = slotFrames
  PROVE  Apart' /\ Unheld' \subseteq Unheld
<1>1. \A s \in Spaces : HeldBy(s)' = HeldBy(s)
  BY DEF HeldBy
<1>2. PoolApart' /\ HeapApart'
  BY DEF Apart, PoolApart, HeapApart
<1>3. SpacesApart'
  BY <1>1 DEF Apart, SpacesApart
<1>4. StacksApart'
  BY <1>1 DEF Apart, StacksApart
<1>5. \A f : InUse(f)' <=> InUse(f)
  BY <1>1 DEF InUse
<1> QED
  BY <1>2, <1>3, <1>4, <1>5 DEF Apart, Unheld

(* The frames no one holds are finitely many. *)
LEMMA UnheldFinite ==
  ASSUME Types
  PROVE  IsFiniteSet(Unheld) /\ Cardinality(Unheld) \in Nat
<1>1. next \in Nat
  BY FrameMemAssumption DEF Types
<1>2. IsFiniteSet(1 .. next - 1)
  BY <1>1, FS_Interval
<1>3. Unheld \subseteq 1 .. next - 1
  BY DEF Unheld
<1> QED
  BY <1>2, <1>3, FS_Subset, FS_CardinalityType

(* A step that frees no mapping and leaves the unheld frames keeps the count of losses. *)
LEMMA LossKept ==
  ASSUME Types, Types', LossCounted, failedMaps' = failedMaps, Unheld' \subseteq Unheld
  PROVE  LossCounted'
<1> DEFINE A == Unheld
           B == Unheld'
<1>1. IsFiniteSet(A) /\ Cardinality(A) \in Nat /\ Cardinality(A) <= failedMaps /\ failedMaps \in Nat
  BY UnheldFinite DEF LossCounted, Types
<1>2. B \subseteq A
  OBVIOUS
<1> HIDE DEF A, B
<1>3. IsFiniteSet(B) /\ Cardinality(B) <= Cardinality(A)
  BY <1>1, <1>2, FS_Subset
<1>4. Cardinality(B) \in Nat
  BY <1>3, FS_CardinalityType
<1>5. Cardinality(B) <= failedMaps
  BY <1>1, <1>3, <1>4
<1> QED
  BY <1>5 DEF LossCounted, B

(* One more frame lost, one more failure counted. *)
LEMMA LossAdded ==
  ASSUME Types, Types', LossCounted, failedMaps' = failedMaps + 1, NEW f, Unheld' \subseteq Unheld \cup {f}
  PROVE  LossCounted'
<1> DEFINE A == Unheld
           B == Unheld'
<1>1. IsFiniteSet(A) /\ Cardinality(A) \in Nat /\ Cardinality(A) <= failedMaps /\ failedMaps \in Nat
  BY UnheldFinite DEF LossCounted, Types
<1>2. B \subseteq A \cup {f}
  OBVIOUS
<1> HIDE DEF A, B
<1>3. IsFiniteSet(A \cup {f}) /\ (Cardinality(A \cup {f}) = Cardinality(A) \/ Cardinality(A \cup {f}) = Cardinality(A) + 1)
  BY <1>1, FS_AddElement
<1>4. IsFiniteSet(B) /\ Cardinality(B) <= Cardinality(A \cup {f})
  BY <1>2, <1>3, FS_Subset
<1>5. Cardinality(B) \in Nat
  BY <1>4, FS_CardinalityType
<1>6. Cardinality(B) <= failedMaps + 1
  BY <1>1, <1>3, <1>4, <1>5
<1> QED
  BY <1>6 DEF LossCounted, B

-----------------------------------------------------------------------------
(* A step of one address space *)

Same(r) ==
  /\ pc'[r] = pc[r] /\ plan'[r] = plan[r] /\ region'[r] = region[r] /\ page'[r] = page[r]
  /\ root'[r] = root[r] /\ owned'[r] = owned[r] /\ table'[r] = table[r] /\ leaf'[r] = leaf[r]
  /\ \A f \in Elements(owned[r]) : contents'[f] \subseteq contents[f]

(* A space that a step leaves alone stays sound. *)
LEMMA OtherSpace ==
  ASSUME NEW r \in Spaces, SpaceOK(r), Same(r)
  PROVE  SpaceOK(r)'
<1>1. Born(r)'
  BY DEF Same, SpaceOK, Born
<1>2. MappedOwned(r)'
  BY DEF Same, SpaceOK, MappedOwned
<1>3. PagesFilled(r)'
  <2> SUFFICES ASSUME pc[r] \in {"loading", "running"}, NEW p \in Pages, leaf[r][p] # NoFrame
               PROVE  contents'[leaf[r][p]] \subseteq {r} \/ Unfilled(r, p)'
    BY DEF PagesFilled, Same
  <2>1. leaf[r][p] \in Elements(owned[r])
    BY DEF SpaceOK, MappedOwned
  <2>2. contents'[leaf[r][p]] \subseteq contents[leaf[r][p]]
    BY <2>1 DEF Same
  <2>3. Unfilled(r, p) => Unfilled(r, p)'
    BY DEF Same, Unfilled, Region
  <2>4. contents[leaf[r][p]] \subseteq {r} \/ Unfilled(r, p)
    BY DEF SpaceOK, PagesFilled
  <2> QED  BY <2>2, <2>3, <2>4
<1>4. Progress(r)'
  BY DEF Same, SpaceOK, Progress, Region
<1> QED
  BY <1>1, <1>2, <1>3, <1>4 DEF SpaceOK

(* The points of a space's life at which it has a kernel stack slot. *)
WithSlot == {"running", "dropping", "dropped"}

(* Kernel stack slots, when none changes hands. *)
LEMMA SameSlots ==
  ASSUME SlotsApart, slot' = slot, nextSlot' = nextSlot, freeSlots' = freeSlots, slotFrames' = slotFrames,
         \A s \in Spaces : (pc'[s] \in WithSlot) <=> (pc[s] \in WithSlot)
  PROVE  SlotsApart'
BY DEF SlotsApart, WithSlot

(* The space that moves, and the others. *)
LEMMA OneSpace ==
  ASSUME IInv, NEW s \in Spaces, Types', Apart', LossCounted', SlotsApart', SpaceOK(s)',
         \A r \in Spaces : r # s => Same(r)
  PROVE  IInv'
<1>1. \A r \in Spaces : r # s => SpaceOK(r)'
  BY OtherSpace DEF IInv
<1> QED
  BY <1>1 DEF IInv

(* An image is a list of regions, a region a list of pages. *)
LEMMA PlanShape ==
  ASSUME NEW image \in Plans
  PROVE  /\ Len(image) \in Nat
         /\ \A i \in 1 .. Len(image) : /\ Len(image[i].pages) \in Nat
                                       /\ \A j \in 1 .. Len(image[i].pages) : image[i].pages[j] \in Pages
<1> DEFINE R == [pages : Seq(Pages), checked : BOOLEAN]
<1>1. image \in Seq(R)
  BY FrameMemAssumption
<1>2. Len(image) \in Nat
  BY <1>1, LenProperties
<1>3. \A i \in 1 .. Len(image) : image[i] \in R
  <2> HIDE DEF R
  <2> QED  BY <1>1, ElementOfSeq
<1>4. \A i \in 1 .. Len(image) : image[i].pages \in Seq(Pages)
  BY <1>3
<1> QED
  BY <1>2, <1>4, LenProperties, ElementOfSeq

(* init_heap keeps the invariant. *)
LEMMA InitHeapStep ==
  ASSUME IInv, InitHeap
  PROVE  IInv'
<1> USE DEF IInv
<1>1. PICK n \in HeapSizes : n <= Available /\ TakeFrames(n) /\ heap' = Elements(Taken(n))
  BY DEF InitHeap
<1>2. n \in Nat /\ heap = {}
  BY FrameMemAssumption DEF InitHeap
<1>3. /\ UNCHANGED <<contents, pc, failedMaps>> /\ UNCHANGED <<plan, region, page, root, owned, table, leaf>>
      /\ UNCHANGED <<slot, nextSlot, freeSlots, slotFrames>>
  BY DEF InitHeap, spaceVars, stackVars
<1>4. Apart' /\ Unheld' \subseteq Unheld
  BY <1>1, <1>2, <1>3, HeapTakes
<1>5. next' \in 1 .. FrameCount + 1 /\ pool' \in Seq(Nat)
  BY <1>1, <1>2, FreshFrames
<1>6. Types'
  BY <1>3, <1>5 DEF Types
<1>7. LossCounted'
  BY <1>3, <1>4, <1>6, LossKept
<1>8. SlotsApart'
  BY <1>3, SameSlots
<1>9. \A r \in Spaces : Same(r)
  BY <1>3 DEF Same
<1> QED
  BY <1>4, <1>6, <1>7, <1>8, <1>9, OtherSpace

(* The guard page check keeps the invariant. *)
LEMMA GuardPageStep ==
  ASSUME IInv, KernelInv, GuardPageCheck
  PROVE  IInv'
<1> USE DEF IInv
<1>1. /\ nextSlot = 0 /\ StackPages <= Available /\ TakeFrames(StackPages)
      /\ slotFrames' = [slotFrames EXCEPT ![0] = Elements(Taken(StackPages))]
      /\ nextSlot' = 1 /\ freeSlots' = <<0>>
      /\ UNCHANGED <<heap, contents, pc, slot, failedMaps>>
      /\ UNCHANGED <<plan, region, page, root, owned, table, leaf>>
  BY DEF GuardPageCheck, spaceVars, KernelInv
<1>2. StackPages \in Nat /\ 0 \in SlotIds /\ Slots \in Nat \ {0}
  BY FrameMemAssumption DEF SlotIds
<1>3. \A k \in SlotIds : slotFrames[k] = {}
  BY <1>1, FrameMemAssumption DEF SlotsApart, SlotIds
<1>4. Apart' /\ Unheld' \subseteq Unheld /\ Cardinality(slotFrames'[0]) = StackPages
  BY <1>1, <1>2, <1>3, StackTakes
<1>5. next' \in 1 .. FrameCount + 1 /\ pool' \in Seq(Nat)
  BY <1>1, <1>2, FreshFrames
<1>6. /\ <<0>> \in Seq(Nat) /\ Len(<<0>>) = 1 /\ <<0>>[1] = 0
  OBVIOUS
<1>7. Elements(freeSlots') = {0} /\ Unique(freeSlots')
  BY <1>1, <1>6 DEF Elements, Unique
<1>8. Types'
  <2>1. nextSlot' \in 0 .. Slots /\ freeSlots' \in Seq(Nat) /\ DOMAIN slotFrames' = SlotIds
    BY <1>1, <1>2, <1>6 DEF Types
  <2> QED  BY <1>1, <1>5, <2>1 DEF Types
<1>9. LossCounted'
  BY <1>1, <1>4, <1>8, LossKept
<1>10. SlotsApart'
  <2>1. \A s \in Spaces : pc[s] \notin WithSlot /\ slot[s] = NoSlot
    BY <1>1 DEF SlotsApart, WithSlot
  <2>2. \A s \in Spaces :
         /\ pc'[s] \in {"running", "dropping", "dropped"} => slot'[s] \in (0 .. nextSlot' - 1) \ Elements(freeSlots')
         /\ pc'[s] \notin {"running", "dropping", "dropped"} => slot'[s] = NoSlot
         /\ \A r \in Spaces : r # s /\ slot'[r] = slot'[s] => slot'[s] = NoSlot
    BY <1>1, <2>1 DEF WithSlot
  <2>3. \A n \in 0 .. nextSlot' - 1 : n \in Elements(freeSlots')
    BY <1>1, <1>7
  <2>4. ASSUME NEW n \in SlotIds
        PROVE  IF n < nextSlot' THEN Cardinality(slotFrames'[n]) = StackPages ELSE slotFrames'[n] = {}
    <3>1. CASE n = 0
      BY <1>1, <1>4, <3>1
    <3>2. CASE n # 0
      <4>1. ~(n < 1) /\ slotFrames'[n] = slotFrames[n]
        BY <1>1, <1>2, <3>2 DEF SlotIds, Types
      <4> QED  BY <1>1, <1>3, <4>1
    <3> QED  BY <3>1, <3>2
  <2>5. Elements(freeSlots') \subseteq 0 .. nextSlot' - 1
    BY <1>1, <1>7
  <2> QED  BY <1>7, <2>2, <2>3, <2>4, <2>5 DEF SlotsApart
<1>11. \A r \in Spaces : Same(r)
  BY <1>1 DEF Same
<1> QED
  BY <1>4, <1>8, <1>9, <1>10, <1>11, OtherSpace

(* AddressSpace::new *)
LEMMA NewStep ==
  ASSUME IInv, NEW s \in Spaces, New(s)
  PROVE  IInv'
<1> USE DEF IInv
<1>0. /\ pc[s] = "unborn"
      /\ UNCHANGED <<heap, region, page, owned, table, leaf, failedMaps>>
      /\ UNCHANGED <<slot, nextSlot, freeSlots, slotFrames>>
  BY DEF New, kernelVars, stackVars
<1>1. PICK image \in Plans : plan' = [plan EXCEPT ![s] = image]
  BY DEF New
<1>2. /\ root[s] = NoFrame /\ owned[s] = <<>> /\ region[s] = 1 /\ page[s] = 0
      /\ \A p \in Pages : leaf[s][p] = NoFrame
      /\ \A t \in Tables : table[s][t] = NoFrame
  BY <1>0 DEF SpaceOK, Born
<1>3. plan'[s] = image /\ \A r \in Spaces : r # s => plan'[r] = plan[r]
  BY <1>1 DEF Types
<1>4. CASE ~(Available > 0)
  <2>1. pc' = [pc EXCEPT ![s] = "gone"] /\ UNCHANGED <<next, pool, contents, root>>
    BY <1>4 DEF New
  <2>2. pc'[s] = "gone" /\ \A r \in Spaces : r # s => pc'[r] = pc[r]
    BY <2>1 DEF Types
  <2>3. Apart' /\ Unheld' \subseteq Unheld
    BY <1>0, <2>1, SameFrames
  <2>4. Types'
    BY <1>0, <1>1, <2>1 DEF Types, States
  <2>5. LossCounted'
    BY <1>0, <2>3, <2>4, LossKept
  <2>6. SlotsApart'
    BY <1>0, <2>2, SameSlots DEF WithSlot
  <2>7. SpaceOK(s)'
    BY <2>2 DEF SpaceOK, Born, MappedOwned, PagesFilled, Progress
  <2>8. \A r \in Spaces : r # s => Same(r)
    BY <1>0, <1>3, <2>1, <2>2 DEF Same
  <2> QED  BY <2>3, <2>4, <2>5, <2>6, <2>7, <2>8, OneSpace
<1>5. CASE Available > 0
  <2> DEFINE f == Taken(1)[1]
  <2>1. /\ root' = [root EXCEPT ![s] = f]
        /\ contents' = [contents EXCEPT ![f] = {}]
        /\ TakeFrames(1)
        /\ pc' = [pc EXCEPT ![s] = "loading"]
    BY <1>5 DEF New
  <2>2. /\ root'[s] = f /\ \A r \in Spaces : r # s => root'[r] = root[r]
        /\ pc'[s] = "loading" /\ \A r \in Spaces : r # s => pc'[r] = pc[r]
    BY <2>1 DEF Types
  <2>3. 1 <= Available
    BY <1>5, FrameMemAssumption, LenProperties DEF Available, Types
  <2>4. /\ next' \in 1 .. FrameCount + 1 /\ pool' \in Seq(Nat)
        /\ Taken(1) \in Seq(Nat) /\ Len(Taken(1)) = 1
        /\ Elements(Taken(1)) \subseteq 1 .. next' - 1
        /\ \A r \in Spaces : Elements(Taken(1)) \cap HeldBy(r) = {}
    BY <2>1, <2>3, FreshFrames
  <2>5. Elements(Taken(1)) = {f} /\ f \in 1 .. next' - 1
    BY <2>4 DEF Elements
  <2>6. f \in Nat /\ f # NoFrame
    BY <2>4, <2>5, FrameMemAssumption DEF NoFrame
  <2> HIDE DEF f
  <2>7. HeldBy(s)' = HeldBy(s) \cup {f} /\ HeldBy(s) = {}
    BY <1>0, <1>2, <2>2, <2>6 DEF HeldBy, Elements
  <2>8. Unique(owned'[s]) /\ root'[s] \notin Elements(owned'[s])
    BY <1>0, <1>2, <2>2 DEF Unique, Elements
  <2>9. Apart' /\ Unheld' \subseteq Unheld \cup ({f} \ {f})
    BY <1>0, <2>1, <2>2, <2>3, <2>5, <2>7, <2>8, SpaceTakes
  <2>10. Types'
    <3>1. root' \in [Spaces -> Nat] /\ pc' \in [Spaces -> States] /\ plan' \in [Spaces -> Plans \cup {<<>>}]
      BY <1>1, <2>1, <2>6 DEF Types, States
    <3>2. DOMAIN contents' = Frames
      BY <2>1 DEF Types
    <3> QED  BY <1>0, <2>4, <3>1, <3>2 DEF Types
  <2>11. LossCounted'
    BY <1>0, <2>9, <2>10, LossKept
  <2>12. SlotsApart'
    BY <1>0, <2>2, SameSlots DEF WithSlot
  <2>13. SpaceOK(s)'
    <3>1. Born(s)'
      BY <2>2, <2>6 DEF Born
    <3>2. MappedOwned(s)'
      BY <1>0, <1>2 DEF MappedOwned
    <3>3. PagesFilled(s)'
      BY <1>0, <1>2 DEF PagesFilled
    <3>4. Progress(s)'
      <4>1. ASSUME 1 <= Len(image) PROVE 0 <= Len(image[1].pages)
        <5>1. 1 \in 1 .. Len(image)
          BY <4>1, PlanShape
        <5>2. Len(image[1].pages) \in Nat
          BY <5>1, PlanShape
        <5> QED  BY <5>2
      <4> QED  BY <1>0, <1>2, <1>3, <4>1 DEF Progress, Region
    <3> QED  BY <3>1, <3>2, <3>3, <3>4 DEF SpaceOK
  <2>14. \A r \in Spaces : r # s => Same(r)
    <3> TAKE r \in Spaces
    <3> HAVE r # s
    <3>1. f \notin Elements(owned[r])
      BY <2>4, <2>5 DEF HeldBy
    <3>2. \A g \in Elements(owned[r]) : contents'[g] \subseteq contents[g]
      BY <2>1, <3>1
    <3> QED  BY <1>0, <1>3, <2>2, <3>2 DEF Same
  <2> QED  BY <2>9, <2>10, <2>11, <2>12, <2>13, <2>14, OneSpace
<1> QED
  BY <1>4, <1>5

(* Where a load stands in its image. *)
LEMMA LoadingFacts ==
  ASSUME IInv, NEW s \in Spaces, Loading(s)
  PROVE  /\ pc[s] = "loading" /\ plan[s] \in Plans /\ region[s] \in 1 .. Len(plan[s]) /\ Len(plan[s]) \in Nat
         /\ Len(Region(s).pages) \in Nat /\ page[s] \in 0 .. Len(Region(s).pages)
         /\ \A j \in 1 .. Len(Region(s).pages) : Region(s).pages[j] \in Pages
<1>1. pc[s] = "loading" /\ region[s] <= Len(plan[s]) /\ region[s] \in Nat /\ page[s] \in Nat
      /\ plan[s] \in Plans \cup {<<>>}
  BY DEF Loading, IInv, Types
<1>2. region[s] > 0 /\ page[s] <= Len(Region(s).pages)
  BY <1>1 DEF IInv, SpaceOK, Progress
<1>3. plan[s] \in Plans
  <2>1. Len(<<>>) = 0
    OBVIOUS
  <2> QED  BY <1>1, <1>2, <2>1
<1>4. region[s] \in 1 .. Len(plan[s]) /\ Len(plan[s]) \in Nat
  BY <1>1, <1>2, <1>3, PlanShape
<1>5. /\ Len(Region(s).pages) \in Nat
      /\ \A j \in 1 .. Len(Region(s).pages) : Region(s).pages[j] \in Pages
  BY <1>3, <1>4, PlanShape DEF Region
<1> QED
  BY <1>1, <1>2, <1>3, <1>4, <1>5

(* The frames a space recorded are real, and nobody else's. *)
LEMMA OwnedFrames ==
  ASSUME IInv, NEW s \in Spaces
  PROVE  /\ Elements(owned[s]) \subseteq Frames /\ NoFrame \notin Elements(owned[s])
         /\ \A r \in Spaces : r # s => Elements(owned[r]) \cap Elements(owned[s]) = {}
<1>1. Elements(owned[s]) \subseteq 1 .. next - 1
  BY DEF IInv, Apart, SpacesApart, HeldBy
<1>2. next \in 1 .. FrameCount + 1 /\ FrameCount \in Nat
  BY FrameMemAssumption DEF IInv, Types
<1>3. \A f \in 1 .. next - 1 : f \in 1 .. FrameCount /\ f # 0
  BY <1>2
<1>4. \A r \in Spaces : r # s => Elements(owned[r]) \cap Elements(owned[s]) = {}
  BY DEF IInv, Apart, SpacesApart, HeldBy
<1> QED
  BY <1>1, <1>3, <1>4 DEF Frames, NoFrame

(* The loader gives up before it takes a frame. *)
LEMMA RefusedStep ==
  ASSUME IInv, NEW s \in Spaces, MapPageRefused(s) \/ Reject(s)
  PROVE  IInv'
<1> USE DEF IInv
<1>1. /\ pc[s] = "loading" /\ pc' = [pc EXCEPT ![s] = "failed"]
      /\ UNCHANGED <<heap, next, pool, contents, failedMaps>>
      /\ UNCHANGED <<plan, region, page, root, owned, table, leaf>>
      /\ UNCHANGED <<slot, nextSlot, freeSlots, slotFrames>>
  BY DEF MapPageRefused, Reject, Loading, kernelVars, spaceVars, stackVars
<1>2. pc'[s] = "failed" /\ \A r \in Spaces : r # s => pc'[r] = pc[r]
  BY <1>1 DEF Types
<1>3. Apart' /\ Unheld' \subseteq Unheld
  BY <1>1, SameFrames
<1>4. Types'
  BY <1>1 DEF Types, States
<1>5. LossCounted'
  BY <1>1, <1>3, <1>4, LossKept
<1>6. SlotsApart'
  BY <1>1, <1>2, SameSlots DEF WithSlot
<1>7. SpaceOK(s)'
  <2>1. root[s] # NoFrame
    BY <1>1 DEF SpaceOK, Born
  <2> QED  BY <1>1, <1>2, <2>1 DEF SpaceOK, Born, MappedOwned, PagesFilled, Progress
<1>8. \A r \in Spaces : r # s => Same(r)
  BY <1>1, <1>2 DEF Same
<1> QED
  BY <1>3, <1>4, <1>5, <1>6, <1>7, <1>8, OneSpace

(* A region is filled: no byte of an earlier owner is left in its pages. *)
LEMMA FillStep ==
  ASSUME IInv, NEW s \in Spaces, FillRegion(s)
  PROVE  IInv'
<1> USE DEF IInv
<1> DEFINE pages == Region(s).pages
           frames == {leaf[s][p] : p \in Elements(pages)}
<1>0. Loading(s) /\ page[s] = Len(pages)
  BY DEF FillRegion
<1>1. /\ contents' = [f \in Frames |-> IF f \in frames THEN {s} ELSE contents[f]]
      /\ region' = [region EXCEPT ![s] = @ + 1] /\ page' = [page EXCEPT ![s] = 0]
      /\ UNCHANGED <<heap, next, pool, pc, plan, root, owned, table, leaf, failedMaps>>
      /\ UNCHANGED <<slot, nextSlot, freeSlots, slotFrames>>
  BY DEF FillRegion, kernelVars, stackVars
<1>2. /\ pc[s] = "loading" /\ plan[s] \in Plans /\ region[s] \in 1 .. Len(plan[s]) /\ Len(plan[s]) \in Nat
      /\ Len(pages) \in Nat
      /\ \A j \in 1 .. Len(pages) : pages[j] \in Pages
  BY <1>0, LoadingFacts
<1>3. /\ region'[s] = region[s] + 1 /\ page'[s] = 0
      /\ \A r \in Spaces : r # s => region'[r] = region[r] /\ page'[r] = page[r]
  BY <1>1 DEF Types
<1>4. Apart' /\ Unheld' \subseteq Unheld
  BY <1>1, SameFrames
<1>5. Types'
  BY <1>1 DEF Types
<1>6. LossCounted'
  BY <1>1, <1>4, <1>5, LossKept
<1>7. SlotsApart'
  BY <1>1, SameSlots
<1>8. \A p \in Pages : leaf[s][p] \in Elements(owned[s]) \cup {NoFrame}
  BY <1>2 DEF SpaceOK, MappedOwned
<1>9. SpaceOK(s)'
  <2>1. Born(s)' /\ MappedOwned(s)'
    BY <1>1, <1>2 DEF SpaceOK, Born, MappedOwned
  <2>2. PagesFilled(s)'
    <3> SUFFICES ASSUME NEW p \in Pages, leaf[s][p] # NoFrame PROVE contents'[leaf[s][p]] \subseteq {s}
      BY <1>1 DEF PagesFilled
    <3>1. leaf[s][p] \in Frames
      BY <1>8, OwnedFrames
    <3>2. CASE leaf[s][p] \in frames
      BY <1>1, <3>1, <3>2
    <3>3. CASE leaf[s][p] \notin frames
      <4>1. p \notin Elements(pages)
        BY <3>3
      <4>2. ~Unfilled(s, p)
        <5>1. \A i \in 1 .. Len(pages) : pages[i] # p
          BY <4>1 DEF Elements
        <5> QED  BY <1>0, <5>1 DEF Unfilled
      <4>3. contents[leaf[s][p]] \subseteq {s}
        BY <1>2, <4>2 DEF SpaceOK, PagesFilled
      <4> HIDE DEF frames
      <4> QED  BY <1>1, <3>1, <3>3, <4>3
    <3> QED  BY <3>2, <3>3
  <2>3. Progress(s)'
    <3>1. region[s] + 1 \in Nat /\ region[s] + 1 > 0
      BY <1>2
    <3>2. ASSUME region[s] + 1 <= Len(plan[s]) PROVE 0 <= Len(plan[s][region[s] + 1].pages)
      <4>1. region[s] + 1 \in 1 .. Len(plan[s])
        BY <1>2, <3>2
      <4>2. Len(plan[s][region[s] + 1].pages) \in Nat
        BY <1>2, <4>1, PlanShape
      <4> QED  BY <4>2
    <3> QED  BY <1>1, <1>3, <3>1, <3>2 DEF Progress, Region
  <2> QED  BY <2>1, <2>2, <2>3 DEF SpaceOK
<1>10. \A r \in Spaces : r # s => Same(r)
  <2> TAKE r \in Spaces
  <2> HAVE r # s
  <2>1. \A g \in frames : g \notin Elements(owned[r])
    <3>1. \A g \in frames : g \in Elements(owned[s]) \cup {NoFrame}
      BY <1>2, <1>8 DEF Elements
    <3> HIDE DEF frames
    <3> QED  BY <3>1, OwnedFrames
  <2> HIDE DEF frames
  <2>2. \A g \in Elements(owned[r]) : contents'[g] = contents[g]
    BY <1>1, <2>1, OwnedFrames
  <2> QED  BY <1>1, <1>3, <2>2 DEF Same
<1> QED
  BY <1>4, <1>5, <1>6, <1>7, <1>9, <1>10, OneSpace

(* The program ran: its bytes are in its pages. *)
LEMMA EndStep ==
  ASSUME IInv, NEW s \in Spaces, End(s)
  PROVE  IInv'
<1> USE DEF IInv
<1> DEFINE frames == {leaf[s][p] : p \in Pages}
<1>1. /\ pc[s] = "running" /\ pc' = [pc EXCEPT ![s] = "dropping"]
      /\ contents' = [f \in Frames |-> contents[f] \cup (IF f \in frames THEN {s} ELSE {})]
      /\ UNCHANGED <<heap, next, pool, failedMaps>>
      /\ UNCHANGED <<plan, region, page, root, owned, table, leaf>>
      /\ UNCHANGED <<slot, nextSlot, freeSlots, slotFrames>>
  BY DEF End, kernelVars, spaceVars, stackVars
<1>2. pc'[s] = "dropping" /\ \A r \in Spaces : r # s => pc'[r] = pc[r]
  BY <1>1 DEF Types
<1>3. Apart' /\ Unheld' \subseteq Unheld
  BY <1>1, SameFrames
<1>4. Types'
  BY <1>1 DEF Types, States
<1>5. LossCounted'
  BY <1>1, <1>3, <1>4, LossKept
<1>6. SlotsApart'
  BY <1>1, <1>2, SameSlots DEF WithSlot
<1>7. SpaceOK(s)'
  <2>1. root[s] # NoFrame
    BY <1>1 DEF SpaceOK, Born
  <2> QED  BY <1>1, <1>2, <2>1 DEF SpaceOK, Born, MappedOwned, PagesFilled, Progress
<1>8. \A r \in Spaces : r # s => Same(r)
  <2> TAKE r \in Spaces
  <2> HAVE r # s
  <2>1. \A g \in frames : g \notin Elements(owned[r])
    <3>1. \A g \in frames : g \in Elements(owned[s]) \cup {NoFrame}
      BY <1>1 DEF SpaceOK, MappedOwned
    <3> HIDE DEF frames
    <3> QED  BY <3>1, OwnedFrames
  <2> HIDE DEF frames
  <2>2. \A g \in Elements(owned[r]) : contents'[g] = contents[g]
    BY <1>1, <2>1, OwnedFrames
  <2> QED  BY <1>1, <1>2, <2>2 DEF Same
<1> QED
  BY <1>3, <1>4, <1>5, <1>6, <1>7, <1>8, OneSpace

(* AddressSpace::drop *)
LEMMA DropFrameStep ==
  ASSUME IInv, NEW s \in Spaces, DropFrame(s)
  PROVE  IInv'
<1> USE DEF IInv
<1> DEFINE f == Head(owned[s])
<1>1. /\ pc[s] \in {"failed", "dropping"} /\ owned[s] # <<>> /\ Release(f)
      /\ owned' = [owned EXCEPT ![s] = Tail(@)]
      /\ UNCHANGED <<heap, next, contents, pc, plan, region, page, root, table, leaf, failedMaps>>
      /\ UNCHANGED <<slot, nextSlot, freeSlots, slotFrames>>
  BY DEF DropFrame, kernelVars, stackVars
<1>2. owned[s] \in Seq(Nat) /\ Unique(owned[s]) /\ root[s] \notin Elements(owned[s])
  BY DEF Types, Apart, SpacesApart
<1>3. /\ f \in Elements(owned[s]) /\ Tail(owned[s]) \in Seq(Nat) /\ Unique(Tail(owned[s]))
      /\ Elements(Tail(owned[s])) = Elements(owned[s]) \ {f}
  BY <1>1, <1>2, TailElements
<1>4. owned'[s] = Tail(owned[s]) /\ \A r \in Spaces : r # s => owned'[r] = owned[r]
  BY <1>1, Zenon DEF Types
<1>5. f \in HeldBy(s) /\ f \in Nat /\ f # root[s]
  <2>1. f \in Nat
    BY <1>1, <1>2, HeadTailProperties
  <2> QED  BY <1>2, <1>3, <2>1 DEF HeldBy
<1> HIDE DEF f
<1>6. HeldBy(s)' = HeldBy(s) \ {f}
  BY <1>1, <1>3, <1>4, <1>5 DEF HeldBy
<1>7. Unique(owned'[s]) /\ root'[s] \notin Elements(owned'[s])
  BY <1>1, <1>2, <1>3, <1>4
<1>8. Apart' /\ Unheld' \subseteq Unheld /\ pool' \in Seq(Nat)
  BY <1>1, <1>4, <1>5, <1>6, <1>7, SpaceGives
<1>9. Types'
  <2>1. owned' \in [Spaces -> Seq(Nat)]
    <3>1. DOMAIN owned' = Spaces
      BY <1>1, Zenon DEF Types
    <3>2. \A r \in Spaces : owned'[r] \in Seq(Nat)
      BY <1>3, <1>4 DEF Types
    <3>3. owned' = [r \in Spaces |-> owned'[r]]
      BY <1>1, Zenon DEF Types
    <3> QED  BY <3>2, <3>3
  <2> QED  BY <1>1, <1>8, <2>1 DEF Types
<1>10. LossCounted'
  BY <1>1, <1>8, <1>9, LossKept
<1>11. SlotsApart'
  BY <1>1, SameSlots
<1>12. SpaceOK(s)'
  BY <1>1 DEF SpaceOK, Born, MappedOwned, PagesFilled, Progress
<1>13. \A r \in Spaces : r # s => Same(r)
  BY <1>1, <1>4 DEF Same
<1> QED
  BY <1>8, <1>9, <1>10, <1>11, <1>12, <1>13, OneSpace

(* The root's own frame goes last, when nothing below it is left. *)
LEMMA DropRootStep ==
  ASSUME IInv, NEW s \in Spaces, DropRoot(s)
  PROVE  IInv'
<1> USE DEF IInv
<1> DEFINE f == root[s]
<1>1. /\ pc[s] \in {"failed", "dropping"} /\ owned[s] = <<>> /\ Release(f)
      /\ root' = [root EXCEPT ![s] = NoFrame]
      /\ pc' = [pc EXCEPT ![s] = IF @ = "failed" THEN "gone" ELSE "dropped"]
      /\ UNCHANGED <<heap, next, contents, plan, region, page, owned, table, leaf, failedMaps>>
      /\ UNCHANGED <<slot, nextSlot, freeSlots, slotFrames>>
  BY DEF DropRoot, kernelVars, stackVars
<1>2. /\ pc'[s] = (IF pc[s] = "failed" THEN "gone" ELSE "dropped") /\ \A r \in Spaces : r # s => pc'[r] = pc[r]
      /\ root'[s] = NoFrame /\ \A r \in Spaces : r # s => root'[r] = root[r]
  BY <1>1 DEF Types
<1>3. f # NoFrame /\ f \in Nat
  BY <1>1 DEF SpaceOK, Born, Types
<1>4. Elements(owned[s]) = {} /\ Unique(owned[s])
  BY <1>1 DEF Elements, Unique
<1>5. HeldBy(s) = {f} /\ HeldBy(s)' = HeldBy(s) \ {f}
  BY <1>1, <1>2, <1>3, <1>4 DEF HeldBy
<1>6. Apart' /\ Unheld' \subseteq Unheld /\ pool' \in Seq(Nat)
  BY <1>1, <1>2, <1>3, <1>4, <1>5, SpaceGives
<1>7. Types'
  <2>1. root' \in [Spaces -> Nat]
    BY <1>1 DEF Types, NoFrame
  <2>2. pc' \in [Spaces -> States]
    BY <1>1 DEF Types, States
  <2> QED  BY <1>1, <1>6, <2>1, <2>2 DEF Types
<1>8. LossCounted'
  BY <1>1, <1>6, <1>7, LossKept
<1>9. SlotsApart'
  BY <1>1, <1>2, SameSlots DEF WithSlot
<1>10. SpaceOK(s)'
  BY <1>2 DEF SpaceOK, Born, MappedOwned, PagesFilled, Progress
<1>11. \A r \in Spaces : r # s => Same(r)
  BY <1>1, <1>2 DEF Same
<1> QED
  BY <1>6, <1>7, <1>8, <1>9, <1>10, <1>11, OneSpace

(* What is left of a list when its last place is dropped. *)
LEMMA PopElements ==
  ASSUME NEW s \in Seq(Nat), Unique(s), s # <<>>
  PROVE  /\ SubSeq(s, 1, Len(s) - 1) \in Seq(Nat) /\ Unique(SubSeq(s, 1, Len(s) - 1))
         /\ s[Len(s)] \in Elements(s)
         /\ Elements(SubSeq(s, 1, Len(s) - 1)) = Elements(s) \ {s[Len(s)]}
<1> DEFINE t == SubSeq(s, 1, Len(s) - 1)
<1>0. Len(s) \in Nat \ {0} /\ \A i \in 1 .. Len(s) : s[i] \in Nat
  BY EmptySeq, ElementOfSeq
<1>1. /\ t \in Seq(Nat) /\ Len(t) = Len(s) - 1 /\ \A i \in 1 .. Len(s) - 1 : t[i] = s[i]
  <2>1. \A i \in 1 .. Len(s) - 1 : s[i] \in Nat
    BY <1>0
  <2>2. /\ t \in Seq(Nat)
        /\ Len(t) = IF 1 <= Len(s) - 1 THEN Len(s) - 1 - 1 + 1 ELSE 0
        /\ \A i \in 1 .. Len(s) - 1 - 1 + 1 : t[i] = s[1 + i - 1]
    BY <1>0, <2>1, SubSeqProperties
  <2>3. Len(s) - 1 - 1 + 1 = Len(s) - 1 /\ \A i \in 1 .. Len(s) - 1 : 1 + i - 1 = i
    BY <1>0
  <2> HIDE DEF t
  <2>4. Len(t) = Len(s) - 1
    <3> DEFINE L == Len(s)
    <3>1. L \in Nat \ {0} /\ Len(t) = IF 1 <= L - 1 THEN L - 1 - 1 + 1 ELSE 0
      BY <1>0, <2>2
    <3> HIDE DEF L
    <3>2. Len(t) = L - 1
      BY <3>1
    <3> QED  BY <3>2 DEF L
  <2> QED  BY <2>2, <2>3, <2>4
<1> HIDE DEF t
<1>2. \A i \in 1 .. Len(s) - 1 : i \in 1 .. Len(s) /\ i # Len(s)
  BY <1>0, Shift
<1>3. Unique(t)
  <2> SUFFICES ASSUME NEW i \in 1 .. Len(t), NEW j \in 1 .. Len(t), t[i] = t[j] PROVE i = j
    BY DEF Unique
  <2>1. i \in 1 .. Len(s) /\ j \in 1 .. Len(s) /\ s[i] = s[j]
    BY <1>1, <1>2
  <2> QED  BY <2>1, Zenon DEF Unique
<1>4. Len(s) \in 1 .. Len(s) /\ s[Len(s)] \in Elements(s)
  BY <1>0 DEF Elements
<1>5. \A x \in Elements(t) : x \in Elements(s) /\ x # s[Len(s)]
  <2> TAKE x \in Elements(t)
  <2>1. PICK i \in 1 .. Len(t) : t[i] = x
    BY DEF Elements
  <2>2. i \in 1 .. Len(s) /\ i # Len(s) /\ s[i] = x
    BY <1>1, <1>2, <2>1
  <2>3. s[i] # s[Len(s)]
    BY <1>4, <2>2, Zenon DEF Unique
  <2> QED  BY <2>2, <2>3 DEF Elements
<1>6. \A x \in Elements(s) : x # s[Len(s)] => x \in Elements(t)
  <2> TAKE x \in Elements(s)
  <2> HAVE x # s[Len(s)]
  <2>1. PICK i \in 1 .. Len(s) : s[i] = x
    BY DEF Elements
  <2>2. i \in 1 .. Len(s) - 1
    BY <1>0, <2>1
  <2> QED  BY <1>1, <2>1, <2>2 DEF Elements
<1> QED
  BY <1>1, <1>3, <1>4, <1>5, <1>6 DEF t

(* The image is complete: its process gets a kernel stack. *)
LEMMA SpawnStep ==
  ASSUME IInv, NEW s \in Spaces, Spawn(s)
  PROVE  IInv'
<1> USE DEF IInv
<1>1. /\ pc[s] = "loading" /\ region[s] > Len(plan[s])
      /\ pc' = [pc EXCEPT ![s] = "running"]
      /\ UNCHANGED <<heap, contents, failedMaps>>
      /\ UNCHANGED <<plan, region, page, root, owned, table, leaf>>
  BY DEF Spawn, spaceVars
<1>2. pc'[s] = "running" /\ \A r \in Spaces : r # s => pc'[r] = pc[r]
  BY <1>1 DEF Types
<1>3. SpaceOK(s)'
  <2>0. region[s] \in Nat /\ Len(plan[s]) \in Nat
    <3>1. plan[s] \in Plans \cup {<<>>} /\ region[s] \in Nat
      BY DEF Types
    <3>2. Len(<<>>) = 0
      OBVIOUS
    <3> QED  BY <3>1, <3>2, PlanShape
  <2>1. Born(s)' /\ MappedOwned(s)' /\ Progress(s)'
    BY <1>1, <1>2 DEF SpaceOK, Born, MappedOwned, Progress
  <2>2. \A p \in Pages : ~Unfilled(s, p)
    BY <1>1, <2>0 DEF Unfilled
  <2>3. PagesFilled(s)'
    BY <1>1, <2>2 DEF SpaceOK, PagesFilled
  <2> QED  BY <2>1, <2>3 DEF SpaceOK
<1>4. \A r \in Spaces : r # s => Same(r)
  BY <1>1, <1>2 DEF Same
<1>5. slot[s] = NoSlot
  BY <1>1 DEF SlotsApart
<1>6. nextSlot \in Nat /\ Slots \in Nat
  BY FrameMemAssumption DEF Types
<1>7. CASE /\ freeSlots # <<>>
           /\ slot' = [slot EXCEPT ![s] = freeSlots[Len(freeSlots)]]
           /\ freeSlots' = SubSeq(freeSlots, 1, Len(freeSlots) - 1)
           /\ UNCHANGED <<next, pool, nextSlot, slotFrames>>
  <2> DEFINE n == freeSlots[Len(freeSlots)]
  <2>1. /\ freeSlots' \in Seq(Nat) /\ Unique(freeSlots') /\ n \in Elements(freeSlots)
        /\ Elements(freeSlots') = Elements(freeSlots) \ {n}
    BY <1>7, PopElements DEF Types, SlotsApart
  <2>2. slot'[s] = n /\ \A r \in Spaces : r # s => slot'[r] = slot[r]
    BY <1>7 DEF Types
  <2>3. UNCHANGED <<next, pool, nextSlot, slotFrames>>
    BY <1>7
  <2>4. n \in 0 .. nextSlot - 1
    BY <2>1 DEF SlotsApart
  <2>5. slot' \in [Spaces -> Int]
    BY <1>6, <1>7, <2>4 DEF Types
  <2> HIDE DEF n
  <2>6. Apart' /\ Unheld' \subseteq Unheld
    BY <1>1, <2>3, SameFrames
  <2>7. Types'
    BY <1>1, <2>1, <2>3, <2>5 DEF Types, States
  <2>8. LossCounted'
    BY <1>1, <2>6, <2>7, LossKept
  <2>9. SlotsApart'
    <3>1. Elements(freeSlots') \subseteq 0 .. nextSlot - 1
      BY <2>1 DEF SlotsApart
    <3>2. \A r \in Spaces : r # s => slot[r] # n
      <4>1. n # NoSlot
        BY <1>6, <2>4 DEF NoSlot
      <4> QED  BY <2>1, <4>1 DEF SlotsApart
    <3>3. ASSUME NEW r \in Spaces
          PROVE  /\ pc'[r] \in {"running", "dropping", "dropped"} => slot'[r] \in (0 .. nextSlot - 1) \ Elements(freeSlots')
                 /\ pc'[r] \notin {"running", "dropping", "dropped"} => slot'[r] = NoSlot
                 /\ \A q \in Spaces : q # r /\ slot'[q] = slot'[r] => slot'[r] = NoSlot
      <4>1. CASE r = s
        BY <1>2, <2>1, <2>2, <2>4, <3>2, <4>1
      <4>2. CASE r # s
        BY <1>2, <2>1, <2>2, <3>2, <4>2 DEF SlotsApart
      <4> QED  BY <4>1, <4>2
    <3>4. \A k \in 0 .. nextSlot - 1 : k \in Elements(freeSlots') \/ \E r \in Spaces : slot'[r] = k
      <4> TAKE k \in 0 .. nextSlot - 1
      <4>1. CASE k = n
        BY <2>2, <4>1
      <4>2. CASE k \in Elements(freeSlots) /\ k # n
        BY <2>1, <4>2
      <4>3. CASE k # n /\ \E r \in Spaces : slot[r] = k
        <5>1. k # NoSlot
          BY <1>6 DEF NoSlot
        <5> QED  BY <1>5, <2>2, <4>3, <5>1
      <4> QED  BY <4>1, <4>2, <4>3 DEF SlotsApart
    <3>5. \A k \in SlotIds : IF k < nextSlot THEN Cardinality(slotFrames[k]) = StackPages ELSE slotFrames[k] = {}
      BY DEF SlotsApart
    <3> QED  BY <2>1, <2>3, <3>1, <3>3, <3>4, <3>5 DEF SlotsApart
  <2> QED  BY <1>3, <1>4, <2>6, <2>7, <2>8, <2>9, OneSpace
<1>8. CASE /\ freeSlots = <<>> /\ nextSlot < Slots /\ StackPages <= Available
           /\ slot' = [slot EXCEPT ![s] = nextSlot]
           /\ nextSlot' = nextSlot + 1
           /\ slotFrames' = [slotFrames EXCEPT ![nextSlot] = Elements(Taken(StackPages))]
           /\ TakeFrames(StackPages)
           /\ UNCHANGED freeSlots
  <2>1. nextSlot \in SlotIds /\ slotFrames[nextSlot] = {} /\ StackPages \in Nat
    <3>1. nextSlot \in SlotIds /\ ~(nextSlot < nextSlot)
      BY <1>6, <1>8 DEF SlotIds
    <3> QED  BY <3>1, FrameMemAssumption DEF SlotsApart
  <2>2. Apart' /\ Unheld' \subseteq Unheld /\ Cardinality(slotFrames'[nextSlot]) = StackPages
    BY <1>1, <1>8, <2>1, StackTakes
  <2>3. next' \in 1 .. FrameCount + 1 /\ pool' \in Seq(Nat)
    BY <1>8, <2>1, FreshFrames
  <2>4. slot'[s] = nextSlot /\ \A r \in Spaces : r # s => slot'[r] = slot[r]
    BY <1>8 DEF Types
  <2>5. Types'
    <3>1. slot' \in [Spaces -> Int] /\ nextSlot' \in 0 .. Slots /\ DOMAIN slotFrames' = SlotIds
      BY <1>6, <1>8 DEF Types
    <3> QED  BY <1>1, <1>8, <2>3, <3>1 DEF Types, States
  <2>6. LossCounted'
    BY <1>1, <2>2, <2>5, LossKept
  <2>7. SlotsApart'
    <3>0. Elements(freeSlots') = {} /\ Unique(freeSlots')
      BY <1>8 DEF Elements, Unique
    <3>1. \A k \in 0 .. nextSlot' - 1 : k \in 0 .. nextSlot - 1 \/ k = nextSlot
      BY <1>6, <1>8
    <3>2. \A k \in 0 .. nextSlot - 1 : k \in 0 .. nextSlot' - 1 /\ k # nextSlot /\ k # NoSlot
      BY <1>6, <1>8 DEF NoSlot
    <3>3. nextSlot \in 0 .. nextSlot' - 1 /\ nextSlot # NoSlot
      BY <1>6, <1>8 DEF NoSlot
    <3>4. \A r \in Spaces : slot[r] \in 0 .. nextSlot - 1 \/ slot[r] = NoSlot
      BY DEF SlotsApart
    <3>5. ASSUME NEW r \in Spaces
          PROVE  /\ pc'[r] \in {"running", "dropping", "dropped"} => slot'[r] \in (0 .. nextSlot' - 1) \ Elements(freeSlots')
                 /\ pc'[r] \notin {"running", "dropping", "dropped"} => slot'[r] = NoSlot
                 /\ \A q \in Spaces : q # r /\ slot'[q] = slot'[r] => slot'[r] = NoSlot
      <4>1. CASE r = s
        BY <1>2, <2>4, <3>0, <3>2, <3>3, <3>4, <4>1
      <4>2. CASE r # s
        <5>1. /\ pc[r] \in {"running", "dropping", "dropped"} => slot[r] \in 0 .. nextSlot - 1
              /\ pc[r] \notin {"running", "dropping", "dropped"} => slot[r] = NoSlot
              /\ \A q \in Spaces : q # r /\ slot[q] = slot[r] => slot[r] = NoSlot
          BY DEF SlotsApart
        <5> QED  BY <1>2, <2>4, <3>0, <3>2, <3>3, <3>4, <4>2, <5>1
      <4> QED  BY <4>1, <4>2
    <3>6. \A k \in 0 .. nextSlot' - 1 : k \in Elements(freeSlots') \/ \E r \in Spaces : slot'[r] = k
      <4> TAKE k \in 0 .. nextSlot' - 1
      <4>1. CASE k = nextSlot
        BY <2>4, <4>1
      <4>2. CASE k \in 0 .. nextSlot - 1
        <5>1. Elements(freeSlots) = {}
          BY <1>8 DEF Elements
        <5>2. PICK r \in Spaces : slot[r] = k
          BY <4>2, <5>1 DEF SlotsApart
        <5>3. r # s
          BY <1>5, <3>2, <4>2, <5>2
        <5> QED  BY <2>4, <5>2, <5>3
      <4> QED  BY <3>1, <4>1, <4>2
    <3>7. ASSUME NEW k \in SlotIds
          PROVE  IF k < nextSlot' THEN Cardinality(slotFrames'[k]) = StackPages ELSE slotFrames'[k] = {}
      <4>1. CASE k = nextSlot
        BY <1>6, <1>8, <2>2, <4>1
      <4>2. CASE k # nextSlot
        <5>1. slotFrames'[k] = slotFrames[k] /\ ((k < nextSlot') <=> (k < nextSlot))
          BY <1>6, <1>8, <4>2 DEF SlotIds, Types
        <5> QED  BY <5>1 DEF SlotsApart
      <4> QED  BY <4>1, <4>2
    <3> QED  BY <3>0, <3>5, <3>6, <3>7 DEF SlotsApart
  <2> QED  BY <1>3, <1>4, <2>2, <2>5, <2>6, <2>7, OneSpace
<1> QED
  BY <1>7, <1>8 DEF Spawn

(* kstack::release *)
LEMMA ReleaseStackStep ==
  ASSUME IInv, NEW s \in Spaces, ReleaseStack(s)
  PROVE  IInv'
<1> USE DEF IInv
<1> DEFINE n == slot[s]
<1>1. /\ pc[s] = "dropped" /\ pc' = [pc EXCEPT ![s] = "gone"]
      /\ freeSlots' = Append(freeSlots, n) /\ slot' = [slot EXCEPT ![s] = NoSlot]
      /\ UNCHANGED <<heap, next, pool, contents, nextSlot, slotFrames, failedMaps>>
      /\ UNCHANGED <<plan, region, page, root, owned, table, leaf>>
  BY DEF ReleaseStack, kernelVars, spaceVars
<1>2. /\ pc'[s] = "gone" /\ \A r \in Spaces : r # s => pc'[r] = pc[r]
      /\ slot'[s] = NoSlot /\ \A r \in Spaces : r # s => slot'[r] = slot[r]
  BY <1>1 DEF Types
<1>3. n \in 0 .. nextSlot - 1 /\ n \notin Elements(freeSlots) /\ nextSlot \in Nat
  BY <1>1, FrameMemAssumption DEF SlotsApart, Types
<1>4. n \in Nat /\ n # NoSlot
  BY <1>3 DEF NoSlot
<1>5. freeSlots' \in Seq(Nat) /\ Elements(freeSlots') = Elements(freeSlots) \cup {n} /\ Unique(freeSlots')
  BY <1>1, <1>3, <1>4, AppendElements DEF Types, SlotsApart
<1>6. Apart' /\ Unheld' \subseteq Unheld
  BY <1>1, SameFrames
<1>7. Types'
  <2>1. slot' \in [Spaces -> Int] /\ pc' \in [Spaces -> States]
    BY <1>1 DEF Types, NoSlot, States
  <2> QED  BY <1>1, <1>5, <2>1 DEF Types
<1>8. LossCounted'
  BY <1>1, <1>6, <1>7, LossKept
<1>9. SlotsApart'
  <2>1. Elements(freeSlots') \subseteq 0 .. nextSlot - 1
    BY <1>3, <1>5 DEF SlotsApart
  <2>2. \A r \in Spaces : r # s => slot[r] # n
    BY <1>4 DEF SlotsApart
  <2>3. ASSUME NEW r \in Spaces
        PROVE  /\ pc'[r] \in {"running", "dropping", "dropped"} => slot'[r] \in (0 .. nextSlot - 1) \ Elements(freeSlots')
               /\ pc'[r] \notin {"running", "dropping", "dropped"} => slot'[r] = NoSlot
               /\ \A q \in Spaces : q # r /\ slot'[q] = slot'[r] => slot'[r] = NoSlot
    <3>1. CASE r = s
      BY <1>2, <3>1
    <3>2. CASE r # s
      <4>1. /\ pc[r] \in {"running", "dropping", "dropped"} => slot[r] \in (0 .. nextSlot - 1) \ Elements(freeSlots)
            /\ pc[r] \notin {"running", "dropping", "dropped"} => slot[r] = NoSlot
            /\ \A q \in Spaces : q # r /\ slot[q] = slot[r] => slot[r] = NoSlot
        BY DEF SlotsApart
      <4> QED  BY <1>2, <1>5, <2>2, <3>2, <4>1
    <3> QED  BY <3>1, <3>2
  <2>4. \A k \in 0 .. nextSlot - 1 : k \in Elements(freeSlots') \/ \E r \in Spaces : slot'[r] = k
    <3> TAKE k \in 0 .. nextSlot - 1
    <3>1. CASE k \in Elements(freeSlots) \cup {n}
      BY <1>5, <3>1
    <3>2. CASE k # n /\ \E r \in Spaces : slot[r] = k
      BY <1>2, <3>2
    <3> QED  BY <3>1, <3>2 DEF SlotsApart
  <2>5. \A k \in SlotIds : IF k < nextSlot THEN Cardinality(slotFrames[k]) = StackPages ELSE slotFrames[k] = {}
    BY DEF SlotsApart
  <2> QED  BY <1>1, <1>5, <2>1, <2>3, <2>4, <2>5 DEF SlotsApart
<1>10. SpaceOK(s)'
  BY <1>2 DEF SpaceOK, Born, MappedOwned, PagesFilled, Progress
<1>11. \A r \in Spaces : r # s => Same(r)
  BY <1>1, <1>2 DEF Same
<1> QED
  BY <1>6, <1>7, <1>8, <1>9, <1>10, <1>11, OneSpace

(* All but the first: what map_to takes after the leaf. *)
LEMMA RestElements ==
  ASSUME NEW s \in Seq(Nat), Unique(s), NEW n \in Nat, n = Len(s)
  PROVE  /\ SubSeq(s, 2, n) \in Seq(Nat) /\ Unique(SubSeq(s, 2, n))
         /\ n = 0 => Elements(s) = {} /\ Elements(SubSeq(s, 2, n)) = {}
         /\ n # 0 => s[1] \in Elements(s) /\ Elements(SubSeq(s, 2, n)) = Elements(s) \ {s[1]}
         /\ \A i \in 2 .. n : s[i] \in Elements(SubSeq(s, 2, n))
<1>1. CASE n = 0
  <2>1. SubSeq(s, 2, n) = <<>>
    BY <1>1, SubSeqEmpty
  <2>2. Len(<<>>) = 0 /\ <<>> \in Seq(Nat)
    OBVIOUS
  <2>3. Elements(<<>>) = {} /\ Unique(<<>>) /\ Elements(s) = {}
    BY <1>1, <2>2 DEF Elements, Unique
  <2>4. 2 .. n = {}
    BY <1>1
  <2> QED  BY <1>1, <2>1, <2>2, <2>3, <2>4
<1>2. CASE n # 0
  <2> DEFINE t == Tail(s)
  <2>1. s # <<>>
    <3>1. Len(<<>>) = 0
      OBVIOUS
    <3> QED  BY <1>2, <3>1
  <2>2. t = SubSeq(s, 2, n) /\ Head(s) = s[1]
    BY <2>1, TailIsSubSeq
  <2>3. /\ Head(s) \in Elements(s) /\ t \in Seq(Nat) /\ Unique(t)
        /\ Elements(t) = Elements(s) \ {Head(s)}
    BY <2>1, TailElements
  <2>4. \A i \in 2 .. n : s[i] \in Elements(s) /\ s[i] # s[1]
    <3>1. \A i \in 2 .. n : i \in 1 .. Len(s) /\ i # 1 /\ 1 \in 1 .. Len(s)
      OBVIOUS
    <3> QED  BY <3>1 DEF Elements, Unique
  <2> HIDE DEF t
  <2> QED  BY <1>2, <2>2, <2>3, <2>4
<1> QED
  BY <1>1, <1>2

(* Every missing table has its place among them. *)
LEMMA PlaceBounds ==
  ASSUME NEW m, IsFiniteSet(m), m \subseteq Nat, NEW i \in m
  PROVE  Place(i, m) \in Nat \ {0}
<1> DEFINE A == {j \in m : j <= i}
<1>1. IsFiniteSet(A) /\ i \in A
  BY FS_Subset
<1>2. Cardinality(A) \in Nat /\ Cardinality(A) # 0
  <2> HIDE DEF A
  <2> QED  BY <1>1, FS_CardinalityType, FS_EmptySet
<1> QED
  BY <1>2 DEF Place

(* AddressSpace::map_page *)
LEMMA MapPageStep ==
  ASSUME IInv, NEW s \in Spaces, MapPage(s)
  PROVE  IInv'
<1> USE DEF IInv
<1> DEFINE p == PageToMap(s)
           missing == Missing(s, p)
           c == Cardinality(missing)
           n == AtMost(1 + c, Available)
           got == Taken(n)
           newTables == SubSeq(got, 2, n)
           ok == n = 1 + c /\ leaf[s][p] = NoFrame
           Chosen(t) == {i \in missing : PathOf[p][i] = t /\ Place(i, missing) < n}
<1>0. Loading(s) /\ page[s] < Len(Region(s).pages)
  BY DEF MapPage
<1>1. /\ TakeFrames(n)
      /\ table' = [table EXCEPT ![s] =
             [t \in Tables |-> IF Chosen(t) = {} THEN table[s][t]
                               ELSE got[1 + Place(CHOOSE i \in Chosen(t) : TRUE, missing)]]]
      /\ contents' = [f \in Frames |-> IF f \in Elements(newTables) THEN {} ELSE contents[f]]
      /\ ok => /\ leaf' = [leaf EXCEPT ![s][p] = got[1]]
               /\ owned' = [owned EXCEPT ![s] = Append(owned[s], got[1]) \o newTables]
               /\ page' = [page EXCEPT ![s] = page[s] + 1]
               /\ UNCHANGED <<pc, failedMaps>>
      /\ ~ok => /\ owned' = [owned EXCEPT ![s] = owned[s] \o newTables]
                /\ pc' = [pc EXCEPT ![s] = "failed"]
                /\ failedMaps' = failedMaps + AtMost(n, 1)
                /\ UNCHANGED <<leaf, page>>
      /\ UNCHANGED <<heap, plan, region, root>>
      /\ UNCHANGED <<slot, nextSlot, freeSlots, slotFrames>>
  BY DEF MapPage, kernelVars, stackVars
<1>2. /\ pc[s] = "loading" /\ plan[s] \in Plans /\ region[s] \in 1 .. Len(plan[s]) /\ Len(plan[s]) \in Nat
      /\ Len(Region(s).pages) \in Nat /\ page[s] \in 0 .. Len(Region(s).pages)
      /\ \A j \in 1 .. Len(Region(s).pages) : Region(s).pages[j] \in Pages
  BY <1>0, LoadingFacts
<1>3. page[s] + 1 \in 1 .. Len(Region(s).pages) /\ p = Region(s).pages[page[s] + 1] /\ p \in Pages
  <2>1. page[s] + 1 \in 1 .. Len(Region(s).pages)
    BY <1>0, <1>2
  <2> QED  BY <1>2, <2>1 DEF PageToMap
<1>4. IsFiniteSet(missing) /\ missing \subseteq Nat /\ c \in Nat
  <2>1. Len(PathOf[p]) \in Nat
    BY <1>3, FrameMemAssumption, LenProperties
  <2>2. IsFiniteSet(1 .. Len(PathOf[p])) /\ 1 .. Len(PathOf[p]) \subseteq Nat
    BY <2>1, FS_Interval
  <2>3. missing \subseteq 1 .. Len(PathOf[p])
    BY DEF Missing
  <2> HIDE DEF missing
  <2> QED  BY <2>2, <2>3, FS_Subset, FS_CardinalityType
<1> HIDE DEF p, missing, c
<1>5. n \in Nat /\ n <= Available
  <2>1. Available \in Nat
    <3>1. Len(pool) \in Nat /\ next \in 1 .. FrameCount + 1 /\ FrameCount \in Nat
      BY FrameMemAssumption, LenProperties DEF Types
    <3> QED  BY <3>1 DEF Available
  <2> QED  BY <1>4, <2>1 DEF AtMost
<1> DEFINE T == Elements(got)
           N == Elements(newTables)
<1>6. /\ next' \in 1 .. FrameCount + 1 /\ next <= next'
      /\ pool' \in Seq(Nat)
      /\ got \in Seq(Nat) /\ Len(got) = n /\ Unique(got)
      /\ T \subseteq (1 .. next' - 1) \ (Elements(pool') \cup heap)
      /\ \A r \in Spaces : T \cap HeldBy(r) = {}
  <2> HIDE DEF n
  <2> QED  BY <1>1, <1>5, FreshFrames
<1>7. /\ newTables \in Seq(Nat) /\ Unique(newTables)
      /\ n = 0 => T = {} /\ N = {}
      /\ n # 0 => got[1] \in T /\ N = T \ {got[1]}
      /\ \A i \in 2 .. n : got[i] \in N
  <2> HIDE DEF n, got
  <2> QED  BY <1>5, <1>6, RestElements
<1>8. N \subseteq T /\ \A r \in Spaces : T \cap Elements(owned[r]) = {} /\ (root[r] \in T => root[r] = NoFrame)
  BY <1>6, <1>7 DEF HeldBy
<1>9. NoFrame \notin T
  <2>1. \A f \in 1 .. next' - 1 : f # 0
    BY <1>6, FrameMemAssumption
  <2> QED  BY <1>6, <2>1 DEF NoFrame
<1>10. \A t \in Tables : table'[s][t] = table[s][t] \/ table'[s][t] \in N
  <2> TAKE t \in Tables
  <2>1. table'[s] = [u \in Tables |-> IF Chosen(u) = {} THEN table[s][u]
                               ELSE got[1 + Place(CHOOSE i \in Chosen(u) : TRUE, missing)]]
    <3> HIDE DEF got, Chosen
    <3> QED  BY <1>1 DEF Types
  <2>2. CASE Chosen(t) = {}
    <3> HIDE DEF got, Chosen
    <3> QED  BY <2>1, <2>2
  <2>3. CASE Chosen(t) # {}
    <3> DEFINE i == CHOOSE j \in Chosen(t) : TRUE
    <3>1. i \in Chosen(t)
      <4> HIDE DEF Chosen
      <4> QED  BY <2>3
    <3>2. table'[s][t] = got[1 + Place(i, missing)]
      <4> HIDE DEF got, Chosen
      <4> QED  BY <2>1, <2>3
    <3>3. i \in missing /\ Place(i, missing) < n
      BY <3>1
    <3> HIDE DEF i, n, got
    <3>4. Place(i, missing) \in Nat \ {0}
      BY <1>4, <3>3, PlaceBounds
    <3>5. 1 + Place(i, missing) \in 2 .. n
      BY <1>5, <3>3, <3>4
    <3> QED  BY <1>7, <3>2, <3>5
  <2> QED  BY <2>2, <2>3
<1>11. DOMAIN contents' = Frames /\ \A f \in Frames : contents'[f] \subseteq contents[f]
  <2> HIDE DEF newTables
  <2> QED  BY <1>1
<1>12. /\ DOMAIN table' = Spaces /\ (\A r \in Spaces : DOMAIN table'[r] = Tables)
       /\ \A r \in Spaces : r # s => table'[r] = table[r]
  <2> HIDE DEF got, Chosen
  <2> QED  BY <1>1 DEF Types
<1>13. /\ UNCHANGED <<heap, plan, region, root>>
       /\ UNCHANGED <<slot, nextSlot, freeSlots, slotFrames>>
       /\ TakeFrames(n)
  BY <1>1
<1>14. owned[s] \in Seq(Nat) /\ Unique(owned[s]) /\ root[s] \notin Elements(owned[s]) /\ root[s] # NoFrame
  BY <1>2 DEF Types, Apart, SpacesApart, SpaceOK, Born
<1>15. \A r \in Spaces : \A f \in Elements(owned[r]) : f \in Frames /\ f # NoFrame
  BY OwnedFrames
<1>16. CASE ok
  <2>1. /\ leaf' = [leaf EXCEPT ![s][p] = got[1]]
        /\ owned' = [owned EXCEPT ![s] = Append(owned[s], got[1]) \o newTables]
        /\ page' = [page EXCEPT ![s] = page[s] + 1]
        /\ UNCHANGED <<pc, failedMaps>>
    BY <1>1, <1>16
  <2>2. n # 0 /\ got[1] \in T /\ N = T \ {got[1]}
    BY <1>4, <1>7, <1>16
  <2> HIDE DEF ok, n, got, newTables, T, N
  <2>3. /\ owned'[s] = Append(owned[s], got[1]) \o newTables
        /\ page'[s] = page[s] + 1
        /\ leaf'[s][p] = got[1] /\ \A q \in Pages : q # p => leaf'[s][q] = leaf[s][q]
        /\ \A r \in Spaces : r # s => owned'[r] = owned[r] /\ leaf'[r] = leaf[r] /\ page'[r] = page[r]
    BY <1>3, <2>1 DEF Types
  <2>4. got[1] \in Nat /\ got[1] \notin Elements(owned[s])
    <3>1. 1 \in 1 .. Len(got)
      BY <1>5, <1>6, <2>2
    <3> QED  BY <1>6, <1>8, <2>2, <3>1, ElementOfSeq
  <2>5. /\ Append(owned[s], got[1]) \in Seq(Nat) /\ Unique(Append(owned[s], got[1]))
        /\ Elements(Append(owned[s], got[1])) = Elements(owned[s]) \cup {got[1]}
    BY <1>14, <2>4, AppendElements
  <2>6. (Elements(owned[s]) \cup {got[1]}) \cap N = {}
    BY <1>8, <2>2
  <2>7. /\ owned'[s] \in Seq(Nat) /\ Unique(owned'[s])
        /\ Elements(owned'[s]) = Elements(owned[s]) \cup T
    <3> DEFINE a == Append(owned[s], got[1])
    <3>1. a \in Seq(Nat) /\ Unique(a) /\ Elements(a) = Elements(owned[s]) \cup {got[1]} /\ owned'[s] = a \o newTables
      BY <2>3, <2>5
    <3> HIDE DEF a
    <3>2. Elements(a) \cap Elements(newTables) = {}
      BY <2>6, <3>1 DEF N
    <3>3. owned'[s] \in Seq(Nat) /\ Unique(owned'[s]) /\ Elements(owned'[s]) = Elements(a) \cup N
      BY <1>7, <3>1, <3>2, ConcatElements DEF N
    <3> QED  BY <2>2, <3>1, <3>3
  <2>8. owned' \in [Spaces -> Seq(Nat)]
    <3>1. \A r \in Spaces : owned'[r] \in Seq(Nat)
      BY <2>3, <2>7 DEF Types
    <3>2. DOMAIN owned' = Spaces /\ owned' = [r \in DOMAIN owned' |-> owned'[r]]
      BY <2>1 DEF Types
    <3> QED  BY <3>1, <3>2
  <2>9. HeldBy(s)' = HeldBy(s) \cup T /\ root'[s] \notin Elements(owned'[s])
    BY <1>8, <1>13, <1>14, <2>7 DEF HeldBy
  <2>10. Apart' /\ Unheld' \subseteq Unheld
    <3>0. /\ n \in Nat /\ n <= Available /\ TakeFrames(n) /\ heap' = heap /\ slotFrames' = slotFrames
          /\ Unique(owned'[s]) /\ root'[s] \notin Elements(owned'[s])
          /\ \A r \in Spaces : r # s => owned'[r] = owned[r] /\ root'[r] = root[r]
          /\ T = Elements(Taken(n)) /\ HeldBy(s)' = HeldBy(s) \cup T
      BY <1>5, <1>13, <2>3, <2>7, <2>9 DEF T, got
    <3>1. Apart' /\ Unheld' \subseteq Unheld \cup (T \ T)
      BY <3>0, SpaceTakes
    <3> QED  BY <3>1
  <2>11. Types'
    <3>1. page' \in [Spaces -> Nat]
      BY <2>1, <1>2 DEF Types
    <3>2. DOMAIN leaf' = Spaces /\ \A r \in Spaces : DOMAIN leaf'[r] = Pages
      BY <2>1 DEF Types
    <3> QED  BY <1>6, <1>11, <1>12, <1>13, <2>1, <2>8, <3>1, <3>2 DEF Types
  <2>12. LossCounted'
    BY <2>1, <2>10, <2>11, LossKept
  <2>13. SlotsApart'
    BY <1>13, <2>1, SameSlots
  <2>14. SpaceOK(s)'
    <3>1. Born(s)'
      BY <1>2, <1>13, <2>1 DEF SpaceOK, Born
    <3>2. MappedOwned(s)'
      <4>1. /\ \A q \in Pages : leaf[s][q] \in Elements(owned[s]) \cup {NoFrame}
            /\ \A t \in Tables : table[s][t] \in Elements(owned[s]) \cup {NoFrame}
        BY <1>2 DEF SpaceOK, MappedOwned
      <4>2. /\ \A q \in Pages : leaf'[s][q] \in Elements(owned'[s]) \cup {NoFrame}
            /\ \A t \in Tables : table'[s][t] \in Elements(owned'[s]) \cup {NoFrame}
        BY <1>8, <1>10, <2>2, <2>3, <2>7, <4>1
      <4> QED  BY <4>2 DEF MappedOwned
    <3>3. PagesFilled(s)'
      <4> SUFFICES ASSUME NEW q \in Pages, leaf'[s][q] # NoFrame
                   PROVE  contents'[leaf'[s][q]] \subseteq {s} \/ Unfilled(s, q)'
        BY DEF PagesFilled
      <4>1. Region(s)' = Region(s)
        BY <1>13 DEF Region
      <4>2. page[s] \in Nat /\ page[s] + 1 \in 1 .. page'[s] /\ \A i \in 1 .. page[s] : i \in 1 .. page'[s]
        BY <1>2, <2>3
      <4>3. CASE q = p
        <5>1. page[s] + 1 <= Len(Region(s)'.pages) /\ Region(s)'.pages[page[s] + 1] = q
          BY <1>2, <1>3, <4>1, <4>3
        <5> QED  BY <1>2, <1>13, <2>1, <4>2, <5>1 DEF Unfilled
      <4>4. CASE q # p
        <5>1. leaf'[s][q] = leaf[s][q] /\ leaf[s][q] \in Elements(owned[s])
          BY <1>2, <2>3, <4>4 DEF SpaceOK, MappedOwned
        <5>2. contents'[leaf'[s][q]] \subseteq contents[leaf[s][q]]
          BY <1>11, <1>15, <5>1
        <5>3. contents[leaf[s][q]] \subseteq {s} \/ Unfilled(s, q)
          BY <1>2, <5>1 DEF SpaceOK, PagesFilled
        <5>4. Unfilled(s, q) => Unfilled(s, q)'
          BY <1>13, <2>1, <4>1, <4>2 DEF Unfilled
        <5> QED  BY <5>2, <5>3, <5>4
      <4> QED  BY <4>3, <4>4
    <3>4. Progress(s)'
      <4>1. region[s] > 0 /\ page[s] + 1 <= Len(Region(s).pages)
        BY <1>2, <1>3
      <4> QED  BY <1>13, <2>3, <4>1 DEF Progress, Region
    <3> QED  BY <3>1, <3>2, <3>3, <3>4 DEF SpaceOK
  <2>15. \A r \in Spaces : r # s => Same(r)
    BY <1>11, <1>12, <1>13, <1>15, <2>1, <2>3 DEF Same
  <2> QED  BY <2>10, <2>11, <2>12, <2>13, <2>14, <2>15, OneSpace
<1>17. CASE ~ok
  <2>1. /\ owned' = [owned EXCEPT ![s] = owned[s] \o newTables]
        /\ pc' = [pc EXCEPT ![s] = "failed"]
        /\ failedMaps' = failedMaps + AtMost(n, 1)
        /\ UNCHANGED <<leaf, page>>
    BY <1>1, <1>17
  <2> HIDE DEF ok, n, got, newTables, T, N
  <2>2. /\ owned'[s] = owned[s] \o newTables /\ pc'[s] = "failed"
        /\ \A r \in Spaces : r # s => owned'[r] = owned[r] /\ pc'[r] = pc[r]
    BY <2>1 DEF Types
  <2>3. Elements(owned[s]) \cap N = {}
    BY <1>8
  <2>4. /\ owned'[s] \in Seq(Nat) /\ Unique(owned'[s])
        /\ Elements(owned'[s]) = Elements(owned[s]) \cup N
    BY <1>7, <1>14, <2>2, <2>3, ConcatElements DEF N
  <2>5. owned' \in [Spaces -> Seq(Nat)]
    <3>1. \A r \in Spaces : owned'[r] \in Seq(Nat)
      BY <2>2, <2>4 DEF Types
    <3>2. DOMAIN owned' = Spaces /\ owned' = [r \in DOMAIN owned' |-> owned'[r]]
      BY <2>1 DEF Types
    <3> QED  BY <3>1, <3>2
  <2>6. HeldBy(s)' = HeldBy(s) \cup N /\ root'[s] \notin Elements(owned'[s])
    BY <1>8, <1>13, <1>14, <2>4 DEF HeldBy
  <2>7. Apart' /\ Unheld' \subseteq Unheld \cup (T \ N)
    BY <1>5, <1>8, <1>13, <2>2, <2>4, <2>6, SpaceTakes DEF T, got
  <2>8. failedMaps' \in Nat /\ (n = 0 => failedMaps' = failedMaps) /\ (n # 0 => failedMaps' = failedMaps + 1)
    BY <1>5, <2>1 DEF AtMost, Types
  <2>9. Types'
    <3>1. pc' \in [Spaces -> States]
      BY <2>1 DEF Types, States
    <3> QED  BY <1>6, <1>11, <1>12, <1>13, <2>1, <2>5, <2>8, <3>1 DEF Types
  <2>10. LossCounted'
    <3>1. CASE n = 0
      <4>1. Unheld' \subseteq Unheld
        BY <1>7, <2>7, <3>1
      <4> QED  BY <2>8, <2>9, <3>1, <4>1, LossKept
    <3>2. CASE n # 0
      <4>1. Unheld' \subseteq Unheld \cup {got[1]}
        BY <1>7, <2>7, <3>2
      <4> QED  BY <2>8, <2>9, <3>2, <4>1, LossAdded
    <3> QED  BY <3>1, <3>2
  <2>11. SlotsApart'
    BY <1>2, <1>13, <2>2, SameSlots DEF WithSlot
  <2>12. SpaceOK(s)'
    BY <1>13, <1>14, <2>2 DEF SpaceOK, Born, MappedOwned, PagesFilled, Progress
  <2>13. \A r \in Spaces : r # s => Same(r)
    BY <1>11, <1>12, <1>13, <1>15, <2>1, <2>2 DEF Same
  <2> QED  BY <2>7, <2>9, <2>10, <2>11, <2>12, <2>13, OneSpace
<1> QED
  BY <1>16, <1>17
-----------------------------------------------------------------------------
(* The theorems *)

(* The invariant holds at the start. *)
LEMMA Start == ASSUME Init PROVE IInv
<1> USE DEF Init
<1>1. Len(<<>>) = 0 /\ <<>> \in Seq(Nat)
  OBVIOUS
<1>2. Elements(<<>>) = {} /\ Unique(<<>>)
  BY <1>1 DEF Elements, Unique
<1>3. \A s \in Spaces : HeldBy(s) = {}
  BY <1>2 DEF HeldBy
<1>4. 1 .. next - 1 = {} /\ 0 .. nextSlot - 1 = {}
  OBVIOUS
<1>5. Types
  <2>1. next \in 1 .. FrameCount + 1 /\ nextSlot \in 0 .. Slots
    BY FrameMemAssumption
  <2>2. slot \in [Spaces -> Int]
    BY DEF NoSlot
  <2> QED  BY <1>1, <2>1, <2>2 DEF Types, States, NoFrame
<1>6. Apart
  BY <1>2, <1>3, FrameMemAssumption DEF Apart, PoolApart, HeapApart, SpacesApart, StacksApart, SlotIds, NoFrame
<1>7. LossCounted
  <2>1. Unheld = {}
    BY <1>4 DEF Unheld
  <2> QED  BY <2>1, FS_EmptySet DEF LossCounted
<1>8. SlotsApart
  <2>1. \A n \in SlotIds : ~(n < nextSlot) /\ slotFrames[n] = {}
    BY FrameMemAssumption DEF SlotIds
  <2> QED  BY <1>2, <1>4, <2>1 DEF SlotsApart
<1>9. \A s \in Spaces : SpaceOK(s)
  BY DEF SpaceOK, Born, MappedOwned, PagesFilled, Progress
<1> QED
  BY <1>5, <1>6, <1>7, <1>8, <1>9 DEF IInv

(* A step that changes nothing keeps the invariant. *)
LEMMA Unmoved == ASSUME IInv, UNCHANGED vars PROVE IInv'
<1> USE DEF vars
<1>1. Types'
  BY DEF IInv, Types
<1>2. Apart' /\ Unheld' \subseteq Unheld
  BY SameFrames DEF IInv
<1>3. LossCounted'
  BY <1>1, <1>2, LossKept DEF IInv
<1>4. SlotsApart'
  BY SameSlots DEF IInv
<1>5. \A s \in Spaces : SpaceOK(s)'
  <2>1. \A s \in Spaces : Same(s)
    BY DEF Same
  <2> QED  BY <2>1, OtherSpace DEF IInv
<1> QED
  BY <1>1, <1>2, <1>3, <1>4, <1>5 DEF IInv

(* A step that moves no space into "loading" or "running" and changes neither
   root keeps what is known of the kernel half. *)
LEMMA KernelHalfKept ==
  ASSUME Types, KernelInv, NEW s \in Spaces, UNCHANGED <<kernelVars, kernelHalf, nextSlot>>,
         NEW c \in States \ {"unborn"}, pc[s] # "unborn", pc' = [pc EXCEPT ![s] = c],
         c \in {"loading", "running"} => pc[s] \in {"loading", "running"}
  PROVE  KernelInv'
BY DEF KernelInv, kernelVars, Types

(* Boot completes the kernel's root, New copies it. *)
LEMMA KernelStep ==
  ASSUME Types, KernelInv, Next
  PROVE  KernelInv'
<1>1. CASE InitHeap
  BY <1>1 DEF InitHeap, KernelInv, KernelRegions, spaceVars, stackVars
<1>2. CASE GuardPageCheck
  BY <1>2 DEF GuardPageCheck, KernelInv, KernelRegions, spaceVars
<1>3. ASSUME NEW s \in Spaces, New(s) PROVE KernelInv'
  <2>1. /\ booted /\ pc[s] = "unborn" /\ UNCHANGED <<heap, kernelRoot, booted, nextSlot>>
        /\ \/ pc' = [pc EXCEPT ![s] = "loading"] /\ kernelHalf' = [kernelHalf EXCEPT ![s] = kernelRoot]
           \/ pc' = [pc EXCEPT ![s] = "gone"] /\ UNCHANGED kernelHalf
    BY <1>3 DEF New, kernelVars, stackVars
  <2> QED  BY <2>1 DEF KernelInv, Types
<1>4. ASSUME NEW s \in Spaces, Spawn(s) PROVE KernelInv'
  <2>1. /\ pc[s] = "loading" /\ UNCHANGED <<heap, booted, kernelHalf>>
        /\ pc' = [pc EXCEPT ![s] = "running"]
        /\ kernelRoot' \in {kernelRoot, kernelRoot \cup {"stacks"}}
    BY <1>4 DEF Spawn, spaceVars
  <2>2. booted /\ kernelRoot' = KernelRegions
    BY <2>1 DEF KernelInv, KernelRegions
  <2> QED  BY <2>1, <2>2 DEF KernelInv, Types
<1>5. ASSUME NEW s \in Spaces, MapPage(s) PROVE KernelInv'
  <2>1. /\ pc[s] = "loading" /\ UNCHANGED <<kernelVars, kernelHalf, nextSlot>>
        /\ pc' = pc \/ pc' = [pc EXCEPT ![s] = "failed"]
    BY <1>5 DEF MapPage, Loading, stackVars
  <2>2. CASE pc' = pc
    BY <2>1, <2>2 DEF KernelInv, kernelVars
  <2> QED  BY <2>1, <2>2, KernelHalfKept DEF States
<1>6. ASSUME NEW s \in Spaces, FillRegion(s) \/ DropFrame(s) PROVE KernelInv'
  <2>1. UNCHANGED <<kernelVars, kernelHalf, nextSlot, pc>>
    BY <1>6 DEF FillRegion, DropFrame, stackVars
  <2> QED  BY <2>1 DEF KernelInv, kernelVars
<1>7. ASSUME NEW s \in Spaces, MapPageRefused(s) \/ Reject(s) \/ End(s) \/ DropRoot(s) \/ ReleaseStack(s)
      PROVE  KernelInv'
  <2>1. /\ pc[s] # "unborn" /\ UNCHANGED <<kernelVars, kernelHalf, nextSlot>>
        /\ \E c \in {"failed", "dropping", "gone", "dropped"} : pc' = [pc EXCEPT ![s] = c]
    BY <1>7 DEF MapPageRefused, Reject, End, DropRoot, ReleaseStack, Loading, spaceVars, stackVars
  <2> QED  BY <2>1, KernelHalfKept DEF States
<1> QED
  BY <1>1, <1>2, <1>3, <1>4, <1>5, <1>6, <1>7 DEF Next

(* The invariant every frame property follows from: each critical section of
   the frame allocator, map_page, the loaders, drop and kstack keeps it. *)
THEOREM Invariance == Spec => [](IInv /\ KernelInv)
<1>1. Init => IInv /\ KernelInv
  BY Start DEF Init, KernelInv, KernelRegions
<1>2. IInv /\ KernelInv /\ [Next]_vars => (IInv /\ KernelInv)'
  <2> SUFFICES ASSUME IInv, KernelInv, Next PROVE (IInv /\ KernelInv)'
    <3>1. KernelInv /\ UNCHANGED vars => KernelInv'
      BY DEF KernelInv, vars
    <3> QED  BY <3>1, Unmoved
  <2>1. KernelInv'
    BY KernelStep DEF IInv
  <2>2. CASE InitHeap
    BY <2>1, <2>2, InitHeapStep
  <2>3. CASE GuardPageCheck
    BY <2>1, <2>3, GuardPageStep
  <2>4. ASSUME NEW s \in Spaces,
               \/ New(s) \/ MapPageRefused(s) \/ MapPage(s) \/ FillRegion(s) \/ Reject(s)
               \/ Spawn(s) \/ End(s) \/ DropFrame(s) \/ DropRoot(s) \/ ReleaseStack(s)
        PROVE  (IInv /\ KernelInv)'
    BY <2>1, <2>4, NewStep, RefusedStep, MapPageStep, FillStep, SpawnStep, EndStep, DropFrameStep,
       DropRootStep, ReleaseStackStep
  <2> QED  BY <2>2, <2>3, <2>4 DEF Next
<1> QED
  BY <1>1, <1>2, PTL DEF Spec

(* A frame in use has one place, and that is what Holders finds. *)
LEMMA OnePlace ==
  ASSUME IInv, NEW f \in Frames
  PROVE  /\ InUse(f) => f < next /\ Holders(f) # {} /\ \E c : Holders(f) \subseteq {c}
         /\ ~InUse(f) => Holders(f) = {}
<1>0. f # NoFrame /\ FrameCount \in Nat /\ next \in Nat
  BY FrameMemAssumption DEF Frames, NoFrame, IInv, Types
<1>1. ASSUME NEW x \in Holders(f)
      PROVE  \/ \E i \in 1 .. Len(pool) : pool[i] = f /\ x = <<"pool", i>>
             \/ \E s \in Spaces : root[s] = f /\ x = <<"root", s>>
             \/ \E s \in Spaces : \E i \in 1 .. Len(owned[s]) : owned[s][i] = f /\ x = <<s, i>>
             \/ f \in heap /\ x = <<"heap", 0>>
             \/ \E n \in SlotIds : f \in slotFrames[n] /\ x = <<"stack", n>>
  BY Zenon DEF Holders
<1>2. /\ \A i \in 1 .. Len(pool) : pool[i] = f => f \in Elements(pool) /\ <<"pool", i>> \in Holders(f)
      /\ \A s \in Spaces : root[s] = f => f \in HeldBy(s) /\ <<"root", s>> \in Holders(f)
      /\ \A s \in Spaces : \A i \in 1 .. Len(owned[s]) :
           owned[s][i] = f => f \in HeldBy(s) /\ <<s, i>> \in Holders(f)
      /\ f \in heap => <<"heap", 0>> \in Holders(f)
      /\ \A n \in SlotIds : f \in slotFrames[n] => <<"stack", n>> \in Holders(f)
  <2>1. \A i \in 1 .. Len(pool) : pool[i] = f => f \in Elements(pool) /\ <<"pool", i>> \in Holders(f)
    BY Zenon DEF Holders, Elements
  <2>2. \A s \in Spaces : root[s] = f => f \in HeldBy(s) /\ <<"root", s>> \in Holders(f)
    BY <1>0, Zenon DEF Holders, HeldBy
  <2>3. \A s \in Spaces : \A i \in 1 .. Len(owned[s]) :
           owned[s][i] = f => f \in HeldBy(s) /\ <<s, i>> \in Holders(f)
    <3> TAKE s \in Spaces
    <3> TAKE i \in 1 .. Len(owned[s])
    <3> HAVE owned[s][i] = f
    <3> DEFINE A == {<<s, j>> : j \in {j \in 1 .. Len(owned[s]) : owned[s][j] = f}}
    <3>1. <<s, i>> \in A
      OBVIOUS
    <3>2. A \subseteq Holders(f)
      <4> DEFINE places(r) == {<<r, j>> : j \in {j \in 1 .. Len(owned[r]) : owned[r][j] = f}}
                 all == UNION {places(r) : r \in Spaces}
      <4>1. all \subseteq Holders(f)
        BY Zenon DEF Holders
      <4>2. A = places(s)
        OBVIOUS
      <4> HIDE DEF A, places
      <4> QED  BY <4>1, <4>2
    <3>3. f \in HeldBy(s)
      BY DEF HeldBy, Elements
    <3> QED  BY <3>1, <3>2, <3>3
  <2>4. f \in heap => <<"heap", 0>> \in Holders(f)
    BY Zenon DEF Holders
  <2>5. \A n \in SlotIds : f \in slotFrames[n] => <<"stack", n>> \in Holders(f)
    BY Zenon DEF Holders
  <2> QED  BY <2>1, <2>2, <2>3, <2>4, <2>5
<1>3. /\ f \in Elements(pool) => \E i \in 1 .. Len(pool) : pool[i] = f
      /\ \A s \in Spaces : f \in HeldBy(s) =>
           root[s] = f \/ \E i \in 1 .. Len(owned[s]) : owned[s][i] = f
  BY DEF Elements, HeldBy
<1>4. InUse(f) => f \in 1 .. next - 1
  BY DEF InUse, IInv, Apart, PoolApart, HeapApart, SpacesApart, StacksApart
<1>5. InUse(f) => Holders(f) # {}
  BY <1>2, <1>3 DEF InUse
<1>6. ~InUse(f) => Holders(f) = {}
  BY <1>1, <1>2 DEF InUse
<1>7. ASSUME f \in Elements(pool) PROVE \E c : Holders(f) \subseteq {c}
  <2>1. PICK i \in 1 .. Len(pool) : pool[i] = f
    BY <1>3, <1>7
  <2>2. \A j \in 1 .. Len(pool) : pool[j] = f => j = i
    BY <2>1 DEF IInv, Apart, PoolApart, Unique
  <2>3. /\ f \notin heap /\ \A s \in Spaces : f \notin HeldBy(s)
        /\ \A n \in SlotIds : f \notin slotFrames[n]
    BY <1>7 DEF IInv, Apart, HeapApart, SpacesApart, StacksApart
  <2>4. \A x \in Holders(f) : x = <<"pool", i>>
    BY <1>1, <1>2, <2>2, <2>3, Zenon
  <2> QED  BY <2>4
<1>8. ASSUME f \in heap PROVE \E c : Holders(f) \subseteq {c}
  <2>1. /\ f \notin Elements(pool) /\ \A s \in Spaces : f \notin HeldBy(s)
        /\ \A n \in SlotIds : f \notin slotFrames[n]
    BY <1>8 DEF IInv, Apart, HeapApart, SpacesApart, StacksApart
  <2>2. \A x \in Holders(f) : x = <<"heap", 0>>
    BY <1>1, <1>2, <2>1, Zenon
  <2> QED  BY <2>2
<1>9. ASSUME NEW s \in Spaces, f \in HeldBy(s) PROVE \E c : Holders(f) \subseteq {c}
  <2>1. /\ f \notin Elements(pool) /\ f \notin heap
        /\ \A r \in Spaces : f \in HeldBy(r) => r = s
        /\ \A n \in SlotIds : f \notin slotFrames[n]
        /\ Unique(owned[s]) /\ root[s] \notin Elements(owned[s])
    BY <1>9 DEF IInv, Apart, SpacesApart, StacksApart
  <2>2. \A i \in 1 .. Len(owned[s]) : owned[s][i] # root[s]
    BY <2>1 DEF Elements
  <2>3. CASE root[s] = f
    <3>1. \A r \in Spaces : root[r] = f => r = s
      BY <1>2, <2>1
    <3>2. \A r \in Spaces : \A i \in 1 .. Len(owned[r]) : owned[r][i] # f
      BY <1>2, <2>1, <2>2, <2>3
    <3>3. \A i \in 1 .. Len(pool) : pool[i] # f
      BY <1>2, <2>1
    <3>4. \A x \in Holders(f) : x = <<"root", s>>
      BY <1>1, <2>1, <3>1, <3>2, <3>3, Zenon
    <3> QED  BY <3>4
  <2>4. CASE \E i \in 1 .. Len(owned[s]) : owned[s][i] = f
    <3>1. PICK i \in 1 .. Len(owned[s]) : owned[s][i] = f
      BY <2>4
    <3>2. root[s] # f /\ \A j \in 1 .. Len(owned[s]) : owned[s][j] = f => j = i
      BY <2>1, <2>2, <3>1 DEF Unique
    <3>3. \A x \in Holders(f) : x = <<s, i>>
      BY <1>1, <1>2, <2>1, <3>2, Zenon
    <3> QED  BY <3>3
  <2> QED  BY <1>3, <1>9, <2>3, <2>4
<1>10. ASSUME NEW n \in SlotIds, f \in slotFrames[n] PROVE \E c : Holders(f) \subseteq {c}
  <2>1. /\ f \notin Elements(pool) /\ f \notin heap /\ \A s \in Spaces : f \notin HeldBy(s)
        /\ \A m \in SlotIds : f \in slotFrames[m] => m = n
    BY <1>10 DEF IInv, Apart, StacksApart
  <2>2. \A x \in Holders(f) : x = <<"stack", n>>
    BY <1>1, <1>2, <2>1, Zenon
  <2> QED  BY <2>2
<1>11. InUse(f) => \E c : Holders(f) \subseteq {c}
  BY <1>7, <1>8, <1>9, <1>10 DEF InUse
<1>12. f \in 1 .. next - 1 => f < next
  BY <1>0
<1> QED
  BY <1>4, <1>5, <1>6, <1>11, <1>12

(* frame_pool.rs and memory.rs: no frame ever reaches two owners, or one
   owner twice, in whatever order loads fail and spaces are torn down. *)
THEOREM OneOwner == Spec => []FrameHasOneOwner
<1>1. IInv => FrameHasOneOwner
  <2> SUFFICES ASSUME IInv, NEW f \in Frames
               PROVE  Cardinality(Holders(f)) <= (IF f < next THEN 1 ELSE 0)
    BY DEF FrameHasOneOwner
  <2>1. CASE InUse(f)
    <3>1. PICK c : Holders(f) \subseteq {c}
      BY <2>1, OnePlace
    <3>2. IsFiniteSet({c}) /\ Cardinality({c}) = 1
      BY FS_Singleton
    <3>3. Cardinality(Holders(f)) <= 1
      BY <3>1, <3>2, FS_Subset
    <3> QED  BY <2>1, <3>3, OnePlace
  <2>2. CASE ~InUse(f)
    <3>1. Cardinality(Holders(f)) = 0
      BY <2>2, OnePlace, FS_EmptySet
    <3> QED  BY <3>1
  <2> QED  BY <2>1, <2>2
<1> QED
  BY <1>1, Invariance, PTL

(* address_space.rs and frame_pool.rs: a frame that a live space's tables
   lead to is recorded in that space, so it is not free for anyone else. *)
THEOREM MappedOwnedSafe == Spec => []MappedFramesOwned
<1>1. IInv => MappedFramesOwned
  BY DEF IInv, SpaceOK, MappedOwned, MappedFramesOwned
<1> QED
  BY <1>1, Invariance, PTL

(* loader.rs and mirage.rs zero what they map: a running program finds no
   byte that an earlier owner of its frames left. *)
THEOREM BytesSafe == Spec => []NoForeignBytes
<1>1. IInv => NoForeignBytes
  <2>1. \A s \in Spaces, p \in Pages : pc[s] = "running" => ~Unfilled(s, p)
    BY DEF Unfilled
  <2> QED  BY <2>1 DEF IInv, SpaceOK, PagesFilled, NoForeignBytes
<1> QED
  BY <1>1, Invariance, PTL

(* address_space.rs: the root a process runs on has an entry for every
   region the kernel's own root leads to, those that kernel code maps after
   the copy included. *)
THEOREM KernelHalfSafe == Spec => []KernelHalfComplete
<1>1. KernelInv => KernelHalfComplete
  BY DEF KernelInv, KernelHalfComplete
<1> QED
  BY <1>1, Invariance, PTL

(* kstack.rs: every slot handed out is free once or used by one task, and
   keeps its pages. *)
THEOREM StacksSafe == Spec => []StacksAccounted
<1>1. IInv => StacksAccounted
  <2> SUFFICES ASSUME IInv, NEW n \in SlotIds
               PROVE  /\ Cardinality({s \in Spaces : slot[s] = n} \cup {i + Slots : i \in
                                       {i \in 1 .. Len(freeSlots) : freeSlots[i] = n}})
                           = (IF n < nextSlot THEN 1 ELSE 0)
                      /\ n < nextSlot => Cardinality(slotFrames[n]) = StackPages
    BY DEF StacksAccounted
  <2> DEFINE users == {s \in Spaces : slot[s] = n}
             places == {i \in 1 .. Len(freeSlots) : freeSlots[i] = n}
             free == {i + Slots : i \in places}
  <2>0. n \in Nat /\ nextSlot \in Nat /\ n # NoSlot
    BY FrameMemAssumption DEF SlotIds, NoSlot, IInv, Types
  <2>1. /\ \A s \in users : n \in (0 .. nextSlot - 1) \ Elements(freeSlots)
        /\ \A s, r \in users : s = r
    BY <2>0 DEF IInv, SlotsApart
  <2>2. /\ \A i \in places : n \in Elements(freeSlots) /\ n \in 0 .. nextSlot - 1
        /\ \A i, j \in places : i = j
    BY DEF IInv, SlotsApart, Elements, Unique
  <2>3. n \in 0 .. nextSlot - 1 => users # {} \/ places # {}
    BY DEF IInv, SlotsApart, Elements
  <2>4. n < nextSlot <=> n \in 0 .. nextSlot - 1
    BY <2>0
  <2>5. Cardinality(users \cup free) = (IF n < nextSlot THEN 1 ELSE 0)
    <3>1. CASE places # {}
      <4>1. PICK i : i \in places
        BY <3>1
      <4>2. users = {} /\ \A j \in places : j = i
        BY <2>1, <2>2, <4>1
      <4> HIDE DEF users, places
      <4>3. users \cup free = {i + Slots}
        BY <4>1, <4>2
      <4> QED  BY <2>2, <2>4, <4>1, <4>3, FS_Singleton
    <3>2. CASE places = {} /\ users # {}
      <4>1. PICK s : s \in users
        BY <3>2
      <4>2. free = {} /\ \A r \in users : r = s
        BY <2>1, <3>2, <4>1
      <4>3. n < nextSlot
        BY <2>1, <2>4, <4>1
      <4> HIDE DEF users, places, free
      <4>4. users \cup free = {s}
        BY <4>1, <4>2
      <4> QED  BY <4>3, <4>4, FS_Singleton
    <3>3. CASE places = {} /\ users = {}
      <4>1. users \cup free = {} /\ ~(n < nextSlot)
        BY <2>3, <2>4, <3>3
      <4> HIDE DEF users, places, free
      <4> QED  BY <4>1, FS_EmptySet
    <3> QED  BY <3>1, <3>2, <3>3
  <2>6. n < nextSlot => Cardinality(slotFrames[n]) = StackPages
    BY DEF IInv, SlotsApart
  <2> QED  BY <2>5, <2>6
<1> QED
  BY <1>1, Invariance, PTL

(* address_space.rs: teardown returns every frame but the leaf frames of the
   map_page calls that failed, at most one for each. *)
THEOREM LossBound == Spec => []OnlyFailedMapsLose
<1>1. IInv => OnlyFailedMapsLose
  <2> SUFFICES ASSUME IInv PROVE Cardinality(Lost) <= failedMaps
    BY DEF OnlyFailedMapsLose
  <2>1. \A f \in Frames : f < next => f \in 1 .. next - 1
    BY FrameMemAssumption DEF Frames, IInv, Types
  <2>2. Lost \subseteq Unheld
    BY <2>1, OnePlace DEF Lost, Unheld
  <2>3. IsFiniteSet(Unheld) /\ Cardinality(Unheld) \in Nat
    BY UnheldFinite DEF IInv
  <2>4. IsFiniteSet(Lost) /\ Cardinality(Lost) <= Cardinality(Unheld)
    BY <2>2, <2>3, FS_Subset
  <2>5. Cardinality(Lost) \in Nat /\ failedMaps \in Nat
    BY <2>4, FS_CardinalityType DEF IInv, Types
  <2> QED  BY <2>3, <2>4, <2>5 DEF IInv, LossCounted
<1> QED
  BY <1>1, Invariance, PTL
=============================================================================
