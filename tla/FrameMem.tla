------------------------------ MODULE FrameMem ------------------------------
(***************************************************************************)
(* Physical memory: the frame pool and the bump allocator behind it        *)
(* (mm/frame_pool.rs, mm/memory.rs), address spaces from creation to drop  *)
(* (mm/address_space.rs), the two loaders that fill them (loader.rs,       *)
(* mirage.rs) and kernel stacks (mm/kstack.rs).                            *)
(*                                                                         *)
(* One action is one critical section of with_memory or                    *)
(* frame_pool::release.  Images are loaded one at a time, by kernel_main.  *)
(* Processes may run and be torn down between two steps of a load, which   *)
(* the code, loading every image before run_until_idle, never does: the    *)
(* properties hold of more orders than the program can follow.             *)
(*                                                                         *)
(* A frame's contents are the set of address spaces whose bytes are still  *)
(* in it.  A page table path has as many levels as PathOf says; frames     *)
(* that map_to uses for the kernel's own tables are not counted.  The       *)
(* higher half of a root is the set of kernel regions it has an entry for:  *)
(* what is mapped later below such an entry is shared, a new entry is not.  *)
(***************************************************************************)
EXTENDS Integers, Sequences, FiniteSets

CONSTANTS
  FrameCount,   \* usable frames of the memory map, in the order they are bumped
  Spaces,       \* loads of a program, one address space each
  PathOf,       \* PathOf[p]: the tables between the root and the entry of page p
  Plans,        \* images: sequences of regions [pages, checked]
  HeapSizes,    \* how many frames the kernel heap takes (its size varies memory pressure)
  Slots,        \* layout::KERNEL_STACK_SLOTS
  StackPages    \* pages of a kernel stack

Frames == 1 .. FrameCount
NoFrame == 0
NoSlot == -1
Pages == DOMAIN PathOf
Tables == UNION {{PathOf[p][i] : i \in 1 .. Len(PathOf[p])} : p \in Pages}
SlotIds == 0 .. Slots - 1

(* What kernel code needs, each under top-level entries of its own: the
   bootloader's window on physical memory, the heap, the kernel stacks. *)
KernelRegions == {"window", "heap", "stacks"}

ASSUME FrameMemAssumption ==
  /\ FrameCount \in Nat /\ HeapSizes \subseteq Nat \ {0} /\ Slots \in Nat \ {0} /\ StackPages \in Nat \ {0}
  /\ \A p \in Pages : PathOf[p] \in Seq(Tables)
  /\ Plans \subseteq Seq([pages : Seq(Pages), checked : BOOLEAN])

VARIABLES
  next,        \* BootInfoFrameAllocator: next_addr, as the next frame
  pool,        \* frame_pool::FREE_FRAMES
  heap,        \* the frames under the kernel heap
  kernelRoot,  \* the kernel regions that the kernel's own root has an entry for
  booted,      \* has kernel_main come past its guard page check?
  contents,    \* contents[f]: whose bytes frame f still holds
  pc,          \* where each load is in its life
  plan,        \* the image it loads
  region,      \* which region of the image is being mapped
  page,        \* how many of its pages are mapped
  root,        \* AddressSpace::root
  owned,       \* AddressSpace::owned_frames
  table,       \* table[s][t]: the frame of page table t, if present
  leaf,        \* leaf[s][p]: the frame page p is mapped to, if any
  kernelHalf,  \* kernelHalf[s]: the kernel regions that the root of s has an entry for
  slot,        \* Task::stack.slot of the process's task
  nextSlot,    \* kstack::Allocator::next_slot
  freeSlots,   \* kstack::Allocator::free_slots
  slotFrames,  \* the frames mapped under a slot, never unmapped
  failedMaps   \* history: map_page calls that took a leaf frame and failed

vars == <<next, pool, heap, kernelRoot, booted, contents, pc, plan, region, page, root, owned, table, leaf,
          kernelHalf, slot, nextSlot, freeSlots, slotFrames, failedMaps>>

spaceVars == <<plan, region, page, root, owned, table, leaf, kernelHalf>>
stackVars == <<slot, nextSlot, freeSlots, slotFrames>>
kernelVars == <<heap, kernelRoot, booted>>

-----------------------------------------------------------------------------
(* BootInfoFrameAllocator::allocate_frame, called n times in a row: the pool
   is emptied from its end first, then the cursor moves. *)

AtMost(n, cap) == IF n < cap THEN n ELSE cap

(* How many calls succeed before the memory map is exhausted. *)
Available == Len(pool) + FrameCount + 1 - next

(* Faulty variant: acquire reads the last free frame without taking it. *)
TakenPeek(n) == [k \in 1 .. n |-> IF pool # <<>> THEN pool[Len(pool)] ELSE next + k - 1]

Taken(n) ==
  [k \in 1 .. n |-> IF k <= Len(pool) THEN pool[Len(pool) - k + 1]
                    ELSE next + k - Len(pool) - 1]

TakeFrames(n) ==
  /\ pool' = SubSeq(pool, 1, Len(pool) - AtMost(n, Len(pool)))
  /\ next' = next + n - AtMost(n, Len(pool))

InPool(f) == \E i \in 1 .. Len(pool) : pool[i] = f

(* frame_pool::release, which refuses a frame it already holds. *)
Release(f) == pool' = IF InPool(f) THEN pool ELSE Append(pool, f)

Elements(s) == {s[i] : i \in 1 .. Len(s)}

-----------------------------------------------------------------------------
Init ==
  /\ next = 1
  /\ pool = <<>>
  /\ heap = {}
  /\ kernelRoot = {"window"}
  /\ booted = FALSE
  /\ contents = [f \in Frames |-> {}]
  /\ pc = [s \in Spaces |-> "unborn"]
  /\ plan = [s \in Spaces |-> <<>>]
  /\ region = [s \in Spaces |-> 1]
  /\ page = [s \in Spaces |-> 0]
  /\ root = [s \in Spaces |-> NoFrame]
  /\ owned = [s \in Spaces |-> <<>>]
  /\ table = [s \in Spaces |-> [t \in Tables |-> NoFrame]]
  /\ leaf = [s \in Spaces |-> [p \in Pages |-> NoFrame]]
  /\ kernelHalf = [s \in Spaces |-> {}]
  /\ slot = [s \in Spaces |-> NoSlot]
  /\ nextSlot = 0
  /\ freeSlots = <<>>
  /\ slotFrames = [n \in SlotIds |-> {}]
  /\ failedMaps = 0

(* allocator::init_heap, early in kernel_main. *)
InitHeap ==
  /\ heap = {}
  /\ \E n \in HeapSizes : /\ n <= Available
                          /\ TakeFrames(n)
                          /\ heap' = Elements(Taken(n))
  /\ kernelRoot' = kernelRoot \cup {"heap"}
  /\ UNCHANGED <<booted, contents, pc, failedMaps, spaceVars, stackVars>>

(* Faulty variant: kernel_main goes on without the check. *)
GuardPageCheckLeftOut ==
  /\ heap # {} /\ ~booted
  /\ booted' = TRUE
  /\ UNCHANGED <<heap, kernelRoot, next, pool, contents, pc, failedMaps, spaceVars, stackVars>>

(* kernel_main maps and releases one kernel stack to test its guard page,
   before any process exists.  The slot becomes free and stays mapped: it is
   the first page of its region, whose entry the kernel root now has. *)
GuardPageCheck ==
  /\ heap # {} /\ ~booted /\ StackPages <= Available
  /\ TakeFrames(StackPages)
  /\ slotFrames' = [slotFrames EXCEPT ![0] = Elements(Taken(StackPages))]
  /\ nextSlot' = 1
  /\ freeSlots' = <<0>>
  /\ kernelRoot' = kernelRoot \cup {"stacks"}
  /\ booted' = TRUE
  /\ UNCHANGED <<heap, contents, pc, slot, failedMaps, spaceVars>>

(* AddressSpace::new, at the start of load_image: a zeroed root, with the
   entries that the kernel root has now copied into its higher half. *)
New(s) ==
  /\ pc[s] = "unborn" /\ \A r \in Spaces : pc[r] # "loading"
  /\ booted
  /\ \E image \in Plans : plan' = [plan EXCEPT ![s] = image]
  /\ IF Available > 0
     THEN /\ root' = [root EXCEPT ![s] = Taken(1)[1]]
          /\ kernelHalf' = [kernelHalf EXCEPT ![s] = kernelRoot]
          /\ contents' = [contents EXCEPT ![Taken(1)[1]] = {}]
          /\ TakeFrames(1)
          /\ pc' = [pc EXCEPT ![s] = "loading"]
     ELSE /\ pc' = [pc EXCEPT ![s] = "gone"]
          /\ UNCHANGED <<next, pool, contents, root, kernelHalf>>
  /\ UNCHANGED <<kernelVars, region, page, owned, table, leaf, failedMaps, stackVars>>

Loading(s) == pc[s] = "loading" /\ region[s] <= Len(plan[s])
Region(s) == plan[s][region[s]]
PageToMap(s) == Region(s).pages[page[s] + 1]

(* The levels of p's path that have no table yet, and the place of one of
   them in the order map_to reaches them, from the root down. *)
Missing(s, p) == {i \in 1 .. Len(PathOf[p]) : table[s][PathOf[p][i]] = NoFrame}
Place(i, levels) == Cardinality({j \in levels : j <= i})

(* The ELF loader refuses a page of an earlier segment before mapping it. *)
SharedPage(s) ==
  /\ Region(s).checked
  /\ \E i \in 1 .. region[s] - 1 : PageToMap(s) \in Elements(plan[s][i].pages)

MapPageRefused(s) ==
  /\ Loading(s) /\ page[s] < Len(Region(s).pages) /\ SharedPage(s)
  /\ pc' = [pc EXCEPT ![s] = "failed"]
  /\ UNCHANGED <<kernelVars, next, pool, contents, failedMaps, spaceVars, stackVars>>

(* Faulty variant: the new tables of a mapping are not recorded. *)
MapPageUntracked(s) ==
  /\ Loading(s) /\ page[s] < Len(Region(s).pages) /\ ~SharedPage(s)
  /\ LET p == PageToMap(s)
         missing == Missing(s, p)
         n == 1 + Cardinality(missing)
         got == Taken(n)
         Filled(t) == {i \in missing : PathOf[p][i] = t}
     IN /\ n <= Available /\ leaf[s][p] = NoFrame
        /\ leaf' = [leaf EXCEPT ![s][p] = got[1]]
        /\ table' = [table EXCEPT ![s] =
             [t \in Tables |-> IF Filled(t) = {} THEN @[t]
                               ELSE got[1 + Place(CHOOSE i \in Filled(t) : TRUE, missing)]]]
        /\ owned' = [owned EXCEPT ![s] = Append(@, got[1])]
        /\ TakeFrames(n)
  /\ page' = [page EXCEPT ![s] = @ + 1]
  /\ UNCHANGED <<kernelVars, contents, pc, plan, region, root, kernelHalf, failedMaps, stackVars>>

(* AddressSpace::map_page.  A leaf frame is taken first, then map_to takes
   one for every table missing on the path and zeroes it.  It fails when
   there are too few frames, or when the page is mapped already.  Frames of
   new tables are recorded either way; the leaf only on success. *)
MapPage(s) ==
  /\ Loading(s) /\ page[s] < Len(Region(s).pages) /\ ~SharedPage(s)
  /\ LET p == PageToMap(s)
         missing == Missing(s, p)
         n == AtMost(1 + Cardinality(missing), Available)
         got == Taken(n)
         newTables == SubSeq(got, 2, n)
         ok == n = 1 + Cardinality(missing) /\ leaf[s][p] = NoFrame
         Filled(t) == {i \in missing : PathOf[p][i] = t /\ Place(i, missing) < n}
     IN /\ TakeFrames(n)
        /\ table' = [table EXCEPT ![s] =
             [t \in Tables |-> IF Filled(t) = {} THEN @[t]
                               ELSE got[1 + Place(CHOOSE i \in Filled(t) : TRUE, missing)]]]
        /\ contents' = [f \in Frames |-> IF f \in Elements(newTables) THEN {} ELSE contents[f]]
        /\ IF ok
           THEN /\ leaf' = [leaf EXCEPT ![s][p] = got[1]]
                /\ owned' = [owned EXCEPT ![s] = Append(@, got[1]) \o newTables]
                /\ page' = [page EXCEPT ![s] = @ + 1]
                /\ UNCHANGED <<pc, failedMaps>>
           ELSE /\ owned' = [owned EXCEPT ![s] = @ \o newTables]
                /\ pc' = [pc EXCEPT ![s] = "failed"]
                /\ failedMaps' = failedMaps + AtMost(n, 1)
                /\ UNCHANGED <<leaf, page>>
  /\ UNCHANGED <<kernelVars, plan, region, root, kernelHalf, stackVars>>

(* Faulty variant: only the file's bytes are written. *)
FillRegionNoZero(s) ==
  /\ Loading(s) /\ page[s] = Len(Region(s).pages)
  /\ LET frames == {leaf[s][p] : p \in Elements(Region(s).pages)}
     IN contents' = [f \in Frames |-> IF f \in frames THEN contents[f] \cup {s} ELSE contents[f]]
  /\ region' = [region EXCEPT ![s] = @ + 1]
  /\ page' = [page EXCEPT ![s] = 0]
  /\ UNCHANGED <<kernelVars, next, pool, pc, plan, root, owned, table, leaf, kernelHalf,
                 failedMaps, stackVars>>

(* zero_at over every page of the region, write_at of the file's bytes over
   a part of it, protect_page. *)
FillRegion(s) ==
  /\ Loading(s) /\ page[s] = Len(Region(s).pages)
  /\ LET frames == {leaf[s][p] : p \in Elements(Region(s).pages)}
     IN contents' = [f \in Frames |-> IF f \in frames THEN {s} ELSE contents[f]]
  /\ region' = [region EXCEPT ![s] = @ + 1]
  /\ page' = [page EXCEPT ![s] = 0]
  /\ UNCHANGED <<kernelVars, next, pool, pc, plan, root, owned, table, leaf, kernelHalf,
                 failedMaps, stackVars>>

(* A later part of the image is malformed: the loader returns an error and
   drops the space it has built so far. *)
Reject(s) ==
  /\ pc[s] = "loading" /\ page[s] = 0
  /\ pc' = [pc EXCEPT ![s] = "failed"]
  /\ UNCHANGED <<kernelVars, next, pool, contents, failedMaps, spaceVars, stackVars>>

(* Faulty variant: the counter moves even when a free slot is reused. *)
SpawnBumps(s) ==
  /\ pc[s] = "loading" /\ region[s] > Len(plan[s])
  /\ freeSlots # <<>> /\ nextSlot < Slots
  /\ slot' = [slot EXCEPT ![s] = freeSlots[Len(freeSlots)]]
  /\ freeSlots' = SubSeq(freeSlots, 1, Len(freeSlots) - 1)
  /\ nextSlot' = nextSlot + 1
  /\ pc' = [pc EXCEPT ![s] = "running"]
  /\ UNCHANGED <<kernelVars, next, pool, slotFrames, contents, failedMaps, spaceVars>>

(* process::spawn of the loaded image, up to kstack::allocate in
   Task::new_with_context: a free slot is reused with its frames, else a
   new one is mapped in the kernel's own tables.  With neither, `expect`
   halts the kernel. *)
Spawn(s) ==
  /\ pc[s] = "loading" /\ region[s] > Len(plan[s])
  /\ \/ /\ freeSlots # <<>>
        /\ slot' = [slot EXCEPT ![s] = freeSlots[Len(freeSlots)]]
        /\ freeSlots' = SubSeq(freeSlots, 1, Len(freeSlots) - 1)
        /\ UNCHANGED <<next, pool, nextSlot, slotFrames, kernelRoot>>
     \/ /\ freeSlots = <<>> /\ nextSlot < Slots /\ StackPages <= Available
        /\ slot' = [slot EXCEPT ![s] = nextSlot]
        /\ nextSlot' = nextSlot + 1
        /\ slotFrames' = [slotFrames EXCEPT ![nextSlot] = Elements(Taken(StackPages))]
        /\ TakeFrames(StackPages)
        /\ kernelRoot' = kernelRoot \cup {"stacks"}
        /\ UNCHANGED freeSlots
  /\ pc' = [pc EXCEPT ![s] = "running"]
  /\ UNCHANGED <<heap, booted, contents, failedMaps, spaceVars>>

(* The program writes its memory and ends; process_entry loads the kernel
   root and drops the context. *)
End(s) ==
  /\ pc[s] = "running"
  /\ LET frames == {leaf[s][p] : p \in Pages}
     IN contents' = [f \in Frames |-> contents[f] \cup (IF f \in frames THEN {s} ELSE {})]
  /\ pc' = [pc EXCEPT ![s] = "dropping"]
  /\ UNCHANGED <<kernelVars, next, pool, failedMaps, spaceVars, stackVars>>

(* AddressSpace::drop, one frame_pool::release at a time: the owned frames
   in the order they were recorded, the root last. *)
DropFrame(s) ==
  /\ pc[s] \in {"failed", "dropping"} /\ owned[s] # <<>>
  /\ Release(Head(owned[s]))
  /\ owned' = [owned EXCEPT ![s] = Tail(@)]
  /\ UNCHANGED <<kernelVars, next, contents, pc, plan, region, page, root, table, leaf, kernelHalf,
                 failedMaps, stackVars>>

DropRoot(s) ==
  /\ pc[s] \in {"failed", "dropping"} /\ owned[s] = <<>>
  /\ Release(root[s])
  /\ root' = [root EXCEPT ![s] = NoFrame]
  /\ pc' = [pc EXCEPT ![s] = IF @ = "failed" THEN "gone" ELSE "dropped"]
  /\ UNCHANGED <<kernelVars, next, contents, plan, region, page, owned, table, leaf, kernelHalf,
                 failedMaps, stackVars>>

(* exit_task and the drop of the zombie Task: kstack::release. *)
ReleaseStack(s) ==
  /\ pc[s] = "dropped"
  /\ freeSlots' = Append(freeSlots, slot[s])
  /\ slot' = [slot EXCEPT ![s] = NoSlot]
  /\ pc' = [pc EXCEPT ![s] = "gone"]
  /\ UNCHANGED <<kernelVars, next, pool, contents, nextSlot, slotFrames, failedMaps, spaceVars>>

Next ==
  \/ InitHeap \/ GuardPageCheck
  \/ \E s \in Spaces :
       \/ New(s) \/ MapPageRefused(s) \/ MapPage(s) \/ FillRegion(s) \/ Reject(s)
       \/ Spawn(s) \/ End(s) \/ DropFrame(s) \/ DropRoot(s) \/ ReleaseStack(s)

Spec == Init /\ [][Next]_vars

-----------------------------------------------------------------------------
(* Properties *)

(* Who holds frame f, and where. *)
Holders(f) ==
  {<<"pool", i>> : i \in {i \in 1 .. Len(pool) : pool[i] = f}}
  \cup {<<"root", s>> : s \in {s \in Spaces : root[s] = f}}
  \cup (UNION {{<<s, i>> : i \in {i \in 1 .. Len(owned[s]) : owned[s][i] = f}} : s \in Spaces})
  \cup {<<"heap", 0>> : i \in {f} \cap heap}
  \cup {<<"stack", n>> : n \in {n \in SlotIds : f \in slotFrames[n]}}

(* frame_pool.rs: "A frame must be released exactly once", and never reaches
   two owners: the pool, the address spaces and the kernel stacks share no
   frame, none of them holds one twice, and none holds a frame that was not
   handed out. *)
FrameHasOneOwner ==
  \A f \in Frames : Cardinality(Holders(f)) <= (IF f < next THEN 1 ELSE 0)

(* frame_pool.rs: a frame "must not be mapped anywhere when it is" released.
   As long as a space may be loaded into CR3, every frame its tables lead to
   is one it owns. *)
MappedFramesOwned ==
  \A s \in Spaces : pc[s] \in {"loading", "running"} =>
    {leaf[s][p] : p \in Pages} \cup {table[s][t] : t \in Tables}
      \subseteq Elements(owned[s]) \cup {NoFrame}

(* loader.rs: frames come "from the physical frame pool still holding
   whatever the last owner left there".  A program that runs finds no byte
   of another in its pages. *)
NoForeignBytes ==
  \A s \in Spaces : pc[s] = "running" =>
    \A p \in Pages : leaf[s][p] # NoFrame => contents[leaf[s][p]] \subseteq {s}

(* address_space.rs: a kernel mapping made after a space was built "does not
   appear in it".  Whatever is mapped by then, and whichever slot its task's
   stack was given after the copy, the root a process runs on leads to every
   kernel region the kernel's own root leads to: no interrupt, system call
   or switch to its stack faults under it. *)
KernelHalfComplete ==
  \A s \in Spaces : pc[s] = "running" => kernelRoot \subseteq kernelHalf[s]

(* Slots are neither shared nor lost: each one ever handed out is free once
   or used by one task, and stays mapped. *)
StacksAccounted ==
  /\ \A n \in SlotIds :
       Cardinality({s \in Spaces : slot[s] = n} \cup {i + Slots : i \in
                    {i \in 1 .. Len(freeSlots) : freeSlots[i] = n}})
         = (IF n < nextSlot THEN 1 ELSE 0)
  /\ \A n \in SlotIds : n < nextSlot => Cardinality(slotFrames[n]) = StackPages

(* Frames that were handed out and that nobody holds any more. *)
Lost == {f \in Frames : f < next /\ Holders(f) = {}}

(* address_space.rs: "Every frame this address space allocates - both leaf
   frames and the intermediate page tables reaching them - is recorded".
   Teardown returns all of them, except the leaf of a map_page that failed. *)
OnlyFailedMapsLose == Cardinality(Lost) <= failedMaps

(* The same sentence without the exception. *)
NoFrameLost == Lost = {}
=============================================================================
