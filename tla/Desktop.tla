------------------------------ MODULE Desktop ------------------------------
(***************************************************************************)
(* The compositor (graphics/compositor.rs), the system calls that reach it *)
(* (surface_create, surface_commit, surface_info, input_poll) and the part *)
(* of process_entry that takes a dead process's windows away.              *)
(*                                                                         *)
(* A system call runs with interrupts off and is one action.  process_entry*)
(* takes the compositor's lock with interrupts on: between its lock and    *)
(* its unlock a tick may give the CPU to a program, and a call of that     *)
(* program then spins on the lock with interrupts off.                     *)
(*                                                                         *)
(* Geometry is in pixels, with the numbers of the source.  A buffer is its *)
(* length and what was last drawn in it: nothing, part of a frame, or a    *)
(* whole frame with the size it was drawn for.                             *)
(***************************************************************************)
EXTENDS Input

CONSTANTS
  Procs,        \* processes
  Exclusive,    \* those whose Realm has EXCLUSIVE_SCANOUT
  Screens,      \* framebuffer sizes <<width, height>>
  Requests      \* window sizes <<width, height>> that programs ask for

ASSUME DesktopAssumption ==
  /\ Exclusive \subseteq Procs
  /\ \A b \in Budgets : b.procs \subseteq Procs
  /\ Screens \union Requests \subseteq Nat \X Nat

TRUST_BAR_HEIGHT == 20
TILE_GAP == 6
MAX_SURFACE_PIXELS == 8 * 1024 * 1024

None == "none"
NoSurface == 0

(* What a buffer holds. *)
Blank == [part |-> "none", size |-> <<0, 0>>]
Torn == [part |-> "some", size |-> <<0, 0>>]
Whole(size) == [part |-> "all", size |-> size]

VARIABLES
  framebuffer,  \* the screen's size
  surfaces,     \* CompositorState::surfaces, oldest first
  nextId,       \* next_surface_id
  focused,      \* CompositorState::focused
  layout,       \* CompositorState::layout
  shown,        \* the last frame: the owners of the surfaces drawn, and of the one the bar names
  lock,         \* who holds COMPOSITOR between two steps
  state,        \* where each process is in its life
  mine,         \* per program: the ids it was given, in order
  knows,        \* per program: the size it last learnt of each of its surfaces
  machine       \* "up", "spinning" or "panicked"

desktopVars == <<framebuffer, surfaces, nextId, focused, layout, shown, lock, state, mine, knows, machine>>
vars == <<inputVars, desktopVars>>

Smaller(a, b) == IF a < b THEN a ELSE b
Larger(a, b) == IF a < b THEN b ELSE a
Monus(a, b) == IF a < b THEN 0 ELSE a - b  \* saturating_sub

(* content_region: the screen without the reserved strip. *)
Content == [x |-> 0, y |-> TRUST_BAR_HEIGHT, w |-> framebuffer[1],
            h |-> Monus(framebuffer[2], TRUST_BAR_HEIGHT)]

Ids(s) == {s[i].id : i \in 1 .. Len(s)}
Windowed(surface) == surface.mode = "Windowed"

-----------------------------------------------------------------------------
(* relayout *)

(* Surface::resize: a new size means a new, blank buffer. *)
Resize(surface, w, h) ==
  IF surface.w = w /\ surface.h = h THEN surface
  ELSE [surface EXCEPT !.w = w, !.h = h, !.length = w * h, !.drawn = Blank]

Halved(n) == (n - TILE_GAP) \div 2

(* Faulty variant: the rest begins right after the tile, without the gap. *)
RestNoGap(area) ==
  IF area.w >= area.h
  THEN [area EXCEPT !.x = @ + Halved(area.w), !.w = @ - Halved(area.w) - TILE_GAP]
  ELSE [area EXCEPT !.y = @ + Halved(area.h) - TILE_GAP, !.h = @ - Halved(area.h)]

(* The tile cut off an area along its longer side, and what remains. *)
Tile(area) ==
  IF area.w >= area.h THEN [area EXCEPT !.w = Halved(@)] ELSE [area EXCEPT !.h = Halved(@)]

Rest(area) ==
  IF area.w >= area.h
  THEN [area EXCEPT !.x = @ + Halved(area.w) + TILE_GAP, !.w = @ - Halved(area.w) - TILE_GAP]
  ELSE [area EXCEPT !.y = @ + Halved(area.h) + TILE_GAP, !.h = @ - Halved(area.h) - TILE_GAP]

(* The area left when k tiles have been cut off. *)
Left(n) ==
  LET whole == [x |-> Content.x + TILE_GAP, y |-> Content.y + TILE_GAP,
                w |-> Monus(Content.w, 2 * TILE_GAP), h |-> Monus(Content.h, 2 * TILE_GAP)]
      left[k \in 0 .. n] == IF k = 0 THEN whole ELSE Rest(left[k - 1])
  IN left

(* Subtracting the gap from less than it: an overflow, and a panic. *)
TooSmall(area) == area.w < TILE_GAP /\ area.h < TILE_GAP

Windows(s) == Cardinality({i \in 1 .. Len(s) : Windowed(s[i])})

Overflows(s, mode) ==
  mode = "Tiling" /\ \E k \in 0 .. Windows(s) - 2 : TooSmall(Left(Windows(s))[k])

(* The surfaces after relayout, where it does not overflow: every window of
   the desktop gets its share, the last one all that is left. *)
Relayout(s, mode) ==
  LET place == [i \in 1 .. Len(s) |-> Windows(SubSeq(s, 1, i))]
      area(i) == Left(Windows(s))[place[i] - 1]
      share(i) == IF place[i] = Windows(s) THEN area(i) ELSE Tile(area(i))
      tiled(i) == Resize([s[i] EXCEPT !.x = share(i).x, !.y = share(i).y],
                         Larger(share(i).w, 1), Larger(share(i).h, 1))
      floating(i) == [s[i] EXCEPT !.y = Larger(@, Content.y)]
  IN [i \in 1 .. Len(s) |-> IF ~Windowed(s[i]) THEN s[i]
                            ELSE IF mode = "Tiling" THEN tiled(i) ELSE floating(i)]

(* The compositor with surfaces s, arranged for mode. *)
Arrange(s, mode) ==
  /\ layout' = mode
  /\ IF Overflows(s, mode) THEN machine' = "panicked" /\ surfaces' = s
                           ELSE machine' = machine /\ surfaces' = Relayout(s, mode)

-----------------------------------------------------------------------------
Init ==
  /\ InputInit
  /\ framebuffer \in Screens
  /\ surfaces = <<>> /\ nextId = 1 /\ focused = NoSurface /\ layout = "Floating"
  /\ shown = [drawn |-> <<>>, bar |-> None]  \* kernel_main presents once
  /\ lock = None
  /\ state = [p \in Procs |-> IF p \in budget.procs THEN "running" ELSE "gone"]
  /\ mine = [p \in Procs |-> <<>>]
  /\ knows = [p \in Procs |-> [i \in {} |-> 0]]
  /\ machine = "up"

(* A program that runs makes a call; one that needs the compositor spins if
   the lock is held. *)
Calls(p) == machine = "up" /\ state[p] = "running"

Spins(p) ==
  /\ Calls(p) /\ lock # None
  /\ machine' = "spinning"
  /\ UNCHANGED <<inputVars, framebuffer, surfaces, nextId, focused, layout, shown, lock, state, mine, knows>>

(* Where create_surface puts a window: cascading, within the content. *)
NewSurface(p, request) ==
  LET full == p \in Exclusive
      w == IF full THEN Content.w ELSE Smaller(request[1], Content.w)
      h == IF full THEN Content.h ELSE Smaller(request[2], Content.h)
      n == Len(surfaces)
  IN [id |-> nextId, pid |-> p, mode |-> IF full THEN "Fullscreen" ELSE "Windowed",
      x |-> IF full THEN Content.x ELSE Smaller(Content.x + 40 + n * 30, Content.x + Content.w - w),
      y |-> IF full THEN Content.y ELSE Smaller(Content.y + 30 + n * 26, Content.y + Monus(Content.h, h)),
      w |-> w, h |-> h, length |-> w * h, drawn |-> Blank]

(* sys_surface_create: the new surface takes focus, and all are arranged. *)
SurfaceCreate(p, request) ==
  /\ Calls(p) /\ lock = None /\ nextId <= budget.surfaces
  /\ LET new == NewSurface(p, request)
     IN /\ new.w > 0 /\ new.h > 0 /\ new.length <= MAX_SURFACE_PIXELS
        /\ Arrange(Append(surfaces, new), layout)
        /\ focused' = nextId
        /\ nextId' = nextId + 1
        /\ mine' = [mine EXCEPT ![p] = Append(@, nextId)]
  /\ UNCHANGED <<inputVars, framebuffer, shown, lock, state, knows>>

Owns(p, id) == \E i \in 1 .. Len(surfaces) : surfaces[i].id = id /\ surfaces[i].pid = p
At(id) == CHOOSE i \in 1 .. Len(surfaces) : surfaces[i].id = id

(* sys_surface_info, through surface_geometry. *)
SurfaceInfo(p, id) ==
  /\ Calls(p) /\ lock = None /\ Owns(p, id)
  /\ knows' = [knows EXCEPT ![p] = [i \in DOMAIN @ \union {id} |->
                 IF i = id THEN <<surfaces[At(id)].w, surfaces[At(id)].h>> ELSE @[i]]]
  /\ UNCHANGED <<inputVars, framebuffer, surfaces, nextId, focused, layout, shown, lock, state, mine, machine>>

(* The frame that present draws of surfaces s. *)
Frame(s) ==
  [drawn |-> [i \in 1 .. Len(s) |-> s[i].pid],
   bar |-> IF focused \in Ids(s) THEN s[CHOOSE i \in 1 .. Len(s) : s[i].id = focused].pid ELSE None]

(* present: a pending hotkey first switches the layout. *)
Present(s) ==
  LET mode == IF ~toggle THEN layout ELSE IF layout = "Tiling" THEN "Floating" ELSE "Tiling"
  IN /\ toggle' = FALSE
     /\ IF toggle THEN Arrange(s, mode) ELSE surfaces' = s /\ UNCHANGED <<layout, machine>>
     /\ shown' = IF toggle /\ Overflows(s, mode) THEN shown ELSE Frame(s)

Drawn(id, what) == [surfaces EXCEPT ![At(id)].drawn = what]

(* Faulty variant: the length is not compared. *)
SurfaceCommitAnyLength(p, id, presents) ==
  /\ Calls(p) /\ lock = None /\ Owns(p, id) /\ id \in DOMAIN knows[p]
  /\ IF presents THEN Present(Drawn(id, Whole(knows[p][id])))
     ELSE surfaces' = Drawn(id, Whole(knows[p][id])) /\ UNCHANGED <<toggle, layout, machine, shown>>
  /\ UNCHANGED <<ring, head, len, dropped, packet, previous, pushed, taken, heard, lost, budget>>
  /\ UNCHANGED <<framebuffer, nextId, focused, lock, state, mine, knows>>

(* sys_surface_commit of a frame the program drew for the size it knows.
   Its length must be that of the buffer.  The composite that follows is
   skipped if there was one in this tick. *)
SurfaceCommit(p, id, presents) ==
  /\ Calls(p) /\ lock = None /\ Owns(p, id) /\ id \in DOMAIN knows[p]
  /\ knows[p][id][1] * knows[p][id][2] = surfaces[At(id)].length
  /\ IF presents THEN Present(Drawn(id, Whole(knows[p][id])))
     ELSE surfaces' = Drawn(id, Whole(knows[p][id])) /\ UNCHANGED <<toggle, layout, machine, shown>>
  /\ UNCHANGED <<ring, head, len, dropped, packet, previous, pushed, taken, heard, lost, budget>>
  /\ UNCHANGED <<framebuffer, nextId, focused, lock, state, mine, knows>>

(* The same with a buffer that cannot be read to its end: part of the frame
   is copied, and nothing is presented. *)
SurfaceCommitFails(p, id) ==
  /\ Calls(p) /\ lock = None /\ Owns(p, id) /\ id \in DOMAIN knows[p]
  /\ knows[p][id][1] * knows[p][id][2] = surfaces[At(id)].length
  /\ surfaces' = Drawn(id, Torn)
  /\ UNCHANGED <<inputVars, framebuffer, nextId, focused, layout, shown, lock, state, mine, knows, machine>>

(* sys_input_poll takes no lock of the compositor.  Events whose copy out
   fails have been taken all the same. *)
InputPoll(p) ==
  /\ Calls(p)
  /\ \E k \in PollSizes, copied \in BOOLEAN : Poll(k, copied)
  /\ UNCHANGED desktopVars

(* An interrupt is taken wherever interrupts are on. *)
Interrupt == machine = "up" /\ InputInterrupt /\ UNCHANGED desktopVars

-----------------------------------------------------------------------------
(* The end of a process *)

(* The program ends; process_entry marks it Exited. *)
SetExited(p) ==
  /\ Calls(p)
  /\ state' = [state EXCEPT ![p] = "exited"]
  /\ mine' = [mine EXCEPT ![p] = <<>>]
  /\ knows' = [knows EXCEPT ![p] = [i \in {} |-> 0]]
  /\ UNCHANGED <<inputVars, framebuffer, surfaces, nextId, focused, layout, shown, lock, machine>>

(* remove_surfaces_for: COMPOSITOR.lock(), with interrupts on.  Another
   process_entry that finds it taken waits its turn. *)
RemoveLocks(p) ==
  /\ machine = "up" /\ state[p] = "exited" /\ lock = None
  /\ lock' = p
  /\ UNCHANGED <<inputVars, framebuffer, surfaces, nextId, focused, layout, shown, state, mine, knows, machine>>

(* Vec::retain, of the surfaces that are not of process p: their order stays. *)
Retain(s, p) ==
  LET keep == {i \in 1 .. Len(s) : s[i].pid # p}
      n == Cardinality(keep)
      at == CHOOSE f \in [1 .. n -> keep] : \A i, j \in 1 .. n : i < j => f[i] < f[j]
  IN [i \in 1 .. n |-> s[at[i]]]

(* Faulty variant: the focus stays where it was. *)
RemoveSurfacesKeepFocus(p) ==
  /\ machine = "up" /\ lock = p
  /\ Arrange(Retain(surfaces, p), layout)
  /\ state' = [state EXCEPT ![p] = "gone"]
  /\ lock' = None
  /\ UNCHANGED <<inputVars, framebuffer, nextId, focused, shown, mine, knows>>

(* Faulty variant: only the first of its surfaces is removed. *)
RemoveSurfacesFirst(p) ==
  /\ machine = "up" /\ lock = p
  /\ LET gone == {i \in 1 .. Len(surfaces) : surfaces[i].pid = p}
         kept == IF gone = {} THEN surfaces
                 ELSE RemoveAt(surfaces, CHOOSE i \in gone : \A j \in gone : i <= j)
     IN /\ Arrange(kept, layout)
        /\ focused' = IF focused = NoSurface \/ focused \in Ids(kept) THEN focused
                      ELSE IF kept = <<>> THEN NoSurface ELSE kept[Len(kept)].id
  /\ state' = [state EXCEPT ![p] = "gone"]
  /\ lock' = None
  /\ UNCHANGED <<inputVars, framebuffer, nextId, shown, mine, knows>>

(* The rest of it, and the unlock: the focus of a removed surface goes to the
   newest one left.  Nothing is presented. *)
RemoveSurfaces(p) ==
  /\ machine = "up" /\ lock = p
  /\ LET kept == Retain(surfaces, p)
     IN /\ Arrange(kept, layout)
        /\ focused' = IF focused = NoSurface \/ focused \in Ids(kept) THEN focused
                      ELSE IF kept = <<>> THEN NoSurface ELSE kept[Len(kept)].id
  /\ state' = [state EXCEPT ![p] = "gone"]
  /\ lock' = None
  /\ UNCHANGED <<inputVars, framebuffer, nextId, shown, mine, knows>>

Next ==
  \/ Interrupt
  \/ \E p \in Procs :
       \/ \E request \in Requests : SurfaceCreate(p, request)
       \/ \E id \in 1 .. budget.surfaces :
            \/ SurfaceInfo(p, id) \/ SurfaceCommitFails(p, id)
            \/ \E presents \in BOOLEAN : SurfaceCommit(p, id, presents)
       \/ InputPoll(p) \/ Spins(p)
       \/ SetExited(p) \/ RemoveLocks(p) \/ RemoveSurfaces(p)

Spec == Init /\ [][Next]_vars

-----------------------------------------------------------------------------
(* Properties *)

Apart(a, b) ==
  \/ a.x + a.w <= b.x \/ b.x + b.w <= a.x
  \/ a.y + a.h <= b.y \/ b.y + b.h <= a.y

(* compositor.rs, of Tiling: "Windows are packed to fill the content area,
   never overlapping."  However many there are, whatever was opened, closed
   and toggled before, no two tiled windows overlap, and no surface in any
   mode leaves the content area: none reaches the trust strip. *)
TilesApart ==
  machine # "panicked" =>
    /\ \A i \in 1 .. Len(surfaces) :
         LET s == surfaces[i]
         IN s.y >= TRUST_BAR_HEIGHT /\ s.x + s.w <= framebuffer[1] /\ s.y + s.h <= framebuffer[2]
    /\ layout = "Tiling" =>
         \A i, j \in 1 .. Len(surfaces) :
           i < j /\ Windowed(surfaces[i]) /\ Windowed(surfaces[j]) => Apart(surfaces[i], surfaces[j])

(* A buffer always has a pixel for every point of its surface, so present
   indexes it without a panic; and a whole frame in it was drawn for as many
   pixels as it has, in whatever order resizes, surface_info and commits come
   (resize, commit_surface_from_user). *)
BuffersFit ==
  \A i \in 1 .. Len(surfaces) :
    LET s == surfaces[i]
    IN /\ s.length = s.w * s.h
       /\ s.drawn.part = "all" => s.drawn.size[1] * s.drawn.size[2] = s.length

(* The trust bar names the Realm of the window on top: the focus is on the
   newest surface, whoever else died, and nowhere only when there is none.
   So is the bar of the frame on the screen: it names the owner of the
   topmost window drawn in that frame (create_surface, remove_surfaces_for,
   present). *)
BarNamesTop ==
  /\ focused = IF surfaces = <<>> THEN NoSurface ELSE surfaces[Len(surfaces)].id
  /\ shown.bar = IF shown.drawn = <<>> THEN None ELSE shown.drawn[Len(shown.drawn)]

Increasing(ids) == \A i, j \in 1 .. Len(ids) : i < j => ids[i] < ids[j]

(* A running program's surfaces are exactly those it created, in order: no
   other process's end takes one away.  After remove_surfaces_for a process
   has none, and an id is never given twice (next_surface_id). *)
SurfacesAgree ==
  /\ Increasing([i \in 1 .. Len(surfaces) |-> surfaces[i].id])
  /\ \A p \in Procs :
       LET own == {surfaces[i].id : i \in {j \in 1 .. Len(surfaces) : surfaces[j].pid = p}}
       IN /\ state[p] = "running" => own = Range(mine[p]) /\ Increasing(mine[p])
          /\ state[p] = "gone" => own = {}

(* gdt.rs speaks of "the deadlock this kernel spends so much effort
   avoiding", kstack.rs of "a timer tick landing inside the critical section,
   followed by anything on the other side of the switch taking the same
   lock".  No system call ever spins on a lock its holder cannot give back. *)
NoCallSpins == machine # "spinning"
=============================================================================
