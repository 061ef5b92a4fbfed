-------------------------------- MODULE Boot --------------------------------
(***************************************************************************)
(* One boot, from the files the image builder packs to the verdict of      *)
(* scripts/boot-test.sh: runner/build.rs, kernel_main and epilogue in      *)
(* kernel/src/main.rs, and the parts they call, composed: the clock        *)
(* (Clock), the archive (Archive), packages (Store), both loaders (Loader, *)
(* Mirage) and the checks on user memory (UserMem).                        *)
(*                                                                         *)
(* kernel_main runs with interrupts on.  From init_mouse the keyboard's    *)
(* and the mouse's handlers may interrupt it anywhere, and they take the   *)
(* same spin locks of drivers/input.rs that kernel_main takes itself.      *)
(* What the archive holds may be damaged on its way to the kernel.         *)
(* Scheduling, frames, system calls and drawing are other modules' matter: *)
(* the self-tests that measure them pass here, unless a damaged program    *)
(* was among what they ran.                                                *)
(***************************************************************************)
EXTENDS Clock, Archive, Store, Loader, Mirage, UserMem

CONSTANTS Configs,       \* sets of the optional programs the builder was given
          UserProgram,   \* the ELF image of each of them
          Damage(_),     \* what one cell of the archive may become on the way
          Buses,         \* the PCI buses a machine may have
          MaxInputs,     \* input interrupts in one boot
          Pointers, Lengths   \* user buffers the property on copies quantifies over

ASSUME BootAssumption ==
    /\ \A c \in Configs : c \subseteq {"hello", "gui", "fstest"}
    /\ MaxInputs \in Nat
    /\ Pointers \subseteq 0..MaxAddress /\ Lengths \subseteq 0..(MaxAddress + 1)
    /\ UserProgram \in ElfImages

VARIABLES boot,    \* where kernel_main is and what it has recorded
          irq,     \* the input handler on top of it: the lock it wants next
          image    \* ghost: the files as packed, whether they were damaged, and
                   \* whether every self-test before them passed

bootVars == <<boot, irq, image>>
vars == <<bootVars, clockVars, archiveVars>>

Ended == boot.stage \in {"exited", "panicked", "halted"}

\* kernel_main runs only while no handler does.
At(s) == boot.stage = s /\ irq.wants = "nothing"
Goto(s) == [boot EXCEPT !.stage = s]
Panic(why) == [boot EXCEPT !.stage = "panicked", !.why = why, !.loud = TRUE, !.held = {}]

\* selftest::check, on a record of kernel_main's state: report asks only whether
\* any check failed, and each that did prints the word boot-test.sh looks for.
check(b, passed) == IF passed THEN b ELSE [b EXCEPT !.failed = TRUE, !.loud = TRUE]

-----------------------------------------------------------------------------
(* runner/build.rs *)

File(path, cell) == [path |-> path, data |-> <<cell>>]
Contents(text) == [text |-> text]

BssTest == [ident |-> TRUE, phentsize |-> 1, phoff |-> 1, len |-> 5, entry |-> PageSize,
            segments |-> << [load |-> TRUE, r |-> TRUE, w |-> FALSE, x |-> TRUE, offset |-> 3,
                             filesz |-> 2, vaddr |-> PageSize, memsz |-> 2],
                            [load |-> TRUE, r |-> TRUE, w |-> TRUE, x |-> FALSE, offset |-> 3,
                             filesz |-> 0, vaddr |-> 2 * PageSize, memsz |-> PageSize] >>]

\* Headers, a code section with the one absolute address, and a data section
\* with the two names, their slots and the two directories, which at this scale
\* takes two pages.
HelloExe == [ident |-> TRUE, base |-> 2 * PageSize, size |-> 4 * PageSize, headers |-> 2,
             len |-> 14, entry |-> 4, import_at |-> 14, reloc_at |-> 15,
             sections |-> << [va |-> 4, vsize |-> 4, raw_offset |-> 2, raw_size |-> 4,
                              w |-> FALSE, x |-> TRUE],
                             [va |-> 8, vsize |-> 8, raw_offset |-> 6, raw_size |-> 8,
                              w |-> TRUE, x |-> FALSE] >>,
             imports |-> << [name |-> "OutputDebugStringA", by_ordinal |-> FALSE,
                             hint |-> 8, slot |-> 10],
                            [name |-> "ExitProcess", by_ordinal |-> FALSE,
                             hint |-> 9, slot |-> 12] >>,
             relocs |-> << [rva |-> 5, kind |-> "dir64"], [rva |-> 4, kind |-> "absolute"] >>]

NotesManifest == << Text, Line("id", "os.najm.notes"), Line("entry", "/bin/notes"),
                    Line("realm", "Vault"), Line("capability", "file_read"),
                    Line("capability", "surface_create") >>
NotesPayload == << Line("capability", "input_read"), Binary >>

Bin(name) == <<"", "bin", name>>
Etc(name) == <<"", "etc", name>>
App(name) == <<"", "apps", name>>
Apps == <<"", "apps">>

\* main: the files every image holds, and each program whose path was set.
PackedFiles(programs) ==
    LET optional(name) == IF name \in programs THEN <<File(Bin(name), UserProgram)>> ELSE <<>>
    IN << File(Bin("bss-test"), BssTest), File(Bin("hello.exe"), HelloExe),
          File(Etc("motd"), Contents("motd")), File(Etc("theme.conf"), Contents("theme")),
          File(Etc("version"), Contents("version")) >>
       \o optional("hello") \o optional("fstest") \o optional("gui")
       \o << File(App("notes.najm"), build_package(NotesManifest, NotesPayload, FALSE)),
             File(App("tampered.najm"), build_package(NotesManifest, NotesPayload, TRUE)) >>

\* userland/*/linker.ld (external): every segment on pages of its own, below the
\* stack, never both writable and executable, and the entry point in one of them.
Linked(program) ==
    LET segments == program.segments
        maps(i)  == segments[i].load /\ segments[i].memsz > 0
        last(i)  == segments[i].vaddr + segments[i].memsz - 1
        pages(i) == PagesOf(segments[i].vaddr, last(i))
    IN /\ parse_header(program)
       /\ \A i \in DOMAIN segments :
             /\ segments[i].load => SegmentAccepted(program, segments[i])
             /\ maps(i) => last(i) < USER_STACK_BOTTOM
       /\ \A i, j \in DOMAIN segments :
             maps(i) /\ maps(j) /\ i # j => pages(i) \intersect pages(j) = {}
       /\ \E i \in DOMAIN segments : maps(i) /\ program.entry \in segments[i].vaddr..last(i)

ASSUME ProgramAssumption == Linked(UserProgram)

\* Whatever happened to the bytes, what the kernel reads there are the unsigned
\* fields of a header, an entry or an image.
WellFormed(cell) ==
    /\ IsHeader(cell) => cell.count \in Nat
    /\ IsEntry(cell) => cell.dir \in BOOLEAN /\ cell.offset \in Nat /\ cell.len \in Nat
    /\ IsElf(cell) => cell \in ElfImages
    /\ IsPe(cell) => cell \in PeImages

\* No accident gives a package another body together with that body's digest.
NotForged(cell) ==
    IsPackage(cell) /\ cell.digest = cell.body => cell.body = NotesManifest \o NotesPayload

ASSUME ArchiveAssumption ==
    \A c \in Configs : Buildable(PackedFiles(c)) =>
        LET bytes == build_archive(PackedFiles(c))
        IN /\ Len(bytes) <= MaxWord
           /\ \A i \in DOMAIN bytes : \A cell \in Damage(bytes[i]) :
                 WellFormed(cell) /\ NotForged(cell)

\* The archives the kernel may find: whole, cut short, or one cell changed.
InTransit(files) ==
    LET bytes == build_archive(files)
        found(b, damaged) == [files |-> files, bytes |-> b, damaged |-> damaged]
    IN {found(bytes, FALSE)}
       \union {found(SubSeq(bytes, 1, n), TRUE) : n \in 0..(Len(bytes) - 1)}
       \union UNION {{found([bytes EXCEPT ![i] = c], TRUE) : c \in Damage(bytes[i])} :
                       i \in DOMAIN bytes}
Shipped == UNION {InTransit(PackedFiles(c)) : c \in {d \in Configs : Buildable(PackedFiles(d))}}

-----------------------------------------------------------------------------
(* security/capability.rs: a token and its copies share one id; REVOKED holds ids. *)

issue(id) == [id |-> id]
derive(cap) == cap
revoke(revoked, cap) == revoked \union {cap.id}
is_revoked(revoked, cap) == cap.id \in revoked

(* mm/memory.rs: the top-level table, as the set of indices in use. *)
KERNEL_PML4_FIRST_INDEX == 2
clear_lower_half_mappings(table) == {i \in table : i >= KERNEL_PML4_FIRST_INDEX}
pml4_entries_in_use(table) ==
    <<Cardinality({i \in table : i < KERNEL_PML4_FIRST_INDEX}),
      Cardinality({i \in table : i >= KERNEL_PML4_FIRST_INDEX})>>

(* drivers/pci.rs: functions above 0 exist only behind a function 0 that says so. *)
probe(bus, slot, function) == \E d \in bus : d.slot = slot /\ d.function = function
is_multifunction(bus, slot) == \E d \in bus : d.slot = slot /\ d.function = 0 /\ d.multi
enumerate(bus) ==
    {d \in bus : /\ probe(bus, d.slot, 0)
                 /\ d.function = 0 \/ is_multifunction(bus, d.slot)}

(* usermode.rs: the kind in the upper half of the word, the status below it. *)
ExitKinds == <<"Exited", "PageFault", "GeneralProtectionFault">>
KindBase == 256
encode(exit) == (CHOOSE k \in 0..2 : ExitKinds[k + 1] = exit.kind) * KindBase + exit.status
decode(raw) == [kind |-> ExitKinds[raw \div KindBase + 1], status |-> raw % KindBase]

\* How a program that starts on a page with these permissions and then halts
\* ends: the fetch faults, or the privileged instruction does.
EndsWith(perm) ==
    decode(encode([kind |-> IF perm.x THEN "GeneralProtectionFault" ELSE "PageFault",
                   status |-> 0]))

-----------------------------------------------------------------------------
(* kernel_main, up to the archive. *)

Init ==
    /\ ClockInit /\ ArchiveInit
    /\ boot = [stage |-> "memory", nx |-> TRUE, mouse |-> FALSE, held |-> {}, failed |-> FALSE,
               loud |-> FALSE, why |-> "", screen |-> FALSE, procs |-> <<>>,
               verdicts |-> {}, exit |-> ""]
    /\ irq = [wants |-> "nothing", left |-> MaxInputs]
    /\ image = [files |-> <<>>, damaged |-> FALSE, healthy |-> FALSE]

\* The CPU's features, the split of the address space, and the capability tests.
StartMemory ==
    /\ At("memory")
    /\ \E nx \in BOOLEAN, left \in SUBSET (0..(KERNEL_PML4_FIRST_INDEX - 1)) :
          LET table   == clear_lower_half_mappings(left \union {KERNEL_PML4_FIRST_INDEX})
              used    == pml4_entries_in_use(table)
              token   == issue(1)
              copy    == derive(token)
              revoked == revoke({}, token)
              b1 == check(Goto("pci"), used[1] = 0 /\ used[2] > 0)
              b2 == check(b1, nx)
              b3 == check(b2, ~is_revoked({}, copy))
          IN boot' = [check(b3, is_revoked(revoked, copy)) EXCEPT !.nx = nx]
    /\ UNCHANGED <<irq, image, clockVars, archiveVars>>

EnumeratePci ==
    /\ At("pci")
    /\ \E bus \in Buses :
          boot' = check(Goto("clock"), enumerate(bus) # {})
    /\ UNCHANGED <<irq, image, clockVars, archiveVars>>

\* rtc::init; the chip runs on beside it.
ClockRuns == At("clock") /\ ClockNext /\ UNCHANGED <<bootVars, archiveVars>>

\* When the clock has been read the chip is of no further interest.
ClockRead ==
    /\ At("clock") /\ rtc.pc = "done" /\ ~chip.busy
    /\ boot' = check(Goto("mouse"), rtc.result # NoTime)
    /\ chip' = [time |-> NoTime, mode |-> [binary |-> TRUE, day24 |-> TRUE], busy |-> FALSE,
                updates |-> 0]
    /\ rtc' = [pc |-> "over", regs |-> <<>>, previous |-> NoTime, tries |-> 0,
               result |-> NoTime, seen |-> {}]
    /\ UNCHANGED <<irq, image, archiveVars>>

\* init_mouse gives up at the first of its six waits that times out; its result
\* is not looked at.
init_mouse ==
    /\ At("mouse")
    /\ \E writable \in BOOLEAN : boot' = [Goto("ring3") EXCEPT !.mouse = writable]
    /\ UNCHANGED <<irq, image, clockVars, archiveVars>>

\* run_test and run_nx_test.
RunRing3Tests ==
    /\ At("ring3")
    /\ LET b == check(Goto("ramdisk"), EndsWith(Perm(FALSE, TRUE)).kind = "GeneralProtectionFault")
       IN boot' = IF ~boot.nx THEN b
                  ELSE check(b, EndsWith(Perm(TRUE, ~boot.nx)).kind = "PageFault")
    /\ UNCHANGED <<irq, image, clockVars, archiveVars>>

-----------------------------------------------------------------------------
(* The archive and what is in it. *)

\* The ramdisk the bootloader mapped.  What it holds was decided when the image
\* was built; nothing has read it before.
TakeRamdisk ==
    /\ At("ramdisk") /\ ramdisk = <<>>
    /\ \E found \in Shipped :
          /\ ramdisk' = found.bytes
          /\ image' = [files |-> found.files, damaged |-> found.damaged,
                       healthy |-> ~boot.failed]
    /\ boot' = Goto("mount")
    /\ UNCHANGED <<fs, irq, clockVars>>

MountArchive ==
    /\ At("mount")
    /\ \/ /\ Mount
          /\ boot' = check(Goto("motd"), Cardinality(DOMAIN fs'.nodes) >= 4)
       \/ /\ ~Mountable(ramdisk)
          /\ boot' = Panic("mount")
          /\ UNCHANGED archiveVars
    /\ UNCHANGED <<irq, image, clockVars>>

ReadMotd ==
    /\ At("motd")
    /\ boot' = check(Goto("theme"), Readable(Etc("motd")) /\ read_all(Etc("motd")) = <<Contents("motd")>>)
    /\ UNCHANGED <<irq, image, clockVars, archiveVars>>

\* The theme and the compositor, if the machine has a screen; present follows.
LoadTheme ==
    /\ At("theme")
    /\ \E screen \in BOOLEAN :
          LET path == Etc("theme.conf")
              b == [Goto(IF screen THEN "set_bounds" ELSE "paths") EXCEPT !.screen = screen]
          IN boot' = IF ~screen \/ ~Readable(path) THEN b
                     ELSE check(b, read_all(path) = <<Contents("theme")>>)
    /\ UNCHANGED <<irq, image, clockVars, archiveVars>>

\* A path with ".." in it, and one that is not there, resolve to nothing.
CheckPaths ==
    /\ At("paths")
    /\ boot' = check(Goto("hello"), /\ ~lookup(<<"", "etc", "..", "etc", "motd">>)
                     /\ ~lookup(<<"", "nonexistent">>))
    /\ UNCHANGED <<irq, image, clockVars, archiveVars>>

-----------------------------------------------------------------------------
(* The spin locks of drivers/input.rs that kernel_main takes: set_bounds,   *)
(* then pointer_position at every present; stats and pointer_position once  *)
(* more in the epilogue.                                                    *)

LockUse(lock, next) == [lock |-> lock, next |-> next]
LockUses == [set_bounds   |-> LockUse("BOUNDS", "set_pointer"),
             set_pointer  |-> LockUse("POINTER", "present"),
             present      |-> LockUse("POINTER", "paths"),
             probe_layout |-> LockUse("POINTER", "stats"),
             stats        |-> LockUse("QUEUE", "position"),
             position     |-> LockUse("POINTER", "report")]

TakeLock ==
    /\ boot.stage \in DOMAIN LockUses /\ At(boot.stage) /\ boot.held = {}
    /\ boot' = [boot EXCEPT !.held = {LockUses[boot.stage].lock}]
    /\ UNCHANGED <<irq, image, clockVars, archiveVars>>

DropLock ==
    /\ boot.held # {} /\ At(boot.stage)
    /\ boot' = [Goto(LockUses[boot.stage].next) EXCEPT !.held = {}]
    /\ UNCHANGED <<irq, image, clockVars, archiveVars>>

\* A key, or the third byte of a mouse packet: the handler runs on top of
\* kernel_main until it returns.  Where kernel_main holds none of its locks it
\* runs through, and changes nothing that kernel_main goes by.
InputArrives ==
    /\ boot.mouse /\ boot.held # {} /\ irq.wants = "nothing" /\ irq.left > 0
    /\ \E first \in {"BOUNDS", "QUEUE"} :
          irq' = [wants |-> first, left |-> irq.left - 1]
    /\ UNCHANGED <<boot, image, clockVars, archiveVars>>

\* One lock taken and released; kernel_main cannot release the one it holds.
HandlerStep ==
    /\ irq.wants # "nothing" /\ irq.wants \notin boot.held
    /\ irq' = [irq EXCEPT !.wants = [BOUNDS |-> "POINTER", POINTER |-> "QUEUE",
                                     QUEUE |-> "nothing"][@]]
    /\ UNCHANGED <<boot, image, clockVars, archiveVars>>

Interlocked == irq.wants \in boot.held

-----------------------------------------------------------------------------
(* Programs and packages. *)

Only(contents) == IF Len(contents) = 1 THEN contents[1] ELSE Contents("other")

LoadElf(path) == LET cell == Only(read_all(path))
                 IN IF IsElf(cell) THEN load_image(cell, boot.nx) ELSE Refused
LoadExe(path) == LET cell == Only(read_all(path))
                 IN IF IsPe(cell) THEN load_pe(cell, boot.nx) ELSE PeFails("refused")

Process(path, realm, loaded) ==
    [path |-> path, realm |-> realm, cell |-> Only(read_all(path)), loaded |-> loaded]

\* The programs of kernel_main: one that is missing is skipped unless the boot
\* cannot do without it, one that does not load ends the boot.
ElfStage(stage, path, realms, needed, next) ==
    /\ At(stage)
    /\ LET loaded == LoadElf(path)
       IN boot' = IF ~Readable(path) THEN IF needed THEN Panic("missing") ELSE Goto(next)
                  ELSE IF loaded.outcome = "panic" THEN Panic("loader")
                  ELSE IF loaded.outcome = "refused" THEN Panic("refused")
                  ELSE [Goto(next) EXCEPT !.procs =
                          @ \o [i \in DOMAIN realms |-> Process(path, realms[i], loaded)]]
    /\ UNCHANGED <<irq, image, clockVars, archiveVars>>

LoadHello == ElfStage("hello", Bin("hello"), <<"Home", "Gaming">>, TRUE, "gui")
LoadGui == ElfStage("gui", Bin("gui"), <<"Gaming">>, FALSE, "store")
LoadFstest == ElfStage("fstest", Bin("fstest"), <<"Home">>, FALSE, "run")

\* store::scan over the packages that can be examined, and its self-tests.
ScanPackages ==
    /\ At("store")
    /\ LET packages == {Only(read_all(p)) : p \in {q \in read_dir(Apps) : Readable(q)}}
           verdicts == {[package |-> p, verdict |-> verify(p)] :
                          p \in {q \in packages : IsPackage(q) /\ Examinable(q)}}
           b == check([Goto("mirage") EXCEPT !.verdicts = verdicts],
                      {v.verdict.integrity : v \in verdicts} = BOOLEAN)
       IN boot' = check(b, verdicts # {} /\ \A v \in verdicts : v.verdict.granted = "Home")
    /\ UNCHANGED <<irq, image, clockVars, archiveVars>>

\* Mutant of LoadMirage: a program that does not load is passed over in silence.
LoadMirageSilently ==
    /\ At("mirage")
    /\ LET path == Bin("hello.exe")
           loaded == LoadExe(path)
       IN boot' = IF ~Readable(path) \/ loaded.outcome # "loaded" THEN Goto("fstest")
                  ELSE [Goto("fstest") EXCEPT !.procs =
                          Append(@, Process(path, "Gaming", loaded))]
    /\ UNCHANGED <<irq, image, clockVars, archiveVars>>

\* A Windows program that does not load is reported, and the boot goes on.
LoadMirage ==
    /\ At("mirage")
    /\ LET path == Bin("hello.exe")
           loaded == LoadExe(path)
       IN boot' = IF ~Readable(path) THEN Goto("fstest")
                  ELSE IF loaded.outcome = "panic" THEN Panic("loader")
                  ELSE IF loaded.outcome = "refused" THEN [Goto("fstest") EXCEPT !.loud = TRUE]
                  ELSE [Goto("fstest") EXCEPT !.procs =
                          Append(@, Process(path, "Gaming", loaded))]
    /\ UNCHANGED <<irq, image, clockVars, archiveVars>>

-----------------------------------------------------------------------------
(* The run, the self-tests that follow it, and the epilogue. *)

\* iretq to an address that is not canonical faults in the kernel, and a fault
\* there halts the machine.
EntersUserMode(p) == Canonical(p.loaded.entry)

\* A program as packed ends with the status its self-test expects (external:
\* userland/); one that was damaged and still loads may end in any way.
AsPacked(p) == \E i \in DOMAIN image.files : image.files[i].data = <<p.cell>>
                                              /\ image.files[i].path = p.path

RunUntilIdle ==
    /\ At("run")
    /\ \/ /\ \E i \in DOMAIN boot.procs : ~EntersUserMode(boot.procs[i])
          /\ boot' = Goto("halted")
       \/ /\ \A i \in DOMAIN boot.procs : EntersUserMode(boot.procs[i])
          /\ \E passed \in BOOLEAN :
                /\ passed \/ \E i \in DOMAIN boot.procs : ~AsPacked(boot.procs[i])
                /\ boot' = check(Goto(IF boot.screen THEN "probe_layout" ELSE "stats"), passed)
    /\ UNCHANGED <<irq, image, clockVars, archiveVars>>

\* selftest::report and the exit code.
Report ==
    /\ At("report")
    /\ boot' = [Goto("exited") EXCEPT !.exit = IF ~boot.failed THEN "Success" ELSE "Failed"]
    /\ UNCHANGED <<irq, image, clockVars, archiveVars>>

KernelMain ==
    \/ StartMemory \/ EnumeratePci \/ ClockRead \/ init_mouse \/ RunRing3Tests
    \/ TakeRamdisk \/ MountArchive \/ ReadMotd \/ LoadTheme \/ CheckPaths \/ TakeLock \/ DropLock
    \/ LoadHello \/ LoadGui \/ ScanPackages \/ LoadMirage \/ LoadFstest
    \/ RunUntilIdle \/ Report

\* The machine is off or halted, or an interrupt handler spins for ever.
Stopped == (Ended \/ Interlocked) /\ UNCHANGED vars

Next == KernelMain \/ ClockRuns \/ InputArrives \/ HandlerStep \/ Stopped

\* When KernelMain is enabled.  TLC shows it to be: a state where it were not
\* would be a deadlock, as nothing else but Stopped can step outside the clock
\* and the locks.
Runnable == /\ ~Ended /\ irq.wants = "nothing"
            /\ boot.stage = "clock" => rtc.pc = "done" /\ ~chip.busy

\* The boot CPU runs kernel_main, or the handler on top of it, without pause;
\* the chip finishes an update it began.  The first conjunct is weak fairness of
\* KernelMain with its enabling condition written out.
Fairness ==
    /\ []<>~Runnable \/ []<><<KernelMain>>_vars
    /\ WF_vars(HandlerStep)
    /\ WF_vars(At("clock") /\ (StartReading \/ ReadClock) /\ UNCHANGED <<bootVars, archiveVars>>)
    /\ WF_vars(At("clock") /\ UpdateEnds /\ UNCHANGED <<bootVars, archiveVars>>)

Spec == Init /\ [][Next]_vars /\ Fairness

-----------------------------------------------------------------------------
(* Properties. *)

\* scripts/boot-test.sh: the exit code, no failure marker in the log, and the
\* summary, which report prints.
BootTestPasses == boot.stage = "exited" /\ boot.exit = "Success" /\ ~boot.loud

\* After mount every node lies within the ramdisk, whatever was damaged; and if
\* nothing was, every packed file reads back whole and every path is listed in
\* its directory up to the root.  build_archive computes the offsets before it
\* writes the table; mount, read and read_dir in fs.rs must agree with it.
NamespaceSound ==
    fs # NotMounted =>
        /\ NodesInBounds
        /\ ~image.damaged => HoldsAll(image.files)

\* A package whose digest matches and whose manifest length is the one it was
\* built with is one of the built packages, manifest and payload; and no package,
\* damaged or not, is placed above Home or gets a right it did not declare.
\* store.rs, verify and effective_profile.
VerdictsFaithful ==
    \A v \in boot.verdicts :
        /\ v.verdict.granted = "Home"
        /\ effective_profile(v.verdict) \subseteq RealmRights["Home"]
        /\ (v.verdict.integrity /\ v.package.manifest_len = Len(NotesManifest)) =>
              /\ v.verdict.manifest = ManifestOf(NotesManifest)
              /\ Payload(v.package) = NotesPayload
              /\ effective_profile(v.verdict) \subseteq v.verdict.manifest.rights

\* store.rs:30-32 and the comment on verify: a package that differs from the one
\* that was built does not pass the integrity check.
PackageUnaltered ==
    \A v \in boot.verdicts : v.verdict.integrity =>
        v.verdict.manifest = ManifestOf(NotesManifest) /\ Payload(v.package) = NotesPayload

\* Every address space a loader handed to spawn is what its file declares:
\* each byte under its own segment's or section's permissions, pointers moved
\* once, import slots bound to their own thunks; a page is both writable and
\* executable only in a Windows image, where no section covers it.  loader.rs
\* load_image, mirage.rs load_image.
ImagesSound ==
    /\ boot.stage = "run" => \A i \in DOMAIN boot.procs :
          LET p == boot.procs[i]
          IN IF IsElf(p.cell) THEN ElfPagesSound(p.cell, boot.nx, p.loaded)
             ELSE /\ PePagesSound(p.cell, boot.nx, p.loaded)
                  /\ PeMemorySound(p.cell, p.loaded)
    /\ \A args \in 0..3 : ArgumentsArrive(args)

\* In every address space a program was loaded into, the copies to and from user
\* memory succeed exactly for the buffers whose every byte the program itself
\* could touch, at page borders and at the ends of the address space.
\* memory.rs, range_is_user and copy_from_user, copy_from_user_into, copy_to_user.
UserCopiesExact ==
    boot.stage = "run" =>
        \A space \in {boot.procs[i].loaded.space : i \in DOMAIN boot.procs} :
            \A ptr \in Pointers, len \in Lengths : CopiesExact(space, ptr, len)

SegmentEndOutside(cell) ==
    \E i \in DOMAIN cell.segments :
        LET s == cell.segments[i]
        IN s.load /\ s.memsz > 0 /\ s.vaddr + s.memsz - 1 \in (16 * PageSize)..(48 * PageSize - 1)
HintEndsFile(cell) ==
    \E i \in DOMAIN cell.imports : rva_to_offset(cell, cell.imports[i].hint) = cell.len - 1
RvaOverflows(cell) ==
    \/ \E i \in DOMAIN cell.imports : cell.imports[i].slot + WordSize > MaxRva
    \/ \E k \in Relocations(cell) : cell.relocs[k].rva > MaxRva

\* How a boot can end.  It panics or halts only on a damaged archive or, with a
\* panic, on one without /bin/hello; a loader itself panics only on an ELF segment whose
\* end is not canonical, a PE name at the end of the file, or a PE image that
\* places a slot or a relocation where a 32-bit address overflows (pe.rs:354 and
\* 414, in a build that checks its arithmetic); and the machine halts in the
\* kernel only for an entry point that is not canonical.  What the
\* builder packed passes the boot test on a machine whose early self-tests
\* passed; and a boot test that passes has run every program the namespace holds.
\* kernel_main and epilogue in main.rs against main in runner/build.rs.
BootEndsAsItShould ==
    /\ boot.stage = "halted" => image.damaged
    /\ boot.stage = "panicked" =>
          image.damaged \/ \A i \in DOMAIN image.files : image.files[i].path # Bin("hello")
    /\ boot.stage = "panicked" /\ boot.why = "loader" =>
          \E i \in DOMAIN ramdisk :
             \/ IsElf(ramdisk[i]) /\ SegmentEndOutside(ramdisk[i])
             \/ IsPe(ramdisk[i]) /\ (HintEndsFile(ramdisk[i]) \/ RvaOverflows(ramdisk[i]))
    /\ boot.stage = "halted" => \E i \in DOMAIN ramdisk :
                                   IsElf(ramdisk[i]) /\ ~Canonical(ramdisk[i].entry)
    /\ boot.stage = "exited" /\ ~image.damaged /\ image.healthy => BootTestPasses
    /\ BootTestPasses =>
          \A name \in {"hello", "gui", "fstest", "hello.exe"} :
             Readable(Bin(name)) => \E i \in DOMAIN boot.procs : boot.procs[i].path = Bin(name)

\* kernel_main reaches an end: the clock's retries, the loaders and the run all
\* finish; unless an input handler spins on a lock that kernel_main held when it
\* was interrupted, in set_bounds, pointer_position or stats of input.rs.
BootEnds == <>(Ended \/ Interlocked)
=============================================================================
