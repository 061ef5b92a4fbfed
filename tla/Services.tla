------------------------------ MODULE Services ------------------------------
(***************************************************************************)
(* What processes share through the kernel: the process table and its      *)
(* descriptor tables (process.rs), named ports (ipc.rs), and the system    *)
(* calls that reach them (syscall.rs), gated by Realm rights (realm.rs).   *)
(*                                                                         *)
(* A system call enters through an interrupt gate and runs to its end with *)
(* interrupts off, so a call is one action.  process_entry, which cleans   *)
(* up after a program, runs with interrupts on: every lock-protected part  *)
(* of it is an action of its own.  A call that fails changes nothing but   *)
(* the counter of refused sends; failures are guards here.                 *)
(*                                                                         *)
(* files, ports, nextHandle and state are the kernel's.  opened, mine and  *)
(* known are what the programs themselves remember, built only from the    *)
(* values their calls returned.  log is history.                           *)
(***************************************************************************)
EXTENDS Integers, Sequences, FiniteSets, FiniteSetsExt

CONSTANTS
  Processes,    \* how many processes the boot context spawns, at most
  RealmOf,      \* RealmOf[p]: the Realm process p is placed in
  Names,        \* valid port names
  Nodes,        \* the paths of the mounted archive
  SizeOf,       \* SizeOf[n]: the node's length; a directory has length 0
  QUEUE_DEPTH,  \* messages a port holds
  MAX_MESSAGE,  \* the longest message, in bytes
  MAX_PORTS,    \* ports that may exist at once
  Budgets       \* bounds: how many handles, accepted messages and open descriptors
                \* (all processes together) a behaviour may use, and the longest
                \* buffers and offsets its programs pass

FIRST_DYNAMIC == 3
Pids == 1 .. Processes
NoProcess == 0  \* current_pid() outside any process: boot-time Ring 3 programs

(* Realm profiles, cut down to the rights these calls ask for. *)
HOME == {"FILE_READ", "IPC_CREATE", "IPC_CONNECT"}
GAMING == {"FILE_READ"}
VAULT == {"FILE_READ"}

ASSUME ServicesAssumption ==
  /\ Processes \in Nat /\ RealmOf \in [Pids -> {HOME, GAMING, VAULT}]
  /\ SizeOf \in [Nodes -> Nat]
  /\ QUEUE_DEPTH \in Nat \ {0} /\ MAX_PORTS \in Nat \ {0} /\ MAX_MESSAGE \in Nat
  /\ Budgets \subseteq [handles : Nat, sent : Nat, open : Nat, longest : Nat]

VARIABLES
  state,       \* Process::state, and how far process_entry is after Exited
  files,       \* Process::files: open descriptors and their cursors
  ports,       \* PORTS: live handles and their ports
  nextHandle,  \* NEXT_HANDLE
  opened,      \* per program: its descriptors, what they name, the next byte it expects
  mine,        \* per program: the ports it created and did not close
  known,       \* per program: every handle it was given, with the port behind it then
  log,         \* history, per handle: its creator, the messages accepted, those taken
  budget       \* the bounds of this behaviour

vars == <<state, files, ports, nextHandle, opened, mine, known, log, budget>>

Handles == 1 .. budget.handles
Descriptors == FIRST_DYNAMIC .. FIRST_DYNAMIC + budget.open - 1
kernelFiles == <<files, opened>>
kernelPorts == <<ports, nextHandle, mine, known, log>>

Without(f, x) == [y \in DOMAIN f \ {x} |-> f[y]]
With(f, x, v) == [y \in DOMAIN f \union {x} |-> IF y = x THEN v ELSE f[y]]
Empty == [y \in {} |-> 0]

Init ==
  /\ state = [p \in Pids |-> "unborn"]
  /\ files = [p \in Pids |-> Empty]
  /\ ports = Empty
  /\ nextHandle = 1
  /\ opened = [p \in Pids |-> Empty]
  /\ mine = [p \in Pids |-> {}]
  /\ known = [p \in Pids |-> {}]
  /\ log = Empty
  /\ budget \in Budgets

(***************************************************************************)
(* Processes                                                               *)
(***************************************************************************)

(* The boot context spawns every process before run_until_idle. *)
Spawn(p) ==
  /\ state[p] = "unborn"
  /\ p > 1 => state[p - 1] # "unborn"
  /\ \A q \in Pids : state[q] \in {"unborn", "Ready"}
  /\ state' = [state EXCEPT ![p] = "Ready"]
  /\ UNCHANGED <<kernelFiles, kernelPorts>>

Begin(p) ==
  /\ state[p] = "Ready"
  /\ state' = [state EXCEPT ![p] = "Running"]
  /\ UNCHANGED <<kernelFiles, kernelPorts>>

(* The program ends: it called exit, or it faulted.  What it remembered is
   gone; its descriptor table stays in its record.  Its windows are the
   compositor's. *)
SetExited(p) ==
  /\ state[p] = "Running"
  /\ state' = [state EXCEPT ![p] = "Exited"]
  /\ opened' = [opened EXCEPT ![p] = Empty]
  /\ known' = [known EXCEPT ![p] = {}]
  /\ UNCHANGED <<files, ports, nextHandle, mine, log>>

(* ipc::close_all_for.  What process_entry does after it is in Switch.tla and
   FrameMem.tla. *)
CloseAllFor(p) ==
  /\ state[p] = "Exited"
  /\ state' = [state EXCEPT ![p] = "Gone"]
  /\ ports' = [h \in {k \in DOMAIN ports : ports[k].owner # p} |-> ports[h]]
  /\ mine' = [mine EXCEPT ![p] = {}]
  /\ UNCHANGED <<nextHandle, known, log, kernelFiles>>

(***************************************************************************)
(* Who calls, and what they may do.  A Ring 3 program of the boot path is  *)
(* no process; those run before any process exists.                        *)
(***************************************************************************)
Calls(c) ==
  \/ c \in Pids /\ state[c] = "Running"
  \/ c = NoProcess /\ \A p \in Pids : state[p] = "unborn"

(* Mutant of Require: being a process is enough. *)
RequireProcess(c, right) == c # NoProcess

Require(c, right) == c # NoProcess /\ right \in RealmOf[c]

(***************************************************************************)
(* Files                                                                   *)
(***************************************************************************)
OpenTotal == Cardinality(UNION {{p} \X DOMAIN files[p] : p \in Pids})

LowestFree(table) == Min({d \in FIRST_DYNAMIC .. FIRST_DYNAMIC + Cardinality(DOMAIN table) : d \notin DOMAIN table})

SysOpen(c, node) ==
  /\ Calls(c) /\ Require(c, "FILE_READ")
  /\ OpenTotal < budget.open
  /\ LET d == LowestFree(files[c])
     IN /\ files' = [files EXCEPT ![c] = With(@, d, [node |-> node, position |-> 0])]
        /\ opened' = [opened EXCEPT ![c] = With(@, d, [node |-> node, expects |-> 0])]
  /\ UNCHANGED <<state, kernelPorts>>

(* Mutant of SysRead: the cursor moves before the copy out. *)
SysReadMovesFirst(c, d, len, copied) ==
  /\ Calls(c) /\ c # NoProcess /\ d \in DOMAIN files[c]
  /\ LET file == files[c][d]
         got == Min({len, SizeOf[file.node] - file.position})
     IN /\ files' = [files EXCEPT ![c][d].position = @ + got]
        /\ opened' = IF copied THEN [opened EXCEPT ![c][d].expects = @ + got] ELSE opened
  /\ UNCHANGED <<state, kernelPorts>>

(* fs::read from the cursor, then the copy out, then the cursor moves. *)
SysRead(c, d, len, copied) ==
  /\ Calls(c) /\ c # NoProcess /\ d \in DOMAIN files[c]
  /\ LET file == files[c][d]
         got == Min({len, SizeOf[file.node] - file.position})
     IN /\ got > 0 /\ copied
        /\ files' = [files EXCEPT ![c][d].position = @ + got]
        /\ opened' = [opened EXCEPT ![c][d].expects = @ + got]
  /\ UNCHANGED <<state, kernelPorts>>

SeekTo(file, offset, whence) ==
  LET size == SizeOf[file.node]
      target == CASE whence = "SET" -> offset
                  [] whence = "CURRENT" -> file.position + offset
                  [] whence = "END" -> Max({0, size - offset})
  IN Min({target, size})

SysSeek(c, d, offset, whence) ==
  /\ Calls(c) /\ c # NoProcess /\ d \in DOMAIN files[c]
  /\ LET position == SeekTo(files[c][d], offset, whence)
     IN /\ files' = [files EXCEPT ![c][d].position = position]
        /\ opened' = [opened EXCEPT ![c][d].expects = position]
  /\ UNCHANGED <<state, kernelPorts>>

SysClose(c, d) ==
  /\ Calls(c) /\ c # NoProcess /\ d \in DOMAIN files[c]
  /\ files' = [files EXCEPT ![c] = Without(@, d)]
  /\ opened' = [opened EXCEPT ![c] = Without(@, d)]
  /\ UNCHANGED <<state, kernelPorts>>

(***************************************************************************)
(* Ports                                                                   *)
(***************************************************************************)
Given(c, h, port) == [known EXCEPT ![c] = @ \union {[handle |-> h, name |-> port.name, owner |-> port.owner]}]

NewPort(c, name) == [name |-> name, owner |-> c, queue |-> <<>>, dropped |-> FALSE]

Created(c, name, h) ==
  /\ Calls(c) /\ Require(c, "IPC_CREATE")
  /\ Cardinality(DOMAIN ports) < MAX_PORTS
  /\ ports' = With(ports, h, NewPort(c, name))
  /\ mine' = [mine EXCEPT ![c] = @ \union {h}]
  /\ known' = Given(c, h, NewPort(c, name))
  /\ log' = With(log, h, [creator |-> c, sent |-> <<>>, taken |-> <<>>])
  /\ UNCHANGED <<state, kernelFiles>>

(* Mutant of SysPortCreate: the lowest free handle is reused. *)
SysPortCreateReuses(c, name) ==
  /\ \A h \in DOMAIN ports : ports[h].name # name
  /\ Handles \ DOMAIN ports # {}
  /\ UNCHANGED nextHandle
  /\ Created(c, name, Min(Handles \ DOMAIN ports))

SysPortCreate(c, name) ==
  /\ \A h \in DOMAIN ports : ports[h].name # name
  /\ nextHandle \in Handles
  /\ nextHandle' = nextHandle + 1
  /\ Created(c, name, nextHandle)

SysPortConnect(c, name) ==
  /\ Calls(c) /\ Require(c, "IPC_CONNECT")
  /\ \E h \in DOMAIN ports :
       /\ ports[h].name = name
       /\ known' = Given(c, h, ports[h])
  /\ UNCHANGED <<state, kernelFiles, ports, nextHandle, mine, log>>

(* Every message is told apart by its place among all accepted ones, and has
   a length: an empty one is a message too. *)
SentTotal == Cardinality(UNION {{h} \X DOMAIN log[h].sent : h \in DOMAIN log})
Message(from, len) == [from |-> from, body |-> SentTotal + 1, len |-> len]

(* Mutant of Send: the limit is off by one. *)
SendPastFull(from, h, len) ==
  /\ h \in DOMAIN ports
  /\ Len(ports[h].queue) <= QUEUE_DEPTH
  /\ ports' = [ports EXCEPT ![h].queue = Append(@, Message(from, len))]
  /\ log' = [log EXCEPT ![h].sent = Append(@, Message(from, len))]

(* ipc::send: the kernel records who sent it.  A full queue refuses, and the
   port counts the refusal (here: whether there was one). *)
Send(from, h, len) ==
  /\ h \in DOMAIN ports
  /\ \/ /\ Len(ports[h].queue) >= QUEUE_DEPTH
        /\ ports' = [ports EXCEPT ![h].dropped = TRUE]
        /\ UNCHANGED log
     \/ /\ Len(ports[h].queue) < QUEUE_DEPTH
        /\ ports' = [ports EXCEPT ![h].queue = Append(@, Message(from, len))]
        /\ log' = [log EXCEPT ![h].sent = Append(@, Message(from, len))]

(* A longer message is refused before it is copied in. *)
SysPortSend(c, h, len) ==
  /\ Calls(c) /\ Require(c, "IPC_CONNECT")
  /\ len <= MAX_MESSAGE
  /\ SentTotal < budget.sent
  /\ Send(c, h, len)
  /\ UNCHANGED <<state, kernelFiles, nextHandle, mine, known>>

NoMessage == [body |-> 0, bytes |-> 0]

(* The first bytes of a message, as many as a buffer has room for. *)
Prefix(message, room) == [body |-> message.body, bytes |-> Min({message.len, room})]

(* Mutant of SysPortRecv: a message that could not be copied out goes back to
   the end of the queue. *)
SysPortRecvRequeues(c, h, room, copied) ==
  /\ Calls(c) /\ c # NoProcess
  /\ h \in DOMAIN ports /\ ports[h].owner = c /\ ports[h].queue # <<>>
  /\ LET message == Head(ports[h].queue)
         receipt == [by |-> c, room |-> room, got |-> Prefix(message, room)]
     IN /\ ports' = [ports EXCEPT ![h].queue = IF copied THEN Tail(@) ELSE Append(Tail(@), message)]
        /\ log' = IF copied THEN [log EXCEPT ![h].taken = Append(@, receipt)] ELSE log
  /\ UNCHANGED <<state, kernelFiles, nextHandle, mine, known>>

(* ipc::recv takes the oldest message, then as much of it as the buffer has
   room for is copied out.  The message is consumed whether the copy
   succeeds or not, and the bytes past the buffer with it; a copy of no bytes
   cannot fail. *)
SysPortRecv(c, h, room, copied) ==
  /\ Calls(c) /\ c # NoProcess
  /\ h \in DOMAIN ports /\ ports[h].owner = c /\ ports[h].queue # <<>>
  /\ LET part == Prefix(Head(ports[h].queue), room)
         receipt == [by |-> c, room |-> room, got |-> IF copied THEN part ELSE NoMessage]
     IN /\ copied \/ part.bytes > 0
        /\ log' = [log EXCEPT ![h].taken = Append(@, receipt)]
  /\ ports' = [ports EXCEPT ![h].queue = Tail(@)]
  /\ UNCHANGED <<state, kernelFiles, nextHandle, mine, known>>

(* Mutant of SysPortClose: anyone may close. *)
SysPortCloseAnyones(c, h) ==
  /\ Calls(c) /\ c # NoProcess
  /\ h \in DOMAIN ports
  /\ ports' = Without(ports, h)
  /\ mine' = [mine EXCEPT ![c] = @ \ {h}]
  /\ UNCHANGED <<state, kernelFiles, nextHandle, known, log>>

SysPortClose(c, h) ==
  /\ Calls(c) /\ c # NoProcess
  /\ h \in DOMAIN ports /\ ports[h].owner = c
  /\ ports' = Without(ports, h)
  /\ mine' = [mine EXCEPT ![c] = @ \ {h}]
  /\ UNCHANGED <<state, kernelFiles, nextHandle, known, log>>

Next ==
  \/ \E p \in Pids : Spawn(p) \/ Begin(p) \/ SetExited(p) \/ CloseAllFor(p)
  \/ \E c \in Pids \union {NoProcess} :
       \/ \E n \in Nodes : SysOpen(c, n)
       \/ \E d \in Descriptors :
            \/ \E len \in 1 .. budget.longest, copied \in BOOLEAN : SysRead(c, d, len, copied)
            \/ \E o \in 0 .. budget.longest, w \in {"SET", "CURRENT", "END"} : SysSeek(c, d, o, w)
            \/ SysClose(c, d)
       \/ \E name \in Names : SysPortCreate(c, name) \/ SysPortConnect(c, name)
       \/ \E h \in Handles :
            \/ \E len \in 0 .. budget.longest : SysPortSend(c, h, len)
            \/ \E room \in 0 .. budget.longest, copied \in BOOLEAN : SysPortRecv(c, h, room, copied)
            \/ SysPortClose(c, h)

Spec == Init /\ [][Next /\ UNCHANGED budget]_vars

(***************************************************************************)
(* Properties                                                              *)
(***************************************************************************)

(* Every variable has its type; queues and the port table keep their limits. *)
TypeOK ==
  /\ state \in [Pids -> {"unborn", "Ready", "Running", "Exited", "Gone"}]
  /\ \A p \in Pids : /\ DOMAIN files[p] \subseteq Descriptors
                     /\ \A d \in DOMAIN files[p] : files[p][d].position \in 0 .. SizeOf[files[p][d].node]
                     /\ mine[p] \subseteq Handles
  /\ nextHandle \in 1 .. budget.handles + 1
  /\ DOMAIN ports \subseteq Handles /\ Cardinality(DOMAIN ports) <= MAX_PORTS
  /\ \A h \in DOMAIN ports : Len(ports[h].queue) <= QUEUE_DEPTH

(* A running program and the kernel agree on its descriptors: each one it was
   given and did not close is open, names the node it opened, and stands
   exactly after the bytes its reads returned - no byte is skipped or read
   twice, whatever buffers it passed (sys_read) and whatever the other
   processes opened, closed or sought (open_file, close_file, sys_seek). *)
FilesAgree ==
  \A p \in Pids : state[p] = "Running" =>
                 /\ DOMAIN files[p] = DOMAIN opened[p]
                 /\ \A d \in DOMAIN opened[p] :
                      /\ files[p][d].node = opened[p][d].node
                      /\ files[p][d].position = opened[p][d].expects

(* The ports of a process are exactly those its program created and did not
   close, as long as its program or the tail of process_entry runs: nobody
   else can take one away.  After close_all_for it has none, so nothing of a
   dead service blocks its successor; and a name leads to one port only
   (ipc::create, process_entry). *)
PortsAgree ==
  /\ \A p \in Pids : {h \in DOMAIN ports : ports[h].owner = p}
                      = IF state[p] = "Gone" THEN {} ELSE mine[p]
  /\ \A h, k \in DOMAIN ports : ports[h].name = ports[k].name => h = k

(* A handle a program was given, by create or by connect, never comes to mean
   another port: if it is still live it has the name and the owner it had
   then.  A client that kept a handle across a restart of its service is
   refused; it does not talk to whoever came next (NEXT_HANDLE). *)
HandlesKeepMeaning ==
  \A p \in Pids : \A k \in known[p] :
    k.handle \in DOMAIN ports => /\ ports[k.handle].name = k.name
                                 /\ ports[k.handle].owner = k.owner

(* What a receive may give of the message it took: nothing and an error, or
   the first bytes of it - a buffer full of them, or all of them. *)
Returned(message, receipt) ==
  \/ receipt.got = NoMessage
  \/ /\ receipt.got.body = message.body
     /\ receipt.got.bytes <= message.len /\ receipt.got.bytes <= receipt.room
     /\ receipt.got.bytes \in {message.len, receipt.room}

(* Each accepted message is taken once, in order, by the owner's n-th receive
   that found one, and that receive returns bytes of this message and of no
   other (ipc::send, ipc::recv, and the copy out after it in sys_port_recv).
   Bytes are lost with a successful call: those past a short buffer, all of
   them for a buffer of none.  A receiver that was given fewer bytes than its
   buffer holds has the whole message; one whose buffer was filled cannot
   tell.  Nothing else loses a byte but a copy that fails: what was not taken
   is what is queued, and a port that died loses only its queue. *)
AcceptedInOrder ==
  \A h \in DOMAIN log :
    LET sent == log[h].sent
        taken == log[h].taken
    IN /\ Len(taken) <= Len(sent)
       /\ \A i \in DOMAIN taken : Returned(sent[i], taken[i])
       /\ h \in DOMAIN ports => ports[h].queue = SubSeq(sent, Len(taken) + 1, Len(sent))

(* Rights bind: a port's creator held IPC_CREATE, a message's sender
   IPC_CONNECT, and only its creator ever took a message
   from the port.  A caller that is no process has no right at all (require). *)
RightsBind ==
  \A h \in DOMAIN log :
    /\ log[h].creator \in {p \in Pids : "IPC_CREATE" \in RealmOf[p]}
    /\ \A i \in DOMAIN log[h].sent :
         log[h].sent[i].from \in {p \in Pids : "IPC_CONNECT" \in RealmOf[p]}
    /\ \A i \in DOMAIN log[h].taken : log[h].taken[i].by = log[h].creator
=============================================================================
