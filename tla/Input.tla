------------------------------- MODULE Input -------------------------------
(***************************************************************************)
(* Keyboard and mouse (drivers/input.rs): the assembly of three-byte mouse *)
(* packets, button edges, the layout hotkey and the ring of events.  The   *)
(* interrupt handlers run with interrupts off, and so does the system call *)
(* that polls: each is one action.                                         *)
(*                                                                         *)
(* A byte from the mouse is [sync, overflow, buttons, moved]: what it says *)
(* when it is taken for the first byte of a packet (bit 3, the overflow    *)
(* bits, the buttons that are down), and whether it is a movement when it  *)
(* is taken for the second or third.  The position of the pointer is left  *)
(* out; an event is what it says of buttons, and its serial number.        *)
(***************************************************************************)
EXTENDS Integers, Sequences, FiniteSets, FiniteSetsExt, SequencesExt

CONSTANTS
  QUEUE_CAPACITY,  \* events the ring holds
  MouseBytes,      \* the bytes the mouse may send, in any order: some are lost
  PollSizes,       \* how many events programs ask for
  Budgets          \* bounds: how many events are pushed and surfaces created, at most,
                   \* and which processes there are

ASSUME InputAssumption ==
  /\ QUEUE_CAPACITY \in Nat \ {0}
  /\ PollSizes \subseteq Nat /\ \A b \in Budgets : b.events \in Nat /\ b.surfaces \in Nat

VARIABLES
  ring,      \* EventQueue::events, by index
  head,      \* EventQueue::head
  len,       \* EventQueue::len
  dropped,   \* EventQueue::dropped
  packet,    \* MOUSE_STATE: the bytes of a packet so far
  previous,  \* PREVIOUS_BUTTONS
  toggle,    \* LAYOUT_TOGGLE
  pushed,    \* history: events pushed so far
  taken,     \* history: serial numbers of the events programs received, in order
  heard,     \* history: the buttons an odd number of received events changed
  lost,      \* history: events polled into a buffer that could not be written
  budget     \* the bounds of this behaviour

inputVars == <<ring, head, len, dropped, packet, previous, toggle, pushed, taken, heard, lost, budget>>
queueVars == <<ring, head, len, dropped, pushed>>

Event(n, code) == [serial |-> n, code |-> code]

InputInit ==
  /\ ring = [i \in 0 .. QUEUE_CAPACITY - 1 |-> Event(0, {})]
  /\ head = 0 /\ len = 0 /\ dropped = 0
  /\ packet = <<>> /\ previous = {} /\ toggle = FALSE
  /\ pushed = 0 /\ taken = <<>> /\ heard = {} /\ lost = 0
  /\ budget \in Budgets

(* Faulty variant: a full ring is written at its head, which stays there. *)
PushOverHead(q, code) ==
  LET full == q.len = QUEUE_CAPACITY
  IN [ring |-> [q.ring EXCEPT ![(q.head + q.len) % QUEUE_CAPACITY] = Event(q.pushed + 1, code)],
      head |-> q.head, len |-> IF full THEN q.len ELSE q.len + 1, pushed |-> q.pushed + 1,
      dropped |-> IF full THEN q.dropped + 1 ELSE q.dropped]

(* A ring after push: when it is full the oldest event goes. *)
Push(q, code) ==
  LET full == q.len = QUEUE_CAPACITY
      start == IF full THEN (q.head + 1) % QUEUE_CAPACITY ELSE q.head
      size == IF full THEN q.len - 1 ELSE q.len
  IN [ring |-> [q.ring EXCEPT ![(start + size) % QUEUE_CAPACITY] = Event(q.pushed + 1, code)],
      head |-> start, len |-> size + 1, pushed |-> q.pushed + 1,
      dropped |-> IF full THEN q.dropped + 1 ELSE q.dropped]

Queue == [ring |-> ring, head |-> head, len |-> len, dropped |-> dropped, pushed |-> pushed]

Becomes(q) ==
  /\ ring' = q.ring /\ head' = q.head /\ len' = q.len
  /\ dropped' = q.dropped /\ pushed' = q.pushed

(* on_scancode.  F1 is the layout hotkey: its press sets a flag and is no
   event, its release is an event like that of any other key. *)
OnScancode(f1, released) ==
  /\ IF f1 /\ ~released THEN toggle' = TRUE /\ UNCHANGED queueVars
     ELSE /\ pushed < budget.events
          /\ Becomes(Push(Queue, {})) /\ UNCHANGED toggle
  /\ UNCHANGED <<packet, previous, taken, heard, lost, budget>>

(* A first byte without bit 3 is discarded: the stream is out of step. *)
OutOfStep(byte) == packet = <<>> /\ ~byte.sync

(* on_mouse_byte, of the first two bytes of a packet. *)
OnMouseByteKept(byte) ==
  /\ ~OutOfStep(byte) /\ Len(packet) < 2 /\ pushed + 2 <= budget.events
  /\ packet' = Append(packet, byte)
  /\ UNCHANGED <<queueVars, previous, toggle, taken, heard, lost, budget>>

(* Faulty variant: the buttons of a packet that overflowed are noted, but not
   reported. *)
OnMousePacketNotes(byte) ==
  /\ Len(packet) = 2 /\ pushed + 2 <= budget.events
  /\ packet' = <<>>
  /\ previous' = packet[1].buttons
  /\ LET moved == packet[2].moved \/ byte.moved
         changed == SymDiff(packet[1].buttons, previous)
         afterMotion == IF moved THEN Push(Queue, {}) ELSE Queue
     IN IF packet[1].overflow THEN UNCHANGED queueVars
        ELSE Becomes(IF changed # {} THEN Push(afterMotion, changed) ELSE afterMotion)
  /\ UNCHANGED <<toggle, taken, heard, lost, budget>>

(* on_mouse_byte, of the third: a motion event if it moved, and one event
   for all the buttons that changed.  A packet that overflowed is dropped,
   buttons and all. *)
OnMousePacket(byte) ==
  /\ Len(packet) = 2 /\ pushed + 2 <= budget.events
  /\ packet' = <<>>
  /\ LET flags == packet[1]
         moved == packet[2].moved \/ byte.moved
         changed == SymDiff(flags.buttons, previous)
         afterMotion == IF moved THEN Push(Queue, {}) ELSE Queue
     IN IF flags.overflow THEN UNCHANGED <<queueVars, previous>>
        ELSE /\ Becomes(IF changed # {} THEN Push(afterMotion, changed) ELSE afterMotion)
             /\ previous' = flags.buttons
  /\ UNCHANGED <<toggle, taken, heard, lost, budget>>

(* The oldest k events, in order. *)
Oldest(k) == [i \in 1 .. k |-> ring[(head + i - 1) % QUEUE_CAPACITY]]

(* The buttons that an odd number of the events changed. *)
Codes(events) ==
  {b \in UNION {events[i].code : i \in DOMAIN events} :
     Cardinality({i \in DOMAIN events : b \in events[i].code}) % 2 = 1}

(* poll, by any program that may read input, and the copy to its buffer: the
   events are off the queue before anyone knows whether it can be written. *)
Poll(k, copied) ==
  /\ len > 0 /\ k > 0
  /\ LET count == IF k < len THEN k ELSE len
     IN /\ head' = (head + count) % QUEUE_CAPACITY
        /\ len' = len - count
        /\ IF copied
           THEN /\ taken' = taken \o [i \in 1 .. count |-> Oldest(count)[i].serial]
                /\ heard' = SymDiff(heard, Codes(Oldest(count)))
                /\ UNCHANGED lost
           ELSE lost' = lost + count /\ UNCHANGED <<taken, heard>>
  /\ UNCHANGED <<ring, dropped, pushed, packet, previous, toggle, budget>>

InputInterrupt ==
  \/ \E f1, released \in BOOLEAN : OnScancode(f1, released)
  \/ \E byte \in MouseBytes : OnMouseByteKept(byte) \/ OnMousePacket(byte)

(***************************************************************************)
(* Properties                                                              *)
(***************************************************************************)

(* What programs received and what is still queued are the events pushed, in
   order and each once, but for exactly as many as were counted as dropped or
   went to a bad buffer; the newest is never the one to go (push, poll and the
   copy after it in sys_input_poll). *)
EventsInOrder ==
  LET seen == taken \o [i \in 1 .. len |-> Oldest(len)[i].serial]
  IN /\ \A i \in 1 .. Len(seen) - 1 : seen[i] < seen[i + 1]
     /\ Len(seen) + dropped + lost = pushed
     /\ len > 0 => seen[Len(seen)] = pushed

(* As long as none was dropped or lost, the events programs received and those
   still queued account for every change of every button: whatever bytes are
   lost and however packets are misread, none is reported twice or missed, and
   the buttons can be told from the events (on_mouse_byte). *)
EdgesComplete ==
  dropped = 0 /\ lost = 0 => SymDiff(heard, Codes(Oldest(len))) = previous
=============================================================================
