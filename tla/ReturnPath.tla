----------------------------- MODULE ReturnPath -----------------------------
(***************************************************************************)
(* The way of a packet down: the driver of a path takes it from the relay  *)
(* and queues it for the session (turn.rs), the session's reader opens it  *)
(* and puts it into the return queue of its class (session.rs), and one    *)
(* task takes it from there to the device (dispatcher.rs: write_bridge,    *)
(* write_tun or write_udp).  The bridge and the socket are there for the   *)
(* whole run; the TUN device is a descriptor that the host sends, replaces *)
(* and may let die, and while there is none nobody takes from the queues.  *)
(*                                                                         *)
(* Tasks run on several threads: each look at a queue is a step, and so is *)
(* each store of DriverShared::fail.  A Notify is its stored permit, and   *)
(* the watch channel of the snapshot is whether the reader has seen its    *)
(* latest version.                                                         *)
(*                                                                         *)
(* Abstracted: a packet is a number and its class a constant; the replay   *)
(* window and the cipher either pass a packet or not (ReplayWindow);       *)
(* ReturnReorder passes on what it is given (FlowFrame has what it holds); *)
(* a packet that was written and one that was lost have both ended.        *)
(***************************************************************************)
EXTENDS Integers, Sequences, FiniteSets, Functions

CONSTANTS
    Paths,              \* sessions that are up
    Class,              \* packet_class: 1 small, 2 medium, 3 bulk; its domain is the packets
    Kept,               \* the packets for which keep_under_pressure holds
    IncomingCapacity,   \* INCOMING_QUEUE_CAPACITY
    ProtectedCapacity,  \* PROTECTED_INCOMING
    ReturnCapacity,     \* RETURN_*_CAPACITY
    Batch               \* datagram_batch of each class

Numbers == DOMAIN Class
Classes == 1 .. 3

ASSUME ReturnPathAssumption ==
    /\ IsFiniteSet(Paths)
    /\ Class \in Seq(Classes)
    /\ Kept \subseteq Numbers
    /\ {IncomingCapacity, ProtectedCapacity, ReturnCapacity} \subseteq Nat \ {0}
    /\ Batch \in [Classes -> Nat \ {0}]

VARIABLES
    relayed,   \* packets that have come from the relays
    shared,    \* [Paths -> DriverShared, and the incoming channel]
    driver,    \* [Paths -> the driver]
    reader,    \* [Paths -> TurnReceiver::recv and reader_loop]
    returns,   \* [Classes -> the return queue, its permit, QUEUE_ACTIVE]
    writer,    \* the task that writes to the device; tun: tun_uds.is_some()
    finished   \* history: how often a packet was written, or lost

returnVars == <<relayed, shared, driver, reader, returns, writer, finished>>

NewShared == [incoming |-> <<>>, protected |-> <<>>, permit |-> FALSE, open |-> TRUE,
              terminal |-> FALSE, present |-> FALSE, changed |-> FALSE, closing |-> FALSE]
Idle == [step |-> "look", held |-> 0]
NewWriter(tun) == [step |-> "take", look |-> 0, batch |-> <<>>, ready |-> <<>>, tun |-> tun]
NoDevice == {"none", "lost"}  \* before run_tun, and in it

ReturnInit ==
    /\ relayed = 0
    /\ shared = [p \in Paths |-> NewShared]
    /\ driver = [p \in Paths |-> "running"]
    /\ reader = [p \in Paths |-> Idle]
    /\ \E tun \in BOOLEAN :
         /\ returns = [c \in Classes |-> [items |-> <<>>, permit |-> FALSE, active |-> ~tun]]
         /\ writer = [NewWriter(tun) EXCEPT !.step = IF tun THEN "none" ELSE @]
    /\ finished = [n \in Numbers |-> 0]

Finishes(ns) == [n \in Numbers |-> finished[n] + Cardinality({i \in DOMAIN ns : ns[i] = n})]

(* A bounded queue that makes room by dropping its oldest. *)
Forced(items, n, capacity) ==
    Append(IF Len(items) = capacity THEN Tail(items) ELSE items, n)
Evicted(items, capacity) == IF Len(items) = capacity THEN <<Head(items)>> ELSE <<>>

-----------------------------------------------------------------------------
(* The driver of path p: driver_loop_udp and driver_loop_stream, with what *)
(* TurnDriver has of them left to chance.                                  *)

Drops(n) == finished' = Finishes(<<n>>) /\ UNCHANGED shared

Receives(p, n) ==
    /\ driver[p] = "running"
    /\ relayed < Len(Class)
    /\ n = relayed + 1
    /\ relayed' = n
    /\ UNCHANGED <<driver, reader, returns, writer>>

(* process_deficit_packet, or a channel that is not the driver's any more. *)
PoolDeficit(p, n) == Receives(p, n) /\ Drops(n)

Delivers(p) == shared[p].open /\ ~shared[p].closing

TryIncoming(p, n) ==
    /\ Receives(p, n)
    /\ Delivers(p) /\ reader[p].step # "over"
    /\ Len(shared[p].incoming) < IncomingCapacity
    /\ shared' = [shared EXCEPT ![p].incoming = Append(@, n)]
    /\ UNCHANGED finished

Full(p, n) ==
    /\ Receives(p, n)
    /\ Delivers(p) /\ reader[p].step # "over"
    /\ Len(shared[p].incoming) = IncomingCapacity

StashProtected(p, n) ==
    /\ Full(p, n) /\ n \in Kept
    /\ shared' = [shared EXCEPT ![p].protected = Forced(@, n, ProtectedCapacity),
                                ![p].permit = TRUE]
    /\ finished' = Finishes(Evicted(shared[p].protected, ProtectedCapacity))

QueueFullDrop(p, n) == Full(p, n) /\ n \notin Kept /\ Drops(n)

SetShared(p, s) ==
    /\ shared' = [shared EXCEPT ![p] = s]
    /\ UNCHANGED <<relayed, returns, writer, finished>>

Closing(s) == [s EXCEPT !.closing = TRUE, !.open = FALSE]

(* incoming.closed(), or Closed from try_send: the reader has gone. *)
OwnerClosed(p) ==
    /\ driver[p] = "running" /\ reader[p].step = "over"
    /\ ~shared[p].closing
    /\ SetShared(p, Closing(shared[p]))
    /\ UNCHANGED <<driver, reader>>

(* A completion or a state: the snapshot has a new version. *)
SnapshotChanges(p) ==
    /\ driver[p] = "running"
    /\ SetShared(p, [shared[p] EXCEPT !.changed = TRUE])
    /\ UNCHANGED <<driver, reader>>

(***************************************************************************)
(* DriverShared::fail writes the reason into the snapshot, which wakes the *)
(* reader, and then sets the flag by which the reader looks for it.  After *)
(* an error of the socket the cleanup follows; after a refusal that        *)
(* pump_native reports it does not.                                        *)
(***************************************************************************)
Fails(p) ==
    /\ driver[p] = "running"
    /\ ~shared[p].closing /\ ~shared[p].terminal
    /\ SetShared(p, [shared[p] EXCEPT !.terminal = TRUE, !.changed = TRUE])
    /\ driver' = [driver EXCEPT ![p] = "failing"]
    /\ UNCHANGED reader

TerminalPresent(p) ==
    /\ driver[p] = "failing"
    /\ \E s \in {Closing(shared[p]), [shared[p] EXCEPT !.open = FALSE]} :
         SetShared(p, [s EXCEPT !.present = TRUE])
    /\ driver' = [driver EXCEPT ![p] = "running"]
    /\ UNCHANGED reader

(* The loop ends, and the sender of incoming is dropped with it. *)
DriverEnds(p) ==
    /\ driver[p] = "running" /\ shared[p].closing
    /\ driver' = [driver EXCEPT ![p] = "gone"]
    /\ UNCHANGED <<relayed, shared, reader, returns, writer, finished>>

-----------------------------------------------------------------------------
(* TurnReceiver::recv, and what becomes of the packet in reader_loop.      *)

SetReader(p, step) ==
    /\ reader' = [reader EXCEPT ![p].step = step]
    /\ UNCHANGED <<relayed, driver, returns, writer, finished>>

(* The receiver is dropped with the task, and with it what is queued. *)
ReaderEnds(p) ==
    /\ reader' = [reader EXCEPT ![p].step = "over"]
    /\ shared' = [shared EXCEPT ![p].incoming = <<>>, ![p].protected = <<>>]
    /\ finished' = Finishes(shared[p].incoming \o shared[p].protected)
    /\ UNCHANGED <<relayed, driver, returns, writer>>

PopProtected(p) ==
    /\ shared[p].protected # <<>>
    /\ shared' = [shared EXCEPT ![p].protected = Tail(@)]
    /\ reader' = [reader EXCEPT ![p] = [step |-> "holding", held |-> Head(shared[p].protected)]]
    /\ UNCHANGED <<relayed, driver, returns, writer, finished>>

NoneProtected(p, step) ==
    /\ shared[p].protected = <<>>
    /\ SetReader(p, step)
    /\ UNCHANGED shared

Looks(p) ==
    /\ reader[p].step = "look"
    /\ \/ shared[p].present /\ ReaderEnds(p)
       \/ ~shared[p].present /\ (PopProtected(p) \/ NoneProtected(p, "registered"))

(* protected_notify.notified() is made, and the queue looked at again. *)
LooksAgain(p) ==
    /\ reader[p].step = "registered"
    /\ PopProtected(p) \/ NoneProtected(p, "asleep")

WokenByProtected(p) ==
    /\ reader[p].step = "asleep" /\ shared[p].permit
    /\ shared' = [shared EXCEPT ![p].permit = FALSE]
    /\ SetReader(p, "look")

WokenByState(p) ==
    /\ reader[p].step = "asleep" /\ shared[p].changed
    /\ shared' = [shared EXCEPT ![p].changed = FALSE]
    /\ SetReader(p, "look")

TakesIncoming(p) ==
    /\ reader[p].step = "asleep" /\ shared[p].incoming # <<>>
    /\ shared' = [shared EXCEPT ![p].incoming = Tail(@)]
    /\ reader' = [reader EXCEPT ![p] = [step |-> "holding", held |-> Head(shared[p].incoming)]]
    /\ UNCHANGED <<relayed, driver, returns, writer, finished>>

AllocationClosed(p) ==
    /\ reader[p].step = "asleep" /\ shared[p].incoming = <<>> /\ driver[p] = "gone"
    /\ ReaderEnds(p)

(* The session ends for a reason of its own. *)
Cancelled(p) == reader[p].step = "asleep" /\ ReaderEnds(p)

(* The window or the cipher refuses it, or it is a message to the client. *)
Consumes(p) ==
    /\ reader[p].step = "holding"
    /\ finished' = Finishes(<<reader[p].held>>)
    /\ reader' = [reader EXCEPT ![p] = Idle]
    /\ UNCHANGED <<relayed, shared, driver, returns, writer>>

(* Mutant: the packet is pushed and the writer is not told. *)
Mut_ReturnPacket(p) ==
    LET n == reader[p].held
    IN /\ reader[p].step = "holding" /\ returns[Class[n]].active
       /\ returns' = [returns EXCEPT ![Class[n]].items = Forced(@, n, ReturnCapacity)]
       /\ finished' = Finishes(Evicted(returns[Class[n]].items, ReturnCapacity))
       /\ reader' = [reader EXCEPT ![p] = Idle]
       /\ UNCHANGED <<relayed, shared, driver, writer>>

(* force_send to a queue that waits for the first descriptor is refused. *)
ReturnPaused(p) ==
    /\ reader[p].step = "holding" /\ ~returns[Class[reader[p].held]].active
    /\ Consumes(p)

(* force_send: the oldest of the class makes room, and the writer is told. *)
ReturnPacket(p) ==
    LET n == reader[p].held
    IN /\ reader[p].step = "holding" /\ returns[Class[n]].active
       /\ returns' = [returns EXCEPT ![Class[n]].items = Forced(@, n, ReturnCapacity),
                                     ![Class[n]].permit = TRUE]
       /\ finished' = Finishes(Evicted(returns[Class[n]].items, ReturnCapacity))
       /\ reader' = [reader EXCEPT ![p] = Idle]
       /\ UNCHANGED <<relayed, shared, driver, writer>>

-----------------------------------------------------------------------------
(* The writer.  A step of its looks at ReturnReorder::ready (0) or at the  *)
(* queue of one class; a batch holds packets of one class.                 *)

SetWriter(w) ==
    /\ writer' = w
    /\ UNCHANGED <<relayed, shared, driver, reader>>

(* write_tun writes one packet at a time. *)
Complete(w, batch) == w.tun \/ Len(batch) = Batch[Class[batch[1]]]

(* Mutant: the packet of another class is put back and goes out as well. *)
Mut_Gathered(w, n) ==
    LET batch == Append(w.batch, n)
        same == w.batch = <<>> \/ Class[n] = Class[w.batch[1]]
    IN [w EXCEPT !.batch = batch, !.look = 0, !.ready = IF same THEN @ ELSE <<n>> \o @,
                 !.step = IF same /\ ~Complete(w, batch) THEN "peek" ELSE "write"]

(* A packet of another class is put back in front, and ends the batch. *)
Gathered(w, n) ==
    LET batch == Append(w.batch, n)
    IN IF w.batch = <<>> \/ Class[n] = Class[w.batch[1]]
       THEN [w EXCEPT !.batch = batch, !.look = 0,
                      !.step = IF Complete(w, batch) THEN "write" ELSE "peek"]
       ELSE [w EXCEPT !.ready = <<n>> \o @, !.look = 0, !.step = "write"]

PopReady ==
    /\ writer.step = "take" /\ writer.look = 0
    /\ SetWriter(IF writer.ready = <<>> THEN [writer EXCEPT !.look = 1]
                 ELSE Gathered([writer EXCEPT !.ready = Tail(@)], Head(writer.ready)))
    /\ UNCHANGED <<returns, finished>>

(* next_return_packet: small, medium, bulk. *)
NextReturnPacket(c) ==
    /\ writer.step = "take" /\ writer.look = c
    /\ IF returns[c].items = <<>>
       THEN SetWriter([writer EXCEPT !.look = c + 1]) /\ UNCHANGED returns
       ELSE /\ SetWriter(Gathered(writer, Head(returns[c].items)))
            /\ returns' = [returns EXCEPT ![c].items = Tail(@)]
    /\ UNCHANGED finished

NoneLeft ==
    /\ writer.step = "take" /\ writer.look = 4
    /\ SetWriter([writer EXCEPT !.look = 0,
                                !.step = IF writer.batch = <<>> THEN "asleep" ELSE "write"])
    /\ UNCHANGED <<returns, finished>>

RecvReturnPacket(c) ==
    /\ writer.step = "asleep" /\ returns[c].permit
    /\ SetWriter([writer EXCEPT !.step = "take", !.look = 1])
    /\ returns' = [returns EXCEPT ![c].permit = FALSE]
    /\ UNCHANGED finished

HigherPriorityWaiting ==
    \E c \in Classes : c < Class[writer.batch[1]] /\ returns[c].items # <<>>

Peeks ==
    /\ writer.step = "peek"
    /\ SetWriter([writer EXCEPT !.step = IF HigherPriorityWaiting THEN "write" ELSE "take"])
    /\ UNCHANGED <<returns, finished>>

(* The device takes the batch, or there is none to take it. *)
WriteBatch ==
    /\ writer.step = "write"
    /\ finished' = Finishes(writer.batch)
    /\ SetWriter([writer EXCEPT !.batch = <<>>, !.step = "take"])
    /\ UNCHANGED returns

(* read_tun or write_tun has ended, or another descriptor has come, which  *)
(* run_tun sees where write_tun awaits: it drops what the writer holds.    *)
LosesDevice ==
    /\ writer.tun /\ writer.step \in {"asleep", "write"}
    /\ finished' = Finishes(writer.batch \o writer.ready)
    /\ SetWriter([NewWriter(TRUE) EXCEPT !.step = "lost"])
    /\ UNCHANGED returns

(* A descriptor serves, is lost before write_tun runs, or AsyncFd::new     *)
(* refuses it and run_tun returns.                                         *)
Attaches ==
    \E step \in {"take", "lost", "none"} : SetWriter([writer EXCEPT !.step = step])

(* replacements.recv() in run_tun: the queues keep what has come meanwhile. *)
DeviceReplaced ==
    /\ writer.step = "lost"
    /\ Attaches
    /\ UNCHANGED <<returns, finished>>

(* fd_rx.recv() before run_tun: resume() purges each queue and opens it. *)
Resumes ==
    /\ writer.step = "none"
    /\ Attaches
    /\ returns' = [c \in Classes |-> [returns[c] EXCEPT !.items = <<>>, !.active = TRUE]]
    /\ finished' = Finishes(returns[1].items \o returns[2].items \o returns[3].items)

-----------------------------------------------------------------------------

Relays(p) ==
    \E n \in Numbers :
      PoolDeficit(p, n) \/ TryIncoming(p, n) \/ StashProtected(p, n) \/ QueueFullDrop(p, n)

Reads(p) ==
    \/ Looks(p) \/ LooksAgain(p)
    \/ WokenByProtected(p) \/ WokenByState(p) \/ TakesIncoming(p) \/ AllocationClosed(p)
    \/ Consumes(p) \/ ReturnPaused(p) \/ ReturnPacket(p)

WritesBack ==
    \/ PopReady \/ NoneLeft \/ Peeks \/ WriteBatch
    \/ \E c \in Classes : NextReturnPacket(c) \/ RecvReturnPacket(c)

ReturnNext ==
    \/ \E p \in Paths :
         \/ Relays(p) \/ Reads(p) \/ Cancelled(p)
         \/ OwnerClosed(p) \/ SnapshotChanges(p)
         \/ Fails(p) \/ TerminalPresent(p) \/ DriverEnds(p)
    \/ WritesBack \/ LosesDevice \/ DeviceReplaced \/ Resumes

ReturnSpec == ReturnInit /\ [][ReturnNext]_returnVars

(***************************************************************************)
(* The runtime schedules every task that can go on, and a driver whose     *)
(* cleanup was asked for ends (DriverEnds in TurnDriver).  A device that   *)
(* serves takes what is written; the host owes nobody a descriptor.        *)
(***************************************************************************)
FairReturnSpec ==
    /\ ReturnSpec
    /\ WF_returnVars(WritesBack)
    /\ \A p \in Paths : WF_returnVars(Reads(p)) /\ WF_returnVars(TerminalPresent(p)) /\ WF_returnVars(DriverEnds(p))

-----------------------------------------------------------------------------
(* Properties.                                                             *)

(* Every variable keeps its shape and every queue its capacity. *)
ReturnTypeOK ==
    /\ relayed \in 0 .. Len(Class)
    /\ \A p \in Paths :
         /\ Len(shared[p].incoming) <= IncomingCapacity
         /\ Len(shared[p].protected) <= ProtectedCapacity
         /\ {shared[p].permit, shared[p].open, shared[p].terminal, shared[p].present,
             shared[p].changed, shared[p].closing} \subseteq BOOLEAN
         /\ driver[p] \in {"running", "failing", "gone"}
         /\ reader[p].step \in {"look", "registered", "asleep", "holding", "over"}
         /\ reader[p].held \in Numbers \cup {0}
    /\ \A c \in Classes : Len(returns[c].items) <= ReturnCapacity
    /\ writer.step \in {"take", "peek", "write", "asleep"} \cup (IF writer.tun THEN NoDevice ELSE {})
    /\ writer.look \in 0 .. 4
    /\ finished \in [Numbers -> 0 .. 1]

Times(ns, n) == Cardinality({i \in DOMAIN ns : ns[i] = n})
OnPath(p, n) ==
    Times(shared[p].incoming, n) + Times(shared[p].protected, n)
    + (IF reader[p].held = n THEN 1 ELSE 0)
Located(n) ==
    finished[n] + Times(writer.batch, n) + Times(writer.ready, n)
    + Times(returns[Class[n]].items, n)
    + SumFunction([p \in Paths |-> OnPath(p, n)])

(* A packet that has come from a relay is in one place until it is written *)
(* or lost, whichever queue was full, whoever looked again after it was    *)
(* put back, and whichever task ended meanwhile.  (ReturnTypeOK is         *)
(* checked with it.)                                                       *)
ReturnedOnce ==
    /\ ReturnTypeOK
    /\ \A n \in Numbers : Located(n) = (IF n <= relayed THEN 1 ELSE 0)

(* Nobody sleeps over work: a path whose driver has ended lets its reader  *)
(* end, and what is in a return queue is taken, unless the TUN device is   *)
(* lost, when it waits for a descriptor that may never come.  The bridge   *)
(* and the socket are never lost.                                          *)
WaitersWake ==
    /\ \A p \in Paths : driver[p] = "gone" ~> reader[p].step = "over"
    /\ \A c \in Classes :
         returns[c].items # <<>> ~> (returns[c].items = <<>> \/ writer.step \in NoDevice)

(* A path that has failed ends its session.  The reader may be woken by    *)
(* the reason before it can see it, and sleep again.                       *)
TerminalEndsReader ==
    \A p \in Paths : shared[p].terminal ~> reader[p].step = "over"

=============================================================================
