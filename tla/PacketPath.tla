----------------------------- MODULE PacketPath -----------------------------
(***************************************************************************)
(* The way of a packet up: the reader task gives it to one of the          *)
(* registered sessions (dispatcher.rs), and the session's writer takes it  *)
(* from the session's queue to the relay (session.rs).  Sessions come and  *)
(* go: a session that ends hands what it had queued to the paths that are  *)
(* left.                                                                   *)
(*                                                                         *)
(* Tasks run on several threads, so an enqueue is split where another task *)
(* may come in between: looking at a queue (healthy, congested, open),     *)
(* pushing, and looking at the length that decides whether the receiver is *)
(* notified.  A Notify is its stored permit.                               *)
(*                                                                         *)
(* Abstracted: one of the three packet classes, which have queues, cursors *)
(* and code of the same form; a packet is a number; what is already with   *)
(* the transport counts as sent or lost with the batch.  Left out: where   *)
(* packets come from (bridge, TUN, UDP), and the return queues.            *)
(***************************************************************************)
EXTENDS Integers, Sequences, FiniteSets, FiniteSetsExt, Functions

CONSTANTS
    Workers,          \* worker ids, numbers
    TurnPath,         \* [Workers -> Nat]: the relay each worker goes through
    Spared,           \* packets for which udp_spare makes a second copy
    QueueCapacity,    \* WORKER_*_CAPACITY
    Chunk,            \* stream_chunk of the class
    MaxPackets,       \* bound: packets read
    MaxSessions       \* bound: sessions opened

ASSUME PacketPathAssumption ==
    /\ Workers # {} /\ Workers \subseteq Nat
    /\ TurnPath \in [Workers -> Nat]
    /\ {QueueCapacity, Chunk, MaxPackets, MaxSessions}
         \subseteq Nat \ {0}
    /\ Spared \subseteq 1 .. MaxPackets

VARIABLES
    injected,   \* packets the reader has read
    scheduler,  \* FastPathScheduler: its copy of the table, and the cursor
    table,      \* Dispatcher::workers
    session,    \* [Sessions -> the life of a session, its worker and what it has stolen]
    queue,      \* [Sessions -> the queue, its permit, and the writer that receives from it]
    task,       \* [Tasks -> an enqueue under way]
    ended,      \* history: how often a copy was sent, or given up
    missed      \* history: packets the reader gave up since a session registered,
                \*   while a path could take them and no closed one was taken for a path

vars == <<injected, scheduler, table, session, queue, task,
          ended, missed>>

Packets == 1 .. MaxPackets
Copies == Packets \X {"first", "spare"}
Sessions == 1 .. MaxSessions
Tasks == {0} \cup Sessions     \* 0 is the reader, the others redispatch
Lives == {"unborn", "live", "ending", "handing over", "over"}

NoTask == [step |-> "rest", copy |-> <<1, "first">>, workers |-> <<>>, slot |-> 0,
           search |-> 1, place |-> 0, target |-> 1]
Unborn == [life |-> "unborn", worker |-> CHOOSE w \in Workers : TRUE, stolen |-> <<>>]
NewQueue == [items |-> <<>>, permit |-> FALSE, writer |-> "running", batch |-> <<>>]

Init ==
    /\ injected = 0
    /\ scheduler = [workers |-> <<>>, current |-> 0, remaining |-> 0]
    /\ table = {}
    /\ session = [s \in Sessions |-> Unborn]
    /\ queue = [s \in Sessions |-> NewQueue]
    /\ task = [t \in Tasks |-> NoTask]
    /\ ended = [c \in Copies |-> 0]
    /\ missed = 0

-----------------------------------------------------------------------------
(* What the tasks see of a session.                                        *)

Healthy(s) == session[s].life = "live"     \* mark_unhealthy not reached
Open(s) == queue[s].writer # "gone"        \* receiver_open
Congested(s) == 2 * Len(queue[s].items) >= QueueCapacity

Ends(cs) == [c \in Copies |-> ended[c] + Cardinality({i \in DOMAIN cs : cs[i] = c})]

(***************************************************************************)
(* interleave_turn_paths: the workers of each relay in turn.               *)
(***************************************************************************)
Slots(registered) ==
    LET id(s) == session[s].worker
        rank(s) == Cardinality({r \in registered :
                     TurnPath[id(r)] = TurnPath[id(s)] /\ id(r) < id(s)})
        before(r, s) == \/ rank(r) < rank(s)
                        \/ rank(r) = rank(s) /\ TurnPath[id(r)] < TurnPath[id(s)]
        place(s) == Cardinality({r \in registered : before(r, s)}) + 1
    IN [i \in 1 .. Cardinality(registered) |-> CHOOSE s \in registered : place(s) = i]

-----------------------------------------------------------------------------
(* The reader task: a ticket for each packet.                              *)

(* Mutant: the worker list is loaded only while there is none. *)
Mut_Refreshed(sch) ==
    IF sch.workers = <<>> THEN [sch EXCEPT !.workers = Slots(table)] ELSE sch

Refreshed(sch) ==
    LET workers == Slots(table)
    IN IF sch.remaining = 0
       THEN [sch EXCEPT !.workers = workers,
                        !.current = IF Len(workers) = Len(sch.workers) THEN @ ELSE 0]
       ELSE sch

Counted(sch, remaining) ==
    [sch EXCEPT !.remaining = remaining,
                !.current = IF remaining > 0 THEN @ ELSE (@ + 1) % Len(sch.workers)]
Ticketed(sch) == Counted(sch, (IF sch.remaining = 0 THEN Chunk ELSE sch.remaining) - 1)

(* The start of enqueue_selected_worker: how far it will look. *)
Enqueue(c, workers, slot) ==
    [NoTask EXCEPT !.step = "look", !.copy = c, !.workers = workers, !.slot = slot,
                   !.search = IF Healthy(workers[slot + 1])
                              THEN Min({3, Len(workers)}) ELSE Len(workers)]

Dispatch(c, sch) ==
    IF sch.workers = <<>>
    THEN /\ scheduler' = sch
         /\ ended' = Ends(<<c>>)
         /\ UNCHANGED task
    ELSE /\ scheduler' = Ticketed(sch)
         /\ task' = [task EXCEPT ![0] = Enqueue(c, sch.workers, sch.current)]
         /\ UNCHANGED ended

ReadPacket ==
    /\ task[0].step = "rest"
    /\ injected < MaxPackets
    /\ injected' = injected + 1
    /\ Dispatch(<<injected + 1, "first">>, Refreshed(scheduler))
    /\ UNCHANGED <<table, session, queue, missed>>

-----------------------------------------------------------------------------
(* An enqueue of task t: enqueue_selected_worker, and when it fails        *)
(* replace_oldest_in_selected_queue.                                       *)

(***************************************************************************)
(* The places an enqueue looks at, in order: a round that passes over      *)
(* congested queues, then a round over all of them.                        *)
(***************************************************************************)
Candidate(k, i) == k.workers[((k.slot + (i % k.search)) % Len(k.workers)) + 1]
Acceptable(k, i) ==
    /\ Healthy(Candidate(k, i)) /\ Open(Candidate(k, i))
    /\ i < k.search => ~Congested(Candidate(k, i))
Places(k) == {i \in k.place .. 2 * k.search - 1 : Acceptable(k, i)}

(* A copy of a short UDP packet goes to the other half of the table. *)
Done(k) ==
    IF /\ k.copy[1] \in Spared /\ k.copy[2] = "first"
       /\ Len(k.workers) > 1
    THEN Enqueue(<<k.copy[1], "spare">>, k.workers,
                 (k.slot + Len(k.workers) \div 2) % Len(k.workers))
    ELSE NoTask
Finished(t, k) == IF t = 0 THEN Done(k) ELSE NoTask

(* The loads from here to the next worker that will do are one step. *)
Look(t) ==
    LET k == task[t]
    IN /\ k.step = "look"
       /\ task' = [task EXCEPT ![t] =
            IF Places(k) = {} THEN [k EXCEPT !.step = "replace"]
            ELSE [k EXCEPT !.step = "push", !.place = Min(Places(k)),
                           !.target = Candidate(k, Min(Places(k)))]]
       /\ UNCHANGED <<injected, scheduler, table, session, queue,
                      ended, missed>>

(* Mutant: the push does not look at the capacity. *)
Mut_TrySend(t) ==
    LET k == task[t]
    IN /\ k.step = "push"
       /\ queue' = [queue EXCEPT ![k.target].items = Append(@, k.copy)]
       /\ task' = [task EXCEPT ![t].step = "notify"]
       /\ UNCHANGED <<injected, scheduler, table, session, ended, missed>>

TrySend(t) ==
    LET k == task[t]
    IN /\ k.step = "push"
       /\ \/ /\ Len(queue[k.target].items) < QueueCapacity
             /\ queue' = [queue EXCEPT ![k.target].items = Append(@, k.copy)]
             /\ task' = [task EXCEPT ![t].step = "notify"]
          \/ /\ Len(queue[k.target].items) = QueueCapacity
             /\ task' = [task EXCEPT ![t].step = "look", ![t].place = @ + 1]
             /\ UNCHANGED queue
       /\ UNCHANGED <<injected, scheduler, table, session,
                      ended, missed>>

(* Only the push that finds its packet alone notifies the receiver. *)
Notify(t) ==
    LET k == task[t]
    IN /\ k.step = "notify"
       /\ queue' = [queue EXCEPT ![k.target].permit =
                      @ \/ Len(queue[k.target].items) = 1]
       /\ task' = [task EXCEPT ![t] = Finished(t, k)]
       /\ UNCHANGED <<injected, scheduler, table, session,
                      ended, missed>>

Shortest(k) ==
    LET healthy == {i \in DOMAIN k.workers : Healthy(k.workers[i])}
        length(i) == Len(queue[k.workers[i]].items)
        least == {i \in healthy : \A j \in healthy : length(i) <= length(j)}
    IN IF healthy = {} THEN {} ELSE {k.workers[Min(least)]}

GivesUp(t, k) ==
    /\ ended' = Ends(<<k.copy>>)
    /\ missed' = IF /\ t = 0 /\ k.copy[2] = "first"
                    /\ \E s \in table : Healthy(s)
                    /\ \A s \in table : Healthy(s) => Open(s)
                 THEN missed + 1 ELSE missed
    /\ task' = [task EXCEPT ![t] = Finished(t, k)]
    /\ UNCHANGED queue

(* The reader evicts nothing for a copy it has made.  redispatch cannot    *)
(* tell a copy from a packet: whatever it hands over replaces the oldest.  *)
ReplaceOldest(t) ==
    LET k == task[t]
        open == {s \in Shortest(k) : Open(s)}
        bestEffort == t = 0 /\ k.copy[2] = "spare"
    IN /\ k.step = "replace"
       /\ \/ /\ bestEffort \/ open = {}
             /\ GivesUp(t, k)
          \/ /\ ~bestEffort
             /\ \E s \in open : task' = [task EXCEPT ![t].step = "force", ![t].target = s]
             /\ UNCHANGED <<queue, ended, missed>>
       /\ UNCHANGED <<injected, scheduler, table, session>>

NewestKept(items, c) ==
    Append(IF Len(items) = QueueCapacity THEN Tail(items) ELSE items, c)

ForceSend(t) ==
    LET k == task[t]
        full == Len(queue[k.target].items) = QueueCapacity
    IN /\ k.step = "force"
       /\ queue' = [queue EXCEPT
            ![k.target].items = NewestKept(@, k.copy),
            ![k.target].permit = TRUE]
       /\ ended' = IF full THEN Ends(<<Head(queue[k.target].items)>>) ELSE ended
       /\ task' = [task EXCEPT ![t] = Finished(t, k)]
       /\ UNCHANGED <<injected, scheduler, table, session, missed>>

-----------------------------------------------------------------------------
(* The writer of session s.                                                *)

Receiving(s) ==
    /\ session[s].life \in {"live", "ending"}
    /\ queue[s].writer = "running"

SetQueue(s, q) ==
    /\ queue' = [queue EXCEPT ![s] = q]
    /\ UNCHANGED <<injected, scheduler, table, session, task, missed>>

TakeBatch(s) ==
    /\ Receiving(s)
    /\ queue[s].items # <<>>
    /\ SetQueue(s, [queue[s] EXCEPT !.items = <<>>, !.writer = "sending",
                                 !.batch = queue[s].items])
    /\ UNCHANGED ended

Flushed(s) ==
    /\ queue[s].writer = "sending"
    /\ SetQueue(s, [queue[s] EXCEPT !.batch = <<>>, !.writer = "running"])
    /\ ended' = Ends(queue[s].batch)

WriterSleeps(s) ==
    /\ Receiving(s)
    /\ queue[s].items = <<>>
    /\ SetQueue(s, [queue[s] EXCEPT !.writer = "asleep"])
    /\ UNCHANGED ended

WriterWakes(s) ==
    /\ queue[s].writer = "asleep"
    /\ queue[s].permit
    /\ SetQueue(s, [queue[s] EXCEPT !.writer = "running", !.permit = FALSE])
    /\ UNCHANGED ended

(* A writer command (a registration, a goodbye) also ends the sleep. *)
WriterCommanded(s) ==
    /\ queue[s].writer = "asleep"
    /\ SetQueue(s, [queue[s] EXCEPT !.writer = "running"])
    /\ UNCHANGED ended

(* The flush fails, and the receivers are dropped with the writer. *)
WriterFails(s) ==
    /\ queue[s].writer = "sending"
    /\ SetQueue(s, [queue[s] EXCEPT !.batch = <<>>, !.writer = "gone"])
    /\ ended' = Ends(queue[s].batch)

Writes(s) == TakeBatch(s) \/ Flushed(s) \/ WriterSleeps(s) \/ WriterWakes(s)

-----------------------------------------------------------------------------
(* The life of a session: run_allocated_session after the handshake.       *)

Serves(s, w) == session[s].life \notin {"unborn", "over"} /\ session[s].worker = w

Register(w) ==
    LET s == Cardinality({r \in Sessions : session[r].life # "unborn"}) + 1
    IN /\ s \in Sessions
       /\ \A r \in Sessions : ~Serves(r, w)
       /\ session' = [session EXCEPT ![s].life = "live", ![s].worker = w]
       /\ table' = {r \in table : session[r].worker # w} \cup {s}
       /\ missed' = 0
       /\ UNCHANGED <<injected, scheduler, queue, task, ended>>

SetSession(s, e) ==
    /\ session' = [session EXCEPT ![s] = e]
    /\ UNCHANGED <<injected, scheduler, missed>>

(* mark_unhealthy: repair, park, rebind, a failed reader or a failed writer. *)
MarkUnhealthy(s) ==
    /\ Healthy(s)
    /\ SetSession(s, [session[s] EXCEPT !.life = "ending"])
    /\ UNCHANGED <<table, queue, task, ended>>

(* Mutant: the thief reads the queue and leaves it as it is. *)
Mut_StopAndDrain(s) ==
    /\ session[s].life = "ending"
    /\ SetSession(s, [session[s] EXCEPT !.life = "handing over", !.stolen = queue[s].items])
    /\ queue' = [queue EXCEPT ![s].writer = "gone", ![s].batch = <<>>]
    /\ ended' = Ends(queue[s].batch)
    /\ UNCHANGED <<table, task>>

(* Mutant: a session without a writer is not drained. *)
Mut_WriterDrains(s) ==
    /\ session[s].life = "ending"
    /\ Open(s)
    /\ SetSession(s, [session[s] EXCEPT !.life = "handing over", !.stolen = queue[s].items])
    /\ queue' = [queue EXCEPT ![s] = [NewQueue EXCEPT !.writer = "gone"]]
    /\ ended' = Ends(queue[s].batch)
    /\ UNCHANGED <<table, task>>

(***************************************************************************)
(* stop_session_tasks has waited for the writer, which takes its batch     *)
(* with it; what is queued is drained at once.                             *)
(***************************************************************************)
StopAndDrain(s) ==
    /\ session[s].life = "ending"
    /\ SetSession(s, [session[s] EXCEPT !.life = "handing over", !.stolen = queue[s].items])
    /\ queue' = [queue EXCEPT ![s] = [NewQueue EXCEPT !.writer = "gone"]]
    /\ ended' = Ends(queue[s].batch)
    /\ UNCHANGED <<table, task>>

(***************************************************************************)
(* redispatch: each packet to the sessions that are registered by then.    *)
(* The table is not empty: this session is still in it.                    *)
(***************************************************************************)
Redispatch(s) ==
    LET c == Head(session[s].stolen)
    IN /\ session[s].life = "handing over"
       /\ session[s].stolen # <<>>
       /\ task[s].step = "rest"
       /\ SetSession(s, [session[s] EXCEPT !.stolen = Tail(@)])
       /\ task' = [task EXCEPT ![s] = Enqueue(c, Slots(table), 0)]
       /\ UNCHANGED <<table, queue, ended>>

(* The registration is dropped: only this incarnation leaves the table. *)
Unregister(s) ==
    /\ session[s].life = "handing over"
    /\ session[s].stolen = <<>>
    /\ task[s].step = "rest"
    /\ SetSession(s, [session[s] EXCEPT !.life = "over"])
    /\ table' = table \ {s}
    /\ UNCHANGED <<queue, task, ended>>

-----------------------------------------------------------------------------

Enqueues(t) == Look(t) \/ TrySend(t) \/ Notify(t) \/ ReplaceOldest(t) \/ ForceSend(t)
HandsOver(s) == StopAndDrain(s) \/ Redispatch(s) \/ Unregister(s)

Next ==
    \/ ReadPacket
    \/ \E t \in Tasks : Enqueues(t)
    \/ \E s \in Sessions :
         \/ Writes(s) \/ WriterCommanded(s) \/ WriterFails(s)
         \/ MarkUnhealthy(s) \/ HandsOver(s)
    \/ \E w \in Workers : Register(w)

Spec == Init /\ [][Next]_vars

(***************************************************************************)
(* Every started call returns, the tasks of the runtime are scheduled, and *)
(* the session's select sees that its writer has finished.                 *)
(***************************************************************************)
FairSpec ==
    /\ Spec
    /\ \A t \in Tasks : WF_vars(Enqueues(t))
    /\ \A s \in Sessions : WF_vars(Writes(s)) /\ WF_vars(HandsOver(s))
                         /\ WF_vars(~Open(s) /\ MarkUnhealthy(s))

-----------------------------------------------------------------------------
(* Properties.                                                             *)

(* Every variable keeps its shape and every queue its capacity. *)
TypeOK ==
    /\ injected \in 0 .. MaxPackets
    /\ scheduler.workers # <<>> => scheduler.current < Len(scheduler.workers)
    /\ scheduler.remaining \in 0 .. Chunk
    /\ table \subseteq Sessions
    /\ \A s \in Sessions :
         /\ session[s].life \in Lives /\ session[s].worker \in Workers
         /\ Len(queue[s].items) <= QueueCapacity
         /\ queue[s].writer \in {"running", "asleep", "sending", "gone"}
    /\ \A t \in Tasks :
         task[t].step \in {"rest", "look", "push", "notify", "replace", "force"}
    /\ ended \in [Copies -> 0 .. 1]

Holds(cs, c) == Cardinality({i \in DOMAIN cs : cs[i] = c})
InSession(s, c) ==
    Holds(queue[s].items, c) + Holds(queue[s].batch, c) + Holds(session[s].stolen, c)
Found(c) ==
    ended[c]
    + Cardinality({t \in Tasks : task[t].step \notin {"rest", "notify"} /\ task[t].copy = c})
    + SumFunction([s \in Sessions |-> InSession(s, c)])

(* A packet the reader has read, and a copy  once it is made, is in one    *)
(* place until it is sent or given up: a session that dies while others    *)
(* push to its queue neither duplicates what it hands over nor loses track *)
(* of it.  (TypeOK is checked with it.)                                    *)
EachCopyOnce ==
    /\ TypeOK
    /\ \A p \in 1 .. injected : Found(<<p, "first">>) = 1
    /\ \A c \in Copies : Found(c) <= 1

(* The reader refreshes its copy of the table only at the end of a chunk,  *)
(* so it can give packets up to sessions that are over while a new one is  *)
(* registered: no more of them than are left of that chunk.                *)
MissedIsBounded == missed <= Chunk

(* A session that lost its writer or was marked unhealthy hands its        *)
(* packets over and leaves the table, whatever is pushed to it meanwhile.  *)
SessionEnds ==
    \A s \in Sessions :
      (session[s].life = "ending" \/ ~Open(s)) ~> session[s].life = "over"

(* A writer does not sleep over a queue that nobody is about to notify it  *)
(* of.  Two tasks that push to an empty queue may both read the length 2.  *)
QueueWakes ==
    \A s \in Sessions :
      queue[s].writer = "asleep" /\ queue[s].items # <<>> =>
        \/ queue[s].permit
        \/ \E t \in Tasks : task[t].step = "notify" /\ task[t].target = s

(* "Take queued packets so a dying worker can hand them to still-healthy   *)
(* paths": a session that is over has none left.  A push that had looked   *)
(* at the queue before may still arrive.                                   *)
NothingStranded ==
    \A s \in Sessions : session[s].life = "over" => queue[s].items = <<>>

(* "Short UDP also goes to a second worker": the copy is not queued where  *)
(* its first is.                                                           *)
SpareTakesAnotherPath ==
    \A s \in Sessions, p \in Spared :
      Holds(queue[s].items, <<p, "first">>) + Holds(queue[s].items, <<p, "spare">>) <= 1

(* A packet is given up only when no registered path could take it. *)
GivenUpWithoutPath == missed = 0

=============================================================================
