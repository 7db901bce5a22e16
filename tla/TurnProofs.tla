--------------------------- MODULE TurnProofs ---------------------------
(***************************************************************************)
(* Proofs about TurnCore, and about TurnDriver, which drives it.  Sound is *)
(* the inductive invariant of the core and Step what one method may do to  *)
(* the life of the allocation; both speak of a core value, so that they    *)
(* carry over from the steps of a method to the whole.  For the driver the *)
(* events are what matters: Good says that those not yet taken tell the    *)
(* session all that has become of the core, Room that the ring always has  *)
(* space for the next ones, and DriverInv ties both to the driver's flags. *)
(***************************************************************************)
EXTENDS TurnDriver, WellFoundedInduction, TLAPS

Typed(c) == c \in Core /\ Len(c.events) <= EventCapacity

\* All but the events agree.
Like(c, d) ==
  /\ d.state = c.state /\ d.pending = c.pending /\ d.channel = c.channel
  /\ d.failures = c.failures /\ d.armed = c.armed /\ d.controls = c.controls
  /\ d.shuttingDown = c.shuttingDown /\ d.destroyed = c.destroyed

\* The operations that may be outstanding in a state.
OpsOf(s) ==
  IF s = "allocating" THEN {"allocate"}
  ELSE IF s = "ready" THEN Maintenance
  ELSE IF s = "deallocating" THEN {"deallocate"}
  ELSE {}

Fitting(c) ==
  /\ \A p \in c.pending : p.op \in OpsOf(c.state)
  /\ \A p, q \in c.pending : p.op = q.op => p = q

Outstanding(c) ==
  /\ c.state = "allocating" => Has(c, "allocate")
  /\ c.state = "deallocating" => Has(c, "deallocate")

\* How the flags go with the state.
Flags(c) ==
  /\ c.state = "ready" => ~c.shuttingDown
  /\ c.state = "deallocating" => c.shuttingDown
  /\ c.destroyed => c.state = "destroying"
  /\ c.channel /\ ~c.destroyed => c.state = "ready"

\* The deadline of the allocation is known only from its grant to its end.
Expiry(c) ==
  "expiry" \in c.armed =>
    /\ c.state \notin {"null", "allocating", "deallocated"}
    /\ c.shuttingDown /\ ~c.destroyed => c.state = "deallocating"

\* What holds in the middle of a method, when the transaction a state waits for may be gone.
Partial(c) == Typed(c) /\ Fitting(c) /\ Flags(c) /\ Expiry(c)

Sound(c) == Partial(c) /\ Outstanding(c)

BoundOf(c) == c.channel /\ ~c.destroyed

\* What a method may do to the allocation, as TurnPhase has it.
Step(c, d) ==
  \/ PhaseOf(d) = PhaseOf(c) /\ BoundOf(d) = BoundOf(c)
  \/ PhaseOf(c) = "held" /\ PhaseOf(d) = "held" /\ BoundOf(d)
  \/ /\ ~BoundOf(d)
     /\ \/ PhaseOf(c) = "idle" /\ PhaseOf(d) = "asking"
        \/ PhaseOf(c) = "asking" /\ PhaseOf(d) = "held"
        \/ PhaseOf(c) = "held" /\ PhaseOf(d) = "lost"
        \/ PhaseOf(c) \in {"asking", "held", "lost"} /\ PhaseOf(d) = "releasing"
        \/ PhaseOf(d) = "over"

------------------------------------------------------------------------------
(* The steps of a method *)

\* The event ring stays in its bound and PushEvent touches nothing else.
LEMMA EventsOnly ==
  ASSUME NEW c, Typed(c), NEW e \in Event
  PROVE  Typed(PushEvent(c, e)) /\ Like(c, PushEvent(c, e))
<1> DEFINE o == Happens("overflow", "none", "ok")
           s == IF Len(c.events) = EventCapacity THEN Append(Tail(c.events), o)
                ELSE Append(c.events, e)
<1>1. c \in Core /\ c.events \in Seq(Event) /\ Len(c.events) \in Nat /\ Len(c.events) <= EventCapacity
  BY DEF Typed, Core
<1>2. o \in Event
  BY DEF Happens, Event, States, Ops, Codes
<1>3. s \in Seq(Event) /\ Len(s) <= EventCapacity
  <2>1. CASE Len(c.events) = EventCapacity
    <3>1. c.events # <<>>
      BY <1>1, <2>1, CoreAssumption
    <3>2. Tail(c.events) \in Seq(Event) /\ Len(Tail(c.events)) = Len(c.events) - 1
      BY <1>1, <3>1
    <3> QED BY <1>1, <1>2, <2>1, <3>2, CoreAssumption
  <2>2. CASE Len(c.events) # EventCapacity
    BY <1>1, <2>2, CoreAssumption
  <2> QED BY <2>1, <2>2
<1>4. PushEvent(c, e) = [c EXCEPT !.events = s]
  BY DEF PushEvent
<1> HIDE DEF s
<1> QED BY <1>1, <1>3, <1>4 DEF Typed, Like, Core

\* A change of state is reported once and changes nothing else.
LEMMA StateOnly ==
  ASSUME NEW c, Typed(c), NEW s \in States
  PROVE  Typed(SetState(c, s)) /\ Like([c EXCEPT !.state = s], SetState(c, s))
<1>1. CASE c.state = s
  BY <1>1 DEF SetState, Typed, Like, Core
<1>2. CASE c.state # s
  <2> DEFINE d == [c EXCEPT !.state = s]
  <2>1. Typed(d)
    BY DEF Typed, Core
  <2>2. Happens("state", s, "ok") \in Event
    BY DEF Happens, Event, Codes
  <2>3. SetState(c, s) = PushEvent(d, Happens("state", s, "ok"))
    BY <1>2 DEF SetState
  <2> HIDE DEF d
  <2>4. Typed(SetState(c, s)) /\ Like(d, SetState(c, s))
    BY <2>1, <2>2, <2>3, EventsOnly
  <2> QED BY <2>4 DEF d
<1> QED BY <1>1, <1>2

\* A transaction is started only where there is none of its operation.
LEMMA OperationStarts ==
  ASSUME NEW c, Typed(c), NEW op \in Ops, NEW retries \in 0..MaxNonceRetries
  PROVE  LET d == StartOperation(c, op, retries)
         IN  /\ Typed(d)
             /\ d.state = c.state /\ d.channel = c.channel /\ d.armed = c.armed
             /\ d.shuttingDown = c.shuttingDown /\ d.destroyed = c.destroyed
             /\ Has(c, op) => d.pending = c.pending
             /\ ~Has(c, op) =>
                  d.pending = c.pending \cup {[op |-> op, sent |-> 1, retries |-> retries]}
<1>1. [op |-> op, sent |-> 1, retries |-> retries] \in Pending
  BY CoreAssumption DEF Pending
<1>2. CASE Has(c, op)
  BY <1>2 DEF StartOperation, Typed, Core
<1>3. CASE ~Has(c, op)
  <2> DEFINE p == [op |-> op, sent |-> 1, retries |-> retries]
  <2>1. StartOperation(c, op, retries) =
          [c EXCEPT !.controls = @ \cup {op}, !.pending = @ \cup {p}]
    BY <1>3 DEF StartOperation
  <2>2. p \in Pending
    BY <1>1
  <2> HIDE DEF p
  <2> DEFINE b == c.controls \cup {op}
             q == c.pending \cup {p}
             d == [c EXCEPT !.controls = b, !.pending = q]
  <2>3. b \in SUBSET Ops /\ q \in SUBSET Pending /\ StartOperation(c, op, retries) = d
    BY <2>1, <2>2 DEF Typed, Core
  <2> HIDE DEF b, q
  <2>4. Typed(d) /\ d.pending = q
        /\ d.state = c.state /\ d.channel = c.channel /\ d.armed = c.armed
        /\ d.shuttingDown = c.shuttingDown /\ d.destroyed = c.destroyed
    BY <2>3 DEF Typed, Core
  <2> QED BY <1>3, <2>3, <2>4 DEF p, q
<1> QED BY <1>2, <1>3

\* The allocation has ended: of its deadlines, kept is still known.
Ended(c, d, s, kept) ==
  /\ Typed(d)
  /\ d.state = s
  /\ d.pending = {} /\ d.channel = FALSE /\ d.armed = kept
  /\ d.shuttingDown = c.shuttingDown /\ d.destroyed = c.destroyed

\* The two ends of an allocation: nothing stays outstanding and no channel is bound; only the
\* deadlines of an exhausted one, which the server may hold, stay known.
LEMMA AllocationEnds ==
  ASSUME NEW c, Typed(c)
  PROVE  /\ \A op \in Ops, code \in Codes :
              Ended(c, DestroyAllocation(c, op, code),
                    IF op = "deallocate" THEN "deallocated" ELSE "destroying", {})
         /\ Ended(c, RebindExhausted(c), "destroying", c.armed \cap {"refresh", "expiry"})
<1>1. ASSUME NEW op \in Ops, NEW code \in Codes
      PROVE  Ended(c, DestroyAllocation(c, op, code),
                   IF op = "deallocate" THEN "deallocated" ELSE "destroying", {})
  <2> DEFINE a == Complete(c, op, code)
             b == [a EXCEPT !.controls = {}, !.pending = {}, !.channel = FALSE, !.armed = {}]
             s == IF op = "deallocate" THEN "deallocated" ELSE "destroying"
  <2>1. Happens("complete", Method(op), code) \in Event
    BY DEF Happens, Event, Method, Ops
  <2>2. Typed(a) /\ Like(c, a)
    BY <2>1, EventsOnly DEF Complete
  <2> HIDE DEF a
  <2>3. Typed(b) /\ b.pending = {} /\ b.channel = FALSE /\ b.armed = {}
        /\ b.shuttingDown = c.shuttingDown /\ b.destroyed = c.destroyed
    BY <2>2 DEF Typed, Core, Like
  <2>4. s \in States
    BY DEF States
  <2>5. DestroyAllocation(c, op, code) = SetState(b, s)
    BY DEF DestroyAllocation, a
  <2> HIDE DEF b, s
  <2>6. Typed(SetState(b, s)) /\ Like([b EXCEPT !.state = s], SetState(b, s))
    BY <2>3, <2>4, StateOnly
  <2> QED BY <2>3, <2>5, <2>6 DEF s, Like, Typed, Core, Ended
<1>2. Ended(c, RebindExhausted(c), "destroying", c.armed \cap {"refresh", "expiry"})
  <2> DEFINE e == Happens("exhausted", "destroying", "failed")
             a == [c EXCEPT !.controls = {}, !.pending = {}, !.channel = FALSE,
                            !.armed = @ \cap {"refresh", "expiry"}]
             b == PushEvent(a, e)
  <2>1. e \in Event
    BY DEF Happens, Event, States, Codes
  <2>2. Typed(a) /\ a.pending = {} /\ a.channel = FALSE
        /\ a.armed = c.armed \cap {"refresh", "expiry"}
        /\ a.shuttingDown = c.shuttingDown /\ a.destroyed = c.destroyed
    BY DEF Typed, Core
  <2> HIDE DEF a, e
  <2>3. Typed(b) /\ Like(a, b)
    BY <2>1, <2>2, EventsOnly
  <2>4. RebindExhausted(c) = SetState(b, "destroying")
    BY DEF RebindExhausted, a, e
  <2> HIDE DEF b
  <2>5. Typed(SetState(b, "destroying"))
        /\ Like([b EXCEPT !.state = "destroying"], SetState(b, "destroying"))
    BY <2>3, StateOnly DEF States
  <2> QED BY <2>2, <2>3, <2>4, <2>5 DEF Like, Typed, Core, Ended
<1> QED BY <1>1, <1>2

\* What is said of a core does not depend on its events.
LEMMA LikeIsSound ==
  ASSUME NEW c, Partial(c), NEW d, Typed(d), Like(c, d)
  PROVE  /\ Partial(d) /\ (Sound(c) => Sound(d))
         /\ PhaseOf(d) = PhaseOf(c) /\ BoundOf(d) = BoundOf(c)
         /\ \A op : Has(d, op) <=> Has(c, op)
<1>1. \A op : Has(d, op) <=> Has(c, op)
  BY DEF Like, Has
<1>2. Partial(d)
  BY DEF Partial, Like, Fitting, Flags, Expiry
<1>3. PhaseOf(d) = PhaseOf(c) /\ BoundOf(d) = BoundOf(c)
  BY DEF Like, PhaseOf, BoundOf
<1>4. Sound(c) => Sound(d)
  BY <1>1, <1>2 DEF Sound, Outstanding, Like
<1> QED BY <1>1, <1>2, <1>3, <1>4

\* An event changes nothing of what is said of the core.
LEMMA PushIsSound ==
  ASSUME NEW c, Partial(c), NEW e \in Event
  PROVE  /\ Partial(PushEvent(c, e)) /\ (Sound(c) => Sound(PushEvent(c, e)))
         /\ PushEvent(c, e).state = c.state
         /\ PhaseOf(PushEvent(c, e)) = PhaseOf(c) /\ BoundOf(PushEvent(c, e)) = BoundOf(c)
         /\ \A op : Has(PushEvent(c, e), op) <=> Has(c, op)
<1>1. Typed(PushEvent(c, e)) /\ Like(c, PushEvent(c, e))
  BY EventsOnly DEF Partial
<1> QED BY LikeIsSound, <1>1 DEF Like

\* A transaction that is taken out leaves a core that fits, and was the only one of its operation.
LEMMA RestIsPartial ==
  ASSUME NEW c, Sound(c), NEW p \in c.pending
  PROVE  /\ Partial(Without(c, p)) /\ p \in Pending /\ p.op \in Ops
         /\ Without(c, p).state = c.state /\ p.op \in OpsOf(c.state)
         /\ Without(c, p).shuttingDown = c.shuttingDown
         /\ ~Has(Without(c, p), p.op)
         /\ PhaseOf(Without(c, p)) = PhaseOf(c) /\ BoundOf(Without(c, p)) = BoundOf(c)
<1> DEFINE d == Without(c, p)
           a == c.pending \ {p}
           b == c.controls \ {p.op}
<1>1. p \in Pending /\ p.op \in Ops /\ p.op \in OpsOf(c.state)
  BY DEF Sound, Partial, Typed, Core, Pending, Fitting
<1>2. a \in SUBSET Pending /\ b \in SUBSET Ops
  BY DEF Sound, Partial, Typed, Core
<1>3. d = [c EXCEPT !.pending = a, !.controls = b]
  BY DEF Without
<1>4. \A q \in a : q \in c.pending /\ q # p
  OBVIOUS
<1> HIDE DEF a, b, d
<1>5. /\ Typed(d) /\ d.pending = a /\ d.state = c.state /\ d.channel = c.channel
      /\ d.armed = c.armed /\ d.shuttingDown = c.shuttingDown /\ d.destroyed = c.destroyed
  BY <1>2, <1>3 DEF Sound, Partial, Typed, Core
<1>6. Partial(d)
  BY <1>4, <1>5 DEF Sound, Partial, Fitting, Flags, Expiry
<1>7. ~Has(d, p.op)
  BY <1>4, <1>5 DEF Sound, Partial, Fitting, Has
<1>8. PhaseOf(d) = PhaseOf(c) /\ BoundOf(d) = BoundOf(c)
  BY <1>5 DEF PhaseOf, BoundOf
<1> QED BY <1>1, <1>5, <1>6, <1>7, <1>8 DEF d

\* An operation that ends takes the allocation with it.
LEMMA DestroyIsSound ==
  ASSUME NEW c, Partial(c), NEW op \in Ops, NEW code \in Codes, op \in OpsOf(c.state)
  PROVE  Sound(DestroyAllocation(c, op, code)) /\ Step(c, DestroyAllocation(c, op, code))
         /\ DestroyAllocation(c, op, code).state # "ready"
         /\ PhaseOf(DestroyAllocation(c, op, code)) = "over"
         /\ ~BoundOf(DestroyAllocation(c, op, code))
<1> DEFINE d == DestroyAllocation(c, op, code)
<1>1. d = DestroyAllocation(c, op, code)
  OBVIOUS
<1> HIDE DEF d
<1>2. Ended(c, d, IF op = "deallocate" THEN "deallocated" ELSE "destroying", {})
  BY <1>1, AllocationEnds DEF Partial
<1>3. ~c.destroyed
  BY DEF Partial, Flags, OpsOf
<1>4. Sound(d)
  BY <1>2, <1>3 DEF Ended, Sound, Partial, Fitting, Outstanding, Flags, Expiry
<1>5. PhaseOf(d) = "over" /\ ~BoundOf(d) /\ d.state # "ready"
  BY <1>2 DEF Ended, PhaseOf, BoundOf
<1> QED BY <1>1, <1>4, <1>5 DEF Step

\* Starting a transaction that fits the state leaves the allocation as it is, and the state
\* has what it waits for.
LEMMA OperationFits ==
  ASSUME NEW c, Partial(c), NEW op \in OpsOf(c.state), NEW retries \in 0..MaxNonceRetries
  PROVE  LET d == StartOperation(c, op, retries)
         IN  Sound(d) /\ d.state = c.state /\ PhaseOf(d) = PhaseOf(c) /\ BoundOf(d) = BoundOf(c)
<1> DEFINE d == StartOperation(c, op, retries)
           p == [op |-> op, sent |-> 1, retries |-> retries]
<1>1. op \in Ops
  BY DEF OpsOf, Ops, Maintenance
<1>2. /\ Typed(d)
      /\ d.state = c.state /\ d.channel = c.channel /\ d.armed = c.armed
      /\ d.shuttingDown = c.shuttingDown /\ d.destroyed = c.destroyed
      /\ Has(c, op) => d.pending = c.pending
      /\ ~Has(c, op) => d.pending = c.pending \cup {p}
  BY <1>1, OperationStarts DEF Partial
<1>3. p.op = op
  OBVIOUS
<1> HIDE DEF d, p
<1>4. PhaseOf(d) = PhaseOf(c) /\ BoundOf(d) = BoundOf(c)
  BY <1>2 DEF PhaseOf, BoundOf
<1>5. Flags(d) /\ Expiry(d)
  BY <1>2 DEF Partial, Flags, Expiry
<1>6. Fitting(d)
  BY <1>2, <1>3 DEF Partial, Fitting, Has
<1>7. Outstanding(d)
  BY <1>2, <1>3 DEF Outstanding, OpsOf, Has
<1> QED BY <1>2, <1>4, <1>5, <1>6, <1>7 DEF Sound, Partial, d

\* A transaction that failed is retried, exhausts the channel or ends the allocation.
LEMMA FailureIsSound ==
  ASSUME NEW c, Partial(c), NEW op \in OpsOf(c.state), ~Has(c, op),
         NEW code \in Codes, NEW expired \in BOOLEAN
  PROVE  LET d == CompleteFailure(c, op, code, expired)
         IN  /\ Sound(d) /\ Step(c, d)
             /\ d.state = "ready" =>
                  c.state = "ready" /\ PhaseOf(d) = PhaseOf(c) /\ BoundOf(d) = BoundOf(c)
<1> DEFINE d == CompleteFailure(c, op, code, expired)
           retried == op \in Maintenance /\ c.state = "ready" /\ "expiry" \in c.armed /\ ~expired
           a == Complete(c, op, code)
<1>1. op \in Ops /\ Typed(c)
  BY DEF OpsOf, Ops, Maintenance, Partial
<1>2. CASE ~retried
  <2>1. d = DestroyAllocation(c, op, code)
    BY <1>2 DEF CompleteFailure
  <2> HIDE DEF d
  <2>2. Ended(c, d, IF op = "deallocate" THEN "deallocated" ELSE "destroying", {})
    BY <1>1, <2>1, AllocationEnds
  <2>3. ~c.destroyed
    BY DEF Partial, Flags, OpsOf
  <2>4. Sound(d)
    BY <2>2, <2>3 DEF Ended, Sound, Partial, Fitting, Outstanding, Flags, Expiry
  <2>5. PhaseOf(d) = "over" /\ ~BoundOf(d) /\ d.state # "ready"
    BY <2>2 DEF Ended, PhaseOf, BoundOf
  <2> QED BY <2>4, <2>5 DEF Step, d
<1>3. CASE retried
  <2>1. Happens("complete", Method(op), code) \in Event
    BY <1>1 DEF Happens, Event, Method, Ops
  <2>2. Typed(a) /\ Like(c, a)
    BY <1>1, <2>1, EventsOnly DEF Complete
  <2>3. d = MaintenanceRetry(a, op)
    BY <1>3 DEF CompleteFailure
  <2>4. c.state = "ready" /\ "expiry" \in c.armed /\ op \in Maintenance
    BY <1>3
  <2> HIDE DEF a, d, retried
  <2>5. ~c.destroyed /\ ~c.shuttingDown
    BY <2>4 DEF Partial, Flags
  <2>6. ASSUME NEW e, Typed(e), e.state = c.state, e.pending = c.pending,
               e.channel = c.channel, e.shuttingDown = c.shuttingDown,
               e.destroyed = c.destroyed, c.armed \subseteq e.armed, d = e
        PROVE  Sound(d) /\ PhaseOf(d) = PhaseOf(c) /\ BoundOf(d) = BoundOf(c)
    BY <2>4, <2>5, <2>6 DEF Sound, Partial, Fitting, Outstanding, Flags, Expiry, PhaseOf, BoundOf
  <2>7. CASE op # "channel"
    <3> DEFINE e == [a EXCEPT !.armed = @ \cup {op}]
    <3>1. op \in Deadlines
      BY <2>4, <2>7 DEF Maintenance, Deadlines
    <3>2. /\ Typed(e) /\ e.state = c.state /\ e.pending = c.pending /\ e.channel = c.channel
          /\ e.shuttingDown = c.shuttingDown /\ e.destroyed = c.destroyed
          /\ c.armed \subseteq e.armed
      BY <2>2, <3>1 DEF Typed, Core, Like
    <3>3. d = e
      BY <2>3, <2>7 DEF MaintenanceRetry
    <3> HIDE DEF e
    <3> QED BY <2>4, <2>6, <3>2, <3>3 DEF Step, d
  <2>8. CASE op = "channel" /\ a.failures + 1 < MaxChannelFailures
    <3> DEFINE e == [a EXCEPT !.failures = @ + 1, !.armed = @ \cup {op}]
    <3>1. op \in Deadlines
      BY <2>8 DEF Deadlines
    <3>2. /\ Typed(e) /\ e.state = c.state /\ e.pending = c.pending /\ e.channel = c.channel
          /\ e.shuttingDown = c.shuttingDown /\ e.destroyed = c.destroyed
          /\ c.armed \subseteq e.armed
      <4> DEFINE n == a.failures + 1
                 m == a.armed \cup {op}
      <4>1. n \in 0..MaxChannelFailures /\ m \in SUBSET Deadlines
        BY <2>2, <2>8, <3>1, CoreAssumption DEF Typed, Core
      <4>2. c.armed \subseteq m
        BY <2>2 DEF Like
      <4>3. e = [a EXCEPT !.failures = n, !.armed = m]
        OBVIOUS
      <4> HIDE DEF n, m, e
      <4> QED BY <2>2, <4>1, <4>2, <4>3 DEF Typed, Core, Like
    <3>3. d = e
      BY <2>2, <2>3, <2>8, CoreAssumption DEF MaintenanceRetry, Typed, Core
    <3> HIDE DEF e
    <3> QED BY <2>4, <2>6, <3>2, <3>3 DEF Step, d
  <2>9. CASE op = "channel" /\ ~(a.failures + 1 < MaxChannelFailures)
    <3> DEFINE b == [a EXCEPT !.failures = MaxChannelFailures]
    <3>1. d = RebindExhausted(b)
      BY <2>2, <2>3, <2>9, CoreAssumption DEF MaintenanceRetry, Typed, Core
    <3>2. Typed(b) /\ b.armed = c.armed /\ b.shuttingDown = c.shuttingDown
          /\ b.destroyed = c.destroyed
      BY <2>2, CoreAssumption DEF Typed, Core, Like
    <3> HIDE DEF b
    <3>3. Ended(b, d, "destroying", b.armed \cap {"refresh", "expiry"})
      BY <3>1, <3>2, AllocationEnds
    <3>4. Sound(d)
      BY <2>5, <3>2, <3>3 DEF Ended, Sound, Partial, Fitting, Outstanding, Flags, Expiry
    <3>5. PhaseOf(c) = "held" /\ PhaseOf(d) = "lost" /\ ~BoundOf(d)
      BY <2>4, <2>5, <3>2, <3>3 DEF Ended, PhaseOf, BoundOf
    <3> QED BY <3>3, <3>4, <3>5 DEF Ended, Step, d
  <2> QED BY <2>7, <2>8, <2>9
<1> QED BY <1>2, <1>3

\* A core that is resynced goes on, or its allocation is over.
LEMMA ResyncIsSound ==
  ASSUME NEW c, Sound(c), NEW tooLong \in BOOLEAN, NEW g, g = Resync(c, tooLong)
  PROVE  /\ Sound(g) /\ Step(c, g)
         /\ \/ PhaseOf(g) = PhaseOf(c) /\ BoundOf(g) = BoundOf(c)
            \/ PhaseOf(g) = "over" /\ ~BoundOf(g)
<1>1. CASE ~IsOpen(c) \/ c.state # "ready"
  BY <1>1 DEF Resync, Step
<1>2. CASE ~(~IsOpen(c) \/ c.state # "ready") /\ tooLong
  <2>1. g = DestroyAllocation(c, "refresh", "failed")
    BY <1>2 DEF Resync
  <2>2. Partial(c) /\ "refresh" \in OpsOf(c.state) /\ "refresh" \in Ops
        /\ "failed" \in Codes
    BY <1>2 DEF Sound, OpsOf, Maintenance, Ops, Codes
  <2> QED BY <2>1, <2>2, DestroyIsSound
<1>3. CASE ~(~IsOpen(c) \/ c.state # "ready") /\ ~tooLong
  <2> DEFINE a == c.armed \cup {"refresh", "maintenance"}
  <2>1. a \in SUBSET Deadlines /\ ("expiry" \in a <=> "expiry" \in c.armed)
    BY DEF Sound, Partial, Typed, Core, Deadlines
  <2>2. g = [c EXCEPT !.armed = a]
    BY <1>3 DEF Resync
  <2> HIDE DEF a
  <2>3. /\ Typed(g) /\ g.state = c.state /\ g.pending = c.pending
        /\ g.channel = c.channel /\ g.armed = a
        /\ g.shuttingDown = c.shuttingDown /\ g.destroyed = c.destroyed
    BY <2>1, <2>2 DEF Sound, Partial, Typed, Core
  <2>4. Sound(g)
    BY <2>1, <2>3 DEF Sound, Partial, Fitting, Outstanding, Flags, Expiry, Has
  <2>5. PhaseOf(g) = PhaseOf(c) /\ BoundOf(g) = BoundOf(c)
    BY <2>1, <2>3 DEF PhaseOf, BoundOf
  <2> QED BY <2>4, <2>5 DEF Step
<1> QED BY <1>1, <1>2, <1>3

\* A graceful shutdown gives back an allocation that the server is known to hold.
LEMMA GracefulIsSound ==
  ASSUME NEW c, Sound(c), NEW g, g = Graceful(c)
  PROVE  Sound(g) /\ Step(c, g)
<1>1. CASE ~IsOpen(c)
  BY <1>1 DEF Graceful, Step
<1> DEFINE a == c.armed \ {"maintenance", "permission", "channel"}
           held == c.state = "ready" \/ (c.state = "destroying" /\ "expiry" \in c.armed)
<1>2. a \in SUBSET Deadlines /\ ("expiry" \in a <=> "expiry" \in c.armed)
  BY DEF Sound, Partial, Typed, Core
<1>3. CASE IsOpen(c) /\ held
  <2> DEFINE b == [c EXCEPT !.shuttingDown = TRUE, !.channel = FALSE, !.controls = {},
                               !.armed = a, !.pending = {}]
             d == SetState(b, "deallocating")
             e == [b EXCEPT !.state = "deallocating"]
  <2>1. [Closing(c) EXCEPT !.pending = {}] = b
    BY DEF Closing, Sound, Partial, Typed, Core
  <2>2. g = StartOperation(d, "deallocate", 0)
    BY <1>3, <2>1 DEF Graceful, Shutdown
  <2> HIDE DEF a
  <2>3. /\ Typed(b) /\ b.pending = {} /\ b.channel = FALSE /\ b.armed = a
        /\ b.shuttingDown = TRUE /\ b.destroyed = c.destroyed
    BY <1>2 DEF Sound, Partial, Typed, Core
  <2> HIDE DEF b
  <2>4. Typed(d) /\ Like(e, d)
    BY <2>3, StateOnly DEF States
  <2> HIDE DEF d
  <2>5. /\ d.state = "deallocating" /\ d.pending = {} /\ d.channel = FALSE
        /\ d.shuttingDown = TRUE /\ ~d.destroyed
    BY <1>3, <2>3, <2>4 DEF IsOpen, Like, Typed, Core
  <2>6. Partial(d)
    BY <2>4, <2>5 DEF Partial, Fitting, Flags, Expiry
  <2>7. "deallocate" \in OpsOf(d.state) /\ 0 \in 0..MaxNonceRetries
    BY <2>5, CoreAssumption DEF OpsOf
  <2>8. Sound(g) /\ PhaseOf(g) = PhaseOf(d) /\ BoundOf(g) = BoundOf(d)
    BY <2>2, <2>6, <2>7, OperationFits
  <2>9. PhaseOf(c) \in {"held", "lost"} /\ PhaseOf(d) = "releasing" /\ ~BoundOf(d)
    BY <1>3, <2>5 DEF IsOpen, PhaseOf, BoundOf
  <2> QED BY <2>8, <2>9 DEF Step
<1>4. CASE IsOpen(c) /\ ~held
  <2> DEFINE p == IF c.state = "allocating" THEN c.pending ELSE {}
  <2>1. g = [c EXCEPT !.shuttingDown = TRUE, !.channel = FALSE, !.controls = {},
                      !.armed = a, !.pending = p]
    BY <1>4 DEF Graceful, Shutdown, Closing, Sound, Partial, Typed, Core
  <2>2. p \in SUBSET Pending /\ p \subseteq c.pending
        /\ (c.state = "allocating" => p = c.pending)
    BY DEF Sound, Partial, Typed, Core
  <2> HIDE DEF a, p
  <2>3. /\ Typed(g) /\ g.state = c.state /\ g.pending = p
        /\ g.channel = FALSE /\ g.armed = a /\ g.shuttingDown = TRUE
        /\ g.destroyed = c.destroyed
    BY <1>2, <2>1, <2>2 DEF Sound, Partial, Typed, Core
  <2>4. c.state \in {"null", "allocating", "deallocated", "destroying"} /\ ~c.channel
        /\ ~c.destroyed /\ "expiry" \notin a
    BY <1>2, <1>4 DEF IsOpen, Sound, Partial, Typed, Core, States, Flags, Expiry
  <2>5. Sound(g)
    BY <2>2, <2>3, <2>4 DEF Sound, Partial, Fitting, Outstanding, Flags, Expiry, Has
  <2>6. PhaseOf(g) = PhaseOf(c) /\ BoundOf(g) = BoundOf(c)
    BY <1>2, <2>3, <2>4 DEF PhaseOf, BoundOf
  <2> QED BY <2>5, <2>6 DEF Step
<1> QED BY <1>1, <1>3, <1>4

\* A core that is destroyed is over.
LEMMA ForcedIsSound ==
  ASSUME NEW c, Sound(c), NEW g, g = Forced(c)
  PROVE  Sound(g) /\ Step(c, g)
<1>1. CASE c.destroyed
  BY <1>1 DEF Forced, Step
<1>2. CASE ~c.destroyed
  <2> DEFINE b == [c EXCEPT !.destroyed = TRUE, !.controls = {}, !.pending = {}]
             d == SetState(b, "destroying")
             f == [b EXCEPT !.state = "destroying"]
             e == Happens("forced", "destroying", "ok")
  <2>1. g = PushEvent(d, e)
    BY <1>2 DEF Forced
  <2>2. e \in Event
    BY DEF Happens, Event, States, Codes
  <2> HIDE DEF e
  <2>3. Typed(b) /\ b.pending = {} /\ b.destroyed = TRUE
    BY DEF Sound, Partial, Typed, Core
  <2> HIDE DEF b
  <2>4. Typed(d) /\ Like(f, d)
    BY <2>3, StateOnly DEF States
  <2> HIDE DEF d
  <2>5. d.state = "destroying" /\ d.pending = {} /\ d.destroyed = TRUE
    BY <2>3, <2>4 DEF Like, Typed, Core
  <2>6. Sound(d)
    BY <2>4, <2>5 DEF Sound, Partial, Fitting, Outstanding, Flags, Expiry
  <2>7. PhaseOf(d) = "over" /\ ~BoundOf(d)
    BY <2>5 DEF PhaseOf, BoundOf
  <2> QED BY <2>1, <2>2, <2>6, <2>7, PushIsSound DEF Sound, Step
<1> QED BY <1>1, <1>2

------------------------------------------------------------------------------
(* The methods *)

\* Every method of the core, called at any time and with any answer, keeps the invariant and
\* does to the allocation what TurnPhase allows.
LEMMA MethodIsSound ==
  ASSUME Sound(core), [CoreNext]_core
  PROVE  Sound(core') /\ Step(core, core')
<1>1. ASSUME NEW c, Partial(c), NEW d, Typed(d), Like(c, d)
      PROVE  /\ Partial(d) /\ (Sound(c) => Sound(d))
             /\ PhaseOf(d) = PhaseOf(c) /\ BoundOf(d) = BoundOf(c)
             /\ \A op : Has(d, op) <=> Has(c, op)
  BY <1>1, LikeIsSound
<1>2. ASSUME NEW op \in Ops, NEW code \in Codes, NEW kind \in {"complete", "error"}
      PROVE  Happens(kind, Method(op), code) \in Event
  BY DEF Happens, Event, Method, Ops
<1>3. ASSUME NEW c, Partial(c), NEW e \in Event
      PROVE  /\ Partial(PushEvent(c, e)) /\ (Sound(c) => Sound(PushEvent(c, e)))
             /\ PushEvent(c, e).state = c.state
             /\ PhaseOf(PushEvent(c, e)) = PhaseOf(c) /\ BoundOf(PushEvent(c, e)) = BoundOf(c)
             /\ \A op : Has(PushEvent(c, e), op) <=> Has(c, op)
  BY <1>3, PushIsSound
<1>4. ASSUME NEW c, Sound(c), NEW p \in c.pending
      PROVE  /\ Partial(Without(c, p)) /\ p \in Pending /\ p.op \in Ops
             /\ Without(c, p).state = c.state /\ p.op \in OpsOf(c.state)
             /\ Without(c, p).shuttingDown = c.shuttingDown
             /\ ~Has(Without(c, p), p.op)
             /\ PhaseOf(Without(c, p)) = PhaseOf(c) /\ BoundOf(Without(c, p)) = BoundOf(c)
  BY <1>4, RestIsPartial
<1>5. ASSUME NEW c, Partial(c), NEW op \in Ops, NEW code \in Codes, op \in OpsOf(c.state)
      PROVE  Sound(DestroyAllocation(c, op, code)) /\ Step(c, DestroyAllocation(c, op, code))
             /\ DestroyAllocation(c, op, code).state # "ready"
  BY <1>5, DestroyIsSound
<1>6. ASSUME NEW c, Sound(c), c.state = "ready", NEW op \in {"refresh", "permission", "channel"},
             NEW isDue
      PROVE  LET d == StartDue(c, op, isDue)
             IN  Sound(d) /\ d.state = "ready" /\ PhaseOf(d) = PhaseOf(c) /\ BoundOf(d) = BoundOf(c)
  <2>1. CASE isDue /\ ~Has(c, op)
    <3> DEFINE a == c.armed \ {op}
               e == [c EXCEPT !.armed = a]
               d == StartDue(c, op, isDue)
    <3>1. a \in SUBSET Deadlines /\ ("expiry" \in a <=> "expiry" \in c.armed)
      BY <1>6 DEF Sound, Partial, Typed, Core
    <3>2. d = StartOperation(e, op, 0)
      BY <2>1 DEF StartDue
    <3> HIDE DEF a
    <3>3. /\ Typed(e) /\ e.pending = c.pending /\ e.state = "ready" /\ e.channel = c.channel
          /\ e.armed = a /\ e.shuttingDown = c.shuttingDown /\ e.destroyed = c.destroyed
      BY <1>6, <3>1 DEF Sound, Partial, Typed, Core
    <3> HIDE DEF e, d
    <3>4. Partial(e)
      BY <1>6, <3>1, <3>3 DEF Sound, Partial, Fitting, Flags, Expiry
    <3>5. PhaseOf(e) = PhaseOf(c) /\ BoundOf(e) = BoundOf(c)
      BY <1>6, <3>1, <3>3 DEF PhaseOf, BoundOf
    <3>6. op \in OpsOf(e.state) /\ 0 \in 0..MaxNonceRetries
      BY <3>3, CoreAssumption DEF OpsOf, Maintenance
    <3>7. Sound(d) /\ d.state = e.state /\ PhaseOf(d) = PhaseOf(e) /\ BoundOf(d) = BoundOf(e)
      BY <3>2, <3>4, <3>6, OperationFits
    <3> QED BY <3>3, <3>5, <3>7 DEF d
  <2>2. CASE ~(isDue /\ ~Has(c, op))
    BY <1>6, <2>2 DEF StartDue
  <2> QED BY <2>1, <2>2
<1>7. ASSUME NEW c, Sound(c), NEW due
      PROVE  /\ Sound(Maintain(c, due)) /\ Step(c, Maintain(c, due))
             /\ c.state # "ready" => Maintain(c, due) = c
  <2>1. CASE c.shuttingDown \/ c.state # "ready"
    BY <1>7, <2>1 DEF Maintain, Step
  <2>2. CASE ~(c.shuttingDown \/ c.state # "ready") /\ "expiry" \in due
    <3>1. Maintain(c, due) = DestroyAllocation(c, "refresh", "failed")
      BY <2>2 DEF Maintain
    <3>2. Partial(c) /\ "refresh" \in OpsOf(c.state) /\ "refresh" \in Ops /\ "failed" \in Codes
      BY <1>7, <2>2 DEF Sound, OpsOf, Maintenance, Ops, Codes
    <3> QED BY <1>5, <2>2, <3>1, <3>2
  <2>3. CASE ~(c.shuttingDown \/ c.state # "ready") /\ "expiry" \notin due
    <3> DEFINE refresh == "refresh" \in due
               permission == due \cap {"maintenance", "permission"} # {}
               channel == due \cap {"maintenance", "channel"} # {}
               a == StartDue(c, "refresh", refresh)
               b == StartDue(a, "permission", permission)
               d == StartDue(b, "channel", channel)
    <3>1. Maintain(c, due) = d
      BY <2>3 DEF Maintain
    <3> HIDE DEF refresh, permission, channel
    <3>2. Sound(a) /\ a.state = "ready" /\ PhaseOf(a) = PhaseOf(c) /\ BoundOf(a) = BoundOf(c)
      BY <1>6, <1>7, <2>3
    <3> HIDE DEF a
    <3>3. Sound(b) /\ b.state = "ready" /\ PhaseOf(b) = PhaseOf(a) /\ BoundOf(b) = BoundOf(a)
      BY <1>6, <3>2
    <3> HIDE DEF b
    <3>4. Sound(d) /\ PhaseOf(d) = PhaseOf(b) /\ BoundOf(d) = BoundOf(b)
      BY <1>6, <3>3
    <3> HIDE DEF d
    <3> QED BY <2>3, <3>1, <3>2, <3>3, <3>4 DEF Step
  <2> QED BY <2>1, <2>2, <2>3
<1>8. CASE StartAllocation
  <2> DEFINE a == SetState(core, "allocating")
             b == [core EXCEPT !.state = "allocating"]
  <2>1. core' = StartOperation(a, "allocate", 0)
    BY <1>8 DEF StartAllocation
  <2>2. core.state = "null" /\ ~core.destroyed /\ ~core.shuttingDown /\ Typed(core)
    BY <1>8 DEF StartAllocation, Open, IsOpen, Sound, Partial
  <2>3. Typed(a) /\ Like(b, a)
    BY <2>2, StateOnly DEF States
  <2> HIDE DEF a
  <2>4. /\ a.state = "allocating" /\ a.pending = core.pending /\ a.channel = core.channel
        /\ a.armed = core.armed /\ ~a.shuttingDown /\ ~a.destroyed
    BY <2>2, <2>3 DEF Like, Typed, Core
  <2>5. core.pending = {} /\ ~core.channel /\ "expiry" \notin core.armed
    BY <2>2 DEF Sound, Partial, Fitting, Flags, Expiry, OpsOf
  <2>6. Partial(a)
    BY <2>3, <2>4, <2>5 DEF Partial, Fitting, Flags, Expiry
  <2>7. "allocate" \in OpsOf(a.state) /\ 0 \in 0..MaxNonceRetries
    BY <2>4, CoreAssumption DEF OpsOf
  <2>8. Sound(core') /\ PhaseOf(core') = PhaseOf(a) /\ BoundOf(core') = BoundOf(a)
    BY <2>1, <2>6, <2>7, OperationFits
  <2>9. PhaseOf(core) = "idle" /\ PhaseOf(a) = "asking" /\ ~BoundOf(a)
    BY <2>2, <2>4, <2>5 DEF PhaseOf, BoundOf
  <2> QED BY <2>8, <2>9 DEF Step
<1>9. ASSUME NEW op \in {"permission", "channel"}, StartRequest(op)
      PROVE  Sound(core') /\ Step(core, core')
  <2>1. core' = StartOperation(core, op, 0) /\ Partial(core)
    BY <1>9 DEF StartRequest, Sound
  <2>2. op \in OpsOf(core.state) /\ 0 \in 0..MaxNonceRetries
    BY <1>9, CoreAssumption DEF StartRequest, OpsOf, Maintenance
  <2>3. Sound(core') /\ PhaseOf(core') = PhaseOf(core) /\ BoundOf(core') = BoundOf(core)
    BY <2>1, <2>2, OperationFits
  <2> QED BY <2>3 DEF Step
<1>10. ASSUME NEW c, Partial(c), c.pending = {}, c.state = "allocating"
       PROVE  Sound(AllocateSucceeds(c)) /\ Step(c, AllocateSucceeds(c))
  <2> DEFINE a == c.armed \cup {"refresh", "expiry", "maintenance"}
             k == [c EXCEPT !.armed = a]
  <2>1. a \in SUBSET Deadlines
    BY <1>10 DEF Partial, Typed, Core, Deadlines
  <2> HIDE DEF a
  <2>2. /\ Typed(k) /\ k.state = "allocating" /\ k.pending = {} /\ k.channel = c.channel
        /\ k.shuttingDown = c.shuttingDown /\ k.destroyed = c.destroyed
    BY <1>10, <2>1 DEF Partial, Typed, Core
  <2>3. ~c.destroyed /\ ~c.channel /\ PhaseOf(c) = "asking"
    BY <1>10 DEF Partial, Flags, PhaseOf
  <2>4. ASSUME NEW s \in {"ready", "deallocating"},
               s = "ready" <=> ~c.shuttingDown
        PROVE  LET d == SetState(k, s)
               IN  /\ Partial(d) /\ d.state = s /\ d.pending = {} /\ ~BoundOf(d)
                   /\ PhaseOf(d) = IF s = "ready" THEN "held" ELSE "releasing"
    <3> DEFINE d == SetState(k, s)
               e == [k EXCEPT !.state = s]
    <3>1. Typed(d) /\ Like(e, d)
      BY <2>2, <2>4, StateOnly DEF States
    <3> HIDE DEF d
    <3>2. /\ d.state = s /\ d.pending = {} /\ ~d.channel /\ ~d.destroyed
          /\ d.shuttingDown = c.shuttingDown
      BY <2>2, <2>3, <3>1 DEF Like, Typed, Core
    <3>3. Partial(d)
      BY <2>4, <3>1, <3>2 DEF Partial, Fitting, Flags, Expiry
    <3>4. ~BoundOf(d) /\ PhaseOf(d) = IF s = "ready" THEN "held" ELSE "releasing"
      BY <3>2 DEF BoundOf, PhaseOf
    <3> QED BY <3>2, <3>3, <3>4 DEF d
  <2>5. CASE c.shuttingDown
    <3> DEFINE d == SetState(k, "deallocating")
    <3>1. AllocateSucceeds(c) = StartOperation(d, "deallocate", 0)
      BY <2>5 DEF AllocateSucceeds, a
    <3>2. Partial(d) /\ d.state = "deallocating" /\ ~BoundOf(d) /\ PhaseOf(d) = "releasing"
      BY <2>4, <2>5
    <3> HIDE DEF d
    <3>3. "deallocate" \in OpsOf(d.state) /\ 0 \in 0..MaxNonceRetries
      BY <3>2, CoreAssumption DEF OpsOf
    <3> QED BY <2>3, <3>1, <3>2, <3>3, OperationFits DEF Step
  <2>6. CASE ~c.shuttingDown
    <3> DEFINE d == SetState(k, "ready")
               e == Happens("complete", Method("allocate"), "ok")
    <3>1. AllocateSucceeds(c) = PushEvent(d, e)
      BY <2>6 DEF AllocateSucceeds, Complete, a
    <3>2. Partial(d) /\ d.state = "ready" /\ d.pending = {} /\ ~BoundOf(d) /\ PhaseOf(d) = "held"
      BY <2>4, <2>6
    <3>3. e \in Event
      BY <1>2 DEF Ops, Codes
    <3> HIDE DEF d, e
    <3>4. Sound(d)
      BY <3>2 DEF Sound, Outstanding
    <3> QED BY <1>3, <2>3, <3>1, <3>2, <3>3, <3>4 DEF Step
  <2> QED BY <2>5, <2>6
<1>11. ASSUME NEW c, Partial(c), NEW op \in OpsOf(c.state), ~Has(c, op)
       PROVE  Sound(CompleteSuccess(c, op)) /\ Step(c, CompleteSuccess(c, op))
  <2> DEFINE d == CompleteSuccess(c, op)
             reply == Happens("complete", Method(op), "ok")
  <2>1. op \in Ops /\ reply \in Event /\ Typed(c)
    BY <1>2, <1>11 DEF OpsOf, Maintenance, Ops, Codes, Partial
  <2>2. CASE op = "allocate"
    <3>1. c.state = "allocating"
      BY <1>11, <2>2 DEF OpsOf, Maintenance
    <3>2. c.pending = {}
      BY <1>11, <2>2, <3>1 DEF Partial, Fitting, OpsOf, Has
    <3>3. d = AllocateSucceeds(c)
      BY <2>2 DEF CompleteSuccess
    <3> HIDE DEF d
    <3> QED BY <1>10, <1>11, <3>1, <3>2, <3>3 DEF d
  <2>3. CASE op = "refresh"
    <3> DEFINE a == c.armed \cup {"refresh", "expiry"}
               e == [c EXCEPT !.armed = a]
    <3>1. d = PushEvent(e, reply)
      BY <2>3 DEF CompleteSuccess, Complete
    <3>2. c.state = "ready" /\ a \in SUBSET Deadlines /\ "expiry" \in a
      BY <1>11, <2>1, <2>3 DEF OpsOf, Typed, Core, Deadlines
    <3> HIDE DEF a, d, reply
    <3>3. /\ Typed(e) /\ e.state = "ready" /\ e.pending = c.pending /\ e.channel = c.channel
          /\ e.armed = a /\ e.shuttingDown = c.shuttingDown /\ e.destroyed = c.destroyed
      BY <2>1, <3>2 DEF Typed, Core
    <3> HIDE DEF e
    <3>4. Sound(e)
      BY <1>11, <3>2, <3>3 DEF Sound, Partial, Fitting, Outstanding, Flags, Expiry
    <3>5. PhaseOf(e) = PhaseOf(c) /\ BoundOf(e) = BoundOf(c)
      BY <3>2, <3>3 DEF PhaseOf, BoundOf
    <3>6. Sound(d) /\ PhaseOf(d) = PhaseOf(e) /\ BoundOf(d) = BoundOf(e)
      BY <1>3, <2>1, <3>1, <3>4 DEF Sound
    <3> QED BY <3>5, <3>6 DEF Step, d
  <2>4. CASE op = "deallocate"
    <3> DEFINE a == c.armed \ {"refresh", "expiry"}
               e == [c EXCEPT !.armed = a]
               b == PushEvent(e, reply)
               f == [b EXCEPT !.state = "deallocated"]
    <3>1. d = SetState(b, "deallocated")
      BY <2>4 DEF CompleteSuccess, Complete
    <3>2. c.state = "deallocating" /\ a \in SUBSET Deadlines /\ "expiry" \notin a
      BY <1>11, <2>1, <2>4 DEF OpsOf, Maintenance, Typed, Core
    <3>3. c.pending = {} /\ ~c.channel /\ ~c.destroyed
      BY <1>11, <2>4, <3>2 DEF Partial, Fitting, Flags, OpsOf, Has
    <3> HIDE DEF a, d, reply
    <3>4. /\ Typed(e) /\ e.pending = {} /\ ~e.channel /\ e.armed = a /\ ~e.destroyed
      BY <2>1, <3>2, <3>3 DEF Typed, Core
    <3> HIDE DEF e
    <3>5. Typed(b) /\ Like(e, b)
      BY <2>1, <3>4, EventsOnly
    <3> HIDE DEF b
    <3>6. Typed(d) /\ Like(f, d)
      BY <3>1, <3>5, StateOnly DEF States
    <3>7. d.state = "deallocated" /\ d.pending = {} /\ ~d.channel /\ d.armed = a /\ ~d.destroyed
      BY <3>4, <3>5, <3>6 DEF Like, Typed, Core
    <3>8. Sound(d)
      BY <3>2, <3>6, <3>7 DEF Sound, Partial, Fitting, Outstanding, Flags, Expiry
    <3>9. PhaseOf(d) = "over" /\ ~BoundOf(d)
      BY <3>7 DEF PhaseOf, BoundOf
    <3> QED BY <3>8, <3>9 DEF Step, d
  <2>5. CASE op = "permission"
    <3>1. d = PushEvent(c, reply)
      BY <2>5 DEF CompleteSuccess, Complete
    <3>2. Sound(c)
      BY <1>11, <2>5 DEF Sound, Outstanding, OpsOf
    <3> HIDE DEF d, reply
    <3> QED BY <1>3, <1>11, <2>1, <3>1, <3>2 DEF Step, d
  <2>6. CASE op = "channel"
    <3> DEFINE e == [c EXCEPT !.channel = TRUE, !.failures = 0]
               o == Happens("bound", "none", "ok")
               b == PushEvent(e, o)
    <3>1. d = PushEvent(b, reply)
      BY <2>6 DEF CompleteSuccess, Complete
    <3>2. c.state = "ready"
      BY <1>11, <2>6 DEF OpsOf
    <3> HIDE DEF d, reply
    <3>3. /\ Typed(e) /\ e.state = "ready" /\ e.pending = c.pending /\ e.channel = TRUE
          /\ e.armed = c.armed /\ e.shuttingDown = c.shuttingDown /\ e.destroyed = c.destroyed
      <4>1. 0 \in 0..MaxChannelFailures
        BY CoreAssumption
      <4> QED BY <2>1, <3>2, <4>1 DEF Typed, Core
    <3>4. o \in Event
      BY DEF Happens, Event, Codes
    <3> HIDE DEF e, o
    <3>5. Sound(e) /\ ~c.destroyed
      BY <1>11, <3>2, <3>3 DEF Sound, Partial, Fitting, Outstanding, Flags, Expiry
    <3>6. PhaseOf(c) = "held" /\ PhaseOf(e) = "held" /\ BoundOf(e)
      BY <3>2, <3>3, <3>5 DEF PhaseOf, BoundOf
    <3>7. Sound(b) /\ PhaseOf(b) = PhaseOf(e) /\ BoundOf(b) = BoundOf(e)
      BY <1>3, <3>4, <3>5 DEF Sound
    <3> HIDE DEF b
    <3>8. Sound(d) /\ PhaseOf(d) = PhaseOf(b) /\ BoundOf(d) = BoundOf(b)
      BY <1>3, <2>1, <3>1, <3>7 DEF Sound
    <3> QED BY <3>6, <3>7, <3>8 DEF Step, d
  <2> QED BY <2>1, <2>2, <2>3, <2>4, <2>5, <2>6 DEF Ops
<1>12. ASSUME NEW p, NEW answer \in Answers, NEW expired \in BOOLEAN, InputStun(p, answer, expired)
       PROVE  Sound(core') /\ Step(core, core')
  <2> DEFINE rest == Without(core, p)
             refusal == Happens("error", Method(p.op), "failed")
             gone == Happens("error", Method(p.op), "mismatch")
  <2>1. core' = Answered(core, p, answer, expired) /\ p \in core.pending
    BY <1>12 DEF InputStun
  <2>2. /\ Partial(rest) /\ p \in Pending /\ p.op \in Ops /\ p.op \in OpsOf(rest.state)
        /\ ~Has(rest, p.op) /\ PhaseOf(rest) = PhaseOf(core) /\ BoundOf(rest) = BoundOf(core)
    BY <1>4, <2>1
  <2>3. refusal \in Event /\ gone \in Event /\ "failed" \in Codes /\ "mismatch" \in Codes
    BY <1>2, <2>2 DEF Codes
  <2>4. CASE answer \in {"unverified", "unverifiedGone"}
    <3>1. core' = core \/ core' = PushEvent(core, gone)
      BY <2>1, <2>4 DEF Answered, Unverified, Authenticated, Recreates, Answers
    <3> HIDE DEF gone
    <3> QED BY <1>3, <2>3, <3>1 DEF Sound, Step
  <2>5. CASE (answer = "success" /\ ~Authenticated(p)) \/ answer = "malformed"
    <3>1. core' = CompleteFailure(rest, p.op, "failed", expired)
      BY <2>1, <2>5 DEF Answered, Authenticated, Recreates, Answers
    <3> HIDE DEF rest
    <3> QED BY <2>2, <2>3, <3>1, FailureIsSound DEF Step
  <2>6. CASE answer = "success" /\ Authenticated(p)
    <3>1. core' = CompleteSuccess(rest, p.op)
      BY <2>1, <2>6 DEF Answered, Authenticated, Recreates, Answers
    <3> HIDE DEF rest
    <3> QED BY <1>11, <2>2, <3>1 DEF Step
  <2>7. CASE answer \notin {"unverified", "unverifiedGone", "success", "malformed"}
             /\ Recreates(p, answer)
    <3> DEFINE b == PushEvent(rest, gone)
    <3>1. core' = DestroyAllocation(b, p.op, "mismatch")
      BY <2>1, <2>7 DEF Answered, Authenticated, Recreates, Answers
    <3> HIDE DEF rest, gone
    <3>2. /\ Partial(b) /\ b.state = rest.state
          /\ PhaseOf(b) = PhaseOf(rest) /\ BoundOf(b) = BoundOf(rest)
      BY <1>3, <2>2, <2>3
    <3> HIDE DEF b
    <3> QED BY <1>5, <2>2, <2>3, <3>1, <3>2 DEF Step
  <2>8. CASE answer = "challenge" /\ p.retries < MaxNonceRetries
    <3>1. core' = StartOperation(rest, p.op, p.retries + 1)
      BY <2>1, <2>8 DEF Answered, Authenticated, Recreates, Answers
    <3>2. p.retries + 1 \in 0..MaxNonceRetries
      BY <2>2, <2>8, CoreAssumption DEF Pending
    <3> HIDE DEF rest
    <3> QED BY <2>2, <3>1, <3>2, OperationFits DEF Step
  <2>9. CASE /\ answer \notin {"unverified", "unverifiedGone", "success", "malformed"}
             /\ ~Recreates(p, answer)
             /\ ~(answer = "challenge" /\ p.retries < MaxNonceRetries)
    <3> DEFINE b == PushEvent(rest, refusal)
    <3>1. core' = CompleteFailure(b, p.op, "failed", expired)
      BY <2>1, <2>9 DEF Answered, Refused, Authenticated, Recreates, Answers
    <3> HIDE DEF rest, refusal
    <3>2. /\ Partial(b) /\ b.state = rest.state /\ ~Has(b, p.op)
          /\ PhaseOf(b) = PhaseOf(rest) /\ BoundOf(b) = BoundOf(rest)
      BY <1>3, <2>2, <2>3
    <3> HIDE DEF b
    <3> QED BY <2>2, <2>3, <3>1, <3>2, FailureIsSound DEF Step
  <2> QED BY <2>4, <2>5, <2>6, <2>7, <2>8, <2>9
<1>13. ASSUME NEW p, NEW due, NEW expired \in BOOLEAN, PollExpires(p, due, expired)
       PROVE  Sound(core') /\ Step(core, core')
  <2> DEFINE d == Expired(core, p, expired)
             rest == Without(core, p)
  <2>1. p \in core.pending /\ core' = Maintain(d, due \cap d.armed)
    BY <1>13 DEF PollExpires
  <2>2. /\ Partial(rest) /\ p \in Pending /\ p.op \in Ops /\ p.op \in OpsOf(rest.state)
        /\ rest.state = core.state
        /\ ~Has(rest, p.op) /\ PhaseOf(rest) = PhaseOf(core) /\ BoundOf(rest) = BoundOf(core)
    BY <1>4, <2>1
  <2>3. /\ Sound(d) /\ Step(core, d)
        /\ d.state = "ready" => PhaseOf(d) = PhaseOf(core) /\ BoundOf(d) = BoundOf(core)
    <3>1. CASE p.sent >= MaxTransmissions \/ Stream
      <4>1. d = CompleteFailure(rest, p.op, "failed", expired)
        BY <3>1 DEF Expired
      <4> HIDE DEF d, rest
      <4> QED BY <2>2, <4>1, FailureIsSound DEF Step, Codes
    <3>2. CASE ~(p.sent >= MaxTransmissions \/ Stream)
      <4> DEFINE q == [p EXCEPT !.sent = @ + 1]
                 a == (core.pending \ {p}) \cup {q}
                 b == core.controls \cup {p.op}
      <4>1. q \in Pending /\ q.op = p.op
        BY <2>2, <3>2, CoreAssumption DEF Pending
      <4>2. a \in SUBSET Pending /\ b \in SUBSET Ops
        BY <2>2, <4>1 DEF Sound, Partial, Typed, Core
      <4>3. d = [core EXCEPT !.controls = b, !.pending = a]
        BY <3>2 DEF Expired
      <4>4. /\ \A r \in a : r = q \/ (r \in core.pending /\ r # p)
            /\ \A r \in core.pending : r = p \/ r \in a
            /\ q \in a
        OBVIOUS
      <4> HIDE DEF a, b, d, q
      <4>5. /\ Typed(d) /\ d.pending = a /\ d.state = core.state /\ d.channel = core.channel
            /\ d.armed = core.armed /\ d.shuttingDown = core.shuttingDown
            /\ d.destroyed = core.destroyed
        BY <4>2, <4>3 DEF Sound, Partial, Typed, Core
      <4>6. Fitting(d)
        BY <2>1, <4>1, <4>4, <4>5 DEF Sound, Partial, Fitting
      <4>7. Partial(d)
        BY <4>5, <4>6 DEF Sound, Partial, Flags, Expiry
      <4>8. \A op : Has(core, op) => Has(d, op)
        BY <4>1, <4>4, <4>5 DEF Has
      <4>9. Sound(d)
        BY <4>5, <4>7, <4>8 DEF Sound, Outstanding
      <4>10. PhaseOf(d) = PhaseOf(core) /\ BoundOf(d) = BoundOf(core)
        BY <4>5 DEF PhaseOf, BoundOf
      <4> QED BY <4>9, <4>10 DEF Step, d
    <3> QED BY <3>1, <3>2
  <2> HIDE DEF d
  <2> QED BY <1>7, <2>1, <2>3 DEF Step
<1>14. ASSUME NEW due, PollMaintains(due)
       PROVE  Sound(core') /\ Step(core, core')
  BY <1>7, <1>14 DEF PollMaintains
<1>15. CASE ResyncAfterSuspend
  BY <1>15, ResyncIsSound DEF ResyncAfterSuspend
<1>16. ASSUME NEW op \in Ops, PullControl(op)
       PROVE  Sound(core') /\ Step(core, core')
  <2> DEFINE b == core.controls \ {op}
  <2>1. b \in SUBSET Ops /\ core' = [core EXCEPT !.controls = b]
    BY <1>16 DEF PullControl, Sound, Partial, Typed, Core
  <2> HIDE DEF b
  <2>2. /\ Typed(core') /\ core'.state = core.state /\ core'.pending = core.pending
        /\ core'.channel = core.channel /\ core'.armed = core.armed
        /\ core'.shuttingDown = core.shuttingDown /\ core'.destroyed = core.destroyed
    BY <2>1 DEF Sound, Partial, Typed, Core
  <2>3. Sound(core')
    BY <2>2 DEF Sound, Partial, Fitting, Outstanding, Flags, Expiry, Has
  <2>4. PhaseOf(core') = PhaseOf(core) /\ BoundOf(core') = BoundOf(core)
    BY <2>2 DEF PhaseOf, BoundOf
  <2> QED BY <2>3, <2>4 DEF Step
<1>17. CASE PullEvent
  <2> DEFINE b == Tail(core.events)
  <2>1. core' = [core EXCEPT !.events = b] /\ core.events # <<>>
    BY <1>17 DEF PullEvent
  <2>2. core.events \in Seq(Event) /\ Len(core.events) \in Nat /\ Len(core.events) <= EventCapacity
    BY DEF Sound, Partial, Typed, Core
  <2>3. b \in Seq(Event) /\ Len(b) = Len(core.events) - 1
    BY <2>1, <2>2
  <2>4. Len(b) <= EventCapacity
    BY <2>2, <2>3, CoreAssumption
  <2> HIDE DEF b
  <2>5. Typed(core') /\ Like(core, core')
    BY <2>1, <2>3, <2>4 DEF Sound, Partial, Typed, Core, Like
  <2> QED BY <1>1, <2>5 DEF Sound, Step
<1>18. CASE GracefulShutdown
  BY <1>18, GracefulIsSound DEF GracefulShutdown
<1>19. CASE ForceDestroy
  BY <1>19, ForcedIsSound DEF ForceDestroy
<1>20. CASE UNCHANGED core
  BY <1>20 DEF Step
<1> QED
  BY <1>8, <1>9, <1>12, <1>13, <1>14, <1>15, <1>16, <1>17, <1>18, <1>19, <1>20 DEF CoreNext

------------------------------------------------------------------------------
(* Theorems *)

\* The core keeps its invariant whatever its callers and the server do.
THEOREM CoreIsSound == CoreSpec => []Sound(core)
<1>1. CoreInit => Sound(core)
  <2>1. ASSUME CoreInit PROVE Typed(core)
    BY <2>1, CoreAssumption DEF CoreInit, Created, Typed, Core, States
  <2>2. ASSUME CoreInit PROVE Fitting(core) /\ Flags(core) /\ Expiry(core) /\ Outstanding(core)
    BY <2>2 DEF CoreInit, Created, Fitting, Flags, Expiry, Outstanding
  <2> QED BY <2>1, <2>2 DEF Sound, Partial
<1>2. Sound(core) /\ [CoreNext]_core => Sound(core)'
  BY MethodIsSound
<1> QED BY <1>1, <1>2, PTL DEF CoreSpec

\* The core promises what TurnPhase says: an allocation is asked for once, given back at most
\* once, never used after its end and has a channel only while it is held (turn_core.rs, all of
\* NativeCore's methods).
THEOREM CoreImplementsPhase == CoreSpec => ImplementsPhase
<1>1. CoreInit => Phase!Init
  BY DEF CoreInit, Created, Phase!Init, PhaseOf
<1>2. Sound(core) /\ [CoreNext]_core => [Phase!Next]_Phase!phaseVars
  <2> SUFFICES ASSUME Sound(core), [CoreNext]_core
               PROVE  [Phase!Next]_Phase!phaseVars
    OBVIOUS
  <2>1. Step(core, core')
    BY MethodIsSound
  <2>2. PhaseOf(core) \in Phase!Phases
    BY DEF Sound, Partial, Typed, Core, States, PhaseOf, Phase!Phases
  <2> QED BY <2>1, <2>2 DEF Step, BoundOf, Phase!Next, Phase!phaseVars, Phase!Moves,
             Phase!Ask, Phase!Grant, Phase!Bind, Phase!Lose, Phase!Release, Phase!End, Phase!Phases
<1> QED BY <1>1, <1>2, CoreIsSound, PTL DEF CoreSpec, ImplementsPhase, Phase!Spec

\* No state of the core waits for an answer to a transaction that is gone, no two transactions
\* of one method are outstanding together, and a channel needs a READY allocation (input_stun,
\* start_operation, shutdown).
THEOREM TransactionsDoNotVanish ==
  CoreSpec => [](TransientsArePending /\ OnePerOperation /\ ChannelIsReady)
<1>1. Sound(core) => TransientsArePending
  BY DEF Sound, Outstanding, TransientsArePending
<1>2. Sound(core) => OnePerOperation
  BY DEF Sound, Partial, Fitting, OpsOf, Maintenance, OnePerOperation, Has
<1>3. Sound(core) => ChannelIsReady
  BY DEF Sound, Partial, Flags, ChannelIsReady
<1> QED BY <1>1, <1>2, <1>3, CoreIsSound, PTL

\* An allocation the server is known to hold is being given back once the core has been shut
\* down, whatever was under way: an Allocate, a refresh or a channel that gave out.
THEOREM KnownAllocationIsReleased == CoreSpec => []KnownIsReleased
<1>1. Sound(core) => KnownIsReleased
  BY DEF Sound, Partial, Outstanding, Expiry, KnownIsReleased
<1> QED BY <1>1, CoreIsSound, PTL

------------------------------------------------------------------------------
(* What the events tell *)

Shows(e) == e.kind = "state"
Binds(e) == e.kind = "bound"
Names(e) == e.code = "mismatch"

\* What is reported, but not as a mismatch.
Fails(e) ==
  \/ e.kind = "complete" /\ e.code = "failed" /\ e.what \notin Maintenance
  \/ e.kind \in {"forced", "overflow"}

\* Who has read the state r and takes the events ev has the state s.
Told(ev, r, s) ==
  \/ \E i \in DOMAIN ev : /\ Shows(ev[i]) /\ ev[i].what = s
                          /\ \A j \in DOMAIN ev : j > i => ~Shows(ev[j])
  \/ s = r /\ \A j \in DOMAIN ev : ~Shows(ev[j])

\* Who takes the events ev offers no channel; b says whether he offers one now.
Withdrawn(ev, b) ==
  \/ \E i \in DOMAIN ev : /\ Shows(ev[i]) /\ ev[i].what # "ready"
                          /\ \A j \in DOMAIN ev : j > i => ~Binds(ev[j])
  \/ ~b /\ \A j \in DOMAIN ev : ~Binds(ev[j])

\* Nothing is reported ahead of a mismatch, and a core that has failed names none.
Named(ev, s) ==
  /\ \A i \in DOMAIN ev : Names(ev[i]) => ev[i].kind \in {"complete", "error"}
  /\ \A i, j \in DOMAIN ev : Names(ev[i]) /\ j < i => ~Fails(ev[j])
  /\ \A i \in DOMAIN ev : Fails(ev[i]) => s = "destroying"

Released(ev) == \E i \in DOMAIN ev : Shows(ev[i]) /\ ev[i].what = "deallocated"

\* The events of c are all that has become of the core since its state r was read, and
\* whether it had a channel, b.
Good(c, r, b) ==
  /\ Told(c.events, r, c.state)
  /\ ~c.shuttingDown => c.channel \/ Withdrawn(c.events, b)
  /\ ~c.shuttingDown => Named(c.events, c.state)
  /\ Released(c.events) => c.shuttingDown

Kept(c, d) == d.shuttingDown = c.shuttingDown /\ d.destroyed = c.destroyed

\* From c to d at most k events were added, they tell what was done, and nothing was shut down.
Grown(c, d, k) ==
  /\ Kept(c, d)
  /\ Len(d.events) <= Len(c.events) + k
  /\ \A r \in States, b \in BOOLEAN : Good(c, r, b) => Good(d, r, b)

Space(c, k) == Len(c.events) + k <= EventCapacity

\* The elements of a sequence that has one more.
LEMMA OneMore ==
  ASSUME NEW ev \in Seq(Event), NEW e \in Event
  PROVE  /\ Append(ev, e) \in Seq(Event) /\ Len(Append(ev, e)) = Len(ev) + 1
         /\ DOMAIN ev = 1..Len(ev) /\ Len(ev) \in Nat
         /\ DOMAIN Append(ev, e) = 1..(Len(ev) + 1)
         /\ \A i \in DOMAIN ev : i \in DOMAIN Append(ev, e) /\ i < Len(ev) + 1
         /\ \A i \in DOMAIN ev : Append(ev, e)[i] = ev[i]
         /\ \A i \in DOMAIN Append(ev, e) : i \in DOMAIN ev \/ i = Len(ev) + 1
         /\ Append(ev, e)[Len(ev) + 1] = e
         /\ Len(ev) + 1 \in DOMAIN Append(ev, e)
  OBVIOUS

\* How one more event changes what is told.
LEMMA ToldMore ==
  ASSUME NEW ev \in Seq(Event), NEW e \in Event, NEW r, NEW s
  PROVE  /\ Shows(e) /\ e.what = s => Told(Append(ev, e), r, s)
         /\ ~Shows(e) /\ Told(ev, r, s) => Told(Append(ev, e), r, s)
<1> DEFINE w == Append(ev, e)
<1>1. /\ DOMAIN ev = 1..Len(ev) /\ Len(ev) \in Nat
      /\ DOMAIN w = 1..(Len(ev) + 1)
      /\ \A i \in DOMAIN ev : i \in DOMAIN w /\ w[i] = ev[i] /\ i < Len(ev) + 1
      /\ \A i \in DOMAIN w : i \in DOMAIN ev \/ i = Len(ev) + 1
      /\ w[Len(ev) + 1] = e /\ Len(ev) + 1 \in DOMAIN w
  BY OneMore
<1> HIDE DEF w
<1>2. ASSUME Shows(e), e.what = s PROVE Told(w, r, s)
  <2>1. \A j \in DOMAIN w : ~(j > Len(ev) + 1)
    BY <1>1
  <2> QED BY <1>1, <1>2, <2>1 DEF Told
<1>3. ASSUME ~Shows(e), Told(ev, r, s) PROVE Told(w, r, s)
  <2>1. CASE s = r /\ \A j \in DOMAIN ev : ~Shows(ev[j])
    <3>1. \A j \in DOMAIN w : ~Shows(w[j])
      BY <1>1, <1>3, <2>1
    <3> QED BY <2>1, <3>1 DEF Told
  <2>2. CASE \E i \in DOMAIN ev : /\ Shows(ev[i]) /\ ev[i].what = s
                                 /\ \A j \in DOMAIN ev : j > i => ~Shows(ev[j])
    <3>1. PICK i \in DOMAIN ev : /\ Shows(ev[i]) /\ ev[i].what = s
                                 /\ \A j \in DOMAIN ev : j > i => ~Shows(ev[j])
      BY <2>2
    <3>2. \A j \in DOMAIN w : j > i => ~Shows(w[j])
      BY <1>1, <1>3, <3>1
    <3>3. i \in DOMAIN w /\ w[i] = ev[i]
      BY <1>1
    <3> QED BY <3>1, <3>2, <3>3 DEF Told
  <2> QED BY <1>3, <2>1, <2>2 DEF Told
<1> QED BY <1>2, <1>3 DEF w

\* How one more event changes whether a channel is offered.
LEMMA WithdrawnMore ==
  ASSUME NEW ev \in Seq(Event), NEW e \in Event, NEW b
  PROVE  /\ Shows(e) /\ e.what # "ready" => Withdrawn(Append(ev, e), b)
         /\ ~Binds(e) /\ Withdrawn(ev, b) => Withdrawn(Append(ev, e), b)
<1> DEFINE w == Append(ev, e)
<1>1. /\ DOMAIN ev = 1..Len(ev) /\ Len(ev) \in Nat
      /\ DOMAIN w = 1..(Len(ev) + 1)
      /\ \A i \in DOMAIN ev : i \in DOMAIN w /\ w[i] = ev[i] /\ i < Len(ev) + 1
      /\ \A i \in DOMAIN w : i \in DOMAIN ev \/ i = Len(ev) + 1
      /\ w[Len(ev) + 1] = e /\ Len(ev) + 1 \in DOMAIN w
  BY OneMore
<1> HIDE DEF w
<1>2. ASSUME Shows(e), e.what # "ready" PROVE Withdrawn(w, b)
  <2>1. \A j \in DOMAIN w : ~(j > Len(ev) + 1)
    BY <1>1
  <2> QED BY <1>1, <1>2, <2>1 DEF Withdrawn
<1>3. ASSUME ~Binds(e), Withdrawn(ev, b) PROVE Withdrawn(w, b)
  <2>1. CASE ~b /\ \A j \in DOMAIN ev : ~Binds(ev[j])
    <3>1. \A j \in DOMAIN w : ~Binds(w[j])
      BY <1>1, <1>3, <2>1
    <3> QED BY <2>1, <3>1 DEF Withdrawn
  <2>2. CASE \E i \in DOMAIN ev : /\ Shows(ev[i]) /\ ev[i].what # "ready"
                                 /\ \A j \in DOMAIN ev : j > i => ~Binds(ev[j])
    <3>1. PICK i \in DOMAIN ev : /\ Shows(ev[i]) /\ ev[i].what # "ready"
                                 /\ \A j \in DOMAIN ev : j > i => ~Binds(ev[j])
      BY <2>2
    <3>2. \A j \in DOMAIN w : j > i => ~Binds(w[j])
      BY <1>1, <1>3, <3>1
    <3>3. i \in DOMAIN w /\ w[i] = ev[i]
      BY <1>1
    <3> QED BY <3>1, <3>2, <3>3 DEF Withdrawn
  <2> QED BY <1>3, <2>1, <2>2 DEF Withdrawn
<1> QED BY <1>2, <1>3 DEF w

\* One more event is not a mismatch that comes too late.
LEMMA NamedMore ==
  ASSUME NEW ev \in Seq(Event), NEW e \in Event, NEW s, NEW t, Named(ev, s),
         Names(e) => e.kind \in {"complete", "error"} /\ s # "destroying",
         Fails(e) => t = "destroying",
         s = "destroying" => t = "destroying"
  PROVE  Named(Append(ev, e), t)
<1> DEFINE w == Append(ev, e)
<1>1. /\ DOMAIN ev = 1..Len(ev) /\ Len(ev) \in Nat
      /\ DOMAIN w = 1..(Len(ev) + 1)
      /\ \A i \in DOMAIN ev : i \in DOMAIN w /\ w[i] = ev[i] /\ i < Len(ev) + 1
      /\ \A i \in DOMAIN w : i \in DOMAIN ev \/ i = Len(ev) + 1
      /\ w[Len(ev) + 1] = e /\ Len(ev) + 1 \in DOMAIN w
  BY OneMore
<1> HIDE DEF w
<1>2. \A i \in DOMAIN w : Names(w[i]) => w[i].kind \in {"complete", "error"}
  BY <1>1 DEF Named
<1>3. ASSUME NEW i \in DOMAIN w, NEW j \in DOMAIN w, Names(w[i]), j < i
      PROVE  ~Fails(w[j])
  <2>1. j \in DOMAIN ev
    BY <1>1, <1>3
  <2>2. CASE i \in DOMAIN ev
    BY <1>1, <1>3, <2>1, <2>2 DEF Named
  <2>3. CASE i = Len(ev) + 1
    BY <1>1, <1>3, <2>1, <2>3 DEF Named
  <2> QED BY <1>1, <2>2, <2>3
<1>4. \A i \in DOMAIN w : Fails(w[i]) => t = "destroying"
  BY <1>1 DEF Named
<1> QED BY <1>2, <1>3, <1>4 DEF Named, w

\* One more event tells of a release only if it is one.
LEMMA ReleasedMore ==
  ASSUME NEW ev \in Seq(Event), NEW e \in Event, Released(Append(ev, e))
  PROVE  Released(ev) \/ (Shows(e) /\ e.what = "deallocated")
<1> DEFINE w == Append(ev, e)
<1>1. /\ \A i \in DOMAIN ev : w[i] = ev[i]
      /\ \A i \in DOMAIN w : i \in DOMAIN ev \/ i = Len(ev) + 1
      /\ w[Len(ev) + 1] = e
  BY OneMore
<1> HIDE DEF w
<1> QED BY <1>1 DEF Released, w

\* What the two ways to add an event add.
LEMMA EventIsAdded ==
  ASSUME NEW c, Typed(c), Space(c, 1), NEW e \in Event
  PROVE  PushEvent(c, e).events = Append(c.events, e)
<1>1. c \in Core /\ Len(c.events) \in Nat /\ Len(c.events) # EventCapacity
  BY CoreAssumption DEF Typed, Core, Space
<1> QED BY <1>1 DEF PushEvent, Core

\* set_state reports the state it moves to.
LEMMA StateIsAdded ==
  ASSUME NEW c, Typed(c), Space(c, 1), NEW s \in States, s # c.state
  PROVE  SetState(c, s).events = Append(c.events, Happens("state", s, "ok"))
<1>1. c \in Core /\ Len(c.events) \in Nat /\ Len(c.events) # EventCapacity
  BY CoreAssumption DEF Typed, Core, Space
<1> QED BY <1>1 DEF SetState, PushEvent, Core

\* Nothing to tell: the events and the state are as before, and no channel is withdrawn.
LEMMA Unmoved ==
  ASSUME NEW c, Typed(c), NEW d, d.events = c.events, d.state = c.state, Kept(c, d),
         c.channel => d.channel
  PROVE  Grown(c, d, 0)
<1>1. Len(d.events) <= Len(c.events) + 0
  BY DEF Typed, Core
<1>2. ASSUME NEW r \in States, NEW b \in BOOLEAN, Good(c, r, b) PROVE Good(d, r, b)
  BY <1>2, Zenon DEF Good, Kept
<1> QED BY <1>1, <1>2, Zenon DEF Grown

\* An event that is not about the state.
LEMMA Reported ==
  ASSUME NEW c, Typed(c), Space(c, 1), NEW e \in Event, ~Shows(e),
         Binds(e) => c.channel,
         Names(e) => e.kind \in {"complete", "error"} /\ c.state # "destroying",
         ~Fails(e)
  PROVE  Grown(c, PushEvent(c, e), 1)
<1> DEFINE d == PushEvent(c, e)
<1>1. c.events \in Seq(Event)
  BY DEF Typed, Core
<1>2. d.events = Append(c.events, e)
  BY EventIsAdded
<1>3. d.state = c.state /\ d.channel = c.channel /\ d.shuttingDown = c.shuttingDown
      /\ Kept(c, d)
  BY EventsOnly DEF Like, Kept
<1> HIDE DEF d
<1>4. Len(d.events) <= Len(c.events) + 1
  BY <1>1, <1>2, OneMore
<1>5. ASSUME NEW r \in States, NEW b \in BOOLEAN, Good(c, r, b) PROVE Good(d, r, b)
  <2>1. Told(d.events, r, d.state)
    BY <1>1, <1>2, <1>3, <1>5, ToldMore DEF Good
  <2>2. ~d.shuttingDown => d.channel \/ Withdrawn(d.events, b)
    BY <1>1, <1>2, <1>3, <1>5, WithdrawnMore DEF Good
  <2>3. ~d.shuttingDown => Named(d.events, d.state)
    BY <1>1, <1>2, <1>3, <1>5, NamedMore DEF Good
  <2>4. Released(d.events) => d.shuttingDown
    BY <1>1, <1>2, <1>3, <1>5, ReleasedMore DEF Good
  <2> QED BY <2>1, <2>2, <2>3, <2>4 DEF Good
<1> QED BY <1>3, <1>4, <1>5, Zenon DEF Grown, d

\* A new state: what is bound stays so only in READY.
LEMMA Changed ==
  ASSUME NEW c, Typed(c), Space(c, 1), NEW s \in States, s # c.state,
         c.state = "destroying" => c.shuttingDown,
         s = "deallocated" => c.shuttingDown
  PROVE  Grown(c, SetState(c, s), 1)
<1> DEFINE e == Happens("state", s, "ok")
           a == [c EXCEPT !.state = s]
           d == SetState(c, s)
<1>1. c \in Core /\ c.events \in Seq(Event)
  BY DEF Typed, Core
<1>2. /\ e \in Event /\ Shows(e) /\ e.what = s /\ ~Binds(e) /\ ~Names(e) /\ ~Fails(e)
  BY DEF Happens, Event, Codes, Shows, Binds, Names, Fails
<1>3. d.events = Append(c.events, e)
  BY StateIsAdded
<1>4. d.state = s /\ d.channel = c.channel /\ d.shuttingDown = c.shuttingDown
      /\ Kept(c, d)
  BY <1>1, StateOnly DEF Like, Core, Kept
<1> HIDE DEF d, e
<1>5. Len(d.events) <= Len(c.events) + 1
  BY <1>1, <1>2, <1>3, OneMore
<1>6. ASSUME NEW r \in States, NEW b \in BOOLEAN, Good(c, r, b) PROVE Good(d, r, b)
  <2>1. Told(d.events, r, d.state)
    BY <1>1, <1>2, <1>3, <1>4, ToldMore
  <2>2. ~d.shuttingDown => d.channel \/ Withdrawn(d.events, b)
    BY <1>1, <1>2, <1>3, <1>4, <1>6, WithdrawnMore DEF Good
  <2>3. ~d.shuttingDown => Named(d.events, d.state)
    BY <1>1, <1>2, <1>3, <1>4, <1>6, NamedMore DEF Good
  <2>4. Released(d.events) => d.shuttingDown
    BY <1>1, <1>2, <1>3, <1>4, <1>6, ReleasedMore DEF Good
  <2> QED BY <2>1, <2>2, <2>3, <2>4 DEF Good
<1> QED BY <1>4, <1>5, <1>6, Zenon DEF Grown, d

\* The end of an allocation: an event that says why, and then the new state.
LEMMA EndIsTold ==
  ASSUME NEW c, Typed(c), Space(c, 2), NEW e \in Event, ~Shows(e), ~Binds(e),
         Names(e) => e.kind = "complete",
         c.state # "destroying",
         NEW s \in {"destroying", "deallocated"}, s = "deallocated" => c.shuttingDown,
         NEW d, d.events = Append(Append(c.events, e), Happens("state", s, "ok")),
         d.state = s, Kept(c, d)
  PROVE  Grown(c, d, 2)
<1> DEFINE f == Happens("state", s, "ok")
           w == Append(c.events, e)
<1>1. c.events \in Seq(Event) /\ Len(c.events) \in Nat /\ d.shuttingDown = c.shuttingDown
  BY DEF Typed, Core, Kept
<1>2. /\ f \in Event /\ Shows(f) /\ f.what = s /\ ~Binds(f) /\ ~Names(f) /\ ~Fails(f)
  BY DEF Happens, Event, States, Codes, Shows, Binds, Names, Fails
<1>3. w \in Seq(Event) /\ Len(w) = Len(c.events) + 1
  BY <1>1, OneMore
<1>4. d.events = Append(w, f)
  OBVIOUS
<1> HIDE DEF f
<1>5. Len(d.events) <= Len(c.events) + 2
  BY <1>1, <1>2, <1>3, <1>4, OneMore
<1>6. ASSUME NEW r \in States, NEW b \in BOOLEAN, Good(c, r, b) PROVE Good(d, r, b)
  <2>0. Released(w) => Released(c.events)
    BY <1>1, Zenon, ReleasedMore
  <2>1. ASSUME ~c.shuttingDown PROVE Named(w, "destroying")
    <3>1. Named(c.events, c.state)
      BY <1>6, <2>1 DEF Good
    <3>2. Names(e) => e.kind \in {"complete", "error"} /\ c.state # "destroying"
      OBVIOUS
    <3>3. c.state = "destroying" => "destroying" = "destroying"
      OBVIOUS
    <3>4. Fails(e) => "destroying" = "destroying"
      OBVIOUS
    <3> HIDE DEF Names, Fails
    <3> QED BY <1>1, <3>1, <3>2, <3>3, <3>4, NamedMore
  <2> HIDE DEF w
  <2>2. Told(d.events, r, d.state)
    BY <1>2, <1>3, <1>4, ToldMore
  <2>3. Withdrawn(d.events, b)
    <3>1. f.what # "ready"
      BY <1>2
    <3>2. Withdrawn(Append(w, f), b)
      BY <1>2, <1>3, <3>1, Zenon, WithdrawnMore
    <3> QED BY <1>4, <3>2, Zenon
  <2>4. ASSUME ~d.shuttingDown PROVE Named(d.events, d.state)
    <3>1. d.state = "destroying" /\ Named(w, "destroying")
      BY <1>1, <2>1, <2>4
    <3>2. Named(Append(w, f), "destroying")
      BY <1>2, <1>3, <3>1, Zenon, NamedMore
    <3> QED BY <1>4, <3>1, <3>2, Zenon
  <2>5. ASSUME Released(d.events) PROVE d.shuttingDown
    <3>0. Released(Append(w, f))
      BY <1>4, <2>5, Zenon
    <3>1. Released(w) \/ (Shows(f) /\ f.what = "deallocated")
      BY <1>2, <1>3, <3>0, Zenon, ReleasedMore
    <3>2. c.shuttingDown
      BY <1>2, <1>6, <2>0, <3>1 DEF Good
    <3> QED BY <1>1, <3>2
  <2> QED BY <2>2, <2>3, <2>4, <2>5 DEF Good
<1> QED BY <1>5, <1>6, Zenon DEF Grown

\* What two steps in a row add.
LEMMA GrownTwice ==
  ASSUME NEW c, Typed(c), NEW d, Typed(d), NEW e, Typed(e),
         NEW k \in Nat, NEW m \in Nat, NEW n \in Nat, k + m <= n,
         Grown(c, d, k), Grown(d, e, m)
  PROVE  Grown(c, e, n)
<1>1. Len(c.events) \in Nat /\ Len(d.events) \in Nat /\ Len(e.events) \in Nat
  BY DEF Typed, Core
<1>2. Len(d.events) <= Len(c.events) + k /\ Len(e.events) <= Len(d.events) + m
  BY Zenon DEF Grown
<1>3. Len(e.events) <= Len(c.events) + n
  <2>1. \A x, y, z \in Nat : y <= x + k /\ z <= y + m => z <= x + n
    OBVIOUS
  <2> QED BY <1>1, <1>2, <2>1, Zenon
<1>4. \A r \in States, b \in BOOLEAN : Good(c, r, b) => Good(e, r, b)
  BY Zenon DEF Grown
<1>5. Kept(c, e)
  BY Zenon DEF Grown, Kept
<1> QED BY <1>3, <1>4, <1>5, Zenon DEF Grown

\* What adds at most k events adds at most n.
LEMMA GrownLess ==
  ASSUME NEW c, Typed(c), NEW d, Typed(d), NEW k \in Nat, NEW n \in Nat, k <= n,
         Grown(c, d, k)
  PROVE  Grown(c, d, n)
<1>1. Grown(d, d, 0)
  BY Unmoved DEF Kept
<1>2. k + 0 <= n /\ 0 \in Nat
  OBVIOUS
<1> QED BY <1>1, <1>2, Zenon, GrownTwice

\* The space that is left after a step.
LEMMA SpaceLeft ==
  ASSUME NEW c, Typed(c), NEW d, Typed(d), NEW k \in Nat, NEW m \in Nat, NEW n \in Nat,
         k + m <= n, Space(c, n), Grown(c, d, k)
  PROVE  Space(d, m)
<1>1. Len(c.events) \in Nat /\ Len(d.events) \in Nat /\ EventCapacity \in Nat
  BY CoreAssumption DEF Typed, Core
<1>2. Len(d.events) <= Len(c.events) + k /\ Len(c.events) + n <= EventCapacity
  BY Zenon DEF Grown, Space
<1>3. \A x, y, z \in Nat : y <= x + k /\ x + n <= z => y + m <= z
  OBVIOUS
<1>4. Len(d.events) + m <= EventCapacity
  BY <1>1, <1>2, <1>3, Zenon
<1> QED BY <1>4 DEF Space

------------------------------------------------------------------------------
(* What each step of a method tells *)

\* Starting a transaction tells nothing.
LEMMA StartIsUntold ==
  ASSUME NEW c, Typed(c), NEW op \in Ops, NEW retries \in 0..MaxNonceRetries
  PROVE  Grown(c, StartOperation(c, op, retries), 0)
<1> DEFINE d == StartOperation(c, op, retries)
<1>1. d.state = c.state /\ d.channel = c.channel /\ Kept(c, d)
  BY OperationStarts DEF Kept
<1>2. d.events = c.events
  BY DEF StartOperation, Typed, Core
<1> HIDE DEF d
<1>3. Grown(c, d, 0)
  BY <1>1, <1>2, Unmoved
<1> QED BY <1>3 DEF d

\* The end of an allocation is told by its reason and its state.
LEMMA DestroyIsTold ==
  ASSUME NEW c, Typed(c), Space(c, 2), NEW op \in Ops, NEW code \in Codes,
         c.state \notin {"destroying", "deallocated"},
         op = "deallocate" => c.shuttingDown
  PROVE  Grown(c, DestroyAllocation(c, op, code), 2)
<1> DEFINE e == Happens("complete", Method(op), code)
           a == Complete(c, op, code)
           b == [a EXCEPT !.controls = {}, !.pending = {}, !.channel = FALSE, !.armed = {}]
           s == IF op = "deallocate" THEN "deallocated" ELSE "destroying"
           d == DestroyAllocation(c, op, code)
<1>1. /\ e \in Event /\ ~Shows(e) /\ ~Binds(e) /\ (Names(e) => e.kind = "complete")
  BY DEF Happens, Event, Method, Ops, Shows, Binds, Names
<1>2. Space(c, 1) /\ 1 \in Nat /\ Len(c.events) \in Nat
  BY CoreAssumption DEF Space, Typed, Core
<1>3. a = PushEvent(c, e) /\ d = SetState(b, s)
  BY DEF Complete, DestroyAllocation
<1> HIDE DEF e
<1>4. a.events = Append(c.events, e) /\ Typed(a) /\ Like(c, a)
  BY <1>1, <1>2, <1>3, EventIsAdded, EventsOnly
<1> HIDE DEF a, d
<1>5. /\ Typed(b) /\ b.events = a.events /\ b.state = c.state /\ b.channel = FALSE
      /\ Kept(c, b)
  BY <1>4 DEF Typed, Core, Like, Kept
<1>6. Len(b.events) = Len(c.events) + 1
  BY <1>1, <1>4, <1>5, OneMore DEF Typed, Core
<1>7. Space(b, 1)
  BY <1>2, <1>6, CoreAssumption DEF Space
<1>8. s \in States /\ s # b.state /\ s \in {"destroying", "deallocated"}
      /\ (s = "deallocated" => c.shuttingDown)
  BY <1>5 DEF States
<1> HIDE DEF b, s
<1>9. d.events = Append(b.events, Happens("state", s, "ok"))
  BY <1>3, <1>5, <1>7, <1>8, StateIsAdded
<1>10. d.state = s /\ Kept(c, d)
  BY <1>3, <1>5, <1>8, StateOnly DEF Like, Typed, Core, Kept
<1>11. d.events = Append(Append(c.events, e), Happens("state", s, "ok"))
  BY <1>4, <1>5, <1>9
<1>12. Grown(c, d, 2)
  BY <1>1, <1>8, <1>10, <1>11, EndIsTold
<1> QED BY <1>12 DEF d

\* So is that of a channel that has given out.
LEMMA ExhaustionIsTold ==
  ASSUME NEW c, Typed(c), Space(c, 2), c.state = "ready"
  PROVE  Grown(c, RebindExhausted(c), 2)
<1> DEFINE e == Happens("exhausted", "destroying", "failed")
           m == c.armed \cap {"refresh", "expiry"}
           a == [c EXCEPT !.controls = {}, !.pending = {}, !.channel = FALSE, !.armed = m]
           b == PushEvent(a, e)
           d == RebindExhausted(c)
<1>1. e \in Event /\ ~Shows(e) /\ ~Binds(e) /\ (Names(e) => e.kind = "complete")
  BY DEF Happens, Event, States, Codes, Shows, Binds, Names
<1>2. d = SetState(b, "destroying")
  BY DEF RebindExhausted
<1>0. m \in SUBSET Deadlines /\ Len(c.events) \in Nat
  BY DEF Typed, Core
<1> HIDE DEF d, e, m
<1>3. /\ Typed(a) /\ a.events = c.events /\ a.state = "ready"
      /\ Kept(c, a) /\ Len(c.events) \in Nat
  BY <1>0 DEF Typed, Core, Kept
<1> HIDE DEF a
<1>4. Space(a, 1)
  BY <1>3, CoreAssumption DEF Space
<1>5. b.events = Append(c.events, e) /\ Typed(b) /\ Like(a, b)
  BY <1>1, <1>3, <1>4, EventIsAdded, EventsOnly
<1> HIDE DEF b
<1>6. Len(b.events) = Len(c.events) + 1
  BY <1>1, <1>5, OneMore DEF Typed, Core
<1>7. Space(b, 1)
  BY <1>3, <1>6, CoreAssumption DEF Space
<1>8. "destroying" \in States /\ "destroying" # b.state
  BY <1>3, <1>5 DEF States, Like
<1>9. d.events = Append(b.events, Happens("state", "destroying", "ok"))
  BY <1>2, <1>5, <1>7, <1>8, StateIsAdded
<1>10. d.state = "destroying" /\ Kept(c, d)
  BY <1>2, <1>3, <1>5, <1>8, StateOnly DEF Like, Typed, Core, Kept
<1>11. d.events = Append(Append(c.events, e), Happens("state", "destroying", "ok"))
  BY <1>5, <1>9
<1>12. c.state # "destroying" /\ "destroying" \in {"destroying", "deallocated"}
  OBVIOUS
<1>13. Grown(c, d, 2)
  BY <1>1, <1>10, <1>11, <1>12, EndIsTold
<1> QED BY <1>13 DEF d

\* A maintenance that failed is tried again, or exhausts the channel.
LEMMA RetryIsTold ==
  ASSUME NEW c, Typed(c), Space(c, 2), c.state = "ready", NEW op \in Maintenance
  PROVE  Typed(MaintenanceRetry(c, op)) /\ Grown(c, MaintenanceRetry(c, op), 2)
<1> DEFINE d == MaintenanceRetry(c, op)
<1>1. ASSUME NEW e, Typed(e), e.events = c.events, e.state = c.state,
             Kept(c, e), e.channel = c.channel
      PROVE  Grown(c, e, 0)
  BY <1>1, Unmoved
<1>2. op \in Deadlines /\ 0 \in Nat /\ 2 \in Nat /\ 0 <= 2
  BY DEF Maintenance, Deadlines
<1>3. CASE op # "channel"
  <2> DEFINE e == [c EXCEPT !.armed = @ \cup {op}]
  <2>1. /\ Typed(e) /\ e.events = c.events /\ e.state = c.state
        /\ Kept(c, e) /\ e.channel = c.channel
    BY <1>2 DEF Typed, Core, Kept
  <2>2. d = e
    BY <1>3 DEF MaintenanceRetry
  <2> HIDE DEF d, e
  <2>3. Typed(d) /\ Grown(c, d, 0)
    BY <1>1, <2>1, <2>2
  <2>4. Grown(c, d, 2)
    BY <1>2, <2>3, Zenon, GrownLess
  <2> QED BY <2>3, <2>4 DEF d
<1>4. CASE op = "channel" /\ c.failures + 1 < MaxChannelFailures
  <2> DEFINE n == c.failures + 1
             m == c.armed \cup {op}
             e == [c EXCEPT !.failures = n, !.armed = m]
  <2>1. n \in 0..MaxChannelFailures /\ m \in SUBSET Deadlines
    BY <1>2, <1>4, CoreAssumption DEF Typed, Core
  <2>2. d = e
    BY <1>4, CoreAssumption DEF MaintenanceRetry, Typed, Core
  <2> HIDE DEF d, n, m
  <2>3. /\ Typed(e) /\ e.events = c.events /\ e.state = c.state
        /\ Kept(c, e) /\ e.channel = c.channel
    BY <2>1 DEF Typed, Core, Kept
  <2> HIDE DEF e
  <2>4. Typed(d) /\ Grown(c, d, 0)
    BY <1>1, <2>2, <2>3
  <2>5. Grown(c, d, 2)
    BY <1>2, <2>4, Zenon, GrownLess
  <2> QED BY <2>4, <2>5 DEF d
<1>5. CASE op = "channel" /\ ~(c.failures + 1 < MaxChannelFailures)
  <2> DEFINE b == [c EXCEPT !.failures = MaxChannelFailures]
  <2>1. d = RebindExhausted(b)
    BY <1>5, CoreAssumption DEF MaintenanceRetry, Typed, Core
  <2>2. /\ Typed(b) /\ b.events = c.events /\ b.state = c.state
        /\ Kept(c, b) /\ b.channel = c.channel
    BY CoreAssumption DEF Typed, Core, Kept
  <2> HIDE DEF b, d
  <2>3. Grown(c, b, 0) /\ Space(b, 2)
    BY <1>1, <2>2 DEF Space
  <2>4. Typed(d) /\ Grown(b, d, 2)
    BY <2>1, <2>2, <2>3, ExhaustionIsTold, AllocationEnds DEF Ended
  <2>5. 0 + 2 <= 2
    OBVIOUS
  <2>6. Grown(c, d, 2)
    BY <1>2, <2>2, <2>3, <2>4, <2>5, Zenon, GrownTwice
  <2> QED BY <2>4, <2>6 DEF d
<1> QED BY <1>3, <1>4, <1>5

\* A core whose operation op has ended, by Sound or in the middle of a method.
LEMMA EndsKnown ==
  ASSUME NEW c, Partial(c), NEW op \in OpsOf(c.state)
  PROVE  /\ Typed(c) /\ op \in Ops /\ c.state \notin {"null", "destroying", "deallocated"}
         /\ op = "deallocate" => c.shuttingDown
         /\ op \in Maintenance => c.state = "ready"
         /\ c.state = "ready" => ~c.shuttingDown
  BY DEF Partial, OpsOf, Ops, Maintenance, Flags

\* A transaction that failed is told, with what it ends.
LEMMA FailureIsTold ==
  ASSUME NEW c, Partial(c), Space(c, 3), NEW op \in OpsOf(c.state),
         NEW code \in Codes, NEW expired \in BOOLEAN
  PROVE  Grown(c, CompleteFailure(c, op, code, expired), IF c.shuttingDown THEN 2 ELSE 3)
<1> DEFINE d == CompleteFailure(c, op, code, expired)
           retried == op \in Maintenance /\ c.state = "ready" /\ "expiry" \in c.armed /\ ~expired
           a == Complete(c, op, code)
           e == Happens("complete", Method(op), code)
<1>0. 0 \in Nat /\ 1 \in Nat /\ 2 \in Nat /\ 3 \in Nat /\ 2 <= 3 /\ 1 + 2 <= 3
  OBVIOUS
<1>1. /\ Typed(c) /\ op \in Ops /\ c.state \notin {"null", "destroying", "deallocated"}
      /\ op = "deallocate" => c.shuttingDown
      /\ c.state = "ready" => ~c.shuttingDown
  BY EndsKnown
<1>2. Space(c, 1) /\ Space(c, 2)
  BY <1>1, CoreAssumption DEF Space, Typed, Core
<1>3. CASE ~retried
  <2>1. d = DestroyAllocation(c, op, code)
    BY <1>3 DEF CompleteFailure
  <2> HIDE DEF d, retried
  <2>2. Grown(c, d, 2)
    BY <1>1, <1>2, <2>1, DestroyIsTold
  <2>3. Typed(d)
    BY <1>1, <2>1, AllocationEnds DEF Ended
  <2>4. Grown(c, d, 3)
    BY <1>0, <1>1, <2>2, <2>3, Zenon, GrownLess
  <2> QED BY <2>2, <2>4 DEF d
<1>4. CASE retried
  <2>1. e \in Event /\ ~Shows(e) /\ ~Binds(e) /\ e.kind = "complete"
    BY <1>1 DEF Happens, Event, Method, Ops, Shows, Binds
  <2>2. ~Fails(e)
    BY <1>4 DEF Happens, Method, Maintenance, Fails
  <2>3. a = PushEvent(c, e)
    BY DEF Complete
  <2>4. d = MaintenanceRetry(a, op) /\ op \in Maintenance /\ c.state = "ready"
    BY <1>4 DEF CompleteFailure
  <2> HIDE DEF a, d, e, retried
  <2>5. Grown(c, a, 1) /\ Typed(a) /\ a.state = c.state
    BY <1>1, <1>2, <2>1, <2>2, <2>3, <2>4, Reported, EventsOnly DEF Like
  <2>6. Space(a, 2)
    BY <1>0, <1>1, <2>5, Zenon, SpaceLeft
  <2>7. Typed(d) /\ Grown(a, d, 2)
    BY <2>4, <2>5, <2>6, RetryIsTold
  <2>8. Grown(c, d, 3)
    <3>1. Typed(c) /\ Typed(a) /\ Typed(d) /\ Grown(c, a, 1) /\ Grown(a, d, 2)
      BY <1>1, <2>5, <2>7
    <3>2. \A i, j, n \in Nat : i + j <= n /\ Grown(c, a, i) /\ Grown(a, d, j) => Grown(c, d, n)
      BY <3>1, Zenon, GrownTwice
    <3> QED BY <3>1, <3>2
  <2> QED BY <1>1, <2>4, <2>8 DEF d
<1> QED BY <1>3, <1>4

\* So is one that succeeded.
LEMMA SuccessIsTold ==
  ASSUME NEW c, Partial(c), Space(c, 2), NEW op \in OpsOf(c.state)
  PROVE  Typed(CompleteSuccess(c, op)) /\ Grown(c, CompleteSuccess(c, op), 2)
<1> DEFINE d == CompleteSuccess(c, op)
           e == Happens("complete", Method(op), "ok")
<1>0. /\ 0 \in Nat /\ 1 \in Nat /\ 2 \in Nat /\ 0 + 1 <= 1 /\ 1 + 1 <= 2 /\ 1 + 0 <= 2
      /\ 0 + 1 <= 2 /\ 1 <= 2
  OBVIOUS
<1>1. /\ Typed(c) /\ op \in Ops /\ c.state \notin {"null", "destroying", "deallocated"}
      /\ op = "deallocate" => c.shuttingDown
      /\ op \in Maintenance => c.state = "ready"
  BY EndsKnown
<1>2. e \in Event /\ ~Shows(e) /\ ~Binds(e) /\ ~Names(e) /\ ~Fails(e)
  BY <1>1 DEF Happens, Event, Method, Ops, Codes, Shows, Binds, Names, Fails
<1>3. ASSUME NEW k, Typed(k), Space(k, 1)
      PROVE  Typed(PushEvent(k, e)) /\ Grown(k, PushEvent(k, e), 1) /\ Like(k, PushEvent(k, e))
  BY <1>2, <1>3, Reported, EventsOnly
<1>4. ASSUME NEW k, Typed(k), k.events = c.events, k.state = c.state,
             Kept(c, k), c.channel => k.channel
      PROVE  Grown(c, k, 0) /\ Space(k, 2) /\ Space(k, 1)
  BY <1>1, <1>4, Unmoved, CoreAssumption DEF Space, Typed, Core
<1>5. CASE op = "allocate"
  <2> DEFINE a == c.armed \cup {"refresh", "expiry", "maintenance"}
             k == [c EXCEPT !.armed = a]
  <2>1. a \in SUBSET Deadlines
    BY <1>1 DEF Typed, Core, Deadlines
  <2>2. d = AllocateSucceeds(c)
    BY <1>5 DEF CompleteSuccess
  <2>3. c.state = "allocating"
    BY <1>5 DEF OpsOf, Maintenance
  <2> HIDE DEF a, d, e
  <2>4. /\ Typed(k) /\ k.events = c.events /\ k.state = "allocating"
        /\ Kept(c, k) /\ k.channel = c.channel
    BY <1>1, <2>1, <2>3 DEF Typed, Core, Kept
  <2>5. Grown(c, k, 0) /\ Space(k, 2) /\ Space(k, 1)
    BY <1>4, <2>3, <2>4
  <2>6. ASSUME NEW s \in {"ready", "deallocating"}
        PROVE  Typed(SetState(k, s)) /\ Grown(c, SetState(k, s), 1)
    <3> DEFINE b == SetState(k, s)
    <3>1. s \in States /\ s # k.state
      BY <2>4 DEF States
    <3>2. Typed(b) /\ Grown(k, b, 1)
      BY <2>4, <2>5, <3>1, Changed, StateOnly
    <3> HIDE DEF b, k
    <3>3. Grown(c, b, 1)
      BY <1>0, <1>1, <2>4, <2>5, <3>2, Zenon, GrownTwice
    <3> QED BY <3>2, <3>3 DEF b
  <2>7. CASE c.shuttingDown
    <3> DEFINE b == SetState(k, "deallocating")
    <3>1. d = StartOperation(b, "deallocate", 0)
      BY <2>2, <2>7 DEF AllocateSucceeds, a
    <3>2. Typed(b) /\ Grown(c, b, 1)
      BY <2>6
    <3> HIDE DEF b
    <3>3. "deallocate" \in Ops /\ 0 \in 0..MaxNonceRetries
      BY CoreAssumption DEF Ops
    <3>4. Typed(d) /\ Grown(b, d, 0)
      BY <3>1, <3>2, <3>3, OperationStarts, StartIsUntold
    <3>5. Grown(c, d, 2)
      BY <1>0, <1>1, <3>2, <3>4, Zenon, GrownTwice
    <3> QED BY <3>4, <3>5 DEF d
  <2>8. CASE ~c.shuttingDown
    <3> DEFINE b == SetState(k, "ready")
    <3>1. d = PushEvent(b, e)
      BY <1>5, <2>2, <2>8 DEF AllocateSucceeds, Complete, a, e
    <3>2. Typed(b) /\ Grown(c, b, 1)
      BY <2>6
    <3> HIDE DEF b, k
    <3>3. Space(b, 1)
      BY <1>0, <1>1, <3>2, Zenon, SpaceLeft
    <3>4. Typed(d) /\ Grown(b, d, 1)
      BY <1>3, <3>1, <3>2, <3>3
    <3>5. Grown(c, d, 2)
      BY <1>0, <1>1, <3>2, <3>4, Zenon, GrownTwice
    <3> QED BY <3>4, <3>5 DEF d
  <2> QED BY <2>7, <2>8
<1>6. CASE op = "refresh"
  <2> DEFINE a == c.armed \cup {"refresh", "expiry"}
             k == [c EXCEPT !.armed = a]
  <2>1. a \in SUBSET Deadlines
    BY <1>1 DEF Typed, Core, Deadlines
  <2>2. d = PushEvent(k, e)
    BY <1>6 DEF CompleteSuccess, Complete
  <2> HIDE DEF a, d, e
  <2>3. /\ Typed(k) /\ k.events = c.events /\ k.state = c.state
        /\ Kept(c, k) /\ k.channel = c.channel
    BY <1>1, <2>1 DEF Typed, Core, Kept
  <2> HIDE DEF k
  <2>4. Grown(c, k, 0) /\ Space(k, 1)
    BY <1>4, <2>3
  <2>5. Typed(d) /\ Grown(k, d, 1)
    BY <1>3, <2>2, <2>3, <2>4
  <2>6. Grown(c, d, 2)
    BY <1>0, <1>1, <2>3, <2>4, <2>5, Zenon, GrownTwice
  <2> QED BY <2>5, <2>6 DEF d
<1>7. CASE op = "deallocate"
  <2> DEFINE a == c.armed \ {"refresh", "expiry"}
             k == [c EXCEPT !.armed = a]
             b == PushEvent(k, e)
  <2>1. a \in SUBSET Deadlines
    BY <1>1 DEF Typed, Core
  <2>2. d = SetState(b, "deallocated")
    BY <1>7 DEF CompleteSuccess, Complete
  <2> HIDE DEF a, d, e
  <2>3. /\ Typed(k) /\ k.events = c.events /\ k.state = c.state
        /\ Kept(c, k) /\ k.channel = c.channel
    BY <1>1, <2>1 DEF Typed, Core, Kept
  <2> HIDE DEF k
  <2>4. Grown(c, k, 0) /\ Space(k, 1) /\ Space(k, 2)
    BY <1>4, <2>3
  <2>5. Typed(b) /\ Grown(k, b, 1) /\ Like(k, b)
    BY <1>3, <2>3, <2>4
  <2> HIDE DEF b
  <2>6. Space(b, 1)
    BY <1>0, <2>3, <2>4, <2>5, Zenon, SpaceLeft
  <2>7. b.shuttingDown /\ "deallocated" # b.state /\ "deallocated" \in States
    BY <1>1, <1>7, <2>3, <2>5 DEF Like, States, Kept
  <2>8. Typed(d) /\ Grown(b, d, 1)
    BY <2>2, <2>5, <2>6, <2>7, Changed, StateOnly
  <2>9. Grown(k, d, 2)
    <3>1. \A i, j, n \in Nat : i + j <= n /\ Grown(k, b, i) /\ Grown(b, d, j) => Grown(k, d, n)
      BY <2>3, <2>5, <2>8, Zenon, GrownTwice
    <3> QED BY <2>5, <2>8, <3>1
  <2>10. 0 + 2 <= 2
    OBVIOUS
  <2>11. Grown(c, d, 2)
    <3>1. Typed(c) /\ Typed(k) /\ Typed(d) /\ Grown(c, k, 0)
      BY <1>1, <2>3, <2>4, <2>8
    <3> QED BY <1>0, <2>9, <2>10, <3>1, Zenon, GrownTwice
  <2> QED BY <2>8, <2>11 DEF d
<1>8. CASE op = "permission"
  <2>1. d = PushEvent(c, e)
    BY <1>8 DEF CompleteSuccess, Complete
  <2>2. Space(c, 1)
    BY <1>1, CoreAssumption DEF Space, Typed, Core
  <2> HIDE DEF d, e
  <2>3. Typed(d) /\ Grown(c, d, 1)
    BY <1>1, <1>3, <2>1, <2>2
  <2>4. Grown(c, d, 2)
    <3>1. \A i, n \in Nat : i <= n /\ Grown(c, d, i) => Grown(c, d, n)
      BY <1>1, <2>3, Zenon, GrownLess
    <3> QED BY <2>3, <3>1
  <2> QED BY <2>3, <2>4 DEF d
<1>9. CASE op = "channel"
  <2> DEFINE k == [c EXCEPT !.channel = TRUE, !.failures = 0]
             o == Happens("bound", "none", "ok")
             b == PushEvent(k, o)
  <2>1. d = PushEvent(b, e)
    BY <1>9 DEF CompleteSuccess, Complete
  <2> HIDE DEF d, e
  <2>2. /\ Typed(k) /\ k.events = c.events /\ k.state = c.state
        /\ Kept(c, k) /\ k.channel = TRUE
    <3>1. 0 \in 0..MaxChannelFailures
      BY CoreAssumption
    <3> QED BY <1>1, <3>1 DEF Typed, Core, Kept
  <2>3. o \in Event /\ ~Shows(o) /\ ~Names(o) /\ ~Fails(o)
    BY DEF Happens, Event, Codes, Shows, Names, Fails
  <2> HIDE DEF k, o
  <2>4. Grown(c, k, 0) /\ Space(k, 2) /\ Space(k, 1)
    BY <1>4, <2>2
  <2>5. Typed(b) /\ Grown(k, b, 1)
    BY <2>2, <2>3, <2>4, Reported, EventsOnly
  <2> HIDE DEF b
  <2>6. Space(b, 1)
    BY <1>0, <2>2, <2>4, <2>5, Zenon, SpaceLeft
  <2>7. Typed(d) /\ Grown(b, d, 1)
    BY <1>3, <2>1, <2>5, <2>6
  <2>8. Grown(k, d, 2)
    BY <1>0, <2>2, <2>5, <2>7, Zenon, GrownTwice
  <2>9. 0 + 2 <= 2
    OBVIOUS
  <2>10. Grown(c, d, 2)
    <3>1. Typed(c) /\ Typed(k) /\ Typed(d) /\ Grown(c, k, 0)
      BY <1>1, <2>2, <2>4, <2>7
    <3> QED BY <1>0, <2>8, <2>9, <3>1, Zenon, GrownTwice
  <2> QED BY <2>7, <2>10 DEF d
<1> QED BY <1>1, <1>5, <1>6, <1>7, <1>8, <1>9 DEF Ops

\* An answer, whatever it says, is told by four events at most.
LEMMA AnswerIsTold ==
  ASSUME NEW c, Sound(c), Space(c, 4), NEW p \in c.pending, NEW answer \in Answers,
         NEW expired \in BOOLEAN
  PROVE  Grown(c, Answered(c, p, answer, expired), 4)
<1> DEFINE d == Answered(c, p, answer, expired)
           rest == Without(c, p)
           gone == Happens("error", Method(p.op), "mismatch")
           refusal == Happens("error", Method(p.op), "failed")
<1>1. /\ Typed(c) /\ Partial(rest) /\ Typed(rest) /\ p \in Pending /\ p.op \in Ops
      /\ rest.state = c.state /\ p.op \in OpsOf(rest.state) /\ ~Has(rest, p.op)
  BY RestIsPartial DEF Sound, Partial
<1>2. rest.events = c.events /\ rest.channel = c.channel /\ Kept(c, rest)
  BY <1>1 DEF Without, Typed, Core, Kept
<1>3. /\ gone \in Event /\ ~Shows(gone) /\ ~Binds(gone) /\ ~Fails(gone) /\ gone.kind = "error"
      /\ refusal \in Event /\ ~Shows(refusal) /\ ~Binds(refusal) /\ ~Names(refusal)
      /\ ~Fails(refusal)
  BY <1>1 DEF Happens, Event, Method, Ops, Codes, Shows, Binds, Names, Fails
<1>4. c.state \notin {"null", "destroying", "deallocated"}
  BY <1>1, EndsKnown
<1>5. Grown(c, rest, 0)
  BY <1>1, <1>2, Unmoved
<1>6. Space(rest, 1) /\ Space(rest, 2) /\ Space(rest, 3) /\ Space(rest, 4) /\ Space(c, 1)
  BY <1>1, <1>2, CoreAssumption DEF Space, Typed, Core
<1>7. ASSUME NEW e, Typed(e), NEW k \in 0..4, Grown(rest, e, k) PROVE Grown(c, e, 4)
  <2>1. \A i, j, n \in Nat : i + j <= n /\ Grown(c, rest, i) /\ Grown(rest, e, j) => Grown(c, e, n)
    BY <1>1, <1>7, Zenon, GrownTwice
  <2>2. k \in Nat /\ 0 + k <= 4
    BY <1>7
  <2> QED BY <1>5, <1>7, <2>1, <2>2
<1>8. ASSUME NEW e \in {gone, refusal}
      PROVE  /\ Typed(PushEvent(rest, e)) /\ Like(rest, PushEvent(rest, e))
             /\ Partial(PushEvent(rest, e)) /\ Grown(rest, PushEvent(rest, e), 1)
  <2>1. /\ e \in Event /\ ~Shows(e) /\ ~Binds(e) /\ ~Fails(e)
        /\ (Names(e) => e.kind \in {"complete", "error"})
    BY <1>3, <1>8
  <2> HIDE DEF gone, refusal, rest
  <2>2. Names(e) => e.kind \in {"complete", "error"} /\ rest.state # "destroying"
    BY <1>1, <1>4, <2>1
  <2>3. Grown(rest, PushEvent(rest, e), 1)
    BY <1>1, <1>6, <2>1, <2>2, Reported
  <2> QED BY <1>1, <2>1, <2>3, EventsOnly, PushIsSound
<1>9. CASE answer \in {"unverified", "unverifiedGone"}
  <2>1. d = IF answer = "unverifiedGone" THEN PushEvent(c, gone) ELSE c
    BY <1>9 DEF Answered, Unverified, Authenticated, Recreates, Answers
  <2>2. Typed(PushEvent(c, gone)) /\ Grown(c, PushEvent(c, gone), 1)
    <3> HIDE DEF gone
    <3>1. Names(gone) => gone.kind \in {"complete", "error"} /\ c.state # "destroying"
      BY <1>3, <1>4
    <3> QED BY <1>1, <1>3, <1>6, <3>1, Reported, EventsOnly
  <2> HIDE DEF d, gone
  <2>3. Typed(d) /\ (Grown(c, d, 1) \/ Grown(c, d, 0))
    <3>1. Grown(c, c, 0)
      BY <1>1, Unmoved DEF Kept
    <3>2. CASE answer = "unverifiedGone"
      BY <2>1, <2>2, <3>2
    <3>3. CASE answer # "unverifiedGone"
      BY <1>1, <2>1, <3>1, <3>3
    <3> QED BY <3>2, <3>3
  <2>4. \A i, n \in Nat : i <= n /\ Grown(c, d, i) => Grown(c, d, n)
    BY <1>1, <2>3, Zenon, GrownLess
  <2> QED BY <2>3, <2>4 DEF d
<1>10. CASE (answer = "success" /\ ~Authenticated(p)) \/ answer = "malformed"
  <2>1. d = CompleteFailure(rest, p.op, "failed", expired) /\ "failed" \in Codes
    BY <1>10 DEF Answered, Authenticated, Recreates, Answers, Codes
  <2> HIDE DEF d, rest
  <2>2. Grown(rest, d, IF rest.shuttingDown THEN 2 ELSE 3)
    BY <1>1, <1>6, <2>1, FailureIsTold
  <2>3. Typed(d)
    BY <1>1, <2>1, FailureIsSound DEF Sound, Partial
  <2> QED BY <1>7, <2>2, <2>3 DEF d
<1>11. CASE answer = "success" /\ Authenticated(p)
  <2>1. d = CompleteSuccess(rest, p.op)
    BY <1>11 DEF Answered, Authenticated, Recreates, Answers
  <2> HIDE DEF d, rest
  <2>2. Typed(d) /\ Grown(rest, d, 2)
    BY <1>1, <1>6, <2>1, SuccessIsTold
  <2> QED BY <1>7, <2>2 DEF d
<1>12. CASE answer \notin {"unverified", "unverifiedGone", "success", "malformed"}
            /\ Recreates(p, answer)
  <2> DEFINE b == PushEvent(rest, gone)
  <2>1. d = DestroyAllocation(b, p.op, "mismatch") /\ "mismatch" \in Codes
    BY <1>12 DEF Answered, Authenticated, Recreates, Answers, Codes
  <2>2. Typed(b) /\ Like(rest, b) /\ Partial(b) /\ Grown(rest, b, 1)
    BY <1>8
  <2> HIDE DEF b, d, rest, gone
  <2>3. \A i, j, n \in Nat : i + j <= n /\ Space(rest, n) /\ Grown(rest, b, i) => Space(b, j)
    BY <1>1, <2>2, Zenon, SpaceLeft
  <2>4. Space(b, 2)
    BY <1>6, <2>2, <2>3
  <2>5. p.op \in OpsOf(b.state)
    BY <1>1, <2>2 DEF Like
  <2>6. b.state \notin {"destroying", "deallocated"} /\ (p.op = "deallocate" => b.shuttingDown)
    BY <2>2, <2>5, EndsKnown
  <2>7. Typed(d) /\ Grown(b, d, 2)
    BY <1>1, <2>1, <2>2, <2>4, <2>6, DestroyIsTold, AllocationEnds DEF Ended
  <2>8. \A i, j, n \in Nat : i + j <= n /\ Grown(rest, b, i) /\ Grown(b, d, j) => Grown(rest, d, n)
    BY <1>1, <2>2, <2>7, Zenon, GrownTwice
  <2>9. Grown(rest, d, 3)
    BY <2>2, <2>7, <2>8
  <2> QED BY <1>7, <2>7, <2>9 DEF d
<1>13. CASE answer = "challenge" /\ p.retries < MaxNonceRetries
  <2>1. d = StartOperation(rest, p.op, p.retries + 1)
    BY <1>13 DEF Answered, Authenticated, Recreates, Answers
  <2>2. p.retries + 1 \in 0..MaxNonceRetries
    BY <1>1, <1>13, CoreAssumption DEF Pending
  <2> HIDE DEF d, rest
  <2>3. Typed(d) /\ Grown(rest, d, 0)
    BY <1>1, <2>1, <2>2, OperationStarts, StartIsUntold
  <2> QED BY <1>7, <2>3 DEF d
<1>14. CASE /\ answer \notin {"unverified", "unverifiedGone", "success", "malformed"}
            /\ ~Recreates(p, answer)
            /\ ~(answer = "challenge" /\ p.retries < MaxNonceRetries)
  <2> DEFINE b == PushEvent(rest, refusal)
  <2>1. d = CompleteFailure(b, p.op, "failed", expired) /\ "failed" \in Codes
    BY <1>14 DEF Answered, Refused, Authenticated, Recreates, Answers, Codes
  <2>2. Typed(b) /\ Like(rest, b) /\ Partial(b) /\ Grown(rest, b, 1)
    BY <1>8
  <2> HIDE DEF b, d, rest, refusal
  <2>3. \A i, j, n \in Nat : i + j <= n /\ Space(rest, n) /\ Grown(rest, b, i) => Space(b, j)
    BY <1>1, <2>2, Zenon, SpaceLeft
  <2>4. Space(b, 3)
    BY <1>6, <2>2, <2>3
  <2>5. p.op \in OpsOf(b.state) /\ ~Has(b, p.op)
    BY <1>1, <2>2 DEF Like, Has
  <2>6. Grown(b, d, IF b.shuttingDown THEN 2 ELSE 3) /\ Typed(d)
    BY <2>1, <2>2, <2>4, <2>5, FailureIsTold, FailureIsSound DEF Sound, Partial
  <2>7. \A i, j, n \in Nat : i + j <= n /\ Grown(rest, b, i) /\ Grown(b, d, j) => Grown(rest, d, n)
    BY <1>1, <2>2, <2>6, Zenon, GrownTwice
  <2>8. Grown(rest, d, 4)
    BY <2>2, <2>6, <2>7
  <2> QED BY <1>7, <2>6, <2>8 DEF d
<1> QED BY <1>9, <1>10, <1>11, <1>12, <1>13, <1>14

\* After a shutdown a failure leaves nothing outstanding.
LEMMA FailureEnds ==
  ASSUME NEW c, Partial(c), c.shuttingDown, NEW op \in OpsOf(c.state), NEW code \in Codes,
         NEW expired \in BOOLEAN
  PROVE  CompleteFailure(c, op, code, expired).pending = {}
<1> DEFINE d == CompleteFailure(c, op, code, expired)
<1>1. Typed(c) /\ op \in Ops /\ c.state # "ready"
  BY EndsKnown
<1>2. d = DestroyAllocation(c, op, code)
  BY <1>1 DEF CompleteFailure
<1> HIDE DEF d
<1>3. Ended(c, d, IF op = "deallocate" THEN "deallocated" ELSE "destroying", {})
  BY <1>1, <1>2, AllocationEnds
<1> QED BY <1>3 DEF Ended, d

\* A start that is due takes its deadline and tells nothing.
LEMMA DueIsUntold ==
  ASSUME NEW c, Typed(c), NEW op \in {"refresh", "permission", "channel"}, NEW isDue
  PROVE  Typed(StartDue(c, op, isDue)) /\ Grown(c, StartDue(c, op, isDue), 0)
<1> DEFINE d == StartDue(c, op, isDue)
<1>1. CASE isDue /\ ~Has(c, op)
  <2> DEFINE a == c.armed \ {op}
             e == [c EXCEPT !.armed = a]
  <2>1. a \in SUBSET Deadlines
    BY DEF Typed, Core
  <2>2. d = StartOperation(e, op, 0)
    BY <1>1 DEF StartDue
  <2> HIDE DEF a, d
  <2>3. /\ Typed(e) /\ e.events = c.events /\ e.state = c.state
        /\ Kept(c, e) /\ e.channel = c.channel
    BY <2>1 DEF Typed, Core, Kept
  <2> HIDE DEF e
  <2>4. Grown(c, e, 0)
    BY <2>3, Unmoved
  <2>5. op \in Ops /\ 0 \in 0..MaxNonceRetries
    BY CoreAssumption DEF Ops
  <2>6. Typed(d) /\ Grown(e, d, 0)
    BY <2>2, <2>3, <2>5, OperationStarts, StartIsUntold
  <2>7. \A i, j, n \in Nat : i + j <= n /\ Grown(c, e, i) /\ Grown(e, d, j) => Grown(c, d, n)
    BY <2>3, <2>6, Zenon, GrownTwice
  <2> QED BY <2>4, <2>6, <2>7 DEF d
<1>2. CASE ~(isDue /\ ~Has(c, op))
  <2>1. d = c
    BY <1>2 DEF StartDue
  <2> HIDE DEF d
  <2>2. Grown(c, d, 0)
    BY <2>1, Unmoved DEF Kept
  <2> QED BY <2>1, <2>2 DEF d
<1> QED BY <1>1, <1>2

\* Maintenance tells nothing but the end of the lifetime.
LEMMA MaintenanceIsTold ==
  ASSUME NEW c, Typed(c), Space(c, 2), NEW due
  PROVE  Typed(Maintain(c, due)) /\ Grown(c, Maintain(c, due), 2)
<1> DEFINE d == Maintain(c, due)
<1>1. ASSUME NEW e, Typed(e), Grown(c, e, 0) PROVE Grown(c, e, 2)
  <2>1. \A i, n \in Nat : i <= n /\ Grown(c, e, i) => Grown(c, e, n)
    BY <1>1, Zenon, GrownLess
  <2> QED BY <1>1, <2>1
<1>2. CASE c.shuttingDown \/ c.state # "ready"
  <2>1. d = c
    BY <1>2 DEF Maintain
  <2> HIDE DEF d
  <2>2. Grown(c, d, 0)
    BY <2>1, Unmoved DEF Kept
  <2> QED BY <1>1, <2>1, <2>2 DEF d
<1>3. CASE ~(c.shuttingDown \/ c.state # "ready") /\ "expiry" \in due
  <2>1. d = DestroyAllocation(c, "refresh", "failed") /\ "refresh" \in Ops /\ "failed" \in Codes
    BY <1>3 DEF Maintain, Ops, Codes
  <2> HIDE DEF d
  <2>2. c.state \notin {"destroying", "deallocated"}
    BY <1>3
  <2>3. Typed(d) /\ Grown(c, d, 2)
    BY <2>1, <2>2, DestroyIsTold, AllocationEnds DEF Ended
  <2> QED BY <2>3 DEF d
<1>4. CASE ~(c.shuttingDown \/ c.state # "ready") /\ "expiry" \notin due
  <2> DEFINE permission == due \cap {"maintenance", "permission"} # {}
             channel == due \cap {"maintenance", "channel"} # {}
             a == StartDue(c, "refresh", "refresh" \in due)
             b == StartDue(a, "permission", permission)
  <2>1. d = StartDue(b, "channel", channel)
    BY <1>4 DEF Maintain
  <2> HIDE DEF permission, channel, d
  <2>2. Typed(a) /\ Grown(c, a, 0)
    BY DueIsUntold
  <2> HIDE DEF a
  <2>3. Typed(b) /\ Grown(a, b, 0)
    BY <2>2, DueIsUntold
  <2> HIDE DEF b
  <2>4. Typed(d) /\ Grown(b, d, 0)
    BY <2>1, <2>3, DueIsUntold
  <2>5. \A i, j, n \in Nat : i + j <= n /\ Grown(c, a, i) /\ Grown(a, b, j) => Grown(c, b, n)
    BY <2>2, <2>3, Zenon, GrownTwice
  <2>6. Grown(c, b, 0)
    BY <2>2, <2>3, <2>5
  <2>7. \A i, j, n \in Nat : i + j <= n /\ Grown(c, b, i) /\ Grown(b, d, j) => Grown(c, d, n)
    BY <2>3, <2>4, Zenon, GrownTwice
  <2> QED BY <2>4, <2>6, <2>7 DEF d
<1> QED BY <1>2, <1>3, <1>4

\* A transaction that has waited too long is sent again, or has failed; once the core shuts
\* down the failure ends it.
LEMMA ExpiryIsTold ==
  ASSUME NEW c, Sound(c), Space(c, 3), NEW p \in c.pending, NEW expired \in BOOLEAN
  PROVE  /\ Typed(Expired(c, p, expired)) /\ Grown(c, Expired(c, p, expired), 3)
         /\ c.shuttingDown => \/ Grown(c, Expired(c, p, expired), 0)
                              \/ Grown(c, Expired(c, p, expired), 2)
                                 /\ Expired(c, p, expired).pending = {}
<1> DEFINE d == Expired(c, p, expired)
           rest == Without(c, p)
<1>1. /\ Typed(c) /\ Partial(rest) /\ Typed(rest) /\ p \in Pending /\ p.op \in Ops
      /\ rest.state = c.state /\ p.op \in OpsOf(rest.state) /\ ~Has(rest, p.op)
  BY RestIsPartial DEF Sound, Partial
<1>2. /\ rest.events = c.events /\ rest.channel = c.channel /\ Kept(c, rest)
      /\ rest.shuttingDown = c.shuttingDown
  BY <1>1 DEF Without, Typed, Core, Kept
<1>3. CASE p.sent >= MaxTransmissions \/ Stream
  <2>1. d = CompleteFailure(rest, p.op, "failed", expired) /\ "failed" \in Codes
    BY <1>3 DEF Expired, Codes
  <2> HIDE DEF d, rest
  <2>2. Grown(c, rest, 0) /\ Space(rest, 3)
    BY <1>1, <1>2, Unmoved DEF Space
  <2>3. Typed(d) /\ Grown(rest, d, IF c.shuttingDown THEN 2 ELSE 3)
    BY <1>1, <1>2, <2>1, <2>2, FailureIsTold, FailureIsSound DEF Sound, Partial
  <2>4. \A i, j, n \in Nat : i + j <= n /\ Grown(c, rest, i) /\ Grown(rest, d, j) => Grown(c, d, n)
    BY <1>1, <2>3, Zenon, GrownTwice
  <2>5. Grown(c, d, IF c.shuttingDown THEN 2 ELSE 3) /\ Grown(c, d, 3)
    <3>1. CASE c.shuttingDown
      BY <2>2, <2>3, <2>4, <3>1
    <3>2. CASE ~c.shuttingDown
      BY <2>2, <2>3, <2>4, <3>2
    <3> QED BY <3>1, <3>2
  <2>6. c.shuttingDown => d.pending = {}
    BY <1>1, <1>2, <2>1, FailureEnds
  <2> QED BY <2>3, <2>5, <2>6 DEF d
<1>4. CASE ~(p.sent >= MaxTransmissions \/ Stream)
  <2> DEFINE q == [p EXCEPT !.sent = @ + 1]
             a == (c.pending \ {p}) \cup {q}
             b == c.controls \cup {p.op}
  <2>1. q \in Pending
    BY <1>1, <1>4, CoreAssumption DEF Pending
  <2>2. a \in SUBSET Pending /\ b \in SUBSET Ops
    BY <1>1, <2>1 DEF Typed, Core
  <2>3. d = [c EXCEPT !.controls = b, !.pending = a]
    BY <1>4 DEF Expired
  <2> HIDE DEF a, b, d, q
  <2>4. /\ Typed(d) /\ d.events = c.events /\ d.state = c.state
        /\ Kept(c, d) /\ d.channel = c.channel
    BY <1>1, <2>2, <2>3 DEF Typed, Core, Kept
  <2>5. Grown(c, d, 0)
    BY <1>1, <2>4, Unmoved
  <2>6. \A i, n \in Nat : i <= n /\ Grown(c, d, i) => Grown(c, d, n)
    BY <1>1, <2>4, Zenon, GrownLess
  <2>7. Grown(c, d, 3)
    BY <2>5, <2>6
  <2> QED BY <2>4, <2>5, <2>7 DEF d
<1> QED BY <1>3, <1>4

\* A poll is told by five events at most, and after a shutdown by two, with which it ends.
LEMMA PollIsTold ==
  ASSUME Sound(core), Sound(core'), Space(core, 5), NEW p, NEW due, NEW expired \in BOOLEAN,
         PollExpires(p, due, expired)
  PROVE  /\ Grown(core, core', 5)
         /\ core.shuttingDown => \/ Grown(core, core', 0)
                                 \/ Grown(core, core', 2) /\ core'.pending = {}
<1> DEFINE d == Expired(core, p, expired)
<1>1. p \in core.pending /\ core' = Maintain(d, due \cap d.armed)
  BY DEF PollExpires
<1>2. Typed(core) /\ Space(core, 3)
  BY CoreAssumption DEF Sound, Partial, Typed, Core, Space
<1>3. /\ Typed(d) /\ Grown(core, d, 3)
      /\ core.shuttingDown => Grown(core, d, 0) \/ (Grown(core, d, 2) /\ d.pending = {})
  BY <1>1, <1>2, ExpiryIsTold
<1> HIDE DEF d
<1>4. \A i, j, n \in Nat : i + j <= n /\ Space(core, n) /\ Grown(core, d, i) => Space(d, j)
  BY <1>2, <1>3, Zenon, SpaceLeft
<1>5. Space(d, 2)
  BY <1>3, <1>4
<1>6. Typed(core') /\ Grown(d, core', 2)
  BY <1>1, <1>3, <1>5, MaintenanceIsTold
<1>7. \A i, j, n \in Nat : i + j <= n /\ Grown(core, d, i) /\ Grown(d, core', j) => Grown(core, core', n)
  BY <1>2, <1>3, <1>6, Zenon, GrownTwice
<1>8. Grown(core, core', 5)
  BY <1>3, <1>6, <1>7
<1>9. ASSUME core.shuttingDown PROVE core' = d
  <2>1. d.shuttingDown = core.shuttingDown
    BY <1>3, Zenon DEF Grown, Kept
  <2> QED BY <1>1, <1>9, <2>1 DEF Maintain
<1> QED BY <1>3, <1>8, <1>9

\* A poll in which no transaction has expired.
LEMMA PollMaintainsIsTold ==
  ASSUME Sound(core), Space(core, 2), NEW due, PollMaintains(due)
  PROVE  Grown(core, core', 2) /\ (core.shuttingDown => core' = core)
<1>1. Grown(core, core', 2)
  BY MaintenanceIsTold DEF PollMaintains, Sound, Partial
<1> QED BY <1>1 DEF PollMaintains, Maintain

\* Nothing but the end of the lifetime is told of a wake.
LEMMA ResyncIsTold ==
  ASSUME NEW c, Sound(c), Space(c, 2), NEW tooLong \in BOOLEAN, NEW g, g = Resync(c, tooLong)
  PROVE  Grown(c, g, 2) /\ (c.shuttingDown => g = c)
<1>0. Typed(c)
  BY DEF Sound, Partial
<1>1. ASSUME Typed(g), Grown(c, g, 0) PROVE Grown(c, g, 2)
  <2>1. \A i, n \in Nat : i <= n /\ Grown(c, g, i) => Grown(c, g, n)
    BY <1>0, <1>1, Zenon, GrownLess
  <2> QED BY <1>1, <2>1
<1>2. CASE ~IsOpen(c) \/ c.state # "ready"
  <2>1. g = c
    BY <1>2 DEF Resync
  <2>2. Grown(c, g, 0)
    BY <1>0, <2>1, Unmoved DEF Kept
  <2> QED BY <1>0, <1>1, <2>1, <2>2
<1>3. CASE ~(~IsOpen(c) \/ c.state # "ready") /\ tooLong
  <2>1. g = DestroyAllocation(c, "refresh", "failed")
    BY <1>3 DEF Resync
  <2>2. "refresh" \in Ops /\ "failed" \in Codes /\ c.state \notin {"destroying", "deallocated"}
    BY <1>3 DEF Ops, Codes
  <2>3. Grown(c, g, 2)
    BY <1>0, <2>1, <2>2, DestroyIsTold
  <2> QED BY <1>3, <2>3 DEF IsOpen
<1>4. CASE ~(~IsOpen(c) \/ c.state # "ready") /\ ~tooLong
  <2> DEFINE a == c.armed \cup {"refresh", "maintenance"}
  <2>1. a \in SUBSET Deadlines
    BY <1>0 DEF Typed, Core, Deadlines
  <2>2. g = [c EXCEPT !.armed = a]
    BY <1>4 DEF Resync
  <2> HIDE DEF a
  <2>3. /\ Typed(g) /\ g.events = c.events /\ g.state = c.state
        /\ Kept(c, g) /\ g.channel = c.channel
    BY <1>0, <2>1, <2>2 DEF Typed, Core, Kept
  <2>4. Grown(c, g, 0)
    BY <1>0, <2>3, Unmoved
  <2> QED BY <1>1, <1>4, <2>3, <2>4 DEF IsOpen
<1> QED BY <1>2, <1>3, <1>4

\* A shutdown tells its state, and withdraws the channel untold.
LEMMA GracefulIsTold ==
  ASSUME NEW c, Sound(c), Space(c, 1), NEW g, g = Graceful(c), IsOpen(c)
  PROVE  /\ Len(g.events) <= Len(c.events) + 1
         /\ g.shuttingDown /\ g.destroyed = c.destroyed
         /\ \A r \in States, b \in BOOLEAN : Good(c, r, b) => Good(g, r, b)
<1> DEFINE a == c.armed \ {"maintenance", "permission", "channel"}
           held == c.state = "ready" \/ (c.state = "destroying" /\ "expiry" \in c.armed)
<1>1. a \in SUBSET Deadlines /\ Typed(c) /\ c.events \in Seq(Event) /\ Len(c.events) \in Nat
  BY DEF Sound, Partial, Typed, Core
<1>2. CASE held
  <2> DEFINE b == [c EXCEPT !.shuttingDown = TRUE, !.channel = FALSE, !.controls = {},
                            !.armed = a, !.pending = {}]
             d == SetState(b, "deallocating")
             e == Happens("state", "deallocating", "ok")
  <2>1. [Closing(c) EXCEPT !.pending = {}] = b
    BY DEF Closing, Sound, Partial, Typed, Core
  <2>2. g = StartOperation(d, "deallocate", 0)
    BY <1>2, <2>1 DEF Graceful, Shutdown
  <2> HIDE DEF a
  <2>3. /\ Typed(b) /\ b.events = c.events /\ b.state = c.state
        /\ b.shuttingDown = TRUE /\ b.destroyed = c.destroyed
    BY <1>1 DEF Typed, Core
  <2> HIDE DEF b
  <2>4. "deallocating" \in States /\ "deallocating" # b.state
    BY <1>2, <2>3 DEF States
  <2>5. Space(b, 1)
    BY <2>3 DEF Space
  <2>6. d.events = Append(c.events, e)
    BY <2>3, <2>4, <2>5, StateIsAdded
  <2>7. /\ Typed(d) /\ d.state = "deallocating" /\ d.shuttingDown = TRUE
        /\ d.destroyed = c.destroyed
    BY <2>3, <2>4, StateOnly DEF Like, Typed, Core
  <2> HIDE DEF d
  <2>8. "deallocate" \in Ops /\ 0 \in 0..MaxNonceRetries
    BY CoreAssumption DEF Ops
  <2>9. /\ g.events = Append(c.events, e) /\ g.state = "deallocating" /\ g.shuttingDown = TRUE
        /\ g.destroyed = c.destroyed
    <3>1. g.events = d.events
      BY <2>2, <2>7 DEF StartOperation, Typed, Core
    <3>2. g.state = d.state /\ g.shuttingDown = d.shuttingDown /\ g.destroyed = d.destroyed
      BY <2>2, <2>7, <2>8, OperationStarts
    <3> QED BY <2>6, <2>7, <3>1, <3>2
  <2>10. e \in Event /\ Shows(e) /\ e.what = "deallocating"
    BY DEF Happens, Event, States, Codes, Shows
  <2> HIDE DEF e
  <2>11. Len(g.events) <= Len(c.events) + 1
    BY <1>1, <2>9, <2>10, OneMore
  <2>12. ASSUME NEW r \in States PROVE Told(g.events, r, g.state)
    BY <1>1, <2>9, <2>10, ToldMore
  <2> QED BY <2>9, <2>11, <2>12 DEF Good
<1>3. CASE ~held
  <2> DEFINE p == IF c.state = "allocating" THEN c.pending ELSE {}
  <2>1. g = [c EXCEPT !.shuttingDown = TRUE, !.channel = FALSE, !.controls = {},
                      !.armed = a, !.pending = p]
    BY <1>3 DEF Graceful, Shutdown, Closing, Sound, Partial, Typed, Core
  <2> HIDE DEF a, p
  <2>2. /\ g.events = c.events /\ g.state = c.state /\ g.shuttingDown = TRUE
        /\ g.destroyed = c.destroyed
    BY <1>1, <2>1 DEF Typed, Core
  <2>3. ASSUME NEW r \in States, NEW b \in BOOLEAN, Good(c, r, b) PROVE Good(g, r, b)
    BY <2>2, <2>3 DEF Good
  <2>4. Len(g.events) <= Len(c.events) + 1
    BY <1>1, <2>2
  <2> QED BY <2>2, <2>3, <2>4
<1> QED BY <1>2, <1>3

\* Whoever destroys the core finds it destroyed, with an event to take.
LEMMA ForcedIsTold ==
  ASSUME NEW c, Sound(c), ~c.destroyed, NEW g, g = Forced(c)
  PROVE  g.destroyed = TRUE /\ g.shuttingDown = c.shuttingDown /\ g.events # <<>>
<1> DEFINE b == [c EXCEPT !.destroyed = TRUE, !.controls = {}, !.pending = {}]
           d == SetState(b, "destroying")
           e == Happens("forced", "destroying", "ok")
           o == Happens("overflow", "none", "ok")
<1>1. g = PushEvent(d, e)
  BY DEF Forced
<1>2. e \in Event
  BY DEF Happens, Event, States, Codes
<1>3. Typed(b) /\ b.destroyed = TRUE /\ b.shuttingDown = c.shuttingDown
  BY DEF Sound, Partial, Typed, Core
<1> HIDE DEF b, e, o
<1>4. Typed(d) /\ d.destroyed = TRUE /\ d.shuttingDown = c.shuttingDown
  BY <1>3, StateOnly DEF Like, States, Typed, Core
<1> HIDE DEF d
<1>5. g.destroyed = TRUE /\ g.shuttingDown = c.shuttingDown
  BY <1>1, <1>2, <1>4, EventsOnly DEF Like
<1>6. g.events # <<>>
  <2>1. g.events = IF Len(d.events) = EventCapacity THEN Append(Tail(d.events), o)
                   ELSE Append(d.events, e)
    BY <1>1, <1>4 DEF PushEvent, Typed, Core, o
  <2>2. o \in Event
    BY DEF Happens, Event, Codes, o
  <2>3. d.events \in Seq(Event) /\ (Len(d.events) = EventCapacity => d.events # <<>>)
    BY <1>4, CoreAssumption DEF Typed, Core
  <2>4. ASSUME NEW q \in Seq(Event), NEW f \in Event PROVE Append(q, f) # <<>>
    <3>1. Len(Append(q, f)) = Len(q) + 1 /\ Len(q) \in Nat /\ Len(<<>>) = 0
      OBVIOUS
    <3>2. ASSUME Append(q, f) = <<>> PROVE FALSE
      <4>1. Len(Append(q, f)) = 0
        BY <3>1, <3>2, Zenon
      <4> QED BY <3>1, <4>1
    <3> QED BY <3>2
  <2>5. Len(d.events) = EventCapacity => Tail(d.events) \in Seq(Event)
    BY <2>3
  <2>6. CASE Len(d.events) = EventCapacity
    <3>1. g.events = Append(Tail(d.events), o)
      BY <2>1, <2>6
    <3> QED BY <2>2, <2>4, <2>5, <2>6, <3>1
  <2>7. CASE Len(d.events) # EventCapacity
    <3>1. g.events = Append(d.events, e)
      BY <2>1, <2>7
    <3> QED BY <1>2, <2>3, <2>4, <3>1
  <2> QED BY <2>6, <2>7
<1> QED BY <1>5, <1>6

------------------------------------------------------------------------------
(* What pump_native reads *)

(* The principle of induction, for sets. *)
LEMMA SetInduction ==
  ASSUME NEW T, T \subseteq Nat, 0 \in T, \A n \in T : n + 1 \in T
  PROVE  T = Nat
<1> DEFINE R == OpToRel(<, Nat)
<1> SUFFICES ASSUME Nat \ T # {} PROVE FALSE
  OBVIOUS
<1>1. IsWellFoundedOn(R, Nat)
  BY NatLessThanWellFounded
<1>2. PICK x \in Nat \ T : \A y \in Nat \ T : <<y, x>> \notin R
  BY <1>1, WFMin
<1>3. x - 1 \in Nat /\ x - 1 \notin T /\ x - 1 < x
  BY x # 0
<1>4. <<x - 1, x>> \in R
  BY <1>3 DEF OpToRel
<1> QED BY <1>2, <1>3, <1>4

\* What pump_native starts from, and gathers.
Base == [channel |-> sharedChannel, snapshot |-> snapshot, done |-> done, terminal |-> terminal,
         destroying |-> FALSE]
View == [channel : BOOLEAN, snapshot : States \cup Ops \cup {"none"}, done : Results,
         terminal : Reasons, destroying : BOOLEAN]

\* FoldLeft over a set of indices, given that over the smaller ones.
Body(ev, g, s) == IF s = {} THEN Base ELSE Handle(g[s \ {Max(s)}], ev[Max(s)])
Folds(ev, g, n) == g = [s \in SUBSET (1..n) |-> Body(ev, g, s)]

\* The last index is the largest.
LEMMA LastIsMax == ASSUME NEW n \in Nat, NEW s \in SUBSET (1..(n + 1)), n + 1 \in s
                   PROVE  Max(s) = n + 1
<1> DEFINE P(x) == x \in s /\ \A y \in s : x >= y
<1>1. P(n + 1)
  OBVIOUS
<1>2. Max(s) = CHOOSE x : P(x)
  BY DEF Max
<1>3. P(Max(s))
  BY <1>1, <1>2, Zenon
<1>4. Max(s) \in s /\ Max(s) >= n + 1
  BY <1>3, Zenon
<1>5. Max(s) \in 1..(n + 1)
  BY <1>4
<1>6. \A x \in 1..(n + 1) : x >= n + 1 => x = n + 1
  OBVIOUS
<1> QED BY <1>4, <1>5, <1>6, Zenon

\* There is such a function, built up event by event.
LEMMA FoldExists == ASSUME NEW ev, NEW n \in Nat PROVE \E g : Folds(ev, g, n)
<1> DEFINE T == {k \in Nat : \E g : Folds(ev, g, k)}
<1>1. 0 \in T
  <2> DEFINE g == [s \in SUBSET (1..0) |-> Base]
  <2>1. 1..0 = {}
    OBVIOUS
  <2>2. \A s \in SUBSET (1..0) : s = {}
    BY <2>1
  <2>3. [s \in SUBSET (1..0) |-> Base] = [s \in SUBSET (1..0) |-> Body(ev, g, s)]
    BY <2>2, Zenon DEF Body
  <2> QED BY <2>3, Zenon DEF Folds
<1>2. ASSUME NEW k \in T PROVE k + 1 \in T
  <2>1. k \in Nat /\ k + 1 \in Nat
    OBVIOUS
  <2>2. PICK g : Folds(ev, g, k)
    OBVIOUS
  <2> DEFINE h == [s \in SUBSET (1..(k + 1)) |-> IF k + 1 \in s THEN Handle(g[s \ {k + 1}], ev[k + 1])
                                                 ELSE g[s]]
  <2>3. ASSUME NEW s \in SUBSET (1..k) PROVE s \in SUBSET (1..(k + 1)) /\ h[s] = g[s]
    <3>1. s \in SUBSET (1..(k + 1)) /\ k + 1 \notin s
      BY <2>1
    <3> QED BY <3>1, Zenon
  <2>4. ASSUME NEW s \in SUBSET (1..(k + 1)) PROVE h[s] = Body(ev, h, s)
    <3>1. CASE k + 1 \in s
      <4>1. Max(s) = k + 1 /\ s # {}
        BY <2>1, <3>1, LastIsMax
      <4>2. s \ {k + 1} \in SUBSET (1..k)
        BY <2>1
      <4>3. h[s] = Handle(g[s \ {k + 1}], ev[k + 1])
        BY <3>1, Zenon
      <4>4. h[s \ {k + 1}] = g[s \ {k + 1}]
        BY <2>3, <4>2
      <4> HIDE DEF h
      <4> QED BY <4>1, <4>3, <4>4, Zenon DEF Body
    <3>2. CASE k + 1 \notin s
      <4>0. ASSUME NEW x \in s PROVE x \in 1..k
        <5>1. x \in 1..(k + 1) /\ x # k + 1
          BY <3>2
        <5> QED BY <2>1, <5>1
      <4>1. s \in SUBSET (1..k) /\ s \ {Max(s)} \in SUBSET (1..k)
        BY <4>0, Zenon
      <4>2. h[s] = g[s] /\ h[s \ {Max(s)}] = g[s \ {Max(s)}]
        BY <2>3, <4>1
      <4>3. g[s] = Body(ev, g, s)
        BY <2>2, <4>1, Zenon DEF Folds
      <4> HIDE DEF h
      <4> QED BY <4>2, <4>3, Zenon DEF Body
    <3> QED BY <3>1, <3>2
  <2>5. h = [s \in SUBSET (1..(k + 1)) |-> h[s]]
    OBVIOUS
  <2> HIDE DEF h
  <2>6. Folds(ev, h, k + 1)
    BY <2>4, <2>5, Zenon DEF Folds
  <2> QED BY <2>1, <2>6
<1>3. T = Nat
  <2> HIDE DEF T
  <2>1. T \subseteq Nat
    BY DEF T
  <2> QED BY <1>1, <1>2, <2>1, SetInduction
<1> QED BY <1>3

\* Handled takes the events one by one, in their order.
LEMMA HandledInOrder ==
  ASSUME core.events \in Seq(Event)
  PROVE  \E h : /\ h[0] = Base /\ h[Len(core.events)] = Handled
                /\ \A k \in 0..(Len(core.events) - 1) : h[k + 1] = Handle(h[k], core.events[k + 1])
<1> DEFINE ev == core.events
           n == Len(ev)
           g == CHOOSE g : Folds(ev, g, n)
           h == [k \in 0..n |-> g[1..k]]
<1>1. n \in Nat /\ DOMAIN ev = 1..n
  OBVIOUS
<1>2. Handled = g[DOMAIN ev]
  BY <1>1 DEF Handled, FoldLeft, MapThenFoldSet, Folds, Body, Base
<1>3. Folds(ev, g, n)
  BY <1>1, FoldExists
<1> HIDE DEF g, ev, n
<1>4. ASSUME NEW s \in SUBSET (1..n) PROVE g[s] = Body(ev, g, s)
  BY <1>3, Zenon DEF Folds
<1>5. h[0] = Base
  <2>1. 1..0 = {} /\ 0 \in 0..n
    BY <1>1
  <2> QED BY <1>4, <2>1 DEF Body
<1>6. h[n] = Handled
  BY <1>1, <1>2
<1>7. ASSUME NEW k \in 0..(n - 1) PROVE h[k + 1] = Handle(h[k], ev[k + 1])
  <2>0. k \in Nat /\ k \in 0..n /\ k + 1 \in 0..n /\ k + 1 \in 1..(k + 1)
    BY <1>1
  <2>1. /\ 1..(k + 1) \in SUBSET (1..n) /\ 1..k \in SUBSET (1..n) /\ 1..(k + 1) # {}
        /\ 1..(k + 1) \in SUBSET (1..(k + 1))
    <3>1. \A x \in 1..(k + 1) : x \in 1..n
      BY <1>1, <2>0
    <3>2. \A x \in 1..k : x \in 1..n
      BY <1>1, <2>0
    <3> QED BY <2>0, <3>1, <3>2, Zenon
  <2>4. (1..(k + 1)) \ {k + 1} = 1..k
    <3>1. \A x : x \in 1..(k + 1) /\ x # k + 1 <=> x \in 1..k
      BY <2>0
    <3> QED BY <3>1, Zenon
  <2>2. Max(1..(k + 1)) = k + 1
    BY <2>0, <2>1, LastIsMax, Zenon
  <2>3. g[1..(k + 1)] = Handle(g[1..k], ev[k + 1])
    BY <1>4, <2>1, <2>2, <2>4, Zenon DEF Body
  <2> QED BY <2>0, <2>3
<1> HIDE DEF h
<1> QED BY <1>5, <1>6, <1>7 DEF ev, n

\* What one event changes.
LEMMA HandleDoes ==
  ASSUME NEW d \in View, NEW e \in Event, NEW f, f = Handle(d, e)
  PROVE  /\ f \in View
         /\ Shows(e) => /\ f.snapshot = e.what
                        /\ d.destroying => f.destroying
                        /\ e.what = "destroying" /\ ~closing => f.destroying
                        /\ f.channel => d.channel /\ e.what = "ready"
         /\ ~Shows(e) => f.snapshot = d.snapshot /\ (d.destroying => f.destroying)
         /\ ~Binds(e) /\ f.channel => d.channel
         /\ closing \/ d.terminal # "none" => f.terminal = d.terminal
         /\ ~closing /\ d.terminal = "none" =>
              /\ Names(e) /\ e.kind \in {"complete", "error"} => f.terminal = "mismatch"
              /\ f.terminal = "other" => Fails(e)
<1> USE DEF View
<1>1. e.kind \in {"state", "complete", "error", "bound", "exhausted", "forced", "overflow"}
      /\ e.what \in States \cup Ops \cup {"none"} /\ e.code \in Codes
  BY DEF Event
<1>2. ASSUME NEW r \in {"mismatch", "other"}, NEW v \in View, NEW w, w = Reports(v, r)
      PROVE  /\ w \in View /\ w.snapshot = v.snapshot /\ w.destroying = v.destroying
             /\ w.channel = v.channel
             /\ w.terminal = IF closing \/ v.terminal # "none" THEN v.terminal ELSE r
  BY <1>2 DEF Reports, Reasons
<1>3. CASE e.kind = "state"
  <2>1. f = HandleState(d, e.what)
    BY <1>3 DEF Handle
  <2>2. /\ f \in View /\ f.snapshot = e.what /\ f.terminal = d.terminal
        /\ f.channel = (d.channel /\ e.what = "ready")
        /\ f.destroying = (d.destroying \/ (e.what = "destroying" /\ ~closing))
    BY <1>1, <2>1 DEF HandleState
  <2> QED BY <1>3, <2>2 DEF Shows, Names, Binds, Fails
<1>4. CASE e.kind = "complete"
  <2> DEFINE v == IF e.what = Awaited
                  THEN [d EXCEPT !.done = IF e.code = "ok" THEN "ok" ELSE "failed"]
                  ELSE d
  <2>1. /\ v \in View /\ v.snapshot = d.snapshot /\ v.destroying = d.destroying
        /\ v.channel = d.channel /\ v.terminal = d.terminal
    <3> HIDE DEF Awaited
    <3> QED BY DEF Results
  <2>2. f = HandleComplete(d, e.what, e.code)
    BY <1>4 DEF Handle
  <2>3. f = IF e.code = "mismatch" THEN Reports(v, "mismatch")
            ELSE IF e.code # "ok" /\ e.what \notin Maintenance THEN Reports(v, "other")
            ELSE v
    BY <2>2 DEF HandleComplete
  <2> HIDE DEF v
  <2>4. CASE e.code = "mismatch"
    <3>1. f = Reports(v, "mismatch")
      BY <2>3, <2>4
    <3>2. /\ f \in View /\ f.snapshot = v.snapshot /\ f.destroying = v.destroying
          /\ f.channel = v.channel
          /\ f.terminal = IF closing \/ v.terminal # "none" THEN v.terminal ELSE "mismatch"
      BY <1>2, <2>1, <3>1
    <3> QED BY <1>4, <2>1, <2>4, <3>2 DEF Shows, Names, Binds, Fails
  <2>5. CASE e.code # "mismatch" /\ e.code # "ok" /\ e.what \notin Maintenance
    <3>1. f = Reports(v, "other")
      BY <2>3, <2>5
    <3>2. /\ f \in View /\ f.snapshot = v.snapshot /\ f.destroying = v.destroying
          /\ f.channel = v.channel
          /\ f.terminal = IF closing \/ v.terminal # "none" THEN v.terminal ELSE "other"
      BY <1>2, <2>1, <3>1
    <3>3. Fails(e)
      BY <1>1, <1>4, <2>5 DEF Fails, Codes
    <3> QED BY <1>4, <2>1, <2>5, <3>2, <3>3 DEF Shows, Names, Binds
  <2>6. CASE e.code # "mismatch" /\ ~(e.code # "ok" /\ e.what \notin Maintenance)
    <3>1. f = v
      BY <2>3, <2>6
    <3> QED BY <1>4, <2>1, <2>6, <3>1 DEF Shows, Names, Binds, Fails
  <2> QED BY <2>4, <2>5, <2>6
<1>5. CASE e.kind = "error"
  <2>1. f = IF e.code = "mismatch" THEN Reports(d, "mismatch") ELSE d
    BY <1>5 DEF Handle
  <2>2. CASE e.code = "mismatch"
    <3>1. f = Reports(d, "mismatch")
      BY <2>1, <2>2
    <3>2. /\ f \in View /\ f.snapshot = d.snapshot /\ f.destroying = d.destroying
          /\ f.channel = d.channel
          /\ f.terminal = IF closing \/ d.terminal # "none" THEN d.terminal ELSE "mismatch"
      BY <1>2, <3>1
    <3> QED BY <1>5, <2>2, <3>2 DEF Shows, Names, Binds, Fails
  <2>3. CASE e.code # "mismatch"
    BY <1>5, <2>1, <2>3 DEF Shows, Names, Binds, Fails
  <2> QED BY <2>2, <2>3
<1>6. CASE e.kind = "bound"
  <2>1. f = [d EXCEPT !.channel = TRUE]
    BY <1>6 DEF Handle
  <2>2. /\ f \in View /\ f.snapshot = d.snapshot /\ f.destroying = d.destroying
        /\ f.terminal = d.terminal
    BY <2>1
  <2> QED BY <1>6, <2>2 DEF Shows, Names, Binds, Fails
<1>7. CASE e.kind = "exhausted"
  <2>1. f = d
    BY <1>7 DEF Handle
  <2> QED BY <1>7, <2>1 DEF Shows, Names, Binds, Fails
<1>8. CASE e.kind \in {"forced", "overflow"}
  <2>1. f = Reports(d, "other")
    BY <1>8 DEF Handle
  <2>2. /\ f \in View /\ f.snapshot = d.snapshot /\ f.destroying = d.destroying
        /\ f.channel = d.channel
        /\ f.terminal = IF closing \/ d.terminal # "none" THEN d.terminal ELSE "other"
    BY <1>2, <2>1
  <2> QED BY <1>8, <2>2 DEF Shows, Names, Binds, Fails
<1> QED BY <1>1, <1>3, <1>4, <1>5, <1>6, <1>7, <1>8

\* What is read of the first k events.
ReadsState(d, ev, k) ==
  /\ \A i \in 1..k : Shows(ev[i]) /\ (\A j \in 1..k : j > i => ~Shows(ev[j]))
                       => d.snapshot = ev[i].what
  /\ \A i \in 1..k : Shows(ev[i]) /\ ev[i].what = "destroying" /\ ~closing => d.destroying
  /\ (\A i \in 1..k : ~Shows(ev[i])) => d.snapshot = snapshot

ReadsChannel(d, ev, k) ==
  /\ \A i \in 1..k : /\ Shows(ev[i]) /\ ev[i].what # "ready"
                     /\ \A j \in 1..k : j > i => ~Binds(ev[j])
                     => ~d.channel
  /\ ~sharedChannel /\ (\A i \in 1..k : ~Binds(ev[i])) => ~d.channel

ReadsReason(d, ev, k) ==
  /\ closing \/ terminal # "none" => d.terminal = terminal
  /\ ~closing /\ terminal = "none" =>
       /\ (\E i \in 1..k : Names(ev[i])) /\ (\E s : Named(ev, s)) => d.terminal = "mismatch"
       /\ d.terminal = "other" => \E i \in 1..k : Fails(ev[i])

Reads(d, ev, k) ==
  d \in View /\ ReadsState(d, ev, k) /\ ReadsChannel(d, ev, k) /\ ReadsReason(d, ev, k)

\* What is read of one event more.
LEMMA ReadMore ==
  ASSUME NEW ev \in Seq(Event), NEW k \in Nat, k + 1 <= Len(ev), NEW d, Reads(d, ev, k),
         NEW f, f = Handle(d, ev[k + 1])
  PROVE  Reads(f, ev, k + 1)
<1> DEFINE e == ev[k + 1]
<1>1. e \in Event /\ DOMAIN ev = 1..Len(ev) /\ k + 1 \in 1..Len(ev)
  OBVIOUS
<1>2. d \in View /\ ReadsState(d, ev, k) /\ ReadsChannel(d, ev, k) /\ ReadsReason(d, ev, k)
  BY Zenon DEF Reads
<1>3. /\ \A i \in 1..k : i \in 1..(k + 1) /\ i < k + 1
      /\ \A i \in 1..(k + 1) : i \in 1..k \/ i = k + 1
      /\ k + 1 \in 1..(k + 1)
      /\ \A i \in 1..k : k + 1 > i
      /\ \A i \in 1..k : i \in DOMAIN ev
      /\ \A i \in 1..(k + 1) : i \in DOMAIN ev
  BY <1>1
<1>4. /\ f \in View
      /\ Shows(e) => /\ f.snapshot = e.what
                     /\ d.destroying => f.destroying
                     /\ e.what = "destroying" /\ ~closing => f.destroying
                     /\ f.channel => d.channel /\ e.what = "ready"
      /\ ~Shows(e) => f.snapshot = d.snapshot /\ (d.destroying => f.destroying)
      /\ ~Binds(e) /\ f.channel => d.channel
      /\ closing \/ d.terminal # "none" => f.terminal = d.terminal
      /\ ~closing /\ d.terminal = "none" =>
           /\ Names(e) /\ e.kind \in {"complete", "error"} => f.terminal = "mismatch"
           /\ f.terminal = "other" => Fails(e)
  <2>1. f = Handle(d, e)
    OBVIOUS
  <2> HIDE DEF e
  <2> QED BY <1>1, <1>2, <2>1, Zenon, HandleDoes
<1> HIDE DEF e
<1>5. ReadsState(f, ev, k + 1)
  <2>1. ASSUME NEW i \in 1..(k + 1), Shows(ev[i]),
               \A j \in 1..(k + 1) : j > i => ~Shows(ev[j])
        PROVE  f.snapshot = ev[i].what
    <3>1. CASE i = k + 1
      BY <1>4, <2>1, <3>1 DEF e
    <3>2. CASE i \in 1..k
      <4>1. ~Shows(e)
        BY <1>3, <2>1, <3>2 DEF e
      <4>2. d.snapshot = ev[i].what
        BY <1>2, <1>3, <2>1, <3>2 DEF ReadsState
      <4> QED BY <1>4, <4>1, <4>2
    <3> QED BY <1>3, <3>1, <3>2
  <2>2. ASSUME NEW i \in 1..(k + 1), Shows(ev[i]), ev[i].what = "destroying", ~closing
        PROVE  f.destroying
    <3>1. CASE i = k + 1
      BY <1>4, <2>2, <3>1 DEF e
    <3>2. CASE i \in 1..k
      BY <1>2, <1>4, <2>2, <3>2 DEF ReadsState
    <3> QED BY <1>3, <3>1, <3>2
  <2>3. ASSUME \A i \in 1..(k + 1) : ~Shows(ev[i]) PROVE f.snapshot = snapshot
    <3>1. ~Shows(e) /\ \A i \in 1..k : ~Shows(ev[i])
      BY <1>3, <2>3 DEF e
    <3> QED BY <1>2, <1>4, <3>1 DEF ReadsState
  <2> QED BY <2>1, <2>2, <2>3, Zenon DEF ReadsState
<1>6. ReadsChannel(f, ev, k + 1)
  <2>1. ASSUME NEW i \in 1..(k + 1), Shows(ev[i]), ev[i].what # "ready",
               \A j \in 1..(k + 1) : j > i => ~Binds(ev[j])
        PROVE  ~f.channel
    <3>1. CASE i = k + 1
      BY <1>4, <2>1, <3>1 DEF e
    <3>2. CASE i \in 1..k
      <4>1. ~Binds(e)
        BY <1>3, <2>1, <3>2 DEF e
      <4>2. ~d.channel
        BY <1>2, <1>3, <2>1, <3>2 DEF ReadsChannel
      <4> QED BY <1>4, <4>1, <4>2
    <3> QED BY <1>3, <3>1, <3>2
  <2>2. ASSUME ~sharedChannel, \A i \in 1..(k + 1) : ~Binds(ev[i]) PROVE ~f.channel
    <3>1. ~Binds(e) /\ \A i \in 1..k : ~Binds(ev[i])
      BY <1>3, <2>2 DEF e
    <3> QED BY <1>2, <1>4, <2>2, <3>1 DEF ReadsChannel
  <2> QED BY <2>1, <2>2, Zenon DEF ReadsChannel
<1>7. ReadsReason(f, ev, k + 1)
  <2>1. ASSUME closing \/ terminal # "none" PROVE f.terminal = terminal
    BY <1>2, <1>4, <2>1 DEF ReadsReason
  <2>2. ASSUME ~closing, terminal = "none", NEW i \in 1..(k + 1), Names(ev[i]),
               NEW s, Named(ev, s)
        PROVE  f.terminal = "mismatch"
    <3>1. CASE \E j \in 1..k : Names(ev[j])
      BY <1>2, <1>4, <2>2, <3>1 DEF ReadsReason
    <3>2. CASE ~\E j \in 1..k : Names(ev[j])
      <4>1. i = k + 1 /\ Names(e)
        BY <1>3, <2>2, <3>2 DEF e
      <4>2. \A j \in 1..k : ~Fails(ev[j])
        BY <1>3, <2>2, <4>1 DEF Named
      <4>3. d.terminal # "other"
        BY <1>2, <2>2, <4>2 DEF ReadsReason
      <4>4. e.kind \in {"complete", "error"}
        BY <1>3, <2>2, <4>1 DEF Named, e
      <4>5. d.terminal \in {"none", "mismatch", "other"}
        BY <1>2 DEF View, Reasons
      <4> QED BY <1>4, <2>2, <4>1, <4>3, <4>4, <4>5
    <3> QED BY <3>1, <3>2
  <2>3. ASSUME ~closing, terminal = "none", f.terminal = "other"
        PROVE  \E i \in 1..(k + 1) : Fails(ev[i])
    <3>1. CASE d.terminal = "none"
      BY <1>3, <1>4, <2>3, <3>1 DEF e
    <3>2. CASE d.terminal # "none"
      <4>1. \E i \in 1..k : Fails(ev[i])
        BY <1>2, <1>4, <2>3, <3>2 DEF ReadsReason
      <4> QED BY <1>3, <4>1
    <3> QED BY <3>1, <3>2
  <2> QED BY <2>1, <2>2, <2>3, Zenon DEF ReadsReason
<1> QED BY <1>4, <1>5, <1>6, <1>7, Zenon DEF Reads

\* Handled reads them all.
LEMMA HandledReads ==
  ASSUME TypeOK
  PROVE  Reads(Handled, core.events, Len(core.events))
<1> DEFINE ev == core.events
           n == Len(ev)
<1>1. ev \in Seq(Event) /\ n \in Nat
  BY DEF TypeOK, CoreTypeOK, Core
<1>2. PICK h : /\ h[0] = Base /\ h[n] = Handled
               /\ \A k \in 0..(n - 1) : h[k + 1] = Handle(h[k], ev[k + 1])
  BY <1>1, HandledInOrder
<1> HIDE DEF ev, n
<1> DEFINE T == {k \in Nat : k <= n => Reads(h[k], ev, k)}
<1>3. 0 \in T
  <2>1. \A i : i \notin 1..0
    OBVIOUS
  <2>2. /\ Base \in View /\ Base.snapshot = snapshot /\ Base.channel = sharedChannel
        /\ Base.terminal = terminal
    <3>1. {sharedChannel, pump} \subseteq BOOLEAN /\ snapshot \in States /\ done \in Results
          /\ terminal \in Reasons
      BY DEF TypeOK
    <3> QED BY <3>1 DEF Base, View
  <2>3. Base.terminal = "other" => ~(terminal = "none")
    BY <2>2
  <2>4. Reads(Base, ev, 0)
    BY <2>1, <2>2, <2>3, Zenon DEF Reads, ReadsState, ReadsChannel, ReadsReason
  <2> QED BY <1>2, <2>4
<1>4. ASSUME NEW k \in T PROVE k + 1 \in T
  <2>1. k \in Nat /\ (k <= n => Reads(h[k], ev, k))
    OBVIOUS
  <2> SUFFICES ASSUME k + 1 <= n PROVE Reads(h[k + 1], ev, k + 1)
    BY <2>1
  <2>2. k <= n /\ k \in 0..(n - 1)
    BY <1>1, <2>1
  <2>3. h[k + 1] = Handle(h[k], ev[k + 1])
    BY <1>2, <2>2 DEF ev, n
  <2>4. Reads(h[k], ev, k)
    BY <2>1, <2>2
  <2> QED BY <1>1, <2>1, <2>3, <2>4, ReadMore DEF n
<1>5. T = Nat
  <2> HIDE DEF T
  <2>1. T \subseteq Nat
    BY DEF T
  <2> QED BY <1>3, <1>4, <2>1, SetInduction
<1>6. Reads(h[n], ev, n)
  BY <1>1, <1>5
<1> QED BY <1>2, <1>6 DEF ev, n

------------------------------------------------------------------------------
(* The driver's invariant *)

\* How the flags of the core go with those of the driver.
Linked ==
  /\ core.shuttingDown => closing
  /\ cleanup => core.shuttingDown
  /\ core.destroyed <=> dpc = "ended"
  /\ dpc = "ended" => core.events # <<>>

\* The events there are, and those the session may still cause.
Ahead == Len(core.events) + (IF owner = "start" THEN 1 ELSE 0)
                          + (IF core.shuttingDown THEN 0 ELSE 1)
\* Those a cleanup may cause.
Rest == IF core.pending = {} THEN 0 ELSE 2

\* However many events a there are in a round of the driver, the ring has space for those of
\* its next steps, and for the r of a cleanup.
Fits(at, pumping, ends, cleaning, a, r) ==
  /\ at = "wait" \/ (at = "top" /\ ~pumping) => a <= 2
  /\ at = "top" /\ pumping /\ ~cleaning => a <= IF ends THEN 13 ELSE 6
  /\ at = "poll" /\ ~cleaning => a <= 8
  /\ at = "send" /\ ~cleaning => a <= 13
  /\ at \in {"top", "poll", "send"} /\ cleaning => a + r <= 17

Room == Fits(dpc, pump, closing, cleanup, Ahead, Rest)

\* What the session has read, and the events it has not taken yet, say how the core is.
Viewed == dpc # "ended" => Good(core, snapshot, sharedChannel)

DriverInv == TypeOK /\ Sound(core) /\ Linked /\ Room /\ Viewed /\ EndIsReported

DriverTypes ==
  /\ CoreTypeOK
  /\ dpc \in {"top", "poll", "send", "wait", "ended"}
  /\ pump \in BOOLEAN /\ permit \in BOOLEAN /\ closing \in BOOLEAN
  /\ controlSent \in BOOLEAN /\ cleanup \in BOOLEAN /\ sharedChannel \in BOOLEAN
  /\ woken \in BOOLEAN
  /\ snapshot \in States /\ done \in Results /\ terminal \in Reasons
  /\ owner \in {"start", "allocating", "waiting", "live", "gone"}

\* The type invariant, variable by variable.
LEMMA FlagTypes == TypeOK <=> DriverTypes
<1>1. {pump, permit, closing, controlSent, cleanup, sharedChannel, woken} \subseteq BOOLEAN
        <=> /\ pump \in BOOLEAN /\ permit \in BOOLEAN /\ closing \in BOOLEAN
            /\ controlSent \in BOOLEAN /\ cleanup \in BOOLEAN /\ sharedChannel \in BOOLEAN
            /\ woken \in BOOLEAN
  BY Zenon
<1> QED BY <1>1, Zenon DEF TypeOK, DriverTypes

\* The sizes that Room compares.
LEMMA Sizes ==
  ASSUME Sound(core)
  PROVE  Len(core.events) \in Nat /\ core.events \in Seq(Event) /\ CoreTypeOK
         /\ core.state \in States /\ core.pending \in SUBSET Pending
         /\ core.shuttingDown \in BOOLEAN /\ core.destroyed \in BOOLEAN
         /\ core.armed \in SUBSET Deadlines /\ core.controls \in SUBSET Ops
         /\ EventCapacity \in Nat
  BY CoreAssumption DEF Sound, Partial, Typed, Core, CoreTypeOK

\* What Ahead and Rest may be.
LEMMA AheadSizes ==
  ASSUME Sound(core)
  PROVE  /\ Ahead \in Nat /\ Len(core.events) <= Ahead /\ Rest \in {0, 2} /\ Rest \in Nat
         /\ Ahead <= Len(core.events) + 2
         /\ owner # "start" => Ahead <= Len(core.events) + 1
<1> DEFINE n == Len(core.events)
           x == IF owner = "start" THEN 1 ELSE 0
           z == IF core.shuttingDown THEN 0 ELSE 1
           r == IF core.pending = {} THEN 0 ELSE 2
<1>1. n \in Nat
  BY Sizes
<1>2. Ahead = n + x + z /\ Rest = r
  BY Zenon DEF Ahead, Rest
<1>3. x \in {0, 1} /\ z \in {0, 1} /\ r \in {0, 2} /\ (owner # "start" => x = 0)
  OBVIOUS
<1> HIDE DEF x, z, r
<1> QED BY <1>1, <1>2, <1>3

\* How a step changes the sizes.
LEMMA AheadAfter ==
  ASSUME Sound(core), Sound(core')
  PROVE  /\ Ahead \in Nat /\ Ahead' \in Nat
         /\ Rest \in Nat /\ Rest <= 2 /\ Rest' \in Nat /\ Rest' <= 2
         /\ Len(core.events) \in Nat /\ Len(core'.events) \in Nat
         /\ core'.shuttingDown = core.shuttingDown /\ (owner = "start" <=> owner' = "start") =>
              /\ \A k \in Nat : Len(core'.events) <= Len(core.events) + k => Ahead' <= Ahead + k
              /\ Len(core'.events) <= Len(core.events) + 0 => Ahead' <= Ahead
         /\ owner = "start" /\ owner' # "start" /\ core'.shuttingDown = core.shuttingDown =>
              /\ Len(core'.events) <= Len(core.events) + 1 => Ahead' <= Ahead
              /\ Len(core'.events) <= Len(core.events) + 3 => Ahead' <= Ahead + 2
         /\ ~core.shuttingDown /\ core'.shuttingDown /\ (owner = "start" <=> owner' = "start") =>
              /\ Len(core'.events) <= Len(core.events) + 1 => Ahead' <= Ahead
              /\ Len(core'.events) <= Len(core.events) + 3 => Ahead' <= Ahead + 2
         /\ core'.pending = core.pending => Rest' = Rest
         /\ core'.pending = {} => Rest' = 0
<1> DEFINE n == Len(core.events)
           m == Len(core'.events)
           x == IF owner = "start" THEN 1 ELSE 0
           y == IF owner' = "start" THEN 1 ELSE 0
           z == IF core.shuttingDown THEN 0 ELSE 1
           w == IF core'.shuttingDown THEN 0 ELSE 1
           r == IF core.pending = {} THEN 0 ELSE 2
           s == IF core'.pending = {} THEN 0 ELSE 2
<1>1. n \in Nat /\ m \in Nat
  BY DEF Sound, Partial, Typed, Core
<1>2. Ahead = n + x + z /\ Ahead' = m + y + w /\ Rest = r /\ Rest' = s
  BY Zenon DEF Ahead, Rest
<1>3. /\ x \in {0, 1} /\ z \in {0, 1} /\ r \in {0, 2} /\ y \in {0, 1} /\ w \in {0, 1} /\ s \in {0, 2}
      /\ (owner = "start" <=> owner' = "start") => x = y
      /\ owner = "start" /\ owner' # "start" => x = 1 /\ y = 0
      /\ core'.pending = core.pending => s = r
      /\ core'.pending = {} => s = 0
  OBVIOUS
<1>4. /\ core'.shuttingDown = core.shuttingDown => z = w
      /\ ~core.shuttingDown /\ core'.shuttingDown => z = 1 /\ w = 0
  BY Zenon
<1> HIDE DEF n, m, x, y, z, w, r, s
<1>5. /\ z = w /\ x = y =>
           /\ \A k \in Nat : m <= n + k => m + y + w <= n + x + z + k
           /\ m <= n + 0 => m + y + w <= n + x + z
      /\ (z = w /\ x = 1 /\ y = 0) \/ (z = 1 /\ w = 0 /\ x = y) =>
           /\ m <= n + 1 => m + y + w <= n + x + z
           /\ m <= n + 3 => m + y + w <= n + x + z + 2
  BY <1>1, <1>3
<1>6. n + x + z \in Nat /\ m + y + w \in Nat /\ r \in Nat /\ r <= 2 /\ s \in Nat /\ s <= 2
  BY <1>1, <1>3
<1>7. /\ Ahead \in Nat /\ Ahead' \in Nat
      /\ Rest \in Nat /\ Rest <= 2 /\ Rest' \in Nat /\ Rest' <= 2
      /\ core'.pending = core.pending => Rest' = Rest
      /\ core'.pending = {} => Rest' = 0
  BY <1>2, <1>3, <1>6, Zenon
<1>8. core'.shuttingDown = core.shuttingDown /\ (owner = "start" <=> owner' = "start") =>
              /\ \A k \in Nat : m <= n + k => Ahead' <= Ahead + k
              /\ m <= n + 0 => Ahead' <= Ahead
  <2>1. core'.shuttingDown = core.shuttingDown => z = w
    BY <1>4, Zenon
  <2>2. (owner = "start" <=> owner' = "start") => x = y
    BY <1>3, Zenon
  <2>3. ASSUME z = w, x = y, NEW k \in Nat, m <= n + k PROVE Ahead' <= Ahead + k
    <3>1. m + y + w <= n + x + z + k
      BY <1>1, <1>3, <2>3
    <3> QED BY <1>2, <3>1
  <2>4. ASSUME z = w, x = y, m <= n + 0 PROVE Ahead' <= Ahead
    <3>1. m + y + w <= n + x + z
      BY <1>1, <1>3, <2>4
    <3> QED BY <1>2, <3>1
  <2> QED BY <2>1, <2>2, <2>3, <2>4, Zenon
<1>9. owner = "start" /\ owner' # "start" /\ core'.shuttingDown = core.shuttingDown =>
              /\ m <= n + 1 => Ahead' <= Ahead
              /\ m <= n + 3 => Ahead' <= Ahead + 2
  <2> SUFFICES ASSUME owner = "start", owner' # "start", core'.shuttingDown = core.shuttingDown
               PROVE  /\ m <= n + 1 => Ahead' <= Ahead
                      /\ m <= n + 3 => Ahead' <= Ahead + 2
    OBVIOUS
  <2>1. z = w
    BY <1>4, Zenon
  <2>2. x = 1 /\ y = 0
    BY <1>3, Zenon
  <2> QED BY <1>2, <1>5, <2>1, <2>2, Zenon
<1>10. ~core.shuttingDown /\ core'.shuttingDown /\ (owner = "start" <=> owner' = "start") =>
              /\ m <= n + 1 => Ahead' <= Ahead
              /\ m <= n + 3 => Ahead' <= Ahead + 2
  <2> SUFFICES ASSUME ~core.shuttingDown, core'.shuttingDown, owner = "start" <=> owner' = "start"
               PROVE  /\ m <= n + 1 => Ahead' <= Ahead
                      /\ m <= n + 3 => Ahead' <= Ahead + 2
    BY Zenon
  <2>1. z = 1 /\ w = 0
    BY <1>4, Zenon
  <2>2. x = y
    BY <1>3, Zenon
  <2> QED BY <1>2, <1>5, <2>1, <2>2, Zenon
<1> QED BY <1>1, <1>7, <1>8, <1>9, <1>10, Zenon DEF n, m

\* A step that adds no events, goes on with the round or starts one.
LEMMA StillFits ==
  ASSUME NEW at, NEW p, NEW e, NEW c, NEW a \in Nat, NEW r \in Nat, Fits(at, p, e, c, a, r), r <= 2,
         NEW bt, NEW q, NEW f, NEW b \in Nat, NEW s \in Nat, b <= a, s <= 2,
         c => b + s <= a + r,
         \/ bt = at /\ q = p
         \/ at = "wait" /\ bt = "top",
         e => f
  PROVE  Fits(bt, q, f, c, b, s)
<1>1. /\ \A n \in Nat : a <= n => b <= n
      /\ c /\ a + r <= 17 => b + s <= 17
  <2>1. a + r <= 17 /\ b + s <= a + r => b + s <= 17
    OBVIOUS
  <2> QED BY <2>1
<1>2. /\ a <= 2 => a <= 6 /\ a <= 13 /\ b + s <= 17
      /\ a <= 6 => a <= 13
      /\ 2 \in Nat /\ 6 \in Nat /\ 8 \in Nat /\ 13 \in Nat /\ 17 \in Nat
  OBVIOUS
<1>3. /\ at = "wait" \/ (at = "top" /\ ~p) => a <= 2
      /\ at = "top" /\ p /\ ~c => a <= IF e THEN 13 ELSE 6
      /\ at = "poll" /\ ~c => a <= 8
      /\ at = "send" /\ ~c => a <= 13
      /\ at \in {"top", "poll", "send"} /\ c => a + r <= 17
  BY Zenon DEF Fits
<1>4. a <= (IF e THEN 13 ELSE 6) => b <= IF f THEN 13 ELSE 6
  BY <1>1, <1>2, Zenon
<1>5. CASE at = "wait" /\ bt = "top"
  <2>1. b <= 2 /\ b <= (IF f THEN 13 ELSE 6) /\ b + s <= 17
    BY <1>1, <1>2, <1>3, <1>5, Zenon
  <2> QED BY <1>5, <2>1, Zenon DEF Fits
<1>6. CASE bt = at /\ q = p
  BY <1>1, <1>2, <1>3, <1>4, <1>6, Zenon DEF Fits
<1> QED BY <1>5, <1>6

\* What is told to who offers a channel is told to who does not.
LEMMA GoodWithout ==
  ASSUME NEW c, NEW r, NEW b \in BOOLEAN, Good(c, r, b)
  PROVE  Good(c, r, FALSE)
<1>1. Withdrawn(c.events, b) => Withdrawn(c.events, FALSE)
  BY Zenon DEF Withdrawn
<1> QED BY <1>1, Zenon DEF Good

\* Nobody takes an event: what is told stays so.
LEMMA ViewStays ==
  ASSUME TypeOK, Viewed, NEW k, Grown(core, core', k), snapshot' = snapshot,
         sharedChannel' = sharedChannel \/ sharedChannel' = FALSE,
         dpc' # "ended" => dpc # "ended"
  PROVE  Viewed'
<1>1. snapshot \in States /\ sharedChannel \in BOOLEAN /\ FALSE \in BOOLEAN
  BY Zenon, FlagTypes DEF DriverTypes
<1> SUFFICES ASSUME dpc # "ended" PROVE Good(core', snapshot', sharedChannel')
  BY Zenon DEF Viewed
<1>2. Good(core, snapshot, sharedChannel)
  BY Zenon DEF Viewed
<1>3. Good(core', snapshot, sharedChannel)
  BY <1>1, <1>2, Zenon DEF Grown
<1>4. Good(core', snapshot, FALSE)
  BY <1>1, <1>3, Zenon, GoodWithout
<1> QED BY <1>3, <1>4, Zenon

\* A reason that is there stays, and so does what is read.
LEMMA EndStaysReported ==
  ASSUME EndIsReported, snapshot' = snapshot, closing => closing',
         terminal # "none" => terminal' # "none"
  PROVE  EndIsReported'
  BY Zenon DEF EndIsReported, Finished

\* An unchanged core.
LEMMA GrownNot == ASSUME Sound(core), core' = core PROVE Grown(core, core', 0) /\ Sound(core')
<1>1. Typed(core) /\ Kept(core, core)
  BY DEF Sound, Partial, Kept
<1>2. Grown(core, core, 0)
  BY <1>1, Unmoved
<1>3. Sound(core)
  OBVIOUS
<1> QED BY <1>2, <1>3, Zenon

------------------------------------------------------------------------------
(* The steps of the driver *)

\* Everything but what the driver reads of the events keeps its type.
LEMMA TypesStay ==
  ASSUME TypeOK, CoreTypeOK', Session \/ Loop \/ Signal, ~TakeEvents
  PROVE  TypeOK'
<1>1. DriverTypes
  BY FlagTypes
<1>2. "none" \in Results /\ Failing("other") \in Reasons
  BY <1>1 DEF Results, Reasons, Failing, DriverTypes
<1> SUFFICES DriverTypes'
  <2>1. (TypeOK <=> DriverTypes)'
    BY FlagTypes, PTL
  <2> QED BY <2>1, Zenon
<1> USE <1>1, <1>2 DEF shared, driver, DriverTypes
<1>3. CASE Connect
  BY <1>3, Zenon DEF Connect
<1>4. CASE BindChannel
  BY <1>4, Zenon DEF BindChannel, FailsRequest
<1>5. CASE Bound
  BY <1>5, Zenon DEF Bound
<1>6. CASE GivesUp
  BY <1>6, Zenon DEF GivesUp, RequestCleanup
<1>7. CASE Aborts
  BY <1>7, Zenon DEF Aborts
<1>8. CASE Signal
  BY <1>8, Zenon DEF Signal
<1>9. CASE Continues
  BY <1>9, Zenon DEF Continues
<1>10. CASE StartsCleanup
  BY <1>10, Zenon DEF StartsCleanup
<1>11. CASE EndsAtOnce \/ EndsCleanup \/ CleanupExpires
  BY <1>11, Zenon DEF EndsAtOnce, EndsCleanup, CleanupExpires, Ends
<1>12. CASE Polls
  BY <1>12, Zenon DEF Polls
<1>13. ASSUME NEW op \in Ops, SendControl(op) \/ SendFails(op)
       PROVE  DriverTypes'
  BY <1>13, Zenon DEF SendControl, SendFails, RequestCleanup
<1>14. CASE Notified \/ Timer \/ ReceiveFails \/ OwnerClosed \/ ReceivesAnswer \/ ReceivesOther
  BY <1>14, ZenonT(30) DEF Notified, Timer, ReceiveFails, OwnerClosed, ReceivesAnswer,
                      ReceivesOther, Wakes, RequestCleanup
<1>15. CASE RelayFails
  BY <1>15, Zenon DEF RelayFails, RequestCleanup
<1> QED BY <1>3, <1>4, <1>5, <1>6, <1>7, <1>8, <1>9, <1>10, <1>11, <1>12, <1>13, <1>14, <1>15,
           Zenon
        DEF Session, Loop

\* The session's steps on an unchanged core, and the wakes of the driver.
LEMMA RestIsKept ==
  ASSUME DriverInv, core' = core,
         \/ Bound \/ Signal \/ Notified \/ Timer \/ ReceivesOther \/ ReceiveFails \/ OwnerClosed
         \/ BindChannel \/ GivesUp
  PROVE  DriverInv'
<1> USE DEF DriverInv
<1>1. Grown(core, core', 0) /\ Sound(core') /\ CoreTypeOK'
  BY GrownNot DEF Sound, Partial, Typed, CoreTypeOK
<1>2. DriverTypes
  BY FlagTypes
<1>3. TypeOK'
  <2>1. ~TakeEvents
    BY Zenon DEF TakeEvents, Bound, Signal, Notified, Timer, ReceivesOther, ReceiveFails,
             OwnerClosed, BindChannel, GivesUp, Wakes
  <2> QED BY <1>1, <2>1, TypesStay DEF Session, Loop
<1>4. /\ snapshot' = snapshot
      /\ sharedChannel' = sharedChannel \/ sharedChannel' = FALSE
      /\ closing => closing'
      /\ cleanup' = cleanup
  BY <1>2, Zenon DEF Bound, Signal, Notified, Timer, ReceivesOther, ReceiveFails, OwnerClosed,
     BindChannel, GivesUp, FailsRequest, Wakes, RequestCleanup, shared, driver, DriverTypes
<1>5. terminal' = terminal \/ terminal' = Failing("other")
  BY Zenon DEF Bound, Signal, Notified, Timer, ReceivesOther, ReceiveFails, OwnerClosed,
     BindChannel, GivesUp, FailsRequest, Wakes, RequestCleanup, shared, driver
<1>6. (dpc' = dpc /\ pump' = pump) \/ (dpc = "wait" /\ dpc' = "top")
  BY Zenon DEF Bound, Signal, Notified, Timer, ReceivesOther, ReceiveFails, OwnerClosed,
     BindChannel, GivesUp, FailsRequest, Wakes, RequestCleanup, shared, driver
<1>7. owner' = owner \/ (owner # "start" /\ owner' # "start")
  BY Zenon DEF Bound, Signal, Notified, Timer, ReceivesOther, ReceiveFails, OwnerClosed,
     BindChannel, GivesUp, FailsRequest, Wakes, RequestCleanup, shared, driver
<1>8. Linked'
  BY <1>4, <1>6 DEF Linked
<1>9. Room'
  <2>1. /\ Ahead' <= Ahead /\ Ahead \in Nat /\ Ahead' \in Nat
        /\ Rest' = Rest /\ Rest \in Nat /\ Rest <= 2
        /\ Ahead' + Rest <= Ahead + Rest
    <3>1. Len(core.events) \in Nat
      BY Sizes
    <3> DEFINE n == Len(core.events)
               x == IF owner = "start" THEN 1 ELSE 0
               y == IF owner' = "start" THEN 1 ELSE 0
               z == IF core.shuttingDown THEN 0 ELSE 1
               r == IF core.pending = {} THEN 0 ELSE 2
    <3>2. Ahead = n + x + z /\ Ahead' = n + y + z /\ Rest = r /\ Rest' = r
      BY Zenon DEF Ahead, Rest
    <3>3. x \in {0, 1} /\ y \in {0, 1} /\ y <= x /\ z \in {0, 1} /\ r \in {0, 2} /\ n \in Nat
      BY <1>7, <3>1
    <3> HIDE DEF n, x, y, z, r
    <3> QED BY <3>2, <3>3
  <2>2. Fits(dpc, pump, closing, cleanup, Ahead, Rest)
    BY Zenon DEF Room
  <2>3. Fits(dpc', pump', closing', cleanup, Ahead', Rest)
    BY <1>4, <1>6, <2>1, <2>2, Zenon, StillFits
  <2> QED BY <1>4, <2>1, <2>3, Zenon DEF Room
<1>10. Viewed'
  BY <1>1, <1>4, <1>6, Zenon, ViewStays
<1>11. EndIsReported'
  <2>1. terminal # "none" => terminal' # "none"
    BY <1>5 DEF Failing
  <2> QED BY <1>4, <2>1, Zenon, EndStaysReported
<1> QED BY <1>1, <1>3, <1>8, <1>9, <1>10, <1>11, Zenon

\* While the driver runs, there never are more events than this.
LEMMA RoomIsBound ==
  ASSUME Sound(core), Room, TypeOK, dpc # "ended"
  PROVE  Ahead <= 17
<1>1. Ahead \in Nat /\ Rest \in Nat
  BY AheadSizes
<1>2. dpc \in {"top", "poll", "send", "wait"}
  BY FlagTypes DEF DriverTypes
<1>3. /\ \A n \in {2, 6, 8, 13} : Ahead <= n => Ahead <= 17
      /\ Ahead + Rest <= 17 => Ahead <= 17
  BY <1>1
<1> QED BY <1>2, <1>3, Zenon DEF Room, Fits

\* What is left to show of a step that only moves the core on.
LEMMA MoveIsKept ==
  ASSUME DriverInv, Session \/ Loop \/ Signal, ~TakeEvents,
         Sound(core'), NEW k, Grown(core, core', k), dpc # "ended", dpc' # "ended",
         snapshot' = snapshot, sharedChannel' = sharedChannel \/ sharedChannel' = FALSE,
         closing => closing', cleanup' = cleanup,
         terminal' = terminal \/ terminal' = Failing("other"),
         Room'
  PROVE  DriverInv'
<1>1. TypeOK /\ Linked /\ Viewed /\ EndIsReported
  BY Zenon DEF DriverInv
<1>2. TypeOK'
  <2>1. CoreTypeOK'
    BY DEF Sound, Partial, Typed, CoreTypeOK
  <2> QED BY <1>1, <2>1, Zenon, TypesStay
<1>3. core'.shuttingDown = core.shuttingDown /\ core'.destroyed = core.destroyed
  BY Zenon DEF Grown, Kept
<1>4. Linked'
  BY <1>1, <1>3, Zenon DEF Linked
<1>5. Viewed'
  BY <1>1, Zenon, ViewStays
<1>6. EndIsReported'
  <2>1. terminal # "none" => terminal' # "none"
    BY Zenon DEF Failing
  <2> QED BY <1>1, <2>1, Zenon, EndStaysReported
<1> QED BY <1>2, <1>4, <1>5, <1>6, Zenon DEF DriverInv

\* TurnAllocation::connect reports the new state and takes its part of Ahead.
LEMMA ConnectIsKept == ASSUME DriverInv, Connect PROVE DriverInv'
<1>1. TypeOK /\ Sound(core) /\ Linked /\ Room
  BY Zenon DEF DriverInv
<1>2. /\ StartAllocation /\ owner = "start" /\ owner' = "allocating"
      /\ dpc' = dpc /\ pump' = pump /\ cleanup' = cleanup
      /\ closing' = closing /\ sharedChannel' = sharedChannel /\ snapshot' = snapshot
      /\ terminal' = terminal
  BY Zenon DEF Connect, driver
<1>3. /\ ~core.shuttingDown /\ ~core.destroyed /\ core.state = "null"
      /\ core' = StartOperation(SetState(core, "allocating"), "allocate", 0)
  BY <1>2 DEF StartAllocation, Open, IsOpen
<1>4. dpc # "ended" /\ ~cleanup
  BY <1>1, <1>3, Zenon DEF Linked
<1>5. Sound(core')
  <2>1. CoreNext
    BY <1>2, Zenon DEF CoreNext
  <2> QED BY <1>1, <2>1, MethodIsSound
<1>6. Len(core.events) + 2 = Ahead /\ Len(core.events) \in Nat /\ Ahead <= 17
  <2>1. Len(core.events) \in Nat
    BY <1>1, Sizes
  <2>2. Ahead <= 17
    BY <1>1, <1>4, RoomIsBound
  <2> QED BY <1>2, <1>3, <2>1, <2>2 DEF Ahead
<1>7. Space(core, 1) /\ Typed(core)
  BY <1>1, <1>6, CoreAssumption, DriverAssumption DEF Space, Sound, Partial
<1>8. Grown(core, core', 1)
  <2> DEFINE c == SetState(core, "allocating")
  <2>1. "allocating" \in States /\ "allocating" # core.state
        /\ "allocate" \in Ops /\ 0 \in 0..MaxNonceRetries
    BY <1>3, CoreAssumption DEF States, Ops
  <2>2. Grown(core, c, 1)
    BY <1>3, <1>7, <2>1, Changed
  <2>3. Typed(c)
    BY <1>7, <2>1, StateOnly
  <2> HIDE DEF c
  <2>4. Grown(c, core', 0)
    BY <1>3, <2>1, <2>3, StartIsUntold DEF c
  <2>5. Typed(core')
    BY <1>5 DEF Sound, Partial
  <2>6. 1 + 0 <= 1 /\ 1 \in Nat /\ 0 \in Nat
    OBVIOUS
  <2> QED BY <1>7, <2>2, <2>3, <2>4, <2>5, <2>6, Zenon, GrownTwice
<1>9. Room'
  <2>1. Len(core'.events) <= Len(core.events) + 1 /\ core'.shuttingDown = core.shuttingDown
    BY <1>8, Zenon DEF Grown, Kept
  <2>2. /\ Ahead \in Nat /\ Ahead' \in Nat
        /\ Rest \in Nat /\ Rest <= 2 /\ Rest' \in Nat /\ Rest' <= 2
        /\ Ahead' <= Ahead
    <3>1. owner' # "start"
      BY <1>2
    <3> QED BY <1>1, <1>2, <1>5, <2>1, <3>1, Zenon, AheadAfter
  <2>3. dpc = dpc /\ pump = pump /\ (closing => closing)
        /\ (cleanup => Ahead' + Rest' <= Ahead + Rest)
    BY <1>4, Zenon
  <2>4. Fits(dpc, pump, closing, cleanup, Ahead, Rest)
    BY <1>1, Zenon DEF Room
  <2>5. Fits(dpc, pump, closing, cleanup, Ahead', Rest')
    BY <1>4, <2>2, <2>3, <2>4, Zenon, StillFits
  <2> QED BY <1>2, <2>5, Zenon DEF Room
<1>10. ~TakeEvents
  BY <1>2, <1>4, Zenon DEF TakeEvents, Connect
<1> QED BY <1>2, <1>4, <1>5, <1>8, <1>9, <1>10, Zenon, MoveIsKept DEF Session

\* A core that moves on without an event, its transactions as before or outside a cleanup.
LEMMA RoomStays ==
  ASSUME Sound(core), Sound(core'), Room, Grown(core, core', 0),
         core'.pending = core.pending \/ ~cleanup,
         owner = "start" <=> owner' = "start",
         \/ dpc' = dpc /\ pump' = pump
         \/ dpc = "wait" /\ dpc' = "top",
         closing => closing', cleanup' = cleanup
  PROVE  Room'
<1>1. Len(core'.events) <= Len(core.events) + 0 /\ core'.shuttingDown = core.shuttingDown
  BY Zenon DEF Grown, Kept
<1>2. /\ Ahead \in Nat /\ Ahead' \in Nat /\ Ahead' <= Ahead
      /\ Rest \in Nat /\ Rest <= 2 /\ Rest' \in Nat /\ Rest' <= 2
      /\ core'.pending = core.pending => Rest' = Rest
  BY <1>1, Zenon, AheadAfter
<1>3. cleanup => Ahead' + Rest' <= Ahead + Rest
  <2>1. ASSUME cleanup PROVE Ahead' + Rest' <= Ahead + Rest
    <3>1. Rest' = Rest
      BY <1>2, <2>1, Zenon
    <3>2. \A a, b, r \in Nat : a <= b => a + r <= b + r
      OBVIOUS
    <3> QED BY <1>2, <3>1, <3>2, Zenon
  <2> QED BY <2>1
<1>4. Fits(dpc, pump, closing, cleanup, Ahead, Rest)
  BY Zenon DEF Room
<1>5. Fits(dpc', pump', closing', cleanup, Ahead', Rest')
  BY <1>2, <1>3, <1>4, Zenon, StillFits
<1> QED BY <1>5, Zenon DEF Room

\* prepare_channel starts two requests, which report nothing.
LEMMA BindIsKept == ASSUME DriverInv, BindChannel PROVE DriverInv'
<1>1. TypeOK /\ Sound(core) /\ Linked /\ Room
  BY Zenon DEF DriverInv
<1>2. CASE core' = core
  BY <1>2, RestIsKept
<1>3. CASE core' # core
  <2>1. /\ ~core.destroyed /\ ~core.shuttingDown /\ core.state = "ready"
        /\ core' = StartOperation(StartOperation(core, "permission", 0), "channel", 0)
    BY <1>3 DEF BindChannel, FailsRequest, Open, IsOpen
  <2>2. /\ owner # "start" /\ owner' # "start"
        /\ dpc' = dpc /\ pump' = pump /\ cleanup' = cleanup
        /\ closing' = closing /\ sharedChannel' = sharedChannel /\ snapshot' = snapshot
        /\ terminal' = terminal
    <3>1. owner = "allocating" /\ owner' \in {"live", "waiting"}
      BY DEF BindChannel
    <3>2. /\ dpc' = dpc /\ pump' = pump /\ cleanup' = cleanup
          /\ closing' = closing /\ sharedChannel' = sharedChannel /\ snapshot' = snapshot
          /\ terminal' = terminal
      BY <1>3, Zenon DEF BindChannel, FailsRequest
    <3> QED BY <3>1, <3>2
  <2>3. dpc # "ended" /\ ~cleanup
    BY <1>1, <2>1, Zenon DEF Linked
  <2>4. Grown(core, core', 0) /\ Sound(core')
    <3> DEFINE c == StartOperation(core, "permission", 0)
    <3>1. "permission" \in Ops /\ "channel" \in Ops /\ 0 \in 0..MaxNonceRetries
          /\ "permission" \in OpsOf("ready") /\ "channel" \in OpsOf("ready")
      BY CoreAssumption DEF Ops, OpsOf, Maintenance
    <3>2. Sound(c) /\ c.state = "ready"
      BY <1>1, <2>1, <3>1, OperationFits DEF Sound
    <3>3. Grown(core, c, 0)
      BY <1>1, <3>1, StartIsUntold DEF Sound, Partial
    <3> HIDE DEF c
    <3>4. core' = StartOperation(c, "channel", 0)
      BY <2>1 DEF c
    <3>5. Sound(core')
      BY <3>1, <3>2, <3>4, OperationFits DEF Sound
    <3>6. Grown(c, core', 0)
      BY <3>1, <3>2, <3>4, StartIsUntold DEF Sound, Partial
    <3>7. Typed(core) /\ Typed(c) /\ Typed(core') /\ 0 + 0 <= 0 /\ 0 \in Nat
      BY <1>1, <3>2, <3>5 DEF Sound, Partial
    <3> QED BY <3>3, <3>5, <3>6, <3>7, Zenon, GrownTwice
  <2>5. Room'
    BY <1>1, <2>2, <2>3, <2>4, Zenon, RoomStays
  <2>6. ~TakeEvents
    BY <2>2, Zenon DEF TakeEvents, BindChannel
  <2> QED BY <2>2, <2>3, <2>4, <2>5, <2>6, Zenon, MoveIsKept DEF Session
<1> QED BY <1>2, <1>3

\* What is left to show of a step that shuts the core down.
LEMMA ShutIsKept ==
  ASSUME DriverInv, Session \/ Loop \/ Signal, ~TakeEvents,
         Sound(core'), core'.shuttingDown, core'.destroyed = core.destroyed,
         \A r \in States, b \in BOOLEAN : Good(core, r, b) => Good(core', r, b),
         dpc # "ended", dpc' # "ended",
         snapshot' = snapshot, sharedChannel' = sharedChannel \/ sharedChannel' = FALSE,
         closing', terminal' = terminal, Room'
  PROVE  DriverInv'
<1>1. TypeOK /\ Linked /\ Viewed /\ EndIsReported
  BY Zenon DEF DriverInv
<1>2. TypeOK'
  <2>1. CoreTypeOK'
    BY DEF Sound, Partial, Typed, CoreTypeOK
  <2> QED BY <1>1, <2>1, Zenon, TypesStay
<1>3. Linked'
  BY <1>1, Zenon DEF Linked
<1>4. Viewed'
  <2>1. snapshot \in States /\ sharedChannel \in BOOLEAN /\ FALSE \in BOOLEAN
    BY <1>1, Zenon, FlagTypes DEF DriverTypes
  <2>2. Good(core, snapshot, sharedChannel)
    BY <1>1, Zenon DEF Viewed
  <2>3. Good(core', snapshot, sharedChannel) /\ Good(core', snapshot, FALSE)
    BY <2>1, <2>2, Zenon, GoodWithout
  <2> QED BY <2>3, Zenon DEF Viewed
<1>5. EndIsReported'
  BY <1>1, Zenon, EndStaysReported
<1> QED BY <1>2, <1>3, <1>4, <1>5, Zenon DEF DriverInv

\* deallocate and drop report the new state and take their part of Ahead.
LEMMA GivesUpIsKept == ASSUME DriverInv, GivesUp PROVE DriverInv'
<1>1. TypeOK /\ Sound(core) /\ Linked /\ Room
  BY Zenon DEF DriverInv
<1>2. CASE ~IsOpen(core)
  <2>1. core' = core
    BY <1>2, Zenon DEF GivesUp, GracefulShutdown, Graceful
  <2> QED BY <2>1, RestIsKept
<1>3. CASE IsOpen(core)
  <2>1. ~core.destroyed /\ ~core.shuttingDown
    BY <1>3 DEF IsOpen
  <2>2. /\ dpc' = dpc /\ pump' = pump /\ cleanup' = cleanup /\ closing' = TRUE
        /\ sharedChannel' = FALSE /\ snapshot' = snapshot /\ terminal' = terminal
        /\ core' = Graceful(core) /\ GracefulShutdown
    BY Zenon DEF GivesUp, RequestCleanup, GracefulShutdown, driver
  <2>3. owner # "start" /\ owner' # "start"
    BY DEF GivesUp
  <2>4. dpc # "ended" /\ ~cleanup
    BY <1>1, <2>1, Zenon DEF Linked
  <2>5. Sound(core')
    <3>1. CoreNext
      BY <2>2, Zenon DEF CoreNext
    <3> QED BY <1>1, <3>1, MethodIsSound
  <2>6. Space(core, 1)
    <3>1. Ahead <= 17
      BY <1>1, <2>4, RoomIsBound
    <3>2. Ahead = Len(core.events) + 1 /\ Len(core.events) \in Nat
      BY <1>1, <2>1, <2>3, Sizes DEF Ahead
    <3> QED BY <3>1, <3>2, CoreAssumption, DriverAssumption DEF Space
  <2>7. /\ Len(core'.events) <= Len(core.events) + 1
        /\ core'.shuttingDown /\ core'.destroyed = core.destroyed
        /\ \A r \in States, b \in BOOLEAN : Good(core, r, b) => Good(core', r, b)
    <3>1. Sound(core) /\ core' = Graceful(core)
      BY <1>1, <2>2, Zenon
    <3> QED BY <1>3, <2>6, <3>1, GracefulIsTold, ZenonT(60)
  <2>8. Room'
    <3>1. /\ Ahead \in Nat /\ Ahead' \in Nat /\ Ahead' <= Ahead
          /\ Rest \in Nat /\ Rest <= 2 /\ Rest' \in Nat /\ Rest' <= 2
      BY <1>1, <2>1, <2>3, <2>5, <2>7, Zenon, AheadAfter
    <3>2. Fits(dpc, pump, closing, cleanup, Ahead, Rest)
      BY <1>1, Zenon DEF Room
    <3>3. dpc = dpc /\ pump = pump /\ (closing => TRUE)
          /\ (cleanup => Ahead' + Rest' <= Ahead + Rest)
      BY <2>4, Zenon
    <3>4. Fits(dpc, pump, TRUE, cleanup, Ahead', Rest')
      BY <3>1, <3>2, <3>3, Zenon, StillFits
    <3> QED BY <2>2, <3>4, Zenon DEF Room
  <2>9. ~TakeEvents
    BY <2>2, <2>4, Zenon DEF TakeEvents, GivesUp
  <2> QED BY <2>2, <2>4, <2>5, <2>7, <2>8, <2>9, Zenon, ShutIsKept DEF Session
<1> QED BY <1>2, <1>3

\* The driver has ended, or was aborted.
LEMMA EndIsKept ==
  ASSUME DriverInv, Session \/ Loop, ~TakeEvents, NEW c, Sound(c), Kept(core, c), dpc # "ended",
         core' = Forced(c), dpc' = "ended", cleanup' = cleanup, closing' = closing,
         snapshot' = snapshot, terminal' = terminal
  PROVE  DriverInv'
<1>1. TypeOK /\ Sound(core) /\ Linked /\ EndIsReported
  BY Zenon DEF DriverInv
<1>2. c.destroyed = core.destroyed /\ c.shuttingDown = core.shuttingDown /\ ~c.destroyed
  BY <1>1, Zenon DEF Kept, Linked
<1>3. Sound(core')
  BY ForcedIsSound
<1>4. core'.destroyed /\ core'.shuttingDown = core.shuttingDown /\ core'.events # <<>>
  BY <1>2, Zenon, ForcedIsTold
<1>5. TypeOK'
  <2>1. CoreTypeOK'
    BY <1>3 DEF Sound, Partial, Typed, CoreTypeOK
  <2> QED BY <1>1, <2>1, Zenon, TypesStay
<1>6. Linked'
  BY <1>1, <1>4, Zenon DEF Linked
<1>7. Viewed'
  BY Zenon DEF Viewed
<1>8. EndIsReported'
  BY <1>1, Zenon, EndStaysReported
<1>9. Room'
  <2>1. "ended" # "wait" /\ "ended" # "top" /\ "ended" # "poll" /\ "ended" # "send"
    OBVIOUS
  <2>2. Fits("ended", pump', closing', cleanup', Ahead', Rest')
    BY <2>1, Zenon DEF Fits
  <2> QED BY <2>2, Zenon DEF Room
<1> QED BY <1>3, <1>5, <1>6, <1>7, <1>8, <1>9, Zenon DEF DriverInv

\* What observe_wake makes of the core.
LEMMA ObservedIsTold ==
  ASSUME Sound(core), core.shuttingDown \/ Space(core, 2), NEW c \in Observed
  PROVE  /\ Sound(c) /\ Kept(core, c) /\ Grown(core, c, 2)
         /\ core.shuttingDown => c = core
         /\ ~woken => c = core
<1>1. Typed(core) /\ 0 \in Nat /\ 2 \in Nat /\ 0 <= 2
  BY DEF Sound, Partial
<1>2. CASE c = core
  <2>1. Kept(core, core)
    BY DEF Kept
  <2>2. Grown(core, core, 0)
    BY <1>1, <2>1, Unmoved
  <2>3. Grown(core, core, 2)
    BY <1>1, <2>2, Zenon, GrownLess
  <2> QED BY <1>2, <2>1, <2>3, Zenon
<1>3. CASE c # core
  <2>1. PICK tooLong \in BOOLEAN : c = Resync(core, tooLong)
    BY <1>3, Zenon DEF Observed
  <2>2. ~core.shuttingDown
    BY <1>3, <2>1, Zenon DEF Resync, IsOpen
  <2>3. Sound(c)
    BY <2>1, ResyncIsSound
  <2>4. Grown(core, c, 2)
    BY <2>1, <2>2, Zenon, ResyncIsTold
  <2>5. Kept(core, c)
    BY <2>4, Zenon DEF Grown
  <2>6. woken
    BY <1>3, Zenon DEF Observed
  <2> QED BY <2>2, <2>3, <2>4, <2>5, <2>6, Zenon
<1> QED BY <1>2, <1>3

\* The ends of driver_loop.
LEMMA EndsIsKept ==
  ASSUME DriverInv, EndsAtOnce \/ EndsCleanup \/ CleanupExpires PROVE DriverInv'
<1>1. TypeOK /\ Sound(core) /\ Linked /\ Room
  BY Zenon DEF DriverInv
<1>2. /\ dpc = "top" /\ dpc' = "ended" /\ cleanup' = cleanup /\ closing' = closing
      /\ snapshot' = snapshot /\ terminal' = terminal
      /\ closing
  BY Zenon DEF EndsAtOnce, EndsCleanup, CleanupExpires, Ends, shared
<1>3. PICK c \in Observed : core' = Forced(c)
  BY Zenon DEF EndsAtOnce, EndsCleanup, CleanupExpires, Ends
<1>4. core.shuttingDown \/ Space(core, 2)
  <2>1. ASSUME ~core.shuttingDown PROVE Space(core, 2)
    <3>1. ~cleanup
      BY <1>1, <2>1, Zenon DEF Linked
    <3>2. Ahead <= 13
      <4>1. Ahead <= 2 => Ahead <= 13
        BY <1>1, AheadSizes
      <4> QED BY <1>1, <1>2, <3>1, <4>1, Zenon DEF Room, Fits
    <3>3. Len(core.events) \in Nat /\ Len(core.events) <= Ahead /\ Ahead \in Nat
      BY <1>1, Sizes, AheadSizes
    <3> QED BY <3>2, <3>3, CoreAssumption, DriverAssumption DEF Space
  <2> QED BY <2>1
<1>5. Sound(c) /\ Kept(core, c)
  BY <1>1, <1>4, Zenon, ObservedIsTold
<1>6. dpc # "ended"
  BY <1>2
<1>7. ~TakeEvents
  BY <1>2 DEF TakeEvents
<1> QED BY <1>2, <1>3, <1>5, <1>6, <1>7, Zenon, EndIsKept DEF Loop

\* deallocate has waited long enough: the driver is aborted.
LEMMA AbortsIsKept == ASSUME DriverInv, Aborts PROVE DriverInv'
<1>1. /\ dpc # "ended" /\ dpc' = "ended" /\ cleanup' = cleanup /\ closing' = closing
      /\ snapshot' = snapshot /\ terminal' = terminal /\ core' = Forced(core)
  BY Zenon DEF Aborts, ForceDestroy, shared
<1>2. Sound(core) /\ Kept(core, core)
  BY Zenon DEF DriverInv, Kept
<1>3. ~TakeEvents
  BY <1>1 DEF TakeEvents
<1> QED BY <1>1, <1>2, <1>3, Zenon, EndIsKept DEF Session

\* A wake reports at most two events, and a poll follows.
LEMMA ContinuesIsKept == ASSUME DriverInv, Continues PROVE DriverInv'
<1>1. TypeOK /\ Sound(core) /\ Linked /\ Room
  BY Zenon DEF DriverInv
<1>2. /\ dpc = "top" /\ cleanup' = cleanup /\ closing' = closing /\ owner' = owner
      /\ snapshot' = snapshot /\ terminal' = terminal /\ sharedChannel' = sharedChannel
      /\ ~closing \/ cleanup
      /\ pump' = (pump \/ woken)
      /\ dpc' = IF pump' THEN "poll" ELSE "wait"
      /\ core' \in Observed
  BY Zenon DEF Continues, shared
<1>3. dpc # "ended" /\ dpc' # "ended" /\ (cleanup => core.shuttingDown)
  BY <1>1, <1>2 DEF Linked
<1>4. core.shuttingDown \/ Space(core, 2)
  <2>1. ASSUME ~core.shuttingDown PROVE Space(core, 2)
    <3>1. ~cleanup /\ ~closing
      BY <1>2, <1>3, <2>1, Zenon
    <3>2. Ahead <= 6
      <4>1. Ahead <= 2 => Ahead <= 6
        BY <1>1, AheadSizes
      <4> QED BY <1>1, <1>2, <3>1, <4>1, Zenon DEF Room, Fits
    <3>3. Len(core.events) \in Nat /\ Len(core.events) <= Ahead /\ Ahead \in Nat
      BY <1>1, Sizes, AheadSizes
    <3> QED BY <3>2, <3>3, CoreAssumption, DriverAssumption DEF Space
  <2> QED BY <2>1
<1>5. /\ Sound(core') /\ Kept(core, core') /\ Grown(core, core', 2)
      /\ core.shuttingDown => core' = core
      /\ ~woken => core' = core
  BY <1>1, <1>2, <1>4, Zenon, ObservedIsTold
<1>6. Room'
  <2>1. /\ Len(core'.events) <= Len(core.events) + 2 /\ core'.shuttingDown = core.shuttingDown
        /\ core' = core => Len(core'.events) <= Len(core.events) + 0
    <3>1. Len(core.events) \in Nat
      BY <1>1, Sizes
    <3>2. core' = core => Len(core'.events) <= Len(core.events) + 0
      BY <3>1
    <3> QED BY <1>5, <3>2, Zenon DEF Grown, Kept
  <2>2. /\ Ahead \in Nat /\ Ahead' \in Nat /\ Ahead' <= Ahead + 2
        /\ core' = core => Ahead' <= Ahead /\ Rest' = Rest
        /\ Rest \in Nat /\ Rest <= 2 /\ Rest' \in Nat /\ Rest' <= 2
    <3>1. 2 \in Nat /\ (owner = "start" <=> owner' = "start")
      BY <1>2
    <3>2. core' = core => core'.pending = core.pending
      OBVIOUS
    <3> QED BY <1>1, <1>5, <2>1, <3>1, <3>2, Zenon, AheadAfter
  <2>3. core' = core => Ahead' + Rest' <= Ahead + Rest
    <3>1. \A a, b, r \in Nat : a <= b => a + r <= b + r
      OBVIOUS
    <3> QED BY <2>2, <3>1, Zenon
  <2>4. (cleanup => Ahead' + Rest' <= Ahead + Rest) /\ (~woken => Ahead' <= Ahead)
    BY <1>3, <1>5, <2>2, <2>3, Zenon
  <2>5. Fits("top", pump, closing, cleanup, Ahead, Rest)
    BY <1>1, <1>2, Zenon DEF Room
  <2>6. (pump' => pump \/ woken) /\ (~pump' => ~pump /\ ~woken)
    BY <1>2, Zenon
  <2>7. (~closing \/ cleanup) /\ (pump' => dpc' = "poll") /\ (~pump' => dpc' = "wait")
    BY <1>2, Zenon
  <2>8. /\ ~pump => Ahead <= 2
        /\ pump /\ ~cleanup => Ahead <= IF closing THEN 13 ELSE 6
        /\ cleanup => Ahead + Rest <= 17
    BY <2>5, Zenon DEF Fits
  <2>9. /\ Ahead <= 2 => Ahead <= 6
        /\ Ahead <= 6 => Ahead' <= 8
        /\ Ahead <= 2 /\ Ahead' <= Ahead => Ahead' <= 2
        /\ Ahead + Rest <= 17 /\ Ahead' + Rest' <= Ahead + Rest => Ahead' + Rest' <= 17
    <3>1. \A a, b, r, s \in Nat :
             /\ a <= 2 => a <= 6
             /\ a <= 6 /\ b <= a + 2 => b <= 8
             /\ a <= 2 /\ b <= a => b <= 2
             /\ a + r <= 17 /\ b + s <= a + r => b + s <= 17
      OBVIOUS
    <3> QED BY <2>2, <3>1, Zenon
  <2>10. CASE pump'
    <3>1. dpc' = "poll" /\ "poll" # "wait" /\ "poll" # "top" /\ "poll" # "send"
      BY <2>7, <2>10
    <3>2. ~cleanup => Ahead' <= 8
      BY <2>7, <2>8, <2>9, Zenon
    <3>3. cleanup => Ahead' + Rest' <= 17
      BY <2>4, <2>8, <2>9, Zenon
    <3> QED BY <1>2, <3>1, <3>2, <3>3, Zenon DEF Room, Fits
  <2>11. CASE ~pump'
    <3>1. dpc' = "wait" /\ "wait" # "poll" /\ "wait" # "top" /\ "wait" # "send"
      BY <2>7, <2>11
    <3>2. Ahead' <= 2
      BY <2>4, <2>6, <2>8, <2>9, <2>11, Zenon
    <3> QED BY <1>2, <3>1, <3>2, Zenon DEF Room, Fits
  <2> QED BY <2>10, <2>11
<1>7. ~TakeEvents
  BY <1>2 DEF TakeEvents
<1> QED BY <1>2, <1>3, <1>5, <1>6, <1>7, Zenon, MoveIsKept DEF Loop

\* start_driver_cleanup, after a wake or without one.
LEMMA StartsCleanupIsKept == ASSUME DriverInv, StartsCleanup PROVE DriverInv'
<1>1. TypeOK /\ Sound(core) /\ Linked /\ Room
  BY Zenon DEF DriverInv
<1>2. /\ dpc = "top" /\ dpc' = "top" /\ closing /\ closing' = closing /\ ~cleanup
      /\ cleanup' = TRUE /\ pump' = TRUE /\ owner' = owner
      /\ snapshot' = snapshot /\ terminal' = terminal /\ sharedChannel' = sharedChannel
  BY Zenon DEF StartsCleanup, shared
<1>3. PICK c \in Observed : core' = Graceful(c)
  BY Zenon DEF StartsCleanup
<1>4. Ahead <= 13 /\ Ahead \in Nat /\ Len(core.events) \in Nat /\ Len(core.events) <= Ahead
      /\ core.destroyed \in BOOLEAN
  <2>1. Ahead <= 2 => Ahead <= 13
    BY <1>1, AheadSizes
  <2>2. Ahead <= 13
    BY <1>1, <1>2, <2>1, Zenon DEF Room, Fits
  <2> QED BY <1>1, <2>2, Sizes, AheadSizes
<1>5. /\ dpc # "ended" /\ dpc' # "ended" /\ ~core.destroyed /\ Space(core, 2) /\ Space(core, 3)
  <2>1. Space(core, 2) /\ Space(core, 3)
    BY <1>4, CoreAssumption, DriverAssumption DEF Space
  <2> QED BY <1>1, <1>2, <2>1 DEF Linked
<1>6. /\ Sound(c) /\ Kept(core, c) /\ Grown(core, c, 2)
      /\ core.shuttingDown => c = core
  BY <1>1, <1>5, Zenon, ObservedIsTold
<1>7. Sound(core')
  BY <1>3, <1>6, GracefulIsSound
<1>8. /\ core'.shuttingDown /\ core'.destroyed = core.destroyed
      /\ \A r \in States, b \in BOOLEAN : Good(core, r, b) => Good(core', r, b)
      /\ Ahead' <= 15 /\ Ahead' \in Nat /\ Rest' \in Nat /\ Rest' <= 2
  <2>1. CASE core.shuttingDown
    <3>1. core' = core
      BY <1>3, <1>6, <2>1, Zenon DEF Graceful, IsOpen
    <3>2. Len(core'.events) <= Len(core.events) + 0
      BY <1>4, <3>1
    <3>3. /\ Ahead' <= Ahead /\ Ahead' \in Nat /\ Rest' \in Nat /\ Rest' <= 2
      BY <1>1, <1>2, <1>7, <3>1, <3>2, Zenon, AheadAfter
    <3>4. \A a, b \in Nat : a <= b /\ b <= 13 => a <= 15
      OBVIOUS
    <3>5. Ahead' <= 15
      BY <1>4, <3>3, <3>4, Zenon
    <3> QED BY <2>1, <3>1, <3>3, <3>5, Zenon
  <2>2. CASE ~core.shuttingDown
    <3>1. IsOpen(c) /\ c.destroyed = core.destroyed
      BY <1>5, <1>6, <2>2, Zenon DEF IsOpen, Kept
    <3>2. Space(c, 1)
      <4>1. Typed(core) /\ Typed(c) /\ 2 \in Nat /\ 1 \in Nat /\ 3 \in Nat /\ 2 + 1 <= 3
        BY <1>1, <1>6 DEF Sound, Partial
      <4> QED BY <1>5, <1>6, <4>1, Zenon, SpaceLeft
    <3>3. /\ Len(core'.events) <= Len(c.events) + 1
          /\ core'.shuttingDown /\ core'.destroyed = c.destroyed
          /\ \A r \in States, b \in BOOLEAN : Good(c, r, b) => Good(core', r, b)
      <4>1. Sound(c) /\ core' = Graceful(c) /\ IsOpen(c)
        BY <1>3, <1>6, <3>1, Zenon
      <4> QED BY <3>2, <4>1, GracefulIsTold, ZenonT(60)
    <3>4. Len(core'.events) <= Len(core.events) + 3
      <4>1. Len(c.events) <= Len(core.events) + 2
        BY <1>6, Zenon DEF Grown
      <4>2. Len(core'.events) \in Nat /\ Len(c.events) \in Nat
        BY <1>6, <1>7 DEF Sound, Partial, Typed, Core
      <4> QED BY <1>4, <3>3, <4>1, <4>2
    <3>5. \A r \in States, b \in BOOLEAN : Good(core, r, b) => Good(core', r, b)
      BY <1>6, <3>3, Zenon DEF Grown
    <3>6. /\ Ahead' <= Ahead + 2 /\ Ahead' \in Nat /\ Rest' \in Nat /\ Rest' <= 2
      BY <1>1, <1>2, <1>7, <2>2, <3>3, <3>4, Zenon, AheadAfter
    <3>7. \A a, b \in Nat : a <= b + 2 /\ b <= 13 => a <= 15
      OBVIOUS
    <3>8. Ahead' <= 15
      BY <1>4, <3>6, <3>7, Zenon
    <3> QED BY <3>1, <3>3, <3>5, <3>6, <3>8, Zenon
  <2> QED BY <2>1, <2>2
<1>9. Room'
  <2>1. \A a, r \in Nat : a <= 15 /\ r <= 2 => a + r <= 17
    OBVIOUS
  <2>2. Ahead' + Rest' <= 17
    BY <1>8, <2>1, Zenon
  <2>3. "top" # "wait" /\ "top" # "poll" /\ "top" # "send"
    OBVIOUS
  <2>4. Fits("top", TRUE, closing, TRUE, Ahead', Rest')
    BY <2>2, <2>3, Zenon DEF Fits
  <2> QED BY <1>2, <2>4, Zenon DEF Room
<1>10. ~TakeEvents
  BY <1>2 DEF TakeEvents
<1> QED BY <1>2, <1>5, <1>7, <1>8, <1>9, <1>10, Zenon, ShutIsKept DEF Loop

\* A poll reports at most five events; during a cleanup two, and only once.
LEMMA PollsIsKept == ASSUME DriverInv, Polls PROVE DriverInv'
<1>1. TypeOK /\ Sound(core) /\ Linked /\ Room
  BY Zenon DEF DriverInv
<1>2. /\ dpc = "poll" /\ dpc' = "send" /\ cleanup' = cleanup /\ closing' = closing /\ owner' = owner
      /\ snapshot' = snapshot /\ terminal' = terminal /\ sharedChannel' = sharedChannel
      /\ pump' = pump
  BY Zenon DEF Polls, shared
<1>3. dpc # "ended" /\ dpc' # "ended" /\ (cleanup => core.shuttingDown)
  BY <1>1, <1>2 DEF Linked
<1>4. /\ Ahead <= 17 /\ Ahead \in Nat /\ Rest \in Nat
      /\ Len(core.events) \in Nat /\ Len(core.events) <= Ahead
  BY <1>1, <1>3, RoomIsBound, AheadSizes, Sizes
<1>5. /\ ~cleanup => Ahead <= 8
      /\ cleanup => Ahead + Rest <= 17
  BY <1>1, <1>2, Zenon DEF Room, Fits
<1>6. Due \subseteq SUBSET Deadlines
  <2>1. core.armed \in SUBSET Deadlines
    BY <1>1, Sizes
  <2> QED BY <2>1 DEF Due
<1>7. ASSUME NEW k \in Nat, k <= 5, Sound(core'), Grown(core, core', k),
             core.shuttingDown => \/ k = 0 /\ Rest' <= Rest
                                  \/ k = 2 /\ Rest = 2 /\ core'.pending = {}
      PROVE  DriverInv'
  <2>1. Len(core'.events) <= Len(core.events) + k /\ core'.shuttingDown = core.shuttingDown
    BY <1>7, Zenon DEF Grown, Kept
  <2>2. /\ Ahead' \in Nat /\ Ahead' <= Ahead + k /\ Rest' \in Nat
        /\ core'.pending = {} => Rest' = 0
    <3>1. owner = "start" <=> owner' = "start"
      BY <1>2
    <3> QED BY <1>1, <1>7, <2>1, <3>1, Zenon, AheadAfter
  <2>3. ~cleanup => Ahead' <= 13
    <3>1. \A a, b \in Nat : a <= b + k /\ b <= 8 => a <= 13
      BY <1>7
    <3> QED BY <1>4, <1>5, <2>2, <3>1, Zenon
  <2>4. cleanup => Ahead' + Rest' <= 17
    <3>1. ASSUME cleanup PROVE Ahead' + Rest' <= 17
      <4>1. (k = 0 /\ Rest' <= Rest) \/ (k = 2 /\ Rest = 2 /\ core'.pending = {})
        BY <1>3, <1>7, <3>1
      <4>2. Ahead + Rest <= 17
        BY <1>5, <3>1
      <4>3. \A a, b, r, s \in Nat : /\ a <= b + 0 /\ s <= r /\ b + r <= 17 => a + s <= 17
                                    /\ a <= b + 2 /\ s = 0 /\ r = 2 /\ b + r <= 17 => a + s <= 17
        OBVIOUS
      <4>4. CASE k = 0 /\ Rest' <= Rest
        <5>1. Ahead' <= Ahead + 0
          BY <2>2, <4>4, Zenon
        <5> QED BY <1>4, <2>2, <4>2, <4>3, <4>4, <5>1, Zenon
      <4>5. CASE k = 2 /\ Rest = 2 /\ core'.pending = {}
        <5>1. Ahead' <= Ahead + 2 /\ Rest' = 0
          BY <2>2, <4>5, Zenon
        <5> QED BY <1>4, <2>2, <4>2, <4>3, <4>5, <5>1, Zenon
      <4> QED BY <4>1, <4>4, <4>5
    <3> QED BY <3>1
  <2>5. "send" # "wait" /\ "send" # "top" /\ "send" # "poll"
    OBVIOUS
  <2>6. Room'
    BY <1>2, <2>3, <2>4, <2>5, Zenon DEF Room, Fits
  <2>7. ~TakeEvents
    BY <1>2 DEF TakeEvents
  <2> QED BY <1>2, <1>3, <1>7, <2>6, <2>7, Zenon, MoveIsKept DEF Loop
<1>8. ASSUME NEW due \in Due, PollMaintains(due) PROVE DriverInv'
  <2>1. due \in SUBSET Deadlines
    BY <1>6, <1>8
  <2>2. Sound(core')
    <3>1. CoreNext
      BY <1>8, <2>1, Zenon DEF CoreNext
    <3> QED BY <1>1, <3>1, MethodIsSound
  <2>3. Space(core, 2)
    BY <1>4, CoreAssumption, DriverAssumption DEF Space
  <2>4. Grown(core, core', 2) /\ (core.shuttingDown => core' = core)
    BY <1>1, <1>8, <2>3, PollMaintainsIsTold
  <2>5. CASE core.shuttingDown
    <3>1. core' = core
      BY <2>4, <2>5
    <3>2. Grown(core, core', 0) /\ 0 \in Nat /\ 0 <= 5
      BY <1>1, <3>1, GrownNot
    <3>3. Rest' <= Rest
      BY <1>4, <3>1 DEF Rest
    <3> QED BY <1>7, <2>2, <3>2, <3>3, Zenon
  <2>6. CASE ~core.shuttingDown
    <3>1. 2 \in Nat /\ 2 <= 5
      OBVIOUS
    <3> QED BY <1>7, <2>2, <2>4, <2>6, <3>1, Zenon
  <2> QED BY <2>5, <2>6
<1>9. ASSUME NEW p \in core.pending, NEW due \in Due, NEW expired \in BOOLEAN,
             PollExpires(p, due, expired)
      PROVE  DriverInv'
  <2>1. due \in SUBSET Deadlines /\ p \in Pending
    BY <1>1, <1>6, <1>9, Sizes
  <2>2. Sound(core')
    <3>1. CoreNext
      BY <1>9, <2>1, Zenon DEF CoreNext
    <3> QED BY <1>1, <3>1, MethodIsSound
  <2>3. Rest = 2
    BY <1>9 DEF Rest
  <2>4. Space(core, 5)
    <3>1. Len(core.events) <= 15
      <4>1. CASE cleanup
        BY <1>4, <1>5, <2>3, <4>1
      <4>2. CASE ~cleanup
        BY <1>4, <1>5, <4>2
      <4> QED BY <4>1, <4>2
    <3> QED BY <1>4, <3>1, CoreAssumption, DriverAssumption DEF Space
  <2>5. /\ Grown(core, core', 5)
        /\ core.shuttingDown => \/ Grown(core, core', 0)
                                \/ Grown(core, core', 2) /\ core'.pending = {}
    BY <1>1, <1>9, <2>2, <2>4, Zenon, PollIsTold
  <2>6. 0 \in Nat /\ 2 \in Nat /\ 5 \in Nat /\ 0 <= 5 /\ 2 <= 5 /\ 5 <= 5
    OBVIOUS
  <2>7. CASE ~core.shuttingDown
    BY <1>7, <2>2, <2>5, <2>6, <2>7, Zenon
  <2>8. CASE core.shuttingDown /\ Grown(core, core', 0)
    <3>1. Rest' <= Rest
      BY <2>3 DEF Rest
    <3> QED BY <1>7, <2>2, <2>6, <2>8, <3>1, Zenon
  <2>9. CASE core.shuttingDown /\ Grown(core, core', 2) /\ core'.pending = {}
    BY <1>7, <2>2, <2>3, <2>6, <2>9, Zenon
  <2> QED BY <2>5, <2>7, <2>8, <2>9
<1> QED BY <1>8, <1>9, Zenon DEF Polls

\* Requests that are sent leave the rest of the core as it is.
LEMMA PulledIsUntold ==
  ASSUME Sound(core), NEW op \in Ops, PullControl(op)
  PROVE  Sound(core') /\ Grown(core, core', 0) /\ core'.pending = core.pending
<1>1. Sound(core')
  <2>1. CoreNext
    BY Zenon DEF CoreNext
  <2> QED BY <2>1, MethodIsSound
<1>2. core \in Core /\ Typed(core)
  BY DEF Sound, Partial, Typed
<1>3. /\ core'.events = core.events /\ core'.state = core.state /\ core'.channel = core.channel
      /\ core'.pending = core.pending
      /\ core'.shuttingDown = core.shuttingDown /\ core'.destroyed = core.destroyed
  BY <1>2 DEF PullControl, Core
<1>4. Kept(core, core')
  BY <1>3 DEF Kept
<1> DEFINE d == core'
<1>5. /\ d.events = core.events /\ d.state = core.state /\ Kept(core, d)
      /\ (core.channel => d.channel)
  BY <1>3, <1>4, Zenon
<1> HIDE DEF d
<1>6. Grown(core, d, 0)
  BY <1>2, <1>5, Unmoved
<1> QED BY <1>1, <1>3, <1>6, Zenon DEF d

\* A request that is sent, and one that is not.
LEMMA SendControlIsKept == ASSUME DriverInv, NEW op \in Ops, SendControl(op) PROVE DriverInv'
<1>1. TypeOK /\ Sound(core) /\ Linked /\ Room
  BY Zenon DEF DriverInv
<1>2. /\ dpc = "send" /\ dpc' = dpc /\ cleanup' = cleanup /\ closing' = closing /\ owner' = owner
      /\ snapshot' = snapshot /\ terminal' = terminal /\ sharedChannel' = sharedChannel
      /\ pump' = pump /\ PullControl(op) /\ controlSent' = TRUE
  BY Zenon DEF SendControl, driver
<1>3. Sound(core') /\ Grown(core, core', 0) /\ core'.pending = core.pending
  BY <1>1, <1>2, PulledIsUntold
<1>4. dpc # "ended" /\ dpc' # "ended" /\ (owner = "start" <=> owner' = "start")
  BY <1>2
<1>5. Room'
  BY <1>1, <1>2, <1>3, <1>4, Zenon, RoomStays
<1>6. ~TakeEvents
  BY <1>2 DEF TakeEvents, PullControl
<1> QED BY <1>2, <1>3, <1>4, <1>5, <1>6, Zenon, MoveIsKept DEF Loop

\* A send that fails asks for the cleanup.
LEMMA SendFailsIsKept == ASSUME DriverInv, NEW op \in Ops, SendFails(op) PROVE DriverInv'
<1>1. TypeOK /\ Sound(core) /\ Linked /\ Room
  BY Zenon DEF DriverInv
<1>2. /\ dpc = "send" /\ dpc' = "top" /\ cleanup' = cleanup /\ closing' = TRUE /\ owner' = owner
      /\ snapshot' = snapshot /\ terminal' = Failing("other") /\ sharedChannel' = FALSE
      /\ pump' = TRUE /\ PullControl(op)
  BY Zenon DEF SendFails, RequestCleanup
<1>3. Sound(core') /\ Grown(core, core', 0) /\ core'.pending = core.pending
  BY <1>1, <1>2, PulledIsUntold
<1>4. dpc # "ended" /\ dpc' # "ended" /\ (owner = "start" <=> owner' = "start")
      /\ "top" # "wait" /\ "top" # "poll" /\ "top" # "send"
  BY <1>2
<1>5. Room'
  <2>1. /\ ~cleanup => Ahead <= 13
        /\ cleanup => Ahead + Rest <= 17
    BY <1>1, <1>2, Zenon DEF Room, Fits
  <2>2. Len(core'.events) <= Len(core.events) + 0 /\ core'.shuttingDown = core.shuttingDown
    BY <1>3, Zenon DEF Grown, Kept
  <2>3. Ahead \in Nat /\ Ahead' \in Nat /\ Ahead' <= Ahead /\ Rest' = Rest /\ Rest \in Nat
    BY <1>1, <1>3, <1>4, <2>2, Zenon, AheadAfter
  <2>4. \A a, b, r \in Nat : /\ a <= b /\ b <= 13 => a <= 13
                             /\ a <= b /\ b + r <= 17 => a + r <= 17
    OBVIOUS
  <2>5. /\ ~cleanup => Ahead' <= 13
        /\ cleanup => Ahead' + Rest <= 17
    BY <2>1, <2>3, <2>4, Zenon
  <2>6. /\ ~cleanup => Ahead' <= IF TRUE THEN 13 ELSE 6
        /\ cleanup => Ahead' + Rest' <= 17
    BY <2>3, <2>5, Zenon
  <2>7. Fits("top", TRUE, TRUE, cleanup, Ahead', Rest')
    BY <1>4, <2>6, Zenon DEF Fits
  <2> QED BY <1>2, <2>7, Zenon DEF Room
<1>6. ~TakeEvents
  <2>1. FALSE \in BOOLEAN /\ closing \in BOOLEAN
    BY <1>1, FlagTypes DEF DriverTypes
  <2> QED BY <1>2 DEF TakeEvents, PullControl
<1> QED BY <1>2, <1>3, <1>4, <1>5, <1>6, Zenon, MoveIsKept DEF Loop

\* Events that say the same tell the same.
LEMMA SaidAlike ==
  ASSUME NEW ev, NEW w, DOMAIN w = DOMAIN ev,
         \A i \in DOMAIN ev : /\ Shows(w[i]) <=> Shows(ev[i])
                              /\ Binds(w[i]) <=> Binds(ev[i])
                              /\ w[i].what = ev[i].what,
         NEW r, NEW s, NEW b
  PROVE  /\ Told(ev, r, s) => Told(w, r, s)
         /\ Withdrawn(ev, b) => Withdrawn(w, b)
         /\ Released(w) => Released(ev)
<1>1. ASSUME Told(ev, r, s) PROVE Told(w, r, s)
  <2>1. CASE s = r /\ \A j \in DOMAIN ev : ~Shows(ev[j])
    <3>1. \A j \in DOMAIN w : ~Shows(w[j])
      BY <2>1
    <3> QED BY <2>1, <3>1, Zenon DEF Told
  <2>2. CASE \E i \in DOMAIN ev : /\ Shows(ev[i]) /\ ev[i].what = s
                                  /\ \A j \in DOMAIN ev : j > i => ~Shows(ev[j])
    <3>1. PICK i \in DOMAIN ev : /\ Shows(ev[i]) /\ ev[i].what = s
                                 /\ \A j \in DOMAIN ev : j > i => ~Shows(ev[j])
      BY <2>2
    <3>2. /\ i \in DOMAIN w /\ Shows(w[i]) /\ w[i].what = s
          /\ \A j \in DOMAIN w : j > i => ~Shows(w[j])
      BY <3>1
    <3> QED BY <3>2, Zenon DEF Told
  <2> QED BY <1>1, <2>1, <2>2, Zenon DEF Told
<1>2. ASSUME Withdrawn(ev, b) PROVE Withdrawn(w, b)
  <2>1. CASE ~b /\ \A j \in DOMAIN ev : ~Binds(ev[j])
    <3>1. \A j \in DOMAIN w : ~Binds(w[j])
      BY <2>1
    <3> QED BY <2>1, <3>1, Zenon DEF Withdrawn
  <2>2. CASE \E i \in DOMAIN ev : /\ Shows(ev[i]) /\ ev[i].what # "ready"
                                  /\ \A j \in DOMAIN ev : j > i => ~Binds(ev[j])
    <3>1. PICK i \in DOMAIN ev : /\ Shows(ev[i]) /\ ev[i].what # "ready"
                                 /\ \A j \in DOMAIN ev : j > i => ~Binds(ev[j])
      BY <2>2
    <3>2. /\ i \in DOMAIN w /\ Shows(w[i]) /\ w[i].what # "ready"
          /\ \A j \in DOMAIN w : j > i => ~Binds(w[j])
      BY <3>1
    <3> QED BY <3>2, Zenon DEF Withdrawn
  <2> QED BY <1>2, <2>1, <2>2, Zenon DEF Withdrawn
<1>3. Released(w) => Released(ev)
  BY DEF Released
<1> QED BY <1>1, <1>2, <1>3

\* A READY whose address has gone is marked; it says what it said.
LEMMA MarkedIsUntold ==
  ASSUME Sound(core), RelayGone, core' = [core EXCEPT !.events[1].code = "failed"]
  PROVE  Sound(core') /\ Grown(core, core', 0) /\ core'.pending = core.pending /\ Like(core, core')
<1> DEFINE ev == core.events
           e == Happens("state", "ready", "failed")
           w == [ev EXCEPT ![1] = e]
           d == [core EXCEPT !.events = w]
<1>1. Typed(core) /\ core \in Core /\ Partial(core) /\ ev \in Seq(Event) /\ Len(ev) <= EventCapacity
  BY DEF Sound, Partial, Typed, Core
<1>2. ev # <<>> /\ ev[1] = Happens("state", "ready", "ok")
  BY DEF RelayGone
<1>3. e \in Event
  BY DEF e, Happens, Event, States, Codes
<1>4. [ev[1] EXCEPT !.code = "failed"] = e
  BY <1>2 DEF Happens
<1>5. core' = d
  BY <1>1, <1>4 DEF Core
<1>6. /\ w \in Seq(Event) /\ Len(w) = Len(ev) /\ DOMAIN w = DOMAIN ev
      /\ \A i \in DOMAIN ev : w[i] = IF i = 1 THEN e ELSE ev[i]
  BY <1>1, <1>2, <1>3
<1> HIDE DEF w
<1>7. \A i \in DOMAIN ev : w[i].kind = ev[i].kind /\ w[i].what = ev[i].what
                          /\ (Names(w[i]) <=> Names(ev[i]))
                          /\ (Fails(w[i]) <=> Fails(ev[i]))
  <2> SUFFICES ASSUME NEW i \in DOMAIN ev
               PROVE  w[i].kind = ev[i].kind /\ w[i].what = ev[i].what
                      /\ (Names(w[i]) <=> Names(ev[i])) /\ (Fails(w[i]) <=> Fails(ev[i]))
    OBVIOUS
  <2>1. CASE i = 1
    BY <1>2, <1>6, <2>1 DEF Happens, Names, Fails
  <2>2. CASE i # 1
    BY <1>6, <2>2
  <2> QED BY <2>1, <2>2
<1>8. d \in Core /\ Typed(d) /\ Like(core, d) /\ Kept(core, d) /\ d.events = w
  BY <1>1, <1>6 DEF Core, Typed, Like, Kept
<1> HIDE DEF d, e
<1>9. Sound(d)
  BY <1>1, <1>8, LikeIsSound
<1>10. ASSUME NEW r \in States, NEW b \in BOOLEAN, Good(core, r, b) PROVE Good(d, r, b)
  <2>1. \A i \in DOMAIN ev : /\ Shows(w[i]) <=> Shows(ev[i])
                             /\ Binds(w[i]) <=> Binds(ev[i])
                             /\ w[i].what = ev[i].what
    BY <1>7, Zenon DEF Shows, Binds
  <2>2. /\ Told(ev, r, core.state) => Told(w, r, core.state)
        /\ Withdrawn(ev, b) => Withdrawn(w, b)
        /\ Released(w) => Released(ev)
    BY <1>6, <2>1, SaidAlike
  <2>3. Named(ev, core.state) => Named(w, core.state)
    BY <1>6, <1>7, Zenon DEF Named
  <2>4. d.state = core.state /\ d.channel = core.channel /\ d.shuttingDown = core.shuttingDown
    BY <1>8 DEF Like
  <2> QED BY <1>8, <1>10, <2>2, <2>3, <2>4, Zenon DEF Good
<1>11. Len(d.events) <= Len(core.events) + 0
  BY <1>1, <1>6, <1>8
<1>12. Grown(core, d, 0)
  BY <1>8, <1>10, <1>11, Zenon DEF Grown
<1>13. d.pending = core.pending
  BY <1>8 DEF Like
<1> QED BY <1>5, <1>8, <1>9, <1>12, <1>13, Zenon

\* An address that has gone asks for the cleanup.
LEMMA RelayFailsIsKept == ASSUME DriverInv, RelayFails PROVE DriverInv'
<1>1. TypeOK /\ Sound(core) /\ Linked /\ Room
  BY Zenon DEF DriverInv
<1>2. /\ dpc = "send" /\ dpc' = "top" /\ cleanup' = cleanup /\ closing' = TRUE /\ owner' = owner
      /\ snapshot' = snapshot /\ terminal' = Failing("other") /\ sharedChannel' = FALSE
      /\ pump' = TRUE /\ RelayGone /\ core' = [core EXCEPT !.events[1].code = "failed"]
  BY Zenon DEF RelayFails, RequestCleanup
<1>3. Sound(core') /\ Grown(core, core', 0) /\ core'.pending = core.pending
  BY <1>1, <1>2, MarkedIsUntold
<1>4. dpc # "ended" /\ dpc' # "ended" /\ (owner = "start" <=> owner' = "start")
      /\ "top" # "wait" /\ "top" # "poll" /\ "top" # "send"
  BY <1>2
<1>5. Room'
  <2>1. /\ ~cleanup => Ahead <= 13
        /\ cleanup => Ahead + Rest <= 17
    BY <1>1, <1>2, Zenon DEF Room, Fits
  <2>2. Len(core'.events) <= Len(core.events) + 0 /\ core'.shuttingDown = core.shuttingDown
    BY <1>3, Zenon DEF Grown, Kept
  <2>3. Ahead \in Nat /\ Ahead' \in Nat /\ Ahead' <= Ahead /\ Rest' = Rest /\ Rest \in Nat
    BY <1>1, <1>3, <1>4, <2>2, Zenon, AheadAfter
  <2>4. \A a, b, r \in Nat : /\ a <= b /\ b <= 13 => a <= 13
                             /\ a <= b /\ b + r <= 17 => a + r <= 17
    OBVIOUS
  <2>5. /\ ~cleanup => Ahead' <= 13
        /\ cleanup => Ahead' + Rest <= 17
    BY <2>1, <2>3, <2>4, Zenon
  <2>6. /\ ~cleanup => Ahead' <= IF TRUE THEN 13 ELSE 6
        /\ cleanup => Ahead' + Rest' <= 17
    BY <2>3, <2>5, Zenon
  <2>7. Fits("top", TRUE, TRUE, cleanup, Ahead', Rest')
    BY <1>4, <2>6, Zenon DEF Fits
  <2> QED BY <1>2, <2>7, Zenon DEF Room
<1>6. ~TakeEvents
  BY <1>2, Zenon DEF TakeEvents
<1> QED BY <1>2, <1>3, <1>4, <1>5, <1>6, Zenon, MoveIsKept DEF Loop

\* An answer reports at most four events, and none are left then.
LEMMA ReceivesAnswerIsKept == ASSUME DriverInv, ReceivesAnswer PROVE DriverInv'
<1>1. TypeOK /\ Sound(core) /\ Linked /\ Room
  BY Zenon DEF DriverInv
<1>2. /\ dpc = "wait" /\ dpc' = "top" /\ cleanup' = cleanup /\ closing' = closing /\ owner' = owner
      /\ snapshot' = snapshot /\ terminal' = terminal /\ sharedChannel' = sharedChannel
      /\ pump' = TRUE
  BY Zenon DEF ReceivesAnswer, Wakes, shared
<1>3. PICK p \in core.pending, answer \in Answers, expired \in BOOLEAN :
         InputStun(p, answer, expired)
  BY Zenon DEF ReceivesAnswer
<1>4. dpc # "ended" /\ dpc' # "ended" /\ (owner = "start" <=> owner' = "start")
      /\ "top" # "wait" /\ "top" # "poll" /\ "top" # "send"
  BY <1>2
<1>5. Ahead <= 2 /\ Ahead \in Nat /\ Len(core.events) \in Nat /\ Len(core.events) <= Ahead
  <2>1. Ahead <= 2
    BY <1>1, <1>2, Zenon DEF Room, Fits
  <2> QED BY <1>1, <2>1, AheadSizes, Sizes
<1>6. Sound(core')
  <2>1. p \in Pending
    BY <1>1, Sizes
  <2>2. CoreNext
    BY <1>3, <2>1, Zenon DEF CoreNext
  <2> QED BY <1>1, <2>2, MethodIsSound
<1>7. Grown(core, core', 4)
  <2>1. Space(core, 4)
    BY <1>5, CoreAssumption, DriverAssumption DEF Space
  <2>2. core' = Answered(core, p, answer, expired)
    BY <1>3, Zenon DEF InputStun
  <2>3. Grown(core, Answered(core, p, answer, expired), 4)
    BY <1>1, <2>1, Zenon, AnswerIsTold
  <2> QED BY <2>2, <2>3, Zenon
<1>8. Room'
  <2>1. Len(core'.events) <= Len(core.events) + 4 /\ core'.shuttingDown = core.shuttingDown
    BY <1>7, Zenon DEF Grown, Kept
  <2>2. Ahead' \in Nat /\ Ahead' <= Ahead + 4 /\ Rest' \in Nat /\ Rest' <= 2
    <3>1. 4 \in Nat
      OBVIOUS
    <3> QED BY <1>1, <1>4, <1>6, <2>1, <3>1, Zenon, AheadAfter
  <2>3. \A a, b, r \in Nat : a <= b + 4 /\ b <= 2 /\ r <= 2 => a <= 6 /\ a <= 13 /\ a + r <= 17
    OBVIOUS
  <2>4. Ahead' <= 6 /\ Ahead' <= 13 /\ Ahead' + Rest' <= 17
    BY <1>5, <2>2, <2>3, Zenon
  <2>5. Ahead' <= IF closing THEN 13 ELSE 6
    BY <2>4, Zenon
  <2>6. Fits("top", TRUE, closing, cleanup, Ahead', Rest')
    BY <1>4, <2>4, <2>5, Zenon DEF Fits
  <2> QED BY <1>2, <2>6, Zenon DEF Room
<1>9. ~TakeEvents
  BY <1>2 DEF TakeEvents
<1> QED BY <1>2, <1>4, <1>6, <1>7, <1>8, <1>9, Zenon, MoveIsKept DEF Loop

\* What the session has read once it takes the events.
Taken == IF Handled.destroying THEN Reports(Handled, "other") ELSE Handled

\* The events say how the core is, and the fold reads what they say.
LEMMA TakenIsRead ==
  ASSUME DriverInv, dpc # "ended"
  PROVE  /\ Taken \in View
         /\ Taken.snapshot = core.state
         /\ ~core.shuttingDown /\ Taken.channel => core.channel
         /\ ~closing /\ core.state \in {"deallocated", "destroying"} => Taken.terminal # "none"
         /\ terminal = "none" /\ Taken.terminal = "other" =>
              \A i \in DOMAIN core.events : ~Names(core.events[i])
<1> DEFINE ev == core.events
           n == Len(ev)
           d == Handled
<1>1. TypeOK /\ Linked /\ EndIsReported /\ Good(core, snapshot, sharedChannel)
  BY Zenon DEF DriverInv, Viewed
<1>2. DOMAIN ev = 1..n /\ snapshot \in States /\ sharedChannel \in BOOLEAN
  <2>1. ev \in Seq(Event)
    BY Sizes DEF DriverInv
  <2> QED BY <1>1, <2>1, FlagTypes DEF DriverTypes
<1>3. d \in View /\ ReadsState(d, ev, n) /\ ReadsChannel(d, ev, n) /\ ReadsReason(d, ev, n)
  BY <1>1, Zenon, HandledReads DEF Reads
<1>4. /\ Told(ev, snapshot, core.state)
      /\ ~core.shuttingDown => core.channel \/ Withdrawn(ev, sharedChannel)
      /\ ~core.shuttingDown => Named(ev, core.state)
      /\ Released(ev) => core.shuttingDown
  BY <1>1, Zenon DEF Good
<1> HIDE DEF d, n, ev
<1>5. /\ Taken \in View /\ Taken.snapshot = d.snapshot /\ Taken.channel = d.channel
      /\ Taken.terminal = IF d.destroying /\ ~closing /\ d.terminal = "none" THEN "other"
                          ELSE d.terminal
  BY <1>3 DEF Taken, Reports, View, Reasons, d
<1>6. d.snapshot = core.state
  <2>1. CASE \E i \in DOMAIN ev : /\ Shows(ev[i]) /\ ev[i].what = core.state
                                 /\ \A j \in DOMAIN ev : j > i => ~Shows(ev[j])
    BY <1>2, <1>3, <2>1, Zenon DEF ReadsState
  <2>2. CASE core.state = snapshot /\ \A j \in DOMAIN ev : ~Shows(ev[j])
    BY <1>2, <1>3, <2>2, Zenon DEF ReadsState
  <2> QED BY <1>4, <2>1, <2>2, Zenon DEF Told
<1>7. ASSUME ~core.shuttingDown, d.channel PROVE core.channel
  <2>1. ~Withdrawn(ev, sharedChannel)
    <3>1. ~(~sharedChannel /\ \A j \in DOMAIN ev : ~Binds(ev[j]))
      BY <1>2, <1>3, <1>7, Zenon DEF ReadsChannel
    <3>2. ~(\E i \in DOMAIN ev : /\ Shows(ev[i]) /\ ev[i].what # "ready"
                                 /\ \A j \in DOMAIN ev : j > i => ~Binds(ev[j]))
      BY <1>2, <1>3, <1>7, Zenon DEF ReadsChannel
    <3> QED BY <3>1, <3>2, Zenon DEF Withdrawn
  <2> QED BY <1>4, <1>7, <2>1, Zenon
<1>8. ASSUME ~closing, core.state \in {"deallocated", "destroying"}
      PROVE  Taken.terminal # "none"
  <2>0. ~core.shuttingDown
    BY <1>1, <1>8, Zenon DEF Linked
  <2>1. CASE \E i \in DOMAIN ev : /\ Shows(ev[i]) /\ ev[i].what = core.state
                                 /\ \A j \in DOMAIN ev : j > i => ~Shows(ev[j])
    <3>1. PICK i \in DOMAIN ev : Shows(ev[i]) /\ ev[i].what = core.state
      BY <2>1, Zenon
    <3>2. ev[i].what # "deallocated"
      BY <1>4, <2>0, <3>1, Zenon DEF Released
    <3>3. ev[i].what = "destroying"
      BY <1>8, <3>1, <3>2
    <3>4. d.destroying
      BY <1>2, <1>3, <1>8, <3>1, <3>3, Zenon DEF ReadsState
    <3> QED BY <1>5, <1>8, <3>4
  <2>2. CASE core.state = snapshot /\ \A j \in DOMAIN ev : ~Shows(ev[j])
    <3>1. snapshot \in {"deallocated", "destroying"}
      BY <1>8, <2>2
    <3>2. terminal # "none"
      BY <1>1, <1>8, <3>1, Zenon DEF EndIsReported, Finished
    <3>3. d.terminal = terminal
      BY <1>3, <3>2, Zenon DEF ReadsReason
    <3> QED BY <1>5, <3>2, <3>3
  <2> QED BY <1>4, <2>1, <2>2, Zenon DEF Told
<1>9. ASSUME terminal = "none", Taken.terminal = "other", NEW i \in DOMAIN ev, Names(ev[i])
      PROVE  FALSE
  <2>1. ~closing
    <3>1. closing => d.terminal = terminal
      BY <1>3, Zenon DEF ReadsReason
    <3> QED BY <1>5, <1>9, <3>1
  <2>2. Named(ev, core.state)
    BY <1>1, <1>4, <2>1, Zenon DEF Linked
  <2>3. d.terminal = "mismatch"
    BY <1>2, <1>3, <1>9, <2>1, <2>2, Zenon DEF ReadsReason
  <2> QED BY <1>5, <1>9, <2>3
<1>10. Taken.channel => d.channel
  BY <1>5
<1>11. Taken \in View /\ Taken.snapshot = core.state
  BY <1>5, <1>6
<1> QED BY <1>7, <1>8, <1>9, <1>10, <1>11, Zenon DEF ev

\* pump_native has taken the events.
LEMMA TakeEventsIsKept == ASSUME DriverInv, TakeEvents PROVE DriverInv'
<1>1. TypeOK /\ Sound(core) /\ Linked
  BY Zenon DEF DriverInv
<1>2. /\ dpc = "send" /\ dpc' = "top" /\ pump' = FALSE
      /\ cleanup' = cleanup /\ closing' = closing /\ owner' = owner /\ permit' = permit
      /\ controlSent' = controlSent /\ woken' = woken
      /\ core' = [core EXCEPT !.events = <<>>]
      /\ sharedChannel' = Taken.channel /\ snapshot' = Taken.snapshot
      /\ done' = Taken.done /\ terminal' = Taken.terminal
  BY Zenon DEF TakeEvents, Taken
<1>3. /\ Taken \in View
      /\ Taken.snapshot = core.state
      /\ ~core.shuttingDown /\ Taken.channel => core.channel
      /\ ~closing /\ core.state \in {"deallocated", "destroying"} => Taken.terminal # "none"
  <2>1. dpc # "ended"
    BY <1>2
  <2> QED BY <2>1, Zenon, TakenIsRead
<1>4. /\ core'.events = <<>> /\ Like(core, core') /\ Typed(core')
      /\ core'.state = core.state /\ core'.channel = core.channel
      /\ core'.shuttingDown = core.shuttingDown /\ core'.destroyed = core.destroyed
  <2>1. Typed(core) /\ core \in Core
    BY <1>1 DEF Sound, Partial, Typed
  <2>2. <<>> \in Seq(Event) /\ Len(<<>>) <= EventCapacity
    BY CoreAssumption
  <2> QED BY <1>2, <2>1, <2>2 DEF Like, Typed, Core
<1> DEFINE c == core'
<1>5. Like(core, c) /\ Typed(c) /\ c.events = <<>>
  BY <1>4
<1> HIDE DEF c
<1>6. Sound(c)
  BY <1>1, <1>5, LikeIsSound DEF Sound
<1>7. Sound(core')
  BY <1>6 DEF c
<1>8. TypeOK'
  <2>1. DriverTypes
    BY <1>1, FlagTypes
  <2>2. Taken.channel \in BOOLEAN /\ Taken.done \in Results /\ Taken.terminal \in Reasons
    BY <1>3 DEF View
  <2>3. CoreTypeOK' /\ core.state \in States
    BY <1>1, <1>7, Sizes DEF Sound, Partial, Typed, CoreTypeOK
  <2>4. (TypeOK <=> DriverTypes)'
    BY FlagTypes, PTL
  <2>5. "top" \in {"top", "poll", "send", "wait", "ended"} /\ FALSE \in BOOLEAN
    OBVIOUS
  <2> QED BY <1>2, <1>3, <2>1, <2>2, <2>3, <2>4, <2>5, Zenon DEF DriverTypes
<1>9. Linked'
  BY <1>1, <1>2, <1>4 DEF Linked
<1>10. Room'
  <2>1. Len(core'.events) = 0
    BY <1>4
  <2>2. Ahead' <= 2 /\ Rest' \in Nat
    <3> DEFINE x == IF owner' = "start" THEN 1 ELSE 0
               y == IF core'.shuttingDown THEN 0 ELSE 1
    <3>1. Ahead' = 0 + x + y
      BY <2>1, Zenon DEF Ahead
    <3>2. x \in {0, 1} /\ y \in {0, 1}
      OBVIOUS
    <3> HIDE DEF x, y
    <3>3. Ahead' <= 2
      BY <3>1, <3>2
    <3> QED BY <3>3 DEF Rest
  <2>3. Ahead' \in Nat /\ Rest' <= 2
    BY <1>1, <1>7, AheadAfter
  <2>4. Ahead' + Rest' <= 17
    <3>1. \A a, r \in Nat : a <= 2 /\ r <= 2 => a + r <= 17
      OBVIOUS
    <3> QED BY <2>2, <2>3, <3>1, Zenon
  <2>5. "top" # "wait" /\ "top" # "poll" /\ "top" # "send"
    OBVIOUS
  <2>6. Fits("top", FALSE, closing', cleanup', Ahead', Rest')
    BY <2>2, <2>4, <2>5, Zenon DEF Fits
  <2> QED BY <1>2, <2>6, Zenon DEF Room
<1>11. Viewed'
  <2>1. \A i : i \notin DOMAIN core'.events
    BY <1>4
  <2>2. Told(core'.events, snapshot', core'.state)
    BY <1>2, <1>3, <1>4, <2>1, Zenon DEF Told
  <2>3. Named(core'.events, core'.state) /\ ~Released(core'.events)
    BY <2>1, Zenon DEF Named, Released
  <2>4. ~core'.shuttingDown => core'.channel \/ Withdrawn(core'.events, sharedChannel')
    BY <1>2, <1>3, <1>4, <2>1, Zenon DEF Withdrawn
  <2> QED BY <2>2, <2>3, <2>4, Zenon DEF Viewed, Good
<1>12. EndIsReported'
  BY <1>2, <1>3, Zenon DEF EndIsReported, Finished
<1> QED BY <1>7, <1>8, <1>9, <1>10, <1>11, <1>12, Zenon DEF DriverInv

\* A new allocation.
LEMMA DriverStarts == ASSUME Init PROVE DriverInv
<1>1. /\ core = Created /\ dpc = "top" /\ pump = TRUE /\ cleanup = FALSE
      /\ permit = FALSE /\ closing = FALSE /\ controlSent = FALSE /\ sharedChannel = FALSE
      /\ snapshot = "null" /\ done = "none" /\ terminal = "none" /\ woken = FALSE
      /\ owner = "start"
  BY Zenon DEF Init, CoreInit
<1>2. /\ core.events = <<>> /\ core.state = "null" /\ core.pending = {} /\ core.armed = {}
      /\ core.channel = FALSE /\ core.shuttingDown = FALSE /\ core.destroyed = FALSE
      /\ Len(core.events) = 0
  BY <1>1 DEF Created
<1>3. Sound(core)
  <2>1. core \in Core
    BY <1>1, CoreAssumption DEF Created, Core, States
  <2> QED BY <1>2, <2>1, CoreAssumption
          DEF Sound, Partial, Typed, Fitting, Flags, Expiry, Outstanding
<1>4. TypeOK
  <2>1. CoreTypeOK
    BY <1>3 DEF Sound, Partial, Typed, CoreTypeOK
  <2>2. "null" \in States /\ "none" \in Results /\ "none" \in Reasons
        /\ "top" \in {"top", "poll", "send", "wait", "ended"}
        /\ "start" \in {"start", "allocating", "waiting", "live", "gone"}
        /\ TRUE \in BOOLEAN /\ FALSE \in BOOLEAN
    BY DEF States, Results, Reasons
  <2> QED BY <1>1, <2>1, <2>2, Zenon, FlagTypes DEF DriverTypes
<1>5. Linked
  BY <1>1, <1>2 DEF Linked
<1>6. Room
  <2>1. Ahead = 2
    BY <1>1, <1>2 DEF Ahead
  <2>2. 2 <= 6
    OBVIOUS
  <2>3. Ahead <= IF closing THEN 13 ELSE 6
    BY <1>1, <2>1, <2>2, Zenon
  <2>4. "top" # "wait" /\ "top" # "poll" /\ "top" # "send"
    OBVIOUS
  <2> QED BY <1>1, <2>3, <2>4, Zenon DEF Room, Fits
<1>7. Viewed
  <2>1. \A i : i \notin DOMAIN core.events
    BY <1>2
  <2> QED BY <1>1, <1>2, <2>1, Zenon DEF Viewed, Good, Told, Withdrawn, Named, Released
<1>8. EndIsReported
  <2>1. ~Finished
    BY <1>1 DEF Finished
  <2> QED BY <2>1, Zenon DEF EndIsReported
<1> QED BY <1>3, <1>4, <1>5, <1>6, <1>7, <1>8, Zenon DEF DriverInv

\* Every step of the session, the driver and the wakes keeps the driver's invariant.
LEMMA DriverGoesOn == ASSUME DriverInv, [Next]_vars PROVE DriverInv'
<1>1. CASE UNCHANGED vars
  <2>1. /\ core' = core /\ dpc' = dpc /\ pump' = pump /\ permit' = permit /\ closing' = closing
        /\ controlSent' = controlSent /\ cleanup' = cleanup /\ sharedChannel' = sharedChannel
        /\ snapshot' = snapshot /\ done' = done /\ terminal' = terminal /\ woken' = woken
        /\ owner' = owner
    BY <1>1, Zenon DEF vars, shared, driver
  <2>2. Sound(core') /\ Room' /\ Linked' /\ Viewed' /\ EndIsReported'
    <3>1. Ahead' = Ahead /\ Rest' = Rest
      BY <2>1, Zenon DEF Ahead, Rest
    <3> QED BY <2>1, <3>1, Zenon DEF DriverInv, Room, Linked, Viewed, EndIsReported, Finished
  <2>3. TypeOK'
    BY <2>1, Zenon DEF DriverInv, TypeOK, CoreTypeOK
  <2> QED BY <2>2, <2>3, Zenon DEF DriverInv
<1>2. CASE Session
  BY <1>2, Zenon, ConnectIsKept, BindIsKept, GivesUpIsKept, AbortsIsKept, RestIsKept
     DEF Session, Bound
<1>3. CASE Signal
  BY <1>3, Zenon, RestIsKept DEF Signal
<1>4. CASE Loop
  <2>1. CASE EndsAtOnce \/ EndsCleanup \/ CleanupExpires
    BY <2>1, Zenon, EndsIsKept
  <2>2. CASE Notified \/ Timer \/ ReceiveFails \/ OwnerClosed \/ ReceivesOther
    <3>1. core' = core
      BY <2>2, Zenon DEF Notified, Timer, ReceiveFails, OwnerClosed, ReceivesOther
    <3> QED BY <2>2, <3>1, Zenon, RestIsKept
  <2>3. CASE Continues
    BY <2>3, Zenon, ContinuesIsKept
  <2>4. CASE StartsCleanup
    BY <2>4, Zenon, StartsCleanupIsKept
  <2>5. CASE Polls
    BY <2>5, Zenon, PollsIsKept
  <2>6. CASE \E op \in Ops : SendControl(op) \/ SendFails(op)
    BY <2>6, Zenon, SendControlIsKept, SendFailsIsKept
  <2>7. CASE TakeEvents
    BY <2>7, Zenon, TakeEventsIsKept
  <2>8. CASE ReceivesAnswer
    BY <2>8, Zenon, ReceivesAnswerIsKept
  <2>9. CASE RelayFails
    BY <2>9, Zenon, RelayFailsIsKept
  <2> QED BY <1>4, <2>1, <2>2, <2>3, <2>4, <2>5, <2>6, <2>7, <2>8, <2>9, Zenon DEF Loop
<1> QED BY <1>1, <1>2, <1>3, <1>4, Zenon DEF Next

\* A wake comes first, if there is one; it goes on, or all is over.
LEMMA StepAfterWake ==
  ASSUME Sound(core), core.shuttingDown \/ Space(core, 2), NEW c \in Observed,
         NEW g, Step(c, g)
  PROVE  Step(core, g)
<1>1. CASE c = core
  BY <1>1
<1>2. CASE c # core
  <2>1. PICK tooLong \in BOOLEAN : c = Resync(core, tooLong)
    BY <1>2, Zenon DEF Observed
  <2>2. \/ PhaseOf(c) = PhaseOf(core) /\ BoundOf(c) = BoundOf(core)
        \/ PhaseOf(c) = "over" /\ ~BoundOf(c)
    BY <2>1, ResyncIsSound
  <2>3. CASE PhaseOf(c) = PhaseOf(core) /\ BoundOf(c) = BoundOf(core)
    BY <2>3, Zenon DEF Step
  <2>4. CASE PhaseOf(c) = "over" /\ ~BoundOf(c)
    <3>1. PhaseOf(g) = "over" /\ ~BoundOf(g)
      <4>1. "over" # "held" /\ "over" # "idle" /\ "over" # "asking" /\ "over" # "lost"
        OBVIOUS
      <4> QED BY <2>4, <4>1, Zenon DEF Step
    <3> QED BY <3>1, Zenon DEF Step
  <2> QED BY <2>2, <2>3, <2>4
<1> QED BY <1>1, <1>2

\* Every step does to the allocation what TurnPhase allows.
LEMMA DriverSteps == ASSUME DriverInv, [Next]_vars PROVE Step(core, core')
<1>1. TypeOK /\ Sound(core) /\ Linked /\ Room
  BY Zenon DEF DriverInv
<1>2. CASE core' = core
  BY <1>2, Zenon DEF Step
<1>3. CASE CoreNext
  BY <1>1, <1>3, MethodIsSound
<1>4. core.shuttingDown \/ dpc # "top" \/ Space(core, 2)
  <2>1. ASSUME ~core.shuttingDown, dpc = "top" PROVE Space(core, 2)
    <3>1. ~cleanup
      BY <1>1, <2>1, Zenon DEF Linked
    <3>2. Ahead <= 13
      <4>1. /\ Ahead <= 2 => Ahead <= 13
            /\ Ahead <= 6 => Ahead <= 13
        BY <1>1, AheadSizes
      <4> QED BY <1>1, <2>1, <3>1, <4>1, Zenon DEF Room, Fits
    <3>3. Len(core.events) \in Nat /\ Len(core.events) <= Ahead /\ Ahead \in Nat
      BY <1>1, Sizes, AheadSizes
    <3> QED BY <3>2, <3>3, CoreAssumption, DriverAssumption DEF Space
  <2> QED BY <2>1
<1>5. CASE BindChannel
  <2>1. CASE core' = core
    BY <1>2, <2>1
  <2>2. CASE core' # core
    <3>1. /\ core.state = "ready"
          /\ core' = StartOperation(StartOperation(core, "permission", 0), "channel", 0)
      BY <1>5, <2>2 DEF BindChannel, FailsRequest, Open, IsOpen
    <3> DEFINE c == StartOperation(core, "permission", 0)
    <3>2. 0 \in 0..MaxNonceRetries
          /\ "permission" \in OpsOf("ready") /\ "channel" \in OpsOf("ready")
      BY CoreAssumption DEF OpsOf, Maintenance
    <3>3. Sound(c) /\ c.state = "ready" /\ PhaseOf(c) = PhaseOf(core) /\ BoundOf(c) = BoundOf(core)
      BY <1>1, <3>1, <3>2, OperationFits DEF Sound
    <3> HIDE DEF c
    <3>4. core' = StartOperation(c, "channel", 0)
      BY <3>1 DEF c
    <3>5. PhaseOf(core') = PhaseOf(c) /\ BoundOf(core') = BoundOf(c)
      BY <3>2, <3>3, <3>4, OperationFits DEF Sound
    <3> QED BY <3>3, <3>5, Zenon DEF Step
  <2> QED BY <2>1, <2>2
<1>6. CASE Continues
  <2>1. PICK c \in Observed : core' = c
    BY <1>6, Zenon DEF Continues
  <2>2. core.shuttingDown \/ Space(core, 2)
    BY <1>4, <1>6, Zenon DEF Continues
  <2>3. Step(c, c)
    BY Zenon DEF Step
  <2> QED BY <1>1, <2>1, <2>2, <2>3, Zenon, StepAfterWake
<1>7. CASE StartsCleanup
  <2>1. PICK c \in Observed : core' = Graceful(c)
    BY <1>7, Zenon DEF StartsCleanup
  <2>2. core.shuttingDown \/ Space(core, 2)
    BY <1>4, <1>7, Zenon DEF StartsCleanup
  <2>3. Sound(c)
    BY <1>1, <2>2, Zenon, ObservedIsTold
  <2>4. Step(c, core')
    BY <2>1, <2>3, GracefulIsSound
  <2> QED BY <1>1, <2>2, <2>4, Zenon, StepAfterWake
<1>8. CASE EndsAtOnce \/ EndsCleanup \/ CleanupExpires
  <2>1. PICK c \in Observed : core' = Forced(c)
    BY <1>8, Zenon DEF EndsAtOnce, EndsCleanup, CleanupExpires, Ends
  <2>2. core.shuttingDown \/ Space(core, 2)
    BY <1>4, <1>8, Zenon DEF EndsAtOnce, EndsCleanup, CleanupExpires, Ends
  <2>3. Sound(c)
    BY <1>1, <2>2, Zenon, ObservedIsTold
  <2>4. Step(c, core')
    BY <2>1, <2>3, ForcedIsSound
  <2> QED BY <1>1, <2>2, <2>4, Zenon, StepAfterWake
<1>9. CASE TakeEvents
  <2>1. Typed(core) /\ core \in Core /\ Partial(core)
    BY <1>1 DEF Sound, Partial, Typed
  <2>2. <<>> \in Seq(Event) /\ Len(<<>>) <= EventCapacity
    BY CoreAssumption
  <2> DEFINE c == [core EXCEPT !.events = <<>>]
  <2>3. Like(core, c) /\ Typed(c)
    BY <2>1, <2>2 DEF Like, Typed, Core
  <2> HIDE DEF c
  <2>4. PhaseOf(c) = PhaseOf(core) /\ BoundOf(c) = BoundOf(core)
    BY <2>1, <2>3, LikeIsSound
  <2>5. core' = c
    BY <1>9, Zenon DEF TakeEvents, c
  <2> QED BY <2>4, <2>5, Zenon DEF Step
<1>10. CASE Polls
  <2>1. core.armed \in SUBSET Deadlines /\ core.pending \in SUBSET Pending
    BY <1>1, Sizes
  <2>2. Due \subseteq SUBSET Deadlines
    BY <2>1 DEF Due
  <2>3. CoreNext
    BY <1>10, <2>1, <2>2, Zenon DEF Polls, CoreNext
  <2> QED BY <1>3, <2>3
<1>11. CASE ReceivesAnswer
  <2>1. core.pending \in SUBSET Pending
    BY <1>1, Sizes
  <2>2. CoreNext
    BY <1>11, <2>1, Zenon DEF ReceivesAnswer, CoreNext
  <2> QED BY <1>3, <2>2
<1>12. CASE \/ Connect \/ GivesUp \/ Aborts
            \/ \E op \in Ops : SendControl(op) \/ SendFails(op)
  <2>1. CoreNext
    BY <1>12, Zenon DEF Connect, GivesUp, Aborts, SendControl, SendFails, CoreNext
  <2> QED BY <1>3, <2>1
<1>13. CASE \/ Bound \/ Signal \/ Notified \/ Timer \/ ReceivesOther \/ ReceiveFails \/ OwnerClosed
            \/ UNCHANGED vars
  <2>1. core' = core
    BY <1>13, Zenon DEF Bound, Signal, Notified, Timer, ReceivesOther, ReceiveFails, OwnerClosed,
                        vars
  <2> QED BY <1>2, <2>1
<1>14. CASE RelayFails
  <2>1. Like(core, core') /\ Partial(core) /\ Typed(core')
    BY <1>1, <1>14, Zenon, MarkedIsUntold DEF RelayFails, Sound, Partial
  <2>2. PhaseOf(core') = PhaseOf(core) /\ BoundOf(core') = BoundOf(core)
    BY <2>1, LikeIsSound
  <2> QED BY <2>2, Zenon DEF Step
<1> QED BY <1>5, <1>6, <1>7, <1>8, <1>9, <1>10, <1>11, <1>12, <1>13, <1>14, Zenon
        DEF Next, Session, Loop

------------------------------------------------------------------------------
(* Theorems about the driver *)

\* The invariant of the driver, with the type invariant.
THEOREM DriverIsSound == Spec => []DriverInv
<1>1. Init => DriverInv
  BY DriverStarts
<1>2. DriverInv /\ [Next]_vars => DriverInv'
  BY DriverGoesOn
<1> QED BY <1>1, <1>2, PTL DEF Spec

\* What the session reads is what the core has, as soon as the core's events are taken: no end
\* and no lost channel goes unseen, whatever the session, the server and the wakes do in
\* between (pump_native, request_cleanup).
THEOREM SessionSeesTheCore == Spec => []ViewFollowsCore
<1>1. DriverInv => ViewFollowsCore
  <2> SUFFICES ASSUME DriverInv PROVE ViewFollowsCore
    OBVIOUS
  <2>1. TypeOK /\ Linked /\ Viewed
    BY Zenon DEF DriverInv
  <2>2. ASSUME core.events = <<>>
        PROVE  snapshot = core.state /\ (sharedChannel /\ ~closing => core.channel)
    <3>1. \A i : i \notin DOMAIN core.events
      BY <2>2
    <3>2. dpc # "ended"
      BY <2>1, <2>2, Zenon DEF Linked
    <3>3. Good(core, snapshot, sharedChannel)
      BY <2>1, <3>2, Zenon DEF Viewed
    <3>4. snapshot = core.state
      BY <3>1, <3>3, Zenon DEF Good, Told
    <3>5. ASSUME sharedChannel, ~closing PROVE core.channel
      <4>1. ~core.shuttingDown
        BY <2>1, <3>5, Zenon DEF Linked
      <4> QED BY <3>1, <3>3, <3>5, <4>1, Zenon DEF Good, Withdrawn
    <3> QED BY <3>4, <3>5, Zenon
  <2> QED BY <2>1, <2>2, Zenon DEF ViewFollowsCore
<1> QED BY <1>1, DriverIsSound, PTL

\* An open allocation that has ended has a reason the session reads: nobody goes on with a
\* path that is over (pump_native, DriverShared::fail).
THEOREM EndsAreReported == Spec => []EndIsReported
<1>1. DriverInv => EndIsReported
  BY Zenon DEF DriverInv
<1> QED BY <1>1, DriverIsSound, PTL

\* A mismatch that is among the events is the reason the session reads: a failure that is
\* reported with it comes after it (pump_native, complete_failure).
THEOREM MismatchesAreNamed == Spec => MismatchIsNamed
<1>1. DriverInv /\ [Next]_vars =>
        [ TakeEvents /\ terminal = "none" /\ terminal' = "other"
            => \A i \in DOMAIN core.events : core.events[i].code # "mismatch" ]_vars
  <2> SUFFICES ASSUME DriverInv, TakeEvents, terminal = "none", terminal' = "other",
                      NEW i \in DOMAIN core.events
               PROVE  core.events[i].code # "mismatch"
    BY Zenon
  <2>1. dpc # "ended"
    BY DEF TakeEvents
  <2>2. terminal' = Taken.terminal
    BY Zenon DEF TakeEvents, Taken
  <2> QED BY <2>1, <2>2, Zenon, TakenIsRead DEF Names
<1> QED BY <1>1, DriverIsSound, PTL DEF Spec, MismatchIsNamed

\* The ring of events never overflows while the driver runs: it takes them before there are
\* more than 17, of the 64 there is space for (pump_native, poll, EVENT_CAPACITY).
THEOREM EventsAreTaken == Spec => [](dpc # "ended" => Len(core.events) <= 17)
<1>1. DriverInv => (dpc # "ended" => Len(core.events) <= 17)
  <2> SUFFICES ASSUME DriverInv, dpc # "ended" PROVE Len(core.events) <= 17
    OBVIOUS
  <2>1. Sound(core) /\ Room /\ TypeOK
    BY Zenon DEF DriverInv
  <2>2. Ahead <= 17 /\ Ahead \in Nat /\ Len(core.events) <= Ahead /\ Len(core.events) \in Nat
    BY <2>1, RoomIsBound, AheadSizes, Sizes
  <2> QED BY <2>2
<1> QED BY <1>1, DriverIsSound, PTL

\* With its driver the core keeps its promises: what a state waits for is under way, and an
\* allocation the server is known to hold is given back (start_driver_cleanup, resync).
THEOREM DriverKeepsTheCore == Spec => [](TransientsArePending /\ KnownIsReleased)
<1>1. DriverInv => TransientsArePending /\ KnownIsReleased
  <2>1. Sound(core) => TransientsArePending
    BY DEF Sound, Outstanding, TransientsArePending
  <2>2. Sound(core) => KnownIsReleased
    BY DEF Sound, Partial, Outstanding, Expiry, KnownIsReleased
  <2> QED BY <2>1, <2>2, Zenon DEF DriverInv
<1> QED BY <1>1, DriverIsSound, PTL

\* So does the life of the allocation, across rounds in which a wake and a shutdown meet.
THEOREM DriverImplementsPhase == Spec => ImplementsPhase
<1>1. Init => Phase!Init
  BY DEF Init, CoreInit, Created, Phase!Init, PhaseOf
<1>2. DriverInv /\ [Next]_vars => [Phase!Next]_Phase!phaseVars
  <2> SUFFICES ASSUME DriverInv, [Next]_vars PROVE [Phase!Next]_Phase!phaseVars
    OBVIOUS
  <2>1. Step(core, core')
    BY DriverSteps
  <2>2. PhaseOf(core) \in Phase!Phases
    BY DEF DriverInv, Sound, Partial, Typed, Core, States, PhaseOf, Phase!Phases
  <2> QED BY <2>1, <2>2 DEF Step, BoundOf, Phase!Next, Phase!phaseVars, Phase!Moves,
             Phase!Ask, Phase!Grant, Phase!Bind, Phase!Lose, Phase!Release, Phase!End, Phase!Phases
<1> QED BY <1>1, <1>2, DriverIsSound, PTL DEF Spec, ImplementsPhase, Phase!Spec
=============================================================================
