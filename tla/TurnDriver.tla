----------------------------- MODULE TurnDriver -----------------------------
(***************************************************************************)
(* One TurnAllocation of turn.rs: the task that drives the core, the       *)
(* session that owns the allocation, and the wake epoch of wake.rs.        *)
(*                                                                         *)
(* The server and the network are open: a request that has been sent gets  *)
(* any answer, at any time, or none.  An answer to an earlier transaction, *)
(* or a duplicate, matches no outstanding one and only wakes the driver.   *)
(* Relayed data is not modelled; sharedChannel says whether it is carried. *)
(***************************************************************************)
EXTENDS TurnCore, SequencesExt

\* EVENT_CAPACITY is 64; what one round of the driver may report before it takes it fits in.
ASSUME DriverAssumption == EventCapacity >= 20

VARIABLES
  dpc,            \* next step of driver_loop
  pump,           \* pump_needed
  permit,         \* the permit stored in shared.wake
  closing,        \* shared.closing
  controlSent,    \* shared.control_sent
  cleanup,        \* shutdown_requested
  sharedChannel,  \* shared.channel is not 0
  snapshot,       \* state in shared.snapshot
  done,           \* how the operation the session waits for was completed since its baseline
  terminal,       \* why the allocation ended
  woken,          \* wake::EPOCH is not the wake_epoch of the driver
  owner           \* next step of the session

shared == <<permit, closing, controlSent, sharedChannel, snapshot, done, terminal>>
driver == <<dpc, pump, cleanup>>
vars == <<core, shared, driver, woken, owner>>

Results == {"none", "ok", "failed"}
Reasons == {"none", "mismatch", "other"}

\* METHOD_ALLOCATE and METHOD_CHANNEL_BIND, while wait_for_completion watches them
Awaited == CASE owner = "allocating" -> "allocate" [] owner = "waiting" -> "channel" [] OTHER -> "none"

TypeOK ==
  /\ CoreTypeOK
  /\ dpc \in {"top", "poll", "send", "wait", "ended"}
  /\ {pump, permit, closing, controlSent, cleanup, sharedChannel, woken} \subseteq BOOLEAN
  /\ snapshot \in States
  /\ done \in Results
  /\ terminal \in Reasons
  /\ owner \in {"start", "allocating", "waiting", "live", "gone"}

Init ==
  /\ CoreInit
  /\ dpc = "top" /\ pump = TRUE /\ cleanup = FALSE
  /\ permit = FALSE /\ closing = FALSE /\ controlSent = FALSE /\ sharedChannel = FALSE
  /\ snapshot = "null"
  /\ done = "none"
  /\ terminal = "none"
  /\ woken = FALSE
  /\ owner = "start"

------------------------------------------------------------------------------
(* Shared steps *)

\* DriverShared::fail
Failing(reason) == IF closing \/ terminal # "none" THEN terminal ELSE reason

\* fail from outside the driver: notify_waiters reaches it only while it waits.
FailsRequest ==
  /\ terminal' = Failing("other")
  /\ IF terminal' # terminal /\ dpc = "wait" THEN dpc' = "top" /\ pump' = TRUE
     ELSE UNCHANGED <<dpc, pump>>
  /\ UNCHANGED core

(* Mutant: the driver is not notified. *)
Mut_RequestCleanup == closing' = TRUE /\ sharedChannel' = FALSE /\ UNCHANGED permit

\* DriverShared::request_cleanup
RequestCleanup == closing' = TRUE /\ sharedChannel' = FALSE /\ permit' = TRUE

------------------------------------------------------------------------------
(* The session: TurnAllocation::connect, prepare_channel, deallocate, drop *)

Connect ==
  /\ owner = "start"
  /\ StartAllocation
  /\ owner' = "allocating"
  /\ permit' = TRUE
  /\ UNCHANGED <<closing, controlSent, sharedChannel, snapshot, done, terminal, driver,
                 woken>>

\* connect has returned and prepare_channel is called; bind_channel starts both requests
\* without an await between them.
BindChannel ==
  /\ owner = "allocating"
  /\ done = "ok" /\ snapshot = "ready" /\ terminal = "none"
  /\ ~closing
  /\ owner' = IF sharedChannel THEN "live" ELSE "waiting"
  /\ done' = "none"
  /\ \/ /\ ~sharedChannel /\ Open /\ core.state = "ready"
        /\ core' = StartOperation(StartOperation(core, "permission", 0), "channel", 0)
        /\ permit' = TRUE
        /\ UNCHANGED <<terminal, dpc, pump>>
     \/ sharedChannel /\ UNCHANGED <<core, permit, terminal, dpc, pump>>
     \/ ~sharedChannel /\ ~(Open /\ core.state = "ready") /\ FailsRequest /\ UNCHANGED permit
  /\ UNCHANGED <<closing, controlSent, sharedChannel, snapshot, cleanup, woken>>

Bound ==
  /\ owner = "waiting"
  /\ done = "ok" /\ sharedChannel /\ terminal = "none"
  /\ owner' = "live"
  /\ done' = "none"
  /\ UNCHANGED <<core, permit, closing, controlSent, sharedChannel, snapshot, terminal, driver,
                 woken>>

\* An error, a timeout, a change of network or the session's end: deallocate or drop, which
\* shut the core down right after they have asked for the cleanup.
GivesUp ==
  /\ owner \in {"allocating", "waiting", "live"}
  /\ owner' = "gone"
  /\ RequestCleanup
  /\ GracefulShutdown
  /\ done' = "none"
  /\ UNCHANGED <<controlSent, snapshot, terminal, driver, woken>>

\* deallocate has waited for the driver long enough.
Aborts ==
  /\ owner = "gone" /\ dpc # "ended"
  /\ dpc' = "ended"
  /\ ForceDestroy
  /\ UNCHANGED <<shared, pump, cleanup, woken, owner>>

------------------------------------------------------------------------------
(* wake.rs *)

\* notify_waiters reaches the driver only once it has made its future in the select.  The
\* driver does not look between the top of its loop and its wait: a wake comes at one of them.
Signal ==
  /\ dpc \in {"top", "wait"}
  /\ ~woken /\ woken' = TRUE
  /\ \/ dpc = "wait" /\ dpc' = "top" /\ pump' = TRUE
     \/ UNCHANGED <<dpc, pump>>
  /\ UNCHANGED <<core, shared, cleanup, owner>>

------------------------------------------------------------------------------
(* driver_loop *)

\* observe_wake: the core after it; the gap is that of the latest wake, whatever it was.
Observed == IF woken THEN {Resync(core, tooLong) : tooLong \in BOOLEAN} ELSE {core}

Finished == snapshot \in {"deallocated", "destroying"}

Continues ==
  /\ dpc = "top"
  /\ ~closing \/ (cleanup /\ ~Finished)
  /\ core' \in Observed
  /\ woken' = FALSE
  /\ pump' = (pump \/ woken)
  /\ dpc' = IF pump' THEN "poll" ELSE "wait"
  /\ UNCHANGED <<shared, cleanup, owner>>

\* start_driver_cleanup
StartsCleanup ==
  /\ dpc = "top"
  /\ closing /\ controlSent /\ ~cleanup
  /\ core' \in {Graceful(c) : c \in Observed}
  /\ woken' = FALSE
  /\ cleanup' = TRUE
  /\ pump' = TRUE
  /\ UNCHANGED <<shared, dpc, owner>>

Ends ==
  /\ dpc = "top"
  /\ dpc' = "ended"
  /\ core' \in {Forced(c) : c \in Observed}
  /\ woken' = FALSE
  /\ UNCHANGED <<shared, pump, cleanup, owner>>

\* Nothing was ever sent, or 128 other allocations are being cleaned up.
EndsAtOnce == closing /\ ~cleanup /\ Ends

EndsCleanup == closing /\ cleanup /\ Finished /\ Ends

CleanupExpires == closing /\ cleanup /\ Ends

\* The deadlines that may have passed, as far as it matters: poll looks at them while the
\* allocation is in use, and at the others only if that of the allocation has not passed.
Due ==
  IF core.shuttingDown \/ core.state # "ready" THEN {{}}
  ELSE (SUBSET (core.armed \ {"expiry"})) \cup {{d} : d \in core.armed \cap {"expiry"}}

Polls ==
  /\ dpc = "poll"
  /\ dpc' = "send"
  /\ \/ \E due \in Due : PollMaintains(due)
     \/ \E p \in core.pending, due \in Due, expired \in BOOLEAN :
          /\ expired => "expiry" \in core.armed /\ core.state = "ready"
          /\ PollExpires(p, due, expired)
  /\ UNCHANGED <<shared, pump, cleanup, woken, owner>>

SendControl(op) ==
  /\ dpc = "send"
  /\ PullControl(op)
  /\ controlSent' = TRUE
  /\ UNCHANGED <<permit, closing, sharedChannel, snapshot, done, terminal, driver,
                 woken, owner>>

\* The error leaves pump_native before it has pulled the events.
SendFails(op) ==
  /\ dpc = "send"
  /\ PullControl(op)
  /\ terminal' = Failing("other")
  /\ RequestCleanup
  /\ dpc' = "top"
  /\ pump' = TRUE
  /\ UNCHANGED <<controlSent, snapshot, done, cleanup, woken, owner>>

(* Mutant: the channel outlives READY. *)
Mut_HandleState(d, s) ==
  [d EXCEPT !.snapshot = s, !.destroying = @ \/ (s = "destroying" /\ ~closing)]

\* pump_native's answer to one event; d gathers what it changes.
HandleState(d, s) ==
  [d EXCEPT !.channel = @ /\ s = "ready",
            !.snapshot = s,
            !.destroying = @ \/ (s = "destroying" /\ ~closing)]

(* Mutant: the last reason wins. *)
Mut_Reports(d, reason) == [d EXCEPT !.terminal = IF closing THEN @ ELSE reason]

Reports(d, reason) == [d EXCEPT !.terminal = IF closing \/ @ # "none" THEN @ ELSE reason]

HandleComplete(d, method, code) ==
  LET counted == IF method = Awaited
                 THEN [d EXCEPT !.done = IF code = "ok" THEN "ok" ELSE "failed"]
                 ELSE d
  IN  IF code = "mismatch" THEN Reports(counted, "mismatch")
      ELSE IF code # "ok" /\ method \notin Maintenance THEN Reports(counted, "other")
      ELSE counted

Handle(d, e) ==
  CASE e.kind = "state" -> HandleState(d, e.what)
    [] e.kind = "complete" -> HandleComplete(d, e.what, e.code)
    [] e.kind = "error" -> IF e.code = "mismatch" THEN Reports(d, "mismatch") ELSE d
    [] e.kind = "bound" -> [d EXCEPT !.channel = TRUE]
    [] e.kind = "exhausted" -> d
    [] e.kind \in {"forced", "overflow"} -> Reports(d, "other")

Handled ==
  FoldLeft(Handle,
           [channel |-> sharedChannel, snapshot |-> snapshot, done |-> done, terminal |-> terminal,
            destroying |-> FALSE],
           core.events)

\* EVENT_RELAY_ADDRESS, which precedes the READY of a grant and is taken with it, fails when
\* the allocation was lost before the driver looked: the core has no address any more.
RelayGone ==
  /\ core.events # <<>> /\ Head(core.events) = Happens("state", "ready", "ok")
  /\ "expiry" \notin core.armed

\* The error leaves pump_native with the other events still there; the READY among them, whose
\* address has been taken, is marked.
RelayFails ==
  /\ dpc = "send"
  /\ core.controls = {}
  /\ RelayGone
  /\ core' = [core EXCEPT !.events[1].code = "failed"]
  /\ terminal' = Failing("other")
  /\ RequestCleanup
  /\ dpc' = "top"
  /\ pump' = TRUE
  /\ UNCHANGED <<controlSent, snapshot, done, cleanup, woken, owner>>

(* Mutant: an end nobody asked for is not reported. *)
Mut_TakeEvents ==
  /\ dpc = "send"
  /\ core.controls = {}
  /\ ~RelayGone
  /\ sharedChannel' = Handled.channel
  /\ snapshot' = Handled.snapshot
  /\ done' = Handled.done
  /\ terminal' = Handled.terminal
  /\ core' = [core EXCEPT !.events = <<>>]
  /\ pump' = FALSE
  /\ dpc' = "top"
  /\ UNCHANGED <<permit, closing, controlSent, cleanup, woken, owner>>

TakeEvents ==
  /\ dpc = "send"
  /\ core.controls = {}
  /\ ~RelayGone
  /\ LET d == Handled
         end == IF d.destroying THEN Reports(d, "other") ELSE d
     IN  /\ sharedChannel' = end.channel
         /\ snapshot' = end.snapshot
         /\ done' = end.done
         /\ terminal' = end.terminal
  /\ core' = [core EXCEPT !.events = <<>>]
  /\ pump' = FALSE
  /\ dpc' = "top"
  /\ UNCHANGED <<permit, closing, controlSent, cleanup, woken, owner>>

\* The ends of the select: another round of the loop, with a pump.
Wakes == dpc = "wait" /\ dpc' = "top" /\ pump' = TRUE /\ UNCHANGED cleanup

Notified ==
  /\ permit /\ permit' = FALSE
  /\ Wakes
  /\ UNCHANGED <<core, closing, controlSent, sharedChannel, snapshot, done, terminal,
                 woken, owner>>

\* next_deadline, and while it is READY the keepalive
Timer ==
  /\ core.pending # {} \/ core.armed # {} \/ cleanup
  /\ Wakes
  /\ UNCHANGED <<core, shared, woken, owner>>

\* An answer to a transaction whose request has been sent.
ReceivesAnswer ==
  /\ \E p \in core.pending, answer \in Answers, expired \in BOOLEAN :
       /\ p.op \notin core.controls \/ p.sent > 1
       /\ expired => "expiry" \in core.armed /\ core.state = "ready"
       /\ InputStun(p, answer, expired)
  /\ Wakes
  /\ UNCHANGED <<shared, woken, owner>>

\* Relayed data, or an answer to an earlier transaction.
ReceivesOther == Wakes /\ UNCHANGED <<core, shared, woken, owner>>

\* An error while the driver is closing only asks for the cleanup again; UDP does not.
ReceiveFails ==
  /\ closing => Stream
  /\ terminal' = Failing("other")
  /\ RequestCleanup
  /\ Wakes
  /\ UNCHANGED <<core, controlSent, snapshot, done, woken, owner>>

\* The session's reader has gone and with it the receiver of the incoming packets.  The loop
\* of a stream goes on looking while it is closing.
OwnerClosed ==
  /\ owner \in {"live", "gone"}
  /\ closing => Stream
  /\ dpc = "wait" /\ dpc' = "top"
  /\ RequestCleanup
  /\ UNCHANGED <<core, controlSent, snapshot, done, terminal, pump, cleanup,
                 woken, owner>>

------------------------------------------------------------------------------

Session == Connect \/ BindChannel \/ Bound \/ GivesUp \/ Aborts

Loop ==
  \/ Continues \/ StartsCleanup \/ EndsAtOnce \/ EndsCleanup \/ CleanupExpires
  \/ Polls
  \/ \E op \in Ops : SendControl(op) \/ SendFails(op)
  \/ TakeEvents \/ RelayFails
  \/ Notified \/ Timer \/ ReceiveFails \/ OwnerClosed
  \/ ReceivesAnswer \/ ReceivesOther

Next == Session \/ Loop \/ Signal

Spec == Init /\ [][Next]_vars

\* The steps the driver takes unprompted: tokio runs a task that can go on.
Drives ==
  \/ Continues \/ StartsCleanup \/ EndsAtOnce \/ EndsCleanup
  \/ Polls \/ (\E op \in Ops : SendControl(op)) \/ TakeEvents \/ RelayFails
  \/ Notified \/ Timer

\* The cleanup deadline, once passed, stays passed.
FairSpec == Spec /\ WF_vars(Drives) /\ SF_vars(CleanupExpires)

------------------------------------------------------------------------------
(* Properties *)

\* What the session reads of the allocation is what the core has as soon as its events are
\* taken: no channel is offered that the core has unbound, no end of it goes unnoticed
\* (pump_native; request_cleanup only ever withdraws the channel, or races with its event).
\* TypeOK is checked with it.
ViewFollowsCore ==
  /\ TypeOK
  /\ core.events = <<>> => snapshot = core.state /\ (sharedChannel /\ ~closing => core.channel)

\* A mismatch the server named is not lost behind the DESTROYING that follows it: without it
\* the worker would bump the generation and drop every live route (pump_native).
MismatchIsNamed ==
  [][ TakeEvents /\ terminal = "none" /\ terminal' = "other"
        => \A i \in DOMAIN core.events : core.events[i].code # "mismatch" ]_vars

\* The end of an open allocation reaches the session: it is never left with an allocation
\* that is over and no reason for it.
EndIsReported == Finished /\ ~closing => terminal # "none"

\* request_cleanup ends the driver, whatever it is waiting for.
DriverEnds == closing ~> dpc = "ended"

\* Stated, and refuted: a driver that ends its cleanup has sent the Deallocate it queued.
EndsAfterRelease == [][EndsCleanup => "deallocate" \notin core.controls]_vars

\* Stated, and refuted: a probe that is never answered ends a READY path ("a dead mapping
\* shows up as RTO exhaustion", resync_after_suspend).
ProbeFailsFast ==
  [][ \A p \in core.pending :
        p.op = "refresh" /\ p.sent = MaxTransmissions /\ core.state = "ready" /\ Polls
          /\ ~Has(core', "refresh") => core'.state # "ready" ]_vars
=============================================================================
