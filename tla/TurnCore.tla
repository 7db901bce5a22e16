------------------------------ MODULE TurnCore ------------------------------
(***************************************************************************)
(* NativeCore of turn_core.rs: the client side of one TURN allocation      *)
(* without its sockets.  Every method locks the whole core, so a method is *)
(* one action and the core is one record; an operator from core to core is *)
(* a method of Inner.  The module leaves the callers open: any method may  *)
(* be called at any time, with any answer to an outstanding transaction.   *)
(*                                                                         *)
(* Instants are abstracted: a deadline that is set is in core.armed, and   *)
(* poll finds any of those passed.  A transaction's 12 random bytes only   *)
(* tell its answers from those of earlier transactions.  The keepalive,    *)
(* which no answer follows, and the control ring's overflow (16 packets,   *)
(* far more than the outstanding requests) are left out.                   *)
(***************************************************************************)
EXTENDS Naturals, Sequences, FiniteSets

CONSTANTS
  Stream,             \* TurnControlTransport::Stream
  MaxTransmissions,   \* MAX_TRANSMISSIONS
  MaxNonceRetries,    \* MAX_NONCE_RETRIES
  MaxChannelFailures, \* MAX_CHANNEL_MAINTENANCE_FAILURES
  EventCapacity       \* EVENT_CAPACITY

ASSUME CoreAssumption ==
  /\ Stream \in BOOLEAN
  /\ MaxTransmissions \in Nat \ {0}
  /\ MaxNonceRetries \in Nat
  /\ MaxChannelFailures \in Nat \ {0}
  /\ EventCapacity \in Nat \ {0}

VARIABLE core

Ops == {"allocate", "refresh", "deallocate", "permission", "channel"}
Method(op) == IF op = "deallocate" THEN "refresh" ELSE op
Maintenance == {"refresh", "permission", "channel"}
States == {"null", "allocating", "ready", "deallocating", "deallocated", "destroying"}
Deadlines == {"refresh", "expiry", "maintenance", "permission", "channel"}

\* status and stun_code of an event; "mismatch" is 437, or 400 to a ChannelBind
Codes == {"ok", "failed", "mismatch"}

Pending == [op : Ops, sent : 1..MaxTransmissions, retries : 0..MaxNonceRetries]
Event == [kind : {"state", "complete", "error", "bound", "exhausted", "forced", "overflow"},
          what : States \cup Ops \cup {"none"}, code : Codes]

\* What an answer says: class, error code and whether its integrity holds.
Answers == {"success", "malformed", "challenge", "gone", "badRequest", "refused",
            "unverified", "unverifiedGone"}

Core == [state : States, pending : SUBSET Pending, channel : BOOLEAN,
         failures : 0..MaxChannelFailures, armed : SUBSET Deadlines,
         shuttingDown : BOOLEAN, destroyed : BOOLEAN,
         controls : SUBSET Ops, events : Seq(Event)]

Created ==
  [state |-> "null", pending |-> {}, channel |-> FALSE, failures |-> 0, armed |-> {},
   shuttingDown |-> FALSE, destroyed |-> FALSE, controls |-> {}, events |-> <<>>]

------------------------------------------------------------------------------
(* Inner: steps of a method *)

Happens(kind, what, code) == [kind |-> kind, what |-> what, code |-> code]

PushEvent(c, e) ==
  [c EXCEPT !.events = IF Len(@) = EventCapacity
                       THEN Append(Tail(@), Happens("overflow", "none", "ok"))
                       ELSE Append(@, e)]

SetState(c, s) ==
  IF c.state = s THEN c ELSE PushEvent([c EXCEPT !.state = s], Happens("state", s, "ok"))

Complete(c, op, code) == PushEvent(c, Happens("complete", Method(op), code))

Has(c, op) == \E p \in c.pending : p.op = op

\* One transaction per operation; a ChannelBind under way is only sent again.
StartOperation(c, op, retries) ==
  IF Has(c, op)
  THEN IF op = "channel" THEN [c EXCEPT !.controls = @ \cup {op}] ELSE c
  ELSE [c EXCEPT !.controls = @ \cup {op},
                 !.pending = @ \cup {[op |-> op, sent |-> 1, retries |-> retries]}]

DestroyAllocation(c, op, code) ==
  SetState([Complete(c, op, code) EXCEPT !.controls = {}, !.pending = {}, !.channel = FALSE,
                                         !.armed = {}],
           IF op = "deallocate" THEN "deallocated" ELSE "destroying")

(* Mutant: the channel stays bound. *)
Mut_RebindExhausted(c) ==
  SetState(PushEvent([c EXCEPT !.controls = {}, !.pending = {}, !.armed = @ \cap {"refresh", "expiry"}],
                     Happens("exhausted", "destroying", "failed")),
           "destroying")

\* The server may well hold the allocation: its expiry stays known.
RebindExhausted(c) ==
  SetState(PushEvent([c EXCEPT !.controls = {}, !.pending = {}, !.channel = FALSE,
                               !.armed = @ \cap {"refresh", "expiry"}],
                     Happens("exhausted", "destroying", "failed")),
           "destroying")

(* Mutant: one failure too many. *)
Mut_MaintenanceRetry(c, op) ==
  IF op # "channel" THEN [c EXCEPT !.armed = @ \cup {op}]
  ELSE IF c.failures >= MaxChannelFailures THEN RebindExhausted([c EXCEPT !.failures = @ + 1])
       ELSE [c EXCEPT !.failures = @ + 1, !.armed = @ \cup {op}]

MaintenanceRetry(c, op) ==
  IF op # "channel" THEN [c EXCEPT !.armed = @ \cup {op}]
  ELSE IF c.failures + 1 >= MaxChannelFailures
       THEN RebindExhausted([c EXCEPT !.failures = MaxChannelFailures])
       ELSE [c EXCEPT !.failures = @ + 1, !.armed = @ \cup {op}]

\* expired: the allocation's deadline has passed
CompleteFailure(c, op, code, expired) ==
  IF op \in Maintenance /\ c.state = "ready" /\ "expiry" \in c.armed /\ ~expired
  THEN MaintenanceRetry(Complete(c, op, code), op)
  ELSE DestroyAllocation(c, op, code)

(* Mutant: an Allocate that succeeds after the shutdown makes the allocation READY. *)
Mut_AllocateSucceeds(c) ==
  Complete(SetState([c EXCEPT !.armed = @ \cup {"refresh", "expiry", "maintenance"}], "ready"),
           "allocate", "ok")

AllocateSucceeds(c) ==
  LET known == [c EXCEPT !.armed = @ \cup {"refresh", "expiry", "maintenance"}]
  IN  IF c.shuttingDown THEN StartOperation(SetState(known, "deallocating"), "deallocate", 0)
      ELSE Complete(SetState(known, "ready"), "allocate", "ok")

CompleteSuccess(c, op) ==
  CASE op = "allocate" -> AllocateSucceeds(c)
    [] op = "refresh" -> Complete([c EXCEPT !.armed = @ \cup {"refresh", "expiry"}], op, "ok")
    [] op = "deallocate" ->
         SetState(Complete([c EXCEPT !.armed = @ \ {"refresh", "expiry"}], op, "ok"), "deallocated")
    [] op = "permission" -> Complete(c, op, "ok")
    [] op = "channel" ->
         Complete(PushEvent([c EXCEPT !.channel = TRUE, !.failures = 0],
                            Happens("bound", "none", "ok")), op, "ok")

Authenticated(p) == p.op # "allocate" \/ p.retries > 0
Recreates(p, answer) == answer = "gone" \/ (p.op = "channel" /\ answer = "badRequest")

Without(c, p) == [c EXCEPT !.pending = @ \ {p}, !.controls = @ \ {p.op}]

\* An answer that is not authentic leaves its transaction as it is.
Unverified(c, p, answer) ==
  IF answer = "unverifiedGone"
  THEN PushEvent(c, Happens("error", Method(p.op), "mismatch"))
  ELSE c

Refused(c, p, expired) ==
  CompleteFailure(PushEvent(c, Happens("error", Method(p.op), "failed")), p.op, "failed", expired)

Answered(c, p, answer, expired) ==
  LET rest == Without(c, p)
  IN  CASE answer \in {"unverified", "unverifiedGone"} -> Unverified(c, p, answer)
        [] answer = "success" /\ ~Authenticated(p) ->
             CompleteFailure(rest, p.op, "failed", expired)
        [] answer = "success" /\ Authenticated(p) -> CompleteSuccess(rest, p.op)
        [] answer = "malformed" -> CompleteFailure(rest, p.op, "failed", expired)
        [] Recreates(p, answer) ->
             DestroyAllocation(PushEvent(rest, Happens("error", Method(p.op), "mismatch")),
                               p.op, "mismatch")
        [] answer = "challenge" /\ p.retries < MaxNonceRetries ->
             StartOperation(rest, p.op, p.retries + 1)
        [] OTHER -> Refused(rest, p, expired)

\* A transaction that has waited for its RTO, or for the whole stream timeout.
Expired(c, p, expired) ==
  IF p.sent >= MaxTransmissions \/ Stream
  THEN CompleteFailure(Without(c, p), p.op, "failed", expired)
  ELSE [c EXCEPT !.controls = @ \cup {p.op},
                 !.pending = (@ \ {p}) \cup {[p EXCEPT !.sent = @ + 1]}]

StartDue(c, op, isDue) ==
  IF isDue /\ ~Has(c, op) THEN StartOperation([c EXCEPT !.armed = @ \ {op}], op, 0) ELSE c

Maintain(c, due) ==
  IF c.shuttingDown \/ c.state # "ready" THEN c
  ELSE IF "expiry" \in due THEN DestroyAllocation(c, "refresh", "failed")
  ELSE LET refreshed == StartDue(c, "refresh", "refresh" \in due)
           permitted == StartDue(refreshed, "permission", due \cap {"maintenance", "permission"} # {})
       IN  StartDue(permitted, "channel", due \cap {"maintenance", "channel"} # {})

IsOpen(c) == ~c.destroyed /\ ~c.shuttingDown

\* tooLong: the gap exceeds what is left of the lifetime
Resync(c, tooLong) ==
  IF ~IsOpen(c) \/ c.state # "ready" THEN c
  ELSE IF tooLong THEN DestroyAllocation(c, "refresh", "failed")
  ELSE [c EXCEPT !.armed = @ \cup {"refresh", "maintenance"}]

Closing(c) ==
  [c EXCEPT !.shuttingDown = TRUE, !.channel = FALSE, !.controls = {},
            !.armed = @ \ {"maintenance", "permission", "channel"}]

(* Mutant: the Allocate under way is forgotten. *)
Mut_Shutdown(c) ==
  IF c.state = "ready" \/ (c.state = "destroying" /\ "expiry" \in c.armed)
  THEN StartOperation(SetState([Closing(c) EXCEPT !.pending = {}], "deallocating"), "deallocate", 0)
  ELSE [Closing(c) EXCEPT !.pending = {}]

Shutdown(c) ==
  IF c.state = "ready" \/ (c.state = "destroying" /\ "expiry" \in c.armed)
  THEN StartOperation(SetState([Closing(c) EXCEPT !.pending = {}], "deallocating"), "deallocate", 0)
  ELSE [Closing(c) EXCEPT !.pending = IF c.state = "allocating" THEN @ ELSE {}]

Graceful(c) == IF IsOpen(c) THEN Shutdown(c) ELSE c

Forced(c) ==
  IF c.destroyed THEN c
  ELSE PushEvent(SetState([c EXCEPT !.destroyed = TRUE, !.controls = {}, !.pending = {}],
                          "destroying"),
                 Happens("forced", "destroying", "ok"))

------------------------------------------------------------------------------
(* NativeCore: its methods *)

CoreInit == core = Created

Open == IsOpen(core)

StartAllocation ==
  /\ Open /\ core.state = "null"
  /\ core' = StartOperation(SetState(core, "allocating"), "allocate", 0)

\* start_channel, start_permission
StartRequest(op) ==
  /\ Open /\ core.state = "ready"
  /\ core' = StartOperation(core, op, 0)

\* input_stun with an answer to an outstanding transaction; others change nothing.
InputStun(p, answer, expired) ==
  /\ p \in core.pending
  /\ answer \in {"unverified", "unverifiedGone"} => Authenticated(p)
  /\ core' = Answered(core, p, answer, expired)

\* Two transactions that expire in one poll are two polls in a row.
PollExpires(p, due, expired) ==
  /\ ~core.destroyed
  /\ p \in core.pending
  /\ due \subseteq core.armed
  /\ LET after == Expired(core, p, expired) IN core' = Maintain(after, due \cap after.armed)

PollMaintains(due) ==
  /\ ~core.destroyed
  /\ due \subseteq core.armed
  /\ core' = Maintain(core, due)

ResyncAfterSuspend == \E tooLong \in BOOLEAN : core' = Resync(core, tooLong)

PullControl(op) ==
  /\ op \in core.controls
  /\ core' = [core EXCEPT !.controls = @ \ {op}]

PullEvent ==
  /\ core.events # <<>>
  /\ core' = [core EXCEPT !.events = Tail(@)]

GracefulShutdown == core' = Graceful(core)

ForceDestroy == core' = Forced(core)

CoreNext ==
  \/ StartAllocation
  \/ \E op \in {"permission", "channel"} : StartRequest(op)
  \/ \E p \in Pending, answer \in Answers, expired \in BOOLEAN : InputStun(p, answer, expired)
  \/ \E p \in Pending, due \in SUBSET Deadlines, expired \in BOOLEAN : PollExpires(p, due, expired)
  \/ \E due \in SUBSET Deadlines : PollMaintains(due)
  \/ ResyncAfterSuspend
  \/ \E op \in Ops : PullControl(op)
  \/ PullEvent
  \/ GracefulShutdown
  \/ ForceDestroy

CoreSpec == CoreInit /\ [][CoreNext]_core

------------------------------------------------------------------------------
(* Properties *)

\* The core's record is well-formed; the rings, retries and transmissions stay in their bounds.
CoreTypeOK ==
  /\ core \in Core
  /\ Len(core.events) <= EventCapacity

\* No two outstanding transactions of one operation, and a Refresh, whose answers have the
\* method of a Deallocate's, is never outstanding next to one (start_operation).
OnePerOperation ==
  /\ \A p, q \in core.pending : p.op = q.op => p = q
  /\ Has(core, "deallocate") => core.pending = {p \in core.pending : p.op = "deallocate"}

\* ALLOCATING and DEALLOCATING are only left by the end of a transaction, so there always is
\* one: whatever was refused, challenged, shut down or timed out (input_stun, poll).
TransientsArePending ==
  /\ core.state = "allocating" => Has(core, "allocate")
  /\ core.state = "deallocating" => Has(core, "deallocate")

\* After a graceful shutdown an allocation the server is known to hold has a Deallocate under
\* way: from READY, from an exhausted channel, and when Allocate succeeds afterwards.
KnownIsReleased ==
  core.shuttingDown /\ ~core.destroyed /\ "expiry" \in core.armed => Has(core, "deallocate")

\* Only a READY allocation that is not shut down has a channel (force_destroy leaves the field).
ChannelIsReady == core.channel /\ ~core.destroyed => core.state = "ready" /\ ~core.shuttingDown

\* The abstract allocation behind the core.
PhaseOf(c) ==
  CASE c.state = "null" -> "idle"
    [] c.state = "allocating" -> "asking"
    [] c.state = "ready" -> "held"
    [] c.state = "deallocating" -> "releasing"
    [] c.state = "deallocated" -> "over"
    [] c.state = "destroying" ->
         IF "expiry" \in c.armed /\ ~c.shuttingDown /\ ~c.destroyed THEN "lost" ELSE "over"

Phase == INSTANCE TurnPhase WITH
  phase <- PhaseOf(core), bound <- core.channel /\ ~core.destroyed

\* The core implements the life of an allocation: nothing leaves its end, a release is not
\* taken back, a channel needs a held allocation.
ImplementsPhase == Phase!Spec
=============================================================================
