------------------------------ MODULE Shutdown ------------------------------
(***************************************************************************)
(* The goodbye of the rust engine: ShutdownCoordinator and the STOP        *)
(* handshake (session.rs), the main loop that serves it (lib.rs) and the   *)
(* sessions that share the coordinator.                                    *)
(*                                                                         *)
(* Every timer is a countdown in units of a few tens of milliseconds.      *)
(* Tick lets time pass only when no task has anything to do at once: the   *)
(* runtime is fast compared with the timers.                               *)
(***************************************************************************)
EXTENDS Naturals, Sequences, FiniteSets, SequencesExt

CONSTANTS
  Sessions,   \* worker ids
  Hashes,     \* call hashes
  HashOf,     \* the hash whose credentials a worker uses
  Main,       \* the main loop of lib.rs
  Budget,     \* DISCONNECT_BUDGET
  Attempt,    \* DISCONNECT_ATTEMPT
  FollowWait, \* wait of those who do not lead (2 s)
  HostWait,   \* wait of signal_stop_disconnect (800 ms)
  MaxStarts,  \* bound: sessions started
  MaxStops,   \* bound: stop commands of the host
  MaxMoves,   \* bound: changes of the order of activity
  MaxDenied   \* bound: DENIED responses to something else than DISCONNECT

ASSUME ShutdownAssumption ==
  /\ HashOf \in [Sessions -> Hashes]
  /\ Main \notin Sessions
  /\ Budget \in Nat \ {0} /\ Attempt \in Nat \ {0}
  /\ HostWait \in Nat /\ FollowWait \in Nat
  /\ Budget < HostWait /\ HostWait < FollowWait
  /\ {MaxStarts, MaxStops, MaxMoves, MaxDenied} \subseteq Nat

Actors == Sessions \cup {Main}

VARIABLES
  active,     \* ShutdownState.active
  completed,  \* ShutdownState.completed
  streams,    \* ShutdownState.streams, the most recently active first
  cancelled,  \* sessions whose cancellation token is cancelled
  stopping,   \* the engine's root token is cancelled
  pc,         \* what every session and the main loop are doing
  step,       \* next step of the leader in request_disconnect
  work,       \* streams the leader has still to try
  target,     \* the stream it is trying (Main: none)
  leadLeft,   \* time to the leader's deadline
  stepLeft,   \* time to the end of its present wait
  followLeft, \* time to the end of every follower's wait
  flag,       \* STOP_FLAG
  done,       \* STOP_DONE
  host,       \* the host thread in signal_stop_disconnect
  hostLeft,   \* time to the end of its wait
  delivered,  \* history: streams whose writer sent DISCONNECT
  told,       \* history: sessions live when a DISCONNECT was last sent
  tried,      \* history: streams the leader has tried
  unheard,    \* history: live sessions without a goodbye at the host's stop
  starts, stops, moves, denied  \* counters for the bounds

coordinator == <<active, completed, streams>>
leader == <<step, work, target, leadLeft, stepLeft>>
hostVars == <<flag, done, host, hostLeft>>
history == <<delivered, told, tried, unheard>>
bounds == <<starts, stops, moves, denied>>
vars == <<coordinator, cancelled, stopping, pc, leader, followLeft, hostVars,
          history, bounds>>

Live(s) == pc[s] \in {"live", "lead", "follow"}
TypeOK ==
  /\ {active, completed, stopping, flag, done} \subseteq BOOLEAN
  /\ streams \in Seq(Sessions) /\ IsInjective(streams)
  /\ cancelled \in SUBSET Sessions
  /\ pc \in [Actors -> {"off", "live", "lead", "follow", "over"}]
  /\ step \in {"none", "snap", "next", "send", "ack", "finish"}
  /\ work \in Seq(Sessions)
  /\ target \in Actors
  /\ leadLeft \in 0..Budget
  /\ stepLeft \in 0..Attempt
  /\ followLeft \in [Actors -> 0..FollowWait]
  /\ host \in {"idle", "wait", "returned"}
  /\ hostLeft \in 0..HostWait
  /\ delivered \in SUBSET Sessions
  /\ told \in SUBSET Sessions
  /\ tried \in Nat
  /\ unheard \in SUBSET Sessions

Init ==
  /\ active = FALSE /\ completed = FALSE /\ streams = <<>>
  /\ cancelled = {} /\ stopping = FALSE
  /\ pc = [a \in Actors |-> IF a = Main THEN "live" ELSE "off"]
  /\ step = "none" /\ work = <<>> /\ target = Main
  /\ leadLeft = 0 /\ stepLeft = 0
  /\ followLeft = [a \in Actors |-> 0]
  /\ flag = FALSE /\ done = FALSE /\ host = "idle" /\ hostLeft = 0
  /\ delivered = {} /\ told = {} /\ tried = 0 /\ unheard = {}
  /\ starts = 0 /\ stops = 0 /\ moves = 0 /\ denied = 0

Shorter(a, b) == IF a <= b THEN a ELSE b

(* retain: an incarnation is registered once. *)
Without(q, s) ==
  IF s \in ToSet(q) THEN RemoveAt(q, CHOOSE i \in DOMAIN q : q[i] = s) ELSE q

-----------------------------------------------------------------------------
(* The sessions. *)

(* register: streams are not taken once a goodbye has begun.  A session    *)
(* that is cancelled in its handshake registers all the same, and sees it  *)
(* in its first select.                                                    *)
Start(s) ==
  /\ pc[s] = "off"
  /\ starts < MaxStarts
  /\ starts' = starts + 1
  /\ pc' = [pc EXCEPT ![s] = "live"]
  /\ streams' = IF active THEN streams ELSE <<s>> \o streams
  /\ delivered' = delivered \ {s}
  /\ told' = told \ {s}
  /\ UNCHANGED <<active, completed, cancelled, stopping, leader, followLeft, hostVars,
                 tried, unheard, stops, moves, denied>>

(* mark_activity: the writer sent a batch. *)
MarkActivity(s) ==
  /\ s \in ToSet(streams) /\ s # Head(streams)
  /\ moves < MaxMoves
  /\ moves' = moves + 1
  /\ streams' = <<s>> \o Without(streams, s)
  /\ UNCHANGED <<active, completed, cancelled, stopping, pc, leader, followLeft, hostVars,
                 history, starts, stops, denied>>

(* Mutant: a path that ends stays registered. *)
Mut_PathEnds(s) ==
  /\ pc[s] = "live" /\ s \notin cancelled
  /\ pc' = [pc EXCEPT ![s] = "off"]
  /\ streams' = streams
  /\ unheard' = unheard \ {s}
  /\ UNCHANGED <<active, completed, cancelled, stopping, leader, followLeft, hostVars,
                 delivered, told, tried, bounds>>

(* The path is lost or replaced; ShutdownRegistration::drop unregisters.   *)
PathEnds(s) ==
  /\ pc[s] = "live" /\ s \notin cancelled
  /\ pc' = [pc EXCEPT ![s] = "off"]
  /\ streams' = Without(streams, s)
  /\ unheard' = unheard \ {s}
  /\ UNCHANGED <<active, completed, cancelled, stopping, leader, followLeft, hostVars,
                 delivered, told, tried, bounds>>

(* A worker that fetches credentials learns that the call is gone:         *)
(* mark_unavailable cancels the workers of this hash.                      *)
HashUnavailable(h) ==
  /\ \E s \in Sessions : HashOf[s] = h /\ pc[s] = "off" /\ s \notin cancelled
  /\ cancelled' = cancelled \cup {s \in Sessions : HashOf[s] = h}
  /\ UNCHANGED <<coordinator, stopping, pc, leader, followLeft, hostVars, history,
                 bounds>>

(* worker_loop returns. *)
WorkerQuits(s) ==
  /\ pc[s] = "off" /\ s \in cancelled
  /\ pc' = [pc EXCEPT ![s] = "over"]
  /\ UNCHANGED <<coordinator, cancelled, stopping, leader, followLeft, hostVars,
                 history, bounds>>

-----------------------------------------------------------------------------
(* request_disconnect. *)

(* Mutant: a follower waits no longer than one attempt. *)
Mut_Request(a) ==
  /\ IF active
     THEN /\ pc' = [pc EXCEPT ![a] = "follow"]
          /\ followLeft' = [followLeft EXCEPT ![a] = Attempt]
          /\ UNCHANGED <<active, completed, step, leadLeft>>
     ELSE /\ pc' = [pc EXCEPT ![a] = "lead"]
          /\ active' = TRUE
          /\ completed' = FALSE
          /\ step' = "snap"
          /\ leadLeft' = Budget
          /\ UNCHANGED followLeft
  /\ UNCHANGED <<streams, work, target, stepLeft>>

(* The first to come leads; the others wait for it. *)
Request(a) ==
  /\ IF active
     THEN /\ pc' = [pc EXCEPT ![a] = "follow"]
          /\ followLeft' = [followLeft EXCEPT ![a] = FollowWait]
          /\ UNCHANGED <<active, completed, step, leadLeft>>
     ELSE /\ pc' = [pc EXCEPT ![a] = "lead"]
          /\ active' = TRUE
          /\ completed' = FALSE
          /\ step' = "snap"
          /\ leadLeft' = Budget
          /\ UNCHANGED followLeft
  /\ UNCHANGED <<streams, work, target, stepLeft>>

SessionCancelled(s) ==
  /\ pc[s] = "live" /\ s \in cancelled
  /\ Request(s)
  /\ UNCHANGED <<cancelled, stopping, hostVars, history, bounds>>

(* control_streams *)
LeadSnapshot ==
  /\ step = "snap"
  /\ step' = "next"
  /\ work' = streams
  /\ UNCHANGED <<coordinator, cancelled, stopping, pc, target, leadLeft, stepLeft,
                 followLeft, hostVars, history, bounds>>

LeadGivesUp ==
  /\ step = "next"
  /\ work = <<>> \/ completed \/ leadLeft = 0
  /\ step' = "finish"
  /\ UNCHANGED <<coordinator, cancelled, stopping, pc, work, target, leadLeft, stepLeft,
                 followLeft, hostVars, history, bounds>>

(* Mutant: a silent stream may use up the whole budget. *)
Mut_LeadTries ==
  /\ step = "next"
  /\ work # <<>> /\ ~completed /\ leadLeft > 0
  /\ step' = "send"
  /\ target' = Head(work)
  /\ work' = Tail(work)
  /\ stepLeft' = leadLeft
  /\ tried' = tried + 1
  /\ unheard' = {}
  /\ UNCHANGED <<coordinator, cancelled, stopping, pc, leadLeft, followLeft, hostVars,
                 delivered, told, bounds>>

LeadTries ==
  /\ step = "next"
  /\ work # <<>> /\ ~completed /\ leadLeft > 0
  /\ step' = "send"
  /\ target' = Head(work)
  /\ work' = Tail(work)
  /\ stepLeft' = Shorter(Attempt, leadLeft)
  /\ tried' = tried + 1
  /\ unheard' = {}
  /\ UNCHANGED <<coordinator, cancelled, stopping, pc, leadLeft, followLeft, hostVars,
                 delivered, told, bounds>>

(* The stream's writer took the command and sent it in time. *)
LeadSent ==
  /\ step = "send" /\ Live(target)
  /\ delivered' = delivered \cup {target}
  /\ told' = {s \in Sessions : Live(s)}
  /\ unheard' = {}
  /\ step' = IF leadLeft = 0 THEN "finish" ELSE "ack"
  /\ stepLeft' = IF leadLeft = 0 THEN 0 ELSE Shorter(Attempt, leadLeft)
  /\ target' = Main
  /\ UNCHANGED <<coordinator, cancelled, stopping, pc, work, leadLeft, followLeft,
                 hostVars, tried, bounds>>

(* The queue is closed or full, the send fails, or the attempt's time runs *)
(* out.                                                                    *)
LeadSendFails ==
  /\ step = "send"
  /\ step' = "next"
  /\ stepLeft' = 0
  /\ target' = Main
  /\ UNCHANGED <<coordinator, cancelled, stopping, pc, work, leadLeft, followLeft,
                 hostVars, history, bounds>>

LeadAcked ==
  /\ step = "ack" /\ completed
  /\ step' = "finish"
  /\ stepLeft' = 0
  /\ UNCHANGED <<coordinator, cancelled, stopping, pc, work, target, leadLeft, followLeft,
                 hostVars, history, bounds>>

LeadAckTimeout ==
  /\ step = "ack" /\ ~completed /\ stepLeft = 0
  /\ step' = "next"
  /\ UNCHANGED <<coordinator, cancelled, stopping, pc, work, target, leadLeft, stepLeft,
                 followLeft, hostVars, history, bounds>>

(* Mutant: the main loop answers the host only when it led the goodbye. *)
Mut_Return(a) ==
  /\ pc' = [pc EXCEPT ![a] = IF a = Main THEN "live" ELSE "over"]
  /\ streams' = Without(streams, a)
  /\ unheard' = unheard \ {a}
  /\ done' = IF a = Main /\ pc[a] = "lead" THEN TRUE ELSE done

(* request_disconnect returns: a session ends for good, the main loop sets *)
(* STOP_DONE and goes on.                                                  *)
Return(a) ==
  /\ pc' = [pc EXCEPT ![a] = IF a = Main THEN "live" ELSE "over"]
  /\ streams' = Without(streams, a)
  /\ unheard' = unheard \ {a}
  /\ done' = IF a = Main THEN TRUE ELSE done

(* Mutant: complete() forgets the followers. *)
Mut_LeadFinishes(a) ==
  /\ pc[a] = "lead" /\ step = "finish"
  /\ step' = "none"
  /\ work' = <<>> /\ leadLeft' = 0
  /\ Return(a)
  /\ UNCHANGED <<active, completed, cancelled, stopping, target, stepLeft, followLeft, flag,
                 host, hostLeft, delivered, told, tried, bounds>>

LeadFinishes(a) ==
  /\ pc[a] = "lead" /\ step = "finish"
  /\ completed' = TRUE
  /\ step' = "none"
  /\ work' = <<>> /\ leadLeft' = 0
  /\ Return(a)
  /\ UNCHANGED <<active, cancelled, stopping, target, stepLeft, followLeft, flag,
                 host, hostLeft, delivered, told, tried, bounds>>

(* wait_until_completed of a follower. *)
FollowEnds(a) ==
  /\ pc[a] = "follow"
  /\ completed \/ followLeft[a] = 0
  /\ followLeft' = [followLeft EXCEPT ![a] = 0]
  /\ Return(a)
  /\ UNCHANGED <<active, completed, cancelled, stopping, leader, flag, host, hostLeft,
                 delivered, told, tried, bounds>>

(* observe_control_response: the reader of s got the answer to DISCONNECT, *)
(* or a DENIED that answers something else.                                *)
ControlResponse(s) ==
  /\ Live(s)
  /\ active /\ ~completed
  /\ \/ s \in delivered /\ UNCHANGED denied
     \/ denied < MaxDenied /\ denied' = denied + 1
  /\ completed' = TRUE
  /\ UNCHANGED <<active, streams, cancelled, stopping, pc, leader, followLeft, hostVars,
                 history, starts, stops, moves>>

-----------------------------------------------------------------------------
(* The host thread and the main loop. *)

SignalStop ==
  /\ host # "wait" /\ stops < MaxStops
  /\ stops' = stops + 1
  /\ done' = FALSE
  /\ flag' = TRUE
  /\ host' = "wait"
  /\ hostLeft' = HostWait
  /\ unheard' = {s \in Sessions : Live(s)} \ told
  /\ UNCHANGED <<coordinator, cancelled, stopping, pc, leader, followLeft,
                 delivered, told, tried, starts, moves, denied>>

HostReturns ==
  /\ host = "wait" /\ (done \/ hostLeft = 0)
  /\ host' = "returned"
  /\ hostLeft' = 0
  /\ UNCHANGED <<coordinator, cancelled, stopping, pc, leader, followLeft, flag, done,
                 history, bounds>>

(* stop_disconnect_requested in the select of the main loop. *)
MainServesStop ==
  /\ pc[Main] = "live" /\ flag
  /\ flag' = FALSE
  /\ Request(Main)
  /\ UNCHANGED <<cancelled, stopping, done, host, hostLeft, history, bounds>>

(* ctrl-c, STOP, the parent's death. *)
EngineCancel ==
  /\ ~stopping
  /\ stopping' = TRUE
  /\ cancelled' = Sessions
  /\ UNCHANGED <<coordinator, pc, leader, followLeft, hostVars, history, bounds>>

(* The main loop breaks: cancelled, or every worker has returned. *)
MainBreaks ==
  /\ pc[Main] = "live"
  /\ stopping \/ \A s \in Sessions : pc[s] = "over"
  /\ pc' = [pc EXCEPT ![Main] = "over"]
  /\ cancelled' = Sessions
  /\ stopping' = TRUE
  /\ UNCHANGED <<coordinator, leader, followLeft, hostVars, history, bounds>>

-----------------------------------------------------------------------------
Urgent ==
  \/ step \in {"snap", "next", "finish"}
  \/ step \in {"send", "ack"} /\ stepLeft = 0
  \/ step = "ack" /\ completed
  \/ \E a \in Actors : pc[a] = "follow" /\ (completed \/ followLeft[a] = 0)
  \/ \E s \in cancelled : pc[s] \in {"live", "off"}
  \/ host = "wait" /\ (done \/ hostLeft = 0)
  \/ pc[Main] = "live" /\ (flag \/ stopping)

Running == step # "none" \/ host = "wait" \/ \E a \in Actors : pc[a] = "follow"

Less(t) == IF t = 0 THEN 0 ELSE t - 1

Tick ==
  /\ Running /\ ~Urgent
  /\ leadLeft' = Less(leadLeft)
  /\ stepLeft' = Less(stepLeft)
  /\ followLeft' = [a \in Actors |-> Less(followLeft[a])]
  /\ hostLeft' = Less(hostLeft)
  /\ UNCHANGED <<coordinator, cancelled, stopping, pc, step, work, target, flag, done,
                 host, history, bounds>>

Leader ==
  \/ LeadSnapshot \/ LeadGivesUp \/ LeadTries \/ LeadSent \/ LeadSendFails
  \/ LeadAcked \/ LeadAckTimeout \/ \E a \in Actors : LeadFinishes(a)

Next ==
  \/ \E s \in Sessions : Start(s) \/ MarkActivity(s) \/ PathEnds(s) \/ WorkerQuits(s)
                         \/ SessionCancelled(s) \/ ControlResponse(s)
  \/ \E h \in Hashes : HashUnavailable(h)
  \/ Leader
  \/ \E a \in Actors : FollowEnds(a)
  \/ SignalStop \/ HostReturns \/ MainServesStop \/ EngineCancel \/ MainBreaks
  \/ Tick

Spec == Init /\ [][Next]_vars

(* Ready tasks are polled and time passes. *)
FairSpec == Spec /\ WF_vars(Leader) /\ WF_vars(Tick) /\ WF_vars(MainServesStop)
                 /\ WF_vars(\E a \in Actors : FollowEnds(a)) /\ WF_vars(HostReturns)
                 /\ WF_vars(\E s \in Sessions : SessionCancelled(s) \/ WorkerQuits(s))
                 /\ WF_vars(MainBreaks)

-----------------------------------------------------------------------------
(* request_disconnect: a session that does not lead stays, its writer and  *)
(* reader with it, until the leader's goodbye is over.                     *)
FollowersWait ==
  [][\A a \in Actors : pc[a] = "follow" /\ pc'[a] # "follow" => completed']_vars

(* DISCONNECT_BUDGET: the whole goodbye finishes inside the host's stop    *)
(* window, whoever leads it and whenever the host asks: the host's wait    *)
(* runs out only when the main loop is no longer there.                    *)
HostWaitCoversGoodbye ==
  [][host = "wait" /\ host' = "returned" => done \/ pc[Main] = "over"]_vars

(* DISCONNECT_ATTEMPT: silent streams do not eat the budget: the leader    *)
(* gives up early only after Budget / (2 * Attempt) streams.  (TypeOK is   *)
(* checked with it.)                                                       *)
LaterStreamsAreTried ==
  /\ TypeOK
  /\ step = "finish" => work = <<>> \/ completed \/ tried >= Budget \div (2 * Attempt)

(* Every goodbye ends, and with it the wait of all followers. *)
GoodbyeEnds == active ~> completed

(* signal_stop_disconnect: "ask the running engine to send DISCONNECT":    *)
(* when STOP_DONE answers the host, the sessions that were live and had no *)
(* goodbye are gone, or some stream has been asked to send one.            *)
StopSaysGoodbye ==
  host = "wait" /\ done => unheard = {}

(* worker.rs, unavailable_hash_stops_only_its_own_worker_groups: as long   *)
(* as neither the host nor the engine stops, nobody tells the server to    *)
(* drop the whole device while another hash has live workers.              *)
DeadHashKeepsOthers ==
  tried > 0 /\ stops = 0 /\ ~stopping => \A s \in Sessions : Live(s) => s \in cancelled
=============================================================================
