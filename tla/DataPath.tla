------------------------------ MODULE DataPath ------------------------------
(***************************************************************************)
(* The data path guard of the Go helper (datapath.go): pause and resume,   *)
(* soft handover, heal and recycle, run by host events, monitors (wake.go, *)
(* netwatch.go), SOCKS connections and the goroutines they start.          *)
(*                                                                         *)
(* A critical section of g.mu is one step; what happens between two of     *)
(* them (calls of the engine, sleeps) is interleaved with everybody else.  *)
(* Sleeps and time windows end when they end: a window is a flag that the  *)
(* clock clears.                                                           *)
(*                                                                         *)
(* Generations (pauseGen, rebindGen, softResumeGen) are only compared for  *)
(* equality with the generation a goroutine has taken: fresh[t] says that  *)
(* t's generation is still the present one.                                *)
(***************************************************************************)
EXTENDS Integers, FiniteSets

CONSTANTS
  Host,           \* the reader of host events
  NetMonitor,     \* startNetChangeMonitor
  WakeMonitor,    \* startWakeMonitor
  Connections,    \* SOCKS connections, with the heal they start
  Routines,       \* bound: other goroutines alive at a time
  FailThreshold,  \* dataPathDialFailThreshold
  MaxRecycles,    \* dataPathMaxRecycles
  Builds,         \* what an engine build may lack: subsets of {"active", "rebind"}
  MaxEvents       \* bound: host events, network changes, wakes and heals

Tasks == {Host, NetMonitor, WakeMonitor} \cup Connections \cup Routines

ASSUME DataPathAssumption ==
  /\ Host \notin Connections \cup Routines
  /\ NetMonitor \notin {Host} \cup Connections \cup Routines
  /\ WakeMonitor \notin {Host, NetMonitor} \cup Connections \cup Routines
  /\ Connections \cap Routines = {}
  /\ FailThreshold \in Nat \ {0}
  /\ MaxRecycles \in Nat
  /\ MaxEvents \in Nat
  /\ Builds \subseteq SUBSET {"active", "rebind"} /\ Builds # {}

VARIABLES
  paused, pendingRecycle, rebindInFlight, recycling, pendingHandover, exiting,
  dialFails, recycles,
  pendingHard,  \* pendingReason ends in -rebind-timeout or -rebind-gap
  grace,        \* now is before graceUntil
  justRebound,  \* lastRebind is less than dataPathRebindMinGap ago
  recycleAge,   \* age of lastRecycle
  lacks,        \* symbols the loaded engine lacks
  up,           \* an engine has been started and not been stopped
  enginePaused, \* its PauseGate
  paths,        \* its READY paths as activeFn reports them (1: some)
  alive,        \* the process runs
  at,           \* next step of every task
  fresh,        \* its generation is the present one
  hard,         \* its reason ends in -rebind-timeout or -rebind-gap
  via,          \* who called resumeFromPause
  noted,        \* what it read before it unlocked
  events

deferred == <<pendingRecycle, pendingHard>>
marks == <<rebindInFlight, recycling, pendingHandover>>
streak == <<dialFails, recycles>>
windows == <<grace, justRebound, recycleAge>>
guard == <<paused, exiting, deferred, marks, streak, windows>>
engine == <<up, enginePaused, paths>>
world == <<engine, lacks, alive>>
tasks == <<at, fresh, hard, via, noted>>
vars == <<guard, world, tasks, events>>

Steps == {"idle", "pause", "nap", "probe", "proved", "resume", "unpause", "handover",
          "rebind", "watch", "poll", "finish", "escalate", "arm", "soft", "judge",
          "heal", "gap", "recycle", "stop", "start", "ready", "renewed", "failed", "exit"}

(* Steps in which a task compares a generation of each kind. *)
PauseSteps == {"pause", "nap", "probe", "proved", "resume"}
RebindSteps == {"rebind", "watch", "poll", "finish", "escalate"}
SoftSteps == {"soft"}
RecycleSteps == {"stop", "start", "ready", "renewed", "failed"}

(* activeFn of a build that cannot say how many paths are ready. *)
Unknown == -1

TypeOK ==
  /\ {paused, pendingRecycle, pendingHard, rebindInFlight, recycling, pendingHandover, exiting,
      grace, justRebound, up, enginePaused, alive} \subseteq BOOLEAN
  /\ dialFails \in 0..FailThreshold
  /\ recycles \in 0..MaxRecycles
  /\ recycleAge \in {"recent", "gap", "stable"}
  /\ lacks \in Builds
  /\ paths \in {Unknown, 0, 1}
  /\ at \in [Tasks -> Steps]
  /\ fresh \in [Tasks -> BOOLEAN]
  /\ hard \in [Tasks -> BOOLEAN]
  /\ via \in [Tasks -> {"none", "netback", "probe", "handover"}]
  /\ noted \in [Tasks -> BOOLEAN]
  /\ events \in 0..MaxEvents

(* The guard is made when the engine is ready. *)
Init ==
  /\ paused = FALSE /\ pendingRecycle = FALSE /\ pendingHard = FALSE
  /\ rebindInFlight = FALSE /\ recycling = FALSE /\ pendingHandover = FALSE
  /\ exiting = FALSE /\ dialFails = 0 /\ recycles = 0
  /\ grace = FALSE /\ justRebound = FALSE /\ recycleAge = "stable"
  /\ lacks \in Builds
  /\ up = TRUE /\ enginePaused = FALSE
  /\ paths = IF "active" \in lacks THEN Unknown ELSE 1
  /\ alive = TRUE
  /\ at = [t \in Tasks |-> "idle"]
  /\ fresh = [t \in Tasks |-> FALSE]
  /\ hard = [t \in Tasks |-> FALSE]
  /\ via = [t \in Tasks |-> "none"]
  /\ noted = [t \in Tasks |-> FALSE]
  /\ events = 0

NoPath == paths = 0

-----------------------------------------------------------------------------
(* How tasks move.  A new generation outdates the tasks that hold one of   *)
(* that kind.                                                              *)

Keeps(t, S) == fresh[t] /\ at[t] \notin S

(* t goes on to another step with its locals. *)
Goes(t, to) ==
  /\ at' = [at EXCEPT ![t] = to]
  /\ UNCHANGED <<fresh, hard, via, noted>>

(* t goes on to a step that compares no generation. *)
Drops(t, to) ==
  /\ at' = [at EXCEPT ![t] = to]
  /\ fresh' = [fresh EXCEPT ![t] = FALSE]
  /\ UNCHANGED <<hard, via, noted>>

(* t returns: its locals die. *)
Returns(t) ==
  /\ at' = [at EXCEPT ![t] = "idle"]
  /\ fresh' = [fresh EXCEPT ![t] = FALSE]
  /\ hard' = [hard EXCEPT ![t] = FALSE]
  /\ via' = [via EXCEPT ![t] = "none"]
  /\ noted' = [noted EXCEPT ![t] = FALSE]

(* t calls resumeFromPause, with what it has to do afterwards. *)
Calls(t, caller) ==
  /\ at' = [at EXCEPT ![t] = "resume"]
  /\ via' = [via EXCEPT ![t] = caller]

(* t starts a goroutine at a step, hands it its generation, and returns.   *)
(* A goroutine that starts another one as its last act is the other one.   *)
Starts(t, to, isHard) ==
  /\ t \in Routines \/ \E r \in Routines : at[r] = "idle"
  /\ LET r == IF t \in Routines THEN t ELSE CHOOSE r \in Routines : at[r] = "idle" IN
       /\ at' = [at EXCEPT ![t] = "idle", ![r] = to]
       /\ fresh' = [fresh EXCEPT ![t] = FALSE, ![r] = fresh[t]]
       /\ hard' = [hard EXCEPT ![t] = FALSE, ![r] = isHard]
  /\ via' = [via EXCEPT ![t] = "none"]
  /\ noted' = [noted EXCEPT ![t] = FALSE]

Event ==
  /\ events < MaxEvents
  /\ events' = events + 1

-----------------------------------------------------------------------------
(* onHostEvent and the monitors. *)

(* Mutant: the watchdog gets the generation from before the increment. *)
Mut_NetLost ==
  /\ Event /\ at[Host] = "idle"
  /\ paused' = TRUE
  /\ dialFails' = 0
  /\ at' = [at EXCEPT ![Host] = "pause"]
  /\ fresh' = [t \in Tasks |-> Keeps(t, PauseSteps)]
  /\ UNCHANGED <<deferred, marks, exiting, recycles, windows, world, hard, via, noted>>

(* netlost: the engine is paused and the watchdog started after unlocking. *)
NetLost ==
  /\ Event /\ at[Host] = "idle"
  /\ paused' = TRUE
  /\ dialFails' = 0
  /\ at' = [at EXCEPT ![Host] = "pause"]
  /\ fresh' = [t \in Tasks |-> t = Host \/ Keeps(t, PauseSteps)]
  /\ UNCHANGED <<deferred, marks, exiting, recycles, windows, world, hard, via, noted>>

(* PAUSE reaches an engine that runs; go pausedWatchdog. *)
PauseEngine ==
  /\ at[Host] = "pause"
  /\ enginePaused' = up
  /\ Starts(Host, "nap", FALSE)
  /\ UNCHANGED <<guard, up, paths, lacks, alive, events>>

NetBack ==
  /\ Event /\ at[Host] = "idle"
  /\ Calls(Host, "netback")
  /\ UNCHANGED <<guard, world, fresh, hard, noted>>

(* handover and stall of the host, a change of the source address. *)
NetChange(t) ==
  /\ t \in {Host, NetMonitor}
  /\ Event /\ at[t] = "idle"
  /\ Calls(t, "handover")
  /\ UNCHANGED <<guard, world, fresh, hard, noted>>

(* onWake: probe if paused, else afterSoftResume. *)
Wake ==
  /\ Event /\ at[WakeMonitor] = "idle"
  /\ ~exiting
  /\ grace' = TRUE
  /\ dialFails' = 0
  /\ IF paused
     THEN /\ at' = [at EXCEPT ![WakeMonitor] = "probe"]
          /\ fresh' = [fresh EXCEPT ![WakeMonitor] = TRUE]
          /\ UNCHANGED <<hard, via, noted>>
     ELSE Starts(WakeMonitor, "arm", FALSE)
  /\ UNCHANGED <<paused, deferred, marks, exiting, recycles, justRebound, recycleAge, world>>

-----------------------------------------------------------------------------
(* noteDialResult and waitForPath of the SOCKS connections. *)

DialOk ==
  /\ dialFails' = 0
  /\ pendingRecycle' = FALSE
  /\ pendingHard' = FALSE
  /\ recycles' = IF recycleAge = "stable" THEN 0 ELSE recycles
  /\ UNCHANGED <<paused, marks, exiting, windows, world, tasks, events>>

DialTimeoutOffline ==
  /\ paused \/ exiting
  /\ pendingRecycle' = TRUE
  /\ dialFails' = 0
  /\ UNCHANGED <<paused, pendingHard, marks, exiting, recycles, windows, world, tasks,
                 events>>

(* The count stays at the threshold: each further timeout heals again. *)
DialTimeout(c) ==
  /\ ~paused /\ ~exiting /\ ~grace
  /\ at[c] = "idle"
  /\ LET n == IF dialFails < FailThreshold THEN dialFails + 1 ELSE dialFails IN
       /\ dialFails' = n
       /\ IF n >= FailThreshold THEN Event /\ Goes(c, "heal") ELSE UNCHANGED <<tasks, events>>
  /\ UNCHANGED <<paused, deferred, marks, exiting, recycles, windows, world>>

(* A connection has waited for a path in vain. *)
ZeroPaths(c) ==
  /\ ~paused /\ ~exiting /\ NoPath
  /\ Event /\ at[c] = "idle"
  /\ Goes(c, "heal")
  /\ UNCHANGED <<guard, world>>

-----------------------------------------------------------------------------
(* pausedWatchdog and probeSucceeded. *)

NapEnds(t) ==
  /\ at[t] = "nap"
  /\ IF paused /\ fresh[t] /\ ~exiting THEN Goes(t, "probe") ELSE Returns(t)
  /\ UNCHANGED <<guard, world, events>>

ProbeSucceeds(t) ==
  /\ at[t] = "probe"
  /\ Goes(t, "proved")
  /\ UNCHANGED <<guard, world, events>>

(* Mutant: the watchdog gives up after a failed probe. *)
Mut_ProbeFails(t) ==
  /\ at[t] = "probe"
  /\ Returns(t)
  /\ UNCHANGED <<guard, world, events>>

(* The watchdog sleeps again, onWake gives up. *)
ProbeFails(t) ==
  /\ at[t] = "probe"
  /\ IF t = WakeMonitor THEN Returns(t) ELSE Goes(t, "nap")
  /\ UNCHANGED <<guard, world, events>>

Proved(t) ==
  /\ at[t] = "proved"
  /\ IF paused /\ fresh[t]
     THEN /\ Calls(t, "probe")
          /\ noted' = [noted EXCEPT ![t] = pendingRecycle]
          /\ hard' = [hard EXCEPT ![t] = pendingHard]
          /\ UNCHANGED fresh
     ELSE Returns(t)
  /\ UNCHANGED <<guard, world, events>>

-----------------------------------------------------------------------------
(* resumeFromPause and what its callers do next. *)

(* Heal what was deferred, or nudge the paths and watch them. *)
FollowsUp(t) ==
  IF noted[t] THEN Starts(t, "heal", hard[t]) ELSE Starts(t, "arm", FALSE)

NotPaused(t) ==
  /\ at[t] = "resume" /\ ~paused
  /\ CASE via[t] = "netback" -> Returns(t)
       [] via[t] = "probe" -> FollowsUp(t)
       [] via[t] = "handover" -> Drops(t, "handover")
  /\ UNCHANGED <<guard, world, events>>

Resume(t) ==
  /\ at[t] = "resume" /\ paused
  /\ paused' = FALSE
  /\ pendingRecycle' = FALSE
  /\ pendingHard' = FALSE
  /\ dialFails' = 0
  /\ grace' = TRUE
  /\ at' = [at EXCEPT ![t] = "unpause"]
  /\ fresh' = [u \in Tasks |-> Keeps(u, PauseSteps)]
  /\ IF via[t] = "netback"
     THEN /\ noted' = [noted EXCEPT ![t] = pendingRecycle]
          /\ hard' = [hard EXCEPT ![t] = pendingHard]
     ELSE UNCHANGED <<noted, hard>>
  /\ UNCHANGED <<marks, exiting, recycles, justRebound, recycleAge, world, via, events>>

Unpause(t) ==
  /\ at[t] = "unpause"
  /\ enginePaused' = FALSE
  /\ IF via[t] = "handover" THEN Goes(t, "handover") ELSE FollowsUp(t)
  /\ UNCHANGED <<guard, up, paths, lacks, alive, events>>

-----------------------------------------------------------------------------
(* onHandover after resumeFromPause, and rebindWatchdog. *)

Handover(t) ==
  /\ at[t] = "handover"
  /\ ~exiting /\ ~recycling /\ ~justRebound
  /\ justRebound' = TRUE
  /\ rebindInFlight' = TRUE
  /\ dialFails' = 0
  /\ grace' = TRUE
  /\ at' = [at EXCEPT ![t] = "rebind"]
  /\ fresh' = [u \in Tasks |-> u = t \/ Keeps(u, RebindSteps)]
  /\ UNCHANGED <<paused, deferred, recycling, pendingHandover, exiting, recycles,
                 recycleAge, world, hard, via, noted, events>>

(* During a recycle the handover is remembered for the new engine. *)
HandoverLater(t) ==
  /\ at[t] = "handover"
  /\ ~exiting /\ recycling
  /\ pendingHandover' = TRUE
  /\ Returns(t)
  /\ UNCHANGED <<paused, deferred, rebindInFlight, recycling, exiting, streak, windows,
                 world, events>>

HandoverIgnored(t) ==
  /\ at[t] = "handover"
  /\ exiting \/ (~recycling /\ justRebound)
  /\ Returns(t)
  /\ UNCHANGED <<guard, world, events>>

Rebound(t) ==
  /\ at[t] = "rebind" /\ "rebind" \notin lacks
  /\ Starts(t, "watch", FALSE)
  /\ UNCHANGED <<guard, world, events>>

(* finishRebind: a newer rebind owns the flag. *)
FinishRebind(t) == rebindInFlight' = (rebindInFlight /\ ~fresh[t])

CannotRebind(t) ==
  /\ at[t] = "rebind" /\ "rebind" \in lacks
  /\ FinishRebind(t)
  /\ Starts(t, "recycle", FALSE)
  /\ UNCHANGED <<paused, deferred, recycling, pendingHandover, exiting, streak, windows,
                 world, events>>

(* Mutant: a watchdog that is out of date just returns. *)
Mut_WatchStale(t) ==
  /\ at[t] = "watch"
  /\ ~fresh[t] \/ exiting \/ paused \/ recycling
  /\ Returns(t)
  /\ UNCHANGED <<guard, world, events>>

WatchStale(t) ==
  /\ at[t] = "watch"
  /\ ~fresh[t] \/ exiting \/ paused \/ recycling
  /\ Goes(t, "finish")
  /\ UNCHANGED <<guard, world, events>>

WatchPolls(t) ==
  /\ at[t] = "watch"
  /\ fresh[t] /\ ~exiting /\ ~paused /\ ~recycling
  /\ Goes(t, "poll")
  /\ UNCHANGED <<guard, world, events>>

Polled(t) ==
  /\ at[t] = "poll"
  /\ Goes(t, IF NoPath THEN "watch" ELSE "finish")
  /\ UNCHANGED <<guard, world, events>>

(* The deadline: the last look does not ask for a recycle. *)
WatchEnds(t) ==
  /\ at[t] = "watch"
  /\ Goes(t, IF fresh[t] /\ ~exiting /\ ~paused THEN "escalate" ELSE "finish")
  /\ UNCHANGED <<guard, world, events>>

WatchFinishes(t) ==
  /\ at[t] \in {"finish", "escalate"}
  /\ FinishRebind(t)
  /\ IF at[t] = "finish"
     THEN Returns(t)
     ELSE /\ at' = [at EXCEPT ![t] = "recycle"]
          /\ fresh' = [fresh EXCEPT ![t] = FALSE]
          /\ hard' = [hard EXCEPT ![t] = TRUE]
          /\ UNCHANGED <<via, noted>>
  /\ UNCHANGED <<paused, deferred, recycling, pendingHandover, exiting, streak, windows,
                 world, events>>

-----------------------------------------------------------------------------
(* watchSoftResume *)

SoftArms(t) ==
  /\ at[t] = "arm"
  /\ at' = [at EXCEPT ![t] = "soft"]
  /\ fresh' = [u \in Tasks |-> u = t \/ Keeps(u, SoftSteps)]
  /\ UNCHANGED <<guard, world, hard, via, noted, events>>

SoftEnds(t) ==
  /\ at[t] = "soft"
  /\ IF exiting \/ paused \/ recycling \/ ~fresh[t] THEN Returns(t) ELSE Drops(t, "judge")
  /\ UNCHANGED <<guard, world, events>>

SoftJudges(t) ==
  /\ at[t] = "judge"
  /\ IF NoPath THEN Goes(t, "recycle") ELSE Returns(t)
  /\ UNCHANGED <<guard, world, events>>

-----------------------------------------------------------------------------
(* heal *)

Heal(t) ==
  /\ at[t] = "heal"
  /\ IF hard[t] THEN Goes(t, "recycle")
     ELSE IF exiting THEN Returns(t)
     ELSE IF paused THEN Goes(t, "recycle")
     ELSE IF justRebound
          THEN /\ at' = [at EXCEPT ![t] = "gap"]
               /\ noted' = [noted EXCEPT ![t] = rebindInFlight]
               /\ UNCHANGED <<fresh, hard, via>>
     ELSE Calls(t, "handover") /\ UNCHANGED <<fresh, hard, noted>>
  /\ UNCHANGED <<guard, world, events>>

(* Inside the rebind gap: a rebind in flight without a path, or with a     *)
(* build that cannot say, has a watchdog.                                  *)
HealInGap(t) ==
  /\ at[t] = "gap"
  /\ IF noted[t] /\ paths <= 0
     THEN Returns(t)
     ELSE /\ at' = [at EXCEPT ![t] = "recycle"]
          /\ hard' = [hard EXCEPT ![t] = TRUE]
          /\ noted' = [noted EXCEPT ![t] = FALSE]
          /\ UNCHANGED <<fresh, via>>
  /\ UNCHANGED <<guard, world, events>>

-----------------------------------------------------------------------------
(* requestRecycle and failRecycle. *)

RecycleLater(t) ==
  /\ at[t] = "recycle"
  /\ ~exiting /\ paused
  /\ pendingRecycle' = TRUE
  /\ pendingHard' = hard[t]
  /\ Returns(t)
  /\ UNCHANGED <<paused, marks, exiting, streak, windows, world, events>>

RecycleIgnored(t) ==
  /\ at[t] = "recycle"
  /\ exiting \/ (~paused /\ (recycling \/ recycleAge = "recent"))
  /\ Returns(t)
  /\ UNCHANGED <<guard, world, events>>

MayRecycle(t) ==
  at[t] = "recycle" /\ ~exiting /\ ~paused /\ ~recycling /\ recycleAge # "recent"

(* Mutant: one recycle more than the streak allows. *)
Mut_RecycleBegins(t) ==
  /\ MayRecycle(t)
  /\ recycles <= MaxRecycles
  /\ recycling' = TRUE
  /\ recycleAge' = "recent"
  /\ recycles' = recycles + 1
  /\ Goes(t, "stop")
  /\ UNCHANGED <<paused, deferred, rebindInFlight, pendingHandover, exiting, dialFails,
                 grace, justRebound, world, events>>

RecycleBegins(t) ==
  /\ MayRecycle(t)
  /\ recycles < MaxRecycles
  /\ recycling' = TRUE
  /\ recycleAge' = "recent"
  /\ recycles' = recycles + 1
  /\ Goes(t, "stop")
  /\ UNCHANGED <<paused, deferred, rebindInFlight, pendingHandover, exiting, dialFails,
                 grace, justRebound, world, events>>

RecyclesExhausted(t) ==
  /\ MayRecycle(t)
  /\ recycles >= MaxRecycles
  /\ exiting' = TRUE
  /\ Goes(t, "exit")
  /\ UNCHANGED <<paused, deferred, marks, streak, windows, world, events>>

StopEngine(t) ==
  /\ at[t] = "stop"
  /\ up' = FALSE /\ enginePaused' = FALSE
  /\ paths' = IF paths = Unknown THEN Unknown ELSE 0
  /\ Goes(t, "start")
  /\ UNCHANGED <<guard, lacks, alive, events>>

(* A new engine has a new PauseGate. *)
StartEngine(t) ==
  /\ at[t] = "start"
  /\ up' = TRUE /\ enginePaused' = FALSE
  /\ Goes(t, "ready")
  /\ UNCHANGED <<guard, paths, lacks, alive, events>>

(* startFn, waitFn or rebuildTunFn fails, or the port is bad. *)
EngineFails(t) ==
  /\ at[t] \in {"start", "ready"}
  /\ Goes(t, "failed")
  /\ UNCHANGED <<guard, world, events>>

EngineReady(t) ==
  /\ at[t] = "ready"
  /\ Goes(t, "renewed")
  /\ UNCHANGED <<guard, world, events>>

(* A handover that came meanwhile is done now, inside any rebind gap. *)
Recycled(t) ==
  /\ at[t] = "renewed"
  /\ recycling' = FALSE
  /\ dialFails' = 0
  /\ pendingHandover' = FALSE
  /\ justRebound' = (justRebound /\ ~pendingHandover)
  /\ IF pendingHandover THEN Calls(t, "handover") /\ UNCHANGED <<fresh, hard, noted>>
                        ELSE Returns(t)
  /\ UNCHANGED <<paused, deferred, rebindInFlight, exiting, recycles, grace, recycleAge,
                 world, events>>

(* Mutant: offline, the recycle stays marked. *)
Mut_FailOffline(t) ==
  /\ at[t] = "failed" /\ paused
  /\ pendingRecycle' = TRUE
  /\ pendingHard' = hard[t]
  /\ Returns(t)
  /\ UNCHANGED <<paused, marks, exiting, streak, windows, world, events>>

FailOffline(t) ==
  /\ at[t] = "failed" /\ paused
  /\ recycling' = FALSE
  /\ pendingRecycle' = TRUE
  /\ pendingHard' = hard[t]
  /\ Returns(t)
  /\ UNCHANGED <<paused, rebindInFlight, pendingHandover, exiting, streak, windows, world,
                 events>>

FailOnline(t) ==
  /\ at[t] = "failed" /\ ~paused
  /\ exiting' = TRUE
  /\ recycling' = FALSE
  /\ Goes(t, "exit")
  /\ UNCHANGED <<paused, deferred, rebindInFlight, pendingHandover, streak, windows, world,
                 events>>

(* exitFn(42) *)
Exit(t) ==
  /\ at[t] = "exit"
  /\ alive' = FALSE
  /\ UNCHANGED <<guard, engine, lacks, tasks, events>>

-----------------------------------------------------------------------------
(* The clock and the engine. *)

WindowEnds ==
  /\ \/ grace /\ grace' = FALSE /\ UNCHANGED <<justRebound, recycleAge>>
     \/ justRebound /\ justRebound' = FALSE /\ UNCHANGED <<grace, recycleAge>>
     \/ /\ recycleAge # "stable"
        /\ recycleAge' = IF recycleAge = "recent" THEN "gap" ELSE "stable"
        /\ UNCHANGED <<grace, justRebound>>
  /\ UNCHANGED <<paused, deferred, marks, exiting, streak, world, tasks, events>>

PathsChange ==
  /\ paths # Unknown
  /\ paths' = 1 - paths
  /\ paths' = 1 => up /\ ~enginePaused
  /\ UNCHANGED <<guard, up, enginePaused, lacks, alive, tasks, events>>

-----------------------------------------------------------------------------
Watches(t) ==
  \/ NapEnds(t) \/ ProbeFails(t) \/ Proved(t)
  \/ NotPaused(t) \/ Resume(t) \/ Unpause(t)
  \/ Rebound(t) \/ CannotRebind(t) \/ WatchStale(t) \/ WatchPolls(t) \/ Polled(t)
  \/ WatchEnds(t) \/ WatchFinishes(t)
  \/ SoftArms(t) \/ SoftEnds(t) \/ SoftJudges(t)

Heals(t) ==
  \/ Handover(t) \/ HandoverLater(t) \/ HandoverIgnored(t) \/ Heal(t) \/ HealInGap(t)
  \/ RecycleLater(t) \/ RecycleIgnored(t) \/ RecycleBegins(t) \/ RecyclesExhausted(t)
  \/ StopEngine(t) \/ StartEngine(t) \/ EngineFails(t) \/ EngineReady(t) \/ Recycled(t)
  \/ FailOffline(t) \/ FailOnline(t) \/ Exit(t)

Task(t) == Watches(t) \/ Heals(t) \/ ProbeSucceeds(t)

Connection(c) == DialTimeout(c) \/ ZeroPaths(c)

Next ==
  /\ alive
  /\ \/ NetLost \/ PauseEngine \/ NetBack \/ Wake
     \/ \E t \in Tasks : NetChange(t) \/ Task(t)
     \/ DialOk \/ DialTimeoutOffline \/ \E c \in Connections : Connection(c)
     \/ WindowEnds \/ PathsChange

Spec == Init /\ [][Next]_vars

(* Goroutines run, sleeps end, and a probe that is repeated for ever       *)
(* succeeds at last.  Everybody else owes nothing.                         *)
FairSpec ==
  /\ Spec
  /\ WF_vars(alive /\ PauseEngine)
  /\ \A r \in Routines : WF_vars(alive /\ Task(r)) /\ SF_vars(alive /\ ProbeSucceeds(r))

-----------------------------------------------------------------------------
(* requestRecycle: one goroutine at most is between the stop of the old    *)
(* engine and the verdict on the new one, and recycling is never left set  *)
(* without one, also when the network is lost in the middle.  (TypeOK is   *)
(* checked with it.)                                                       *)
RecycleIsExclusive ==
  LET recyclers == {t \in Tasks : at[t] \in RecycleSteps}
  IN /\ TypeOK
     /\ Cardinality(recyclers) = IF recycling THEN 1 ELSE 0

(* heal: "An in-flight rebind whose paths are still down keeps its         *)
(* watchdog": rebindInFlight is set as long as the latest rebind has a     *)
(* goroutine that will judge it, and no longer.                            *)
InFlightIsWatched ==
  rebindInFlight <=> \E t \in Tasks : fresh[t] /\ at[t] \in RebindSteps

(* pausedWatchdog: a pause of the guard has a goroutine that will end it   *)
(* without the host, whatever other pauses, wakes and probes come between. *)
PauseIsWatched ==
  paused /\ ~exiting =>
    \E t \in Routines \cup {Host} : fresh[t] /\ at[t] \in PauseSteps

(* "The host is supposed to send netback, but the module must not depend   *)
(* on it."                                                                 *)
NetbackNotNeeded == paused ~> (~paused \/ exiting)

(* pausedWatchdog "exits as soon as the pause generation changes": a probe *)
(* of one pause never ends a later one.                                    *)
ResumeIsEarned ==
  [][\A t \in Tasks :
       via[t] = "probe" /\ at[t] = "resume" /\ at'[t] = "unpause" => fresh[t]]_vars

(* netlost pauses the TURN workers: when no host event and no resume is    *)
(* under way, a running engine is paused if and only if the guard is.      *)
EnginePauseAgrees ==
  up /\ at[Host] # "pause" /\ (\A t \in Tasks : at[t] # "unpause")
     => enginePaused = paused

(* heal: "An in-flight rebind whose paths are still down keeps its         *)
(* watchdog": a heal does not rebind again, and so outdate the watchdog    *)
(* that would recycle, while a rebind is in flight and no path is ready.   *)
HealKeepsWatchdog ==
  [][\A c \in Connections :
       at[c] = "handover" /\ at'[c] = "rebind" => ~(rebindInFlight /\ NoPath)]_vars
=============================================================================
