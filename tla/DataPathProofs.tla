--------------------------- MODULE DataPathProofs ---------------------------
(***************************************************************************)
(* Safety of the data path guard (DataPath, datapath.go) for any number of *)
(* connections and goroutines, any thresholds and any set of builds.       *)
(*                                                                         *)
(* The argument: each of the guard's three duties has one goroutine.       *)
(*   - A recycle belongs to the task that set recycling, from the stop of  *)
(*     the engine to the verdict; every verdict clears the mark.           *)
(*   - A rebind in flight belongs to the task that holds the present       *)
(*     rebindGen in a step of the watchdog.  A new rebind outdates the     *)
(*     holder in the section that makes the new one, and who is outdated   *)
(*     may not clear the mark.                                             *)
(*   - A pause belongs to a goroutine (or to the host that is about to     *)
(*     start it) that holds the present pauseGen; while the pause lasts it *)
(*     only alternates between sleep and probe.                            *)
(* A goroutine hands its duty to another one only as it returns, and the   *)
(* other one was idle: no duty is lost when the holder changes.            *)
(***************************************************************************)
EXTENDS DataPath, FiniteSetTheorems, TLAPS

Flags ==
  /\ paused \in BOOLEAN /\ pendingRecycle \in BOOLEAN /\ pendingHard \in BOOLEAN
  /\ rebindInFlight \in BOOLEAN /\ recycling \in BOOLEAN /\ pendingHandover \in BOOLEAN
  /\ exiting \in BOOLEAN /\ grace \in BOOLEAN /\ justRebound \in BOOLEAN
  /\ up \in BOOLEAN /\ enginePaused \in BOOLEAN /\ alive \in BOOLEAN

Counts ==
  /\ dialFails \in 0..FailThreshold
  /\ recycles \in 0..MaxRecycles
  /\ recycleAge \in {"recent", "gap", "stable"}
  /\ lacks \in Builds
  /\ paths \in {Unknown, 0, 1}
  /\ events \in 0..MaxEvents

Callers == {"none", "netback", "probe", "handover"}

TaskTypes ==
  /\ at \in [Tasks -> Steps]
  /\ fresh \in [Tasks -> BOOLEAN]
  /\ hard \in [Tasks -> BOOLEAN]
  /\ via \in [Tasks -> Callers]
  /\ noted \in [Tasks -> BOOLEAN]

(* Who is in resumeFromPause has a caller to return to. *)
Called == \A t \in Tasks : at[t] = "resume" => via[t] # "none"

Recycles(t) == at[t] \in RecycleSteps

OneRecycler ==
  /\ \A t, u \in Tasks : Recycles(t) /\ Recycles(u) => t = u
  /\ recycling <=> \E t \in Tasks : Recycles(t)

Rebinds(t) == fresh[t] /\ at[t] \in RebindSteps

OneRebind ==
  /\ \A t, u \in Tasks : Rebinds(t) /\ Rebinds(u) => t = u
  /\ rebindInFlight <=> \E t \in Tasks : Rebinds(t)

(* t will look after the pause. *)
Guards(t) == fresh[t] /\ at[t] \in PauseSteps

IInv ==
  /\ Flags /\ Counts /\ TaskTypes /\ Called
  /\ OneRecycler /\ OneRebind /\ PauseIsWatched

-----------------------------------------------------------------------------
(* The type invariant in three parts.                                      *)
LEMMA TypeParts == TypeOK <=> Flags /\ Counts /\ TaskTypes
  BY DEF TypeOK, Flags, Counts, TaskTypes, Callers

(* The goroutines and the host are tasks; the wake monitor is neither. *)
LEMMA Members ==
  /\ Routines \cup Connections \cup {Host, NetMonitor, WakeMonitor} = Tasks
  /\ WakeMonitor \notin Routines \cup {Host}
  BY DataPathAssumption DEF Tasks

(* go f(...): the goroutine r that goes on is the one that returns, or one *)
(* that was idle; it has the generation of the one that returns.           *)
Started(t, to, r) ==
  /\ t \in Routines => r = t
  /\ r # t => at[r] = "idle"
  /\ at' = [u \in Tasks |-> IF u = r THEN to ELSE IF u = t THEN "idle" ELSE at[u]]
  /\ fresh' = [u \in Tasks |->
                 IF u = r THEN fresh[t] ELSE IF u = t THEN FALSE ELSE fresh[u]]
  /\ hard' \in [Tasks -> BOOLEAN]
  /\ via' \in [Tasks -> Callers]
  /\ \A u \in Tasks \ {t} : via'[u] = via[u]
  /\ noted' \in [Tasks -> BOOLEAN]

(* A go statement finds one goroutine.                                     *)
LEMMA StartsOne ==
  ASSUME TaskTypes, NEW t \in Tasks, NEW to \in Steps, NEW h \in BOOLEAN,
         Starts(t, to, h)
  PROVE  \E r \in Routines : Started(t, to, r)
<1> DEFINE r == IF t \in Routines THEN t ELSE CHOOSE q \in Routines : at[q] = "idle"
<1>1. r \in Routines /\ (t \in Routines => r = t) /\ (r # t => at[r] = "idle")
  BY DEF Starts
<1>2. /\ at' = [at EXCEPT ![t] = "idle", ![r] = to]
      /\ fresh' = [fresh EXCEPT ![t] = FALSE, ![r] = fresh[t]]
      /\ hard' = [hard EXCEPT ![t] = FALSE, ![r] = h]
      /\ via' = [via EXCEPT ![t] = "none"]
      /\ noted' = [noted EXCEPT ![t] = FALSE]
  BY Zenon DEF Starts
<1>3. r \in Tasks
  BY <1>1, Members
<1> HIDE DEF r
<1>4. /\ at' = [u \in Tasks |-> IF u = r THEN to ELSE IF u = t THEN "idle" ELSE at[u]]
      /\ fresh' = [u \in Tasks |->
                     IF u = r THEN fresh[t] ELSE IF u = t THEN FALSE ELSE fresh[u]]
  BY <1>2, <1>3 DEF TaskTypes
<1>5. /\ hard' \in [Tasks -> BOOLEAN]
      /\ via' \in [Tasks -> Callers]
      /\ \A u \in Tasks \ {t} : via'[u] = via[u]
      /\ noted' \in [Tasks -> BOOLEAN]
  BY <1>2, <1>3 DEF TaskTypes, Callers
<1> QED
  BY <1>1, <1>4, <1>5 DEF Started

(* Apart from t, the tasks in the steps S stay in them with their           *)
(* generation and caller; no task joins them, and t is not in them.        *)
Aside(t, S) ==
  /\ TaskTypes'
  /\ at'[t] \notin S
  /\ \A u \in Tasks \ {t} :
       /\ at'[u] \in S <=> at[u] \in S
       /\ at[u] \in S => fresh'[u] = fresh[u] /\ via'[u] = via[u]

(* A goroutine that is started outside the steps of a duty.                *)
LEMMA StartsAside ==
  ASSUME TaskTypes, NEW t \in Tasks, NEW to \in Steps, NEW h \in BOOLEAN,
         Starts(t, to, h), NEW S, "idle" \notin S, to \notin S
  PROVE  Aside(t, S)
<1>1. PICK r \in Routines : Started(t, to, r)
  BY StartsOne
<1>2. "idle" \in Steps
  BY DEF Steps
<1>3. TaskTypes'
  BY <1>1, <1>2 DEF TaskTypes, Started
<1> QED
  BY <1>1, <1>3, Members DEF Started, Aside

(* What follows a resume, a heal or a soft resume, is of no duty yet.      *)
LEMMA FollowsUpAside ==
  ASSUME TaskTypes, NEW t \in Tasks, FollowsUp(t),
         NEW S, "idle" \notin S, "heal" \notin S, "arm" \notin S
  PROVE  Aside(t, S)
<1>1. "heal" \in Steps /\ "arm" \in Steps /\ hard[t] \in BOOLEAN
  BY DEF Steps, TaskTypes
<1>2. CASE noted[t]
  <2>1. Starts(t, "heal", hard[t])
    BY <1>2 DEF FollowsUp
  <2> QED
    BY <1>1, <2>1, StartsAside
<1>3. CASE ~noted[t]
  <2>1. Starts(t, "arm", FALSE)
    BY <1>3 DEF FollowsUp
  <2> QED
    BY <1>1, <2>1, StartsAside
<1> QED
  BY <1>2, <1>3

(* The actions that start a goroutine, or go on from resumeFromPause. *)
LEMMA NotPausedAside ==
  ASSUME TaskTypes, Called, NEW t \in Tasks, NotPaused(t),
         NEW S, "idle" \notin S, "heal" \notin S, "arm" \notin S, "handover" \notin S
  PROVE  Aside(t, S)
<1>1. via[t] \in {"netback", "probe", "handover"}
  BY DEF NotPaused, Called, TaskTypes, Callers
<1>2. CASE via[t] = "netback"
  <2>1. Returns(t)
    BY <1>2 DEF NotPaused
  <2> QED
    BY <2>1 DEF Returns, Aside, TaskTypes, Steps, Callers
<1>3. CASE via[t] = "probe"
  <2>1. FollowsUp(t)
    BY <1>3 DEF NotPaused
  <2> QED
    BY <2>1, FollowsUpAside
<1>4. CASE via[t] = "handover"
  <2>1. Drops(t, "handover")
    BY <1>4 DEF NotPaused
  <2> QED
    BY <2>1 DEF Drops, Aside, TaskTypes, Steps, Callers
<1> QED
  BY <1>1, <1>2, <1>3, <1>4

(* Nor is the end of a resume, which goes on as a handover or in this way. *)
LEMMA UnpauseAside ==
  ASSUME TaskTypes, NEW t \in Tasks, Unpause(t),
         NEW S, "idle" \notin S, "heal" \notin S, "arm" \notin S, "handover" \notin S
  PROVE  Aside(t, S)
<1>1. CASE via[t] = "handover"
  <2>1. Goes(t, "handover")
    BY <1>1 DEF Unpause
  <2> QED
    BY <2>1 DEF Goes, Aside, TaskTypes, Steps
<1>2. CASE via[t] # "handover"
  <2>1. FollowsUp(t)
    BY <1>2 DEF Unpause
  <2> QED
    BY <2>1, FollowsUpAside
<1> QED
  BY <1>1, <1>2

(* A rebind that has begun goes on as its watchdog.                        *)
LEMMA ReboundAside ==
  ASSUME TaskTypes, NEW t \in Tasks, Rebound(t), NEW S, "idle" \notin S, "watch" \notin S
  PROVE  Aside(t, S)
<1>1. Starts(t, "watch", FALSE) /\ "watch" \in Steps
  BY DEF Rebound, Steps
<1> QED
  BY <1>1, StartsAside

(* Without the symbol for a rebind a recycle follows.                      *)
LEMMA CannotRebindAside ==
  ASSUME TaskTypes, NEW t \in Tasks, CannotRebind(t),
         NEW S, "idle" \notin S, "recycle" \notin S
  PROVE  Aside(t, S)
<1>1. Starts(t, "recycle", FALSE) /\ "recycle" \in Steps
  BY DEF CannotRebind, Steps
<1> QED
  BY <1>1, StartsAside

(* A pause of the engine goes on as the goroutine that probes.             *)
LEMMA PauseEngineAside ==
  ASSUME TaskTypes, PauseEngine, NEW S, "idle" \notin S, "nap" \notin S
  PROVE  Aside(Host, S)
<1>1. Starts(Host, "nap", FALSE) /\ "nap" \in Steps /\ Host \in Tasks
  BY Members DEF PauseEngine, Steps
<1> QED
  BY <1>1, StartsAside

(* A wake outside a pause starts the timer of the soft resume.             *)
LEMMA WakeAside ==
  ASSUME TaskTypes, Wake, ~paused, NEW S, "idle" \notin S, "arm" \notin S
  PROVE  Aside(WakeMonitor, S)
<1>1. Starts(WakeMonitor, "arm", FALSE) /\ "arm" \in Steps /\ WakeMonitor \in Tasks
  BY Members DEF Wake, Steps
<1> QED
  BY <1>1, StartsAside

(* What a step aside of a duty leaves true of it. *)
LEMMA CalledAside ==
  ASSUME NEW t \in Tasks, Called, Aside(t, {"resume"})
  PROVE  TaskTypes' /\ Called'
  BY DEF Called, Aside

(* Aside of a recycle its mark keeps its owner.                            *)
LEMMA RecyclerAside ==
  ASSUME NEW t \in Tasks, OneRecycler, Aside(t, RecycleSteps),
         at[t] \notin RecycleSteps, recycling' = recycling
  PROVE  OneRecycler'
  BY DEF OneRecycler, Recycles, Aside

(* The same for a rebind in flight.                                        *)
LEMMA RebindAside ==
  ASSUME NEW t \in Tasks, OneRebind, Aside(t, RebindSteps),
         at[t] \notin RebindSteps, rebindInFlight' = rebindInFlight
  PROVE  OneRebind'
  BY DEF OneRebind, Rebinds, Aside

(* The same for a pause.                                                   *)
LEMMA PauseAside ==
  ASSUME NEW t \in Tasks, PauseIsWatched, Aside(t, PauseSteps),
         at[t] \notin PauseSteps, paused' = paused, exiting' = exiting
  PROVE  PauseIsWatched'
  BY Members DEF PauseIsWatched, Aside

-----------------------------------------------------------------------------
(* Steps that move tasks and nothing else. *)
QuietStep(t) ==
  \/ NapEnds(t) \/ ProbeFails(t) \/ Proved(t) \/ NotPaused(t) \/ Rebound(t)
  \/ WatchStale(t) \/ WatchPolls(t) \/ Polled(t) \/ WatchEnds(t) \/ SoftArms(t)
  \/ SoftEnds(t) \/ SoftJudges(t) \/ ProbeSucceeds(t) \/ HandoverIgnored(t)
  \/ Heal(t) \/ HealInGap(t) \/ RecycleIgnored(t) \/ EngineFails(t)
  \/ EngineReady(t)

(* They leave the guard and the world alone.                               *)
LEMMA QuietLeaves ==
  ASSUME NEW t, QuietStep(t)
  PROVE  UNCHANGED <<guard, world, events>>
  BY Zenon DEF QuietStep, NapEnds, ProbeFails, Proved, NotPaused, Rebound,
     WatchStale, WatchPolls, Polled, WatchEnds, SoftArms, SoftEnds, SoftJudges,
     ProbeSucceeds, HandoverIgnored, Heal, HealInGap, RecycleIgnored, EngineFails,
     EngineReady

(* Tasks keep their types, and go to resumeFromPause only from a caller. *)
LEMMA TypesStep ==
  ASSUME IInv, Next
  PROVE  TaskTypes' /\ Called'
<1> USE DEF IInv, Flags, TaskTypes, Callers, Called, Steps, tasks
<1>1. ASSUME NEW t \in Tasks, Watches(t)
     PROVE  TaskTypes' /\ Called'
  <2>1. CASE NapEnds(t)
    BY <2>1, ZenonT(40) DEF NapEnds, Goes, Returns
  <2>2. CASE ProbeFails(t)
    BY <2>2, ZenonT(40) DEF ProbeFails, Goes, Returns
  <2>3. CASE Proved(t)
    <3>1. CASE paused /\ fresh[t]
      BY <2>3, <3>1 DEF Proved, Calls
    <3>2. CASE ~(paused /\ fresh[t])
      BY <2>3, <3>2 DEF Proved, Returns
    <3> QED
      BY <3>1, <3>2
  <2>4. CASE NotPaused(t)
    <3>1. Aside(t, {"resume"})
      BY <2>4, NotPausedAside
    <3> QED
      BY <3>1, CalledAside
  <2>5. CASE Resume(t)
    BY <2>5 DEF Resume, Tasks, Keeps
  <2>6. CASE Unpause(t)
    <3>1. Aside(t, {"resume"})
      BY <2>6, UnpauseAside
    <3> QED
      BY <3>1, CalledAside
  <2>7. CASE Rebound(t)
    <3>1. Aside(t, {"resume"})
      BY <2>7, ReboundAside
    <3> QED
      BY <3>1, CalledAside
  <2>8. CASE CannotRebind(t)
    <3>1. Aside(t, {"resume"})
      BY <2>8, CannotRebindAside
    <3> QED
      BY <3>1, CalledAside
  <2>9. CASE WatchStale(t)
    BY <2>9 DEF WatchStale, Goes
  <2>10. CASE WatchPolls(t)
    BY <2>10 DEF WatchPolls, Goes
  <2>11. CASE Polled(t)
    BY <2>11 DEF Polled, Goes
  <2>12. CASE WatchEnds(t)
    BY <2>12 DEF WatchEnds, Goes
  <2>13. CASE WatchFinishes(t)
    BY <2>13, ZenonT(40) DEF WatchFinishes, Returns
  <2>14. CASE SoftArms(t)
    BY <2>14 DEF SoftArms, Tasks, Keeps
  <2>15. CASE SoftEnds(t)
    BY <2>15, ZenonT(40) DEF SoftEnds, Drops, Returns
  <2>16. CASE SoftJudges(t)
    BY <2>16 DEF SoftJudges, Goes, Returns
  <2> QED
    BY <1>1, <2>1, <2>2, <2>3, <2>4, <2>5, <2>6, <2>7, <2>8, <2>9, <2>10, <2>11,
       <2>12, <2>13, <2>14, <2>15, <2>16, Zenon DEF Watches
<1>2. ASSUME NEW t \in Tasks, Heals(t)
     PROVE  TaskTypes' /\ Called'
  <2>1. CASE Handover(t)
    BY <2>1 DEF Handover, Tasks, Keeps
  <2>2. CASE HandoverLater(t)
    BY <2>2 DEF HandoverLater, Returns
  <2>3. CASE HandoverIgnored(t)
    BY <2>3 DEF HandoverIgnored, Returns
  <2>4. CASE Heal(t)
    BY <2>4, ZenonT(40) DEF Heal, Goes, Returns, Calls
  <2>5. CASE HealInGap(t)
    BY <2>5, ZenonT(40) DEF HealInGap, Returns
  <2>6. CASE RecycleLater(t)
    BY <2>6 DEF RecycleLater, Returns
  <2>7. CASE RecycleIgnored(t)
    BY <2>7 DEF RecycleIgnored, Returns
  <2>8. CASE RecycleBegins(t)
    BY <2>8 DEF RecycleBegins, MayRecycle, Goes
  <2>9. CASE RecyclesExhausted(t)
    BY <2>9 DEF RecyclesExhausted, MayRecycle, Goes
  <2>10. CASE StopEngine(t)
    BY <2>10 DEF StopEngine, Goes
  <2>11. CASE StartEngine(t)
    BY <2>11 DEF StartEngine, Goes
  <2>12. CASE EngineFails(t)
    BY <2>12 DEF EngineFails, Goes
  <2>13. CASE EngineReady(t)
    BY <2>13 DEF EngineReady, Goes
  <2>14. CASE Recycled(t)
    BY <2>14, ZenonT(40) DEF Recycled, Returns, Calls
  <2>15. CASE FailOffline(t)
    BY <2>15 DEF FailOffline, Returns
  <2>16. CASE FailOnline(t)
    BY <2>16 DEF FailOnline, Goes
  <2>17. CASE Exit(t)
    BY <2>17 DEF Exit
  <2> QED
    BY <1>2, <2>1, <2>2, <2>3, <2>4, <2>5, <2>6, <2>7, <2>8, <2>9, <2>10, <2>11,
       <2>12, <2>13, <2>14, <2>15, <2>16, <2>17, Zenon DEF Heals
<1>3. ASSUME NEW t \in Tasks, NetChange(t) \/ ProbeSucceeds(t)
     PROVE  TaskTypes' /\ Called'
  <2>1. CASE NetChange(t)
    BY <2>1 DEF NetChange, Calls
  <2>2. CASE ProbeSucceeds(t)
    BY <2>2 DEF ProbeSucceeds, Goes
  <2> QED
    BY <1>3, <2>1, <2>2
<1>4. ASSUME NEW t \in Connections, Connection(t)
     PROVE  TaskTypes' /\ Called'
  <2> t \in Tasks
    BY DEF Tasks
  <2>1. CASE DialTimeout(t)
    BY <2>1 DEF DialTimeout, Goes
  <2>2. CASE ZeroPaths(t)
    BY <2>2 DEF ZeroPaths, Goes
  <2> QED
    BY <1>4, <2>1, <2>2 DEF Connection
<1>5. CASE NetLost
  BY <1>5 DEF NetLost, Tasks, Keeps
<1>6. CASE PauseEngine
  <2>1. Aside(Host, {"resume"})
    BY <1>6, PauseEngineAside
  <2> QED
    BY <2>1, CalledAside, Members
<1>7. CASE NetBack
  BY <1>7 DEF NetBack, Calls
<1>8. CASE Wake
  <2>1. CASE paused
    BY <1>8, <2>1, Members DEF Wake
  <2>2. CASE ~paused
    <3>1. Aside(WakeMonitor, {"resume"})
      BY <1>8, <2>2, WakeAside
    <3> QED
      BY <3>1, CalledAside, Members
  <2> QED
    BY <2>1, <2>2
<1>9. CASE DialOk
  BY <1>9 DEF DialOk
<1>10. CASE DialTimeoutOffline
  BY <1>10 DEF DialTimeoutOffline
<1>11. CASE WindowEnds
  BY <1>11 DEF WindowEnds
<1>12. CASE PathsChange
  BY <1>12 DEF PathsChange
<1> QED
  BY <1>1, <1>2, <1>3, <1>4, <1>5, <1>6, <1>7, <1>8, <1>9, <1>10, <1>11, <1>12,
     Zenon DEF Next, Task

(* recycling is set and cleared by the one task that recycles. *)
LEMMA RecyclerStep ==
  ASSUME IInv, Next, TaskTypes'
  PROVE  OneRecycler'
<1> USE DEF IInv, TaskTypes, OneRecycler, Recycles, RecycleSteps, tasks
<1>1. ASSUME NEW t \in Tasks, Watches(t)
     PROVE  OneRecycler'
  <2>1. CASE NapEnds(t)
    BY <2>1 DEF NapEnds, guard, marks, Goes, Returns
  <2>2. CASE ProbeFails(t)
    BY <2>2 DEF ProbeFails, guard, marks, Goes, Returns
  <2>3. CASE Proved(t)
    BY <2>3 DEF Proved, guard, marks, Returns, Calls
  <2>4. CASE NotPaused(t)
    <3>1. Aside(t, RecycleSteps)
      BY <2>4, NotPausedAside DEF RecycleSteps
    <3> QED
      BY <2>4, <3>1, RecyclerAside DEF NotPaused, RecycleSteps, guard, marks
  <2>5. CASE Resume(t)
    BY <2>5 DEF Resume, marks, Tasks, Keeps
  <2>6. CASE Unpause(t)
    <3>1. Aside(t, RecycleSteps)
      BY <2>6, UnpauseAside DEF RecycleSteps
    <3> QED
      BY <2>6, <3>1, RecyclerAside DEF Unpause, RecycleSteps, guard, marks
  <2>7. CASE Rebound(t)
    <3>1. Aside(t, RecycleSteps)
      BY <2>7, ReboundAside DEF RecycleSteps
    <3> QED
      BY <2>7, <3>1, RecyclerAside DEF Rebound, RecycleSteps, guard, marks
  <2>8. CASE CannotRebind(t)
    <3>1. Aside(t, RecycleSteps)
      BY <2>8, CannotRebindAside DEF RecycleSteps
    <3> QED
      BY <2>8, <3>1, RecyclerAside DEF CannotRebind, RecycleSteps, guard, marks
  <2>9. CASE WatchStale(t)
    BY <2>9 DEF WatchStale, guard, marks, Goes
  <2>10. CASE WatchPolls(t)
    BY <2>10 DEF WatchPolls, guard, marks, Goes
  <2>11. CASE Polled(t)
    BY <2>11 DEF Polled, guard, marks, Goes
  <2>12. CASE WatchEnds(t)
    BY <2>12 DEF WatchEnds, guard, marks, Goes
  <2>13. CASE WatchFinishes(t)
    BY <2>13 DEF WatchFinishes, Returns
  <2>14. CASE SoftArms(t)
    BY <2>14 DEF SoftArms, guard, marks, Tasks, Keeps
  <2>15. CASE SoftEnds(t)
    BY <2>15 DEF SoftEnds, guard, marks, Drops, Returns
  <2>16. CASE SoftJudges(t)
    BY <2>16 DEF SoftJudges, guard, marks, Goes, Returns
  <2> QED
    BY <1>1, <2>1, <2>2, <2>3, <2>4, <2>5, <2>6, <2>7, <2>8, <2>9, <2>10, <2>11,
       <2>12, <2>13, <2>14, <2>15, <2>16, Zenon DEF Watches
<1>2. ASSUME NEW t \in Tasks, Heals(t)
     PROVE  OneRecycler'
  <2>1. CASE Handover(t)
    BY <2>1 DEF Handover, Tasks, Keeps
  <2>2. CASE HandoverLater(t)
    BY <2>2 DEF HandoverLater, Returns
  <2>3. CASE HandoverIgnored(t)
    BY <2>3 DEF HandoverIgnored, guard, marks, Returns
  <2>4. CASE Heal(t)
    BY <2>4 DEF Heal, guard, marks, Goes, Returns, Calls
  <2>5. CASE HealInGap(t)
    BY <2>5 DEF HealInGap, guard, marks, Returns
  <2>6. CASE RecycleLater(t)
    BY <2>6 DEF RecycleLater, marks, Returns
  <2>7. CASE RecycleIgnored(t)
    BY <2>7 DEF RecycleIgnored, guard, marks, Returns
  <2>8. CASE RecycleBegins(t)
    BY <2>8 DEF RecycleBegins, MayRecycle, Goes
  <2>9. CASE RecyclesExhausted(t)
    BY <2>9 DEF RecyclesExhausted, marks, MayRecycle, Goes
  <2>10. CASE StopEngine(t)
    BY <2>10 DEF StopEngine, guard, marks, Goes
  <2>11. CASE StartEngine(t)
    BY <2>11 DEF StartEngine, guard, marks, Goes
  <2>12. CASE EngineFails(t)
    BY <2>12 DEF EngineFails, guard, marks, Goes
  <2>13. CASE EngineReady(t)
    BY <2>13 DEF EngineReady, guard, marks, Goes
  <2>14. CASE Recycled(t)
    BY <2>14 DEF Recycled, Returns, Calls
  <2>15. CASE FailOffline(t)
    BY <2>15 DEF FailOffline, Returns
  <2>16. CASE FailOnline(t)
    BY <2>16 DEF FailOnline, Goes
  <2>17. CASE Exit(t)
    BY <2>17 DEF Exit, guard, marks
  <2> QED
    BY <1>2, <2>1, <2>2, <2>3, <2>4, <2>5, <2>6, <2>7, <2>8, <2>9, <2>10, <2>11,
       <2>12, <2>13, <2>14, <2>15, <2>16, <2>17, Zenon DEF Heals
<1>3. ASSUME NEW t \in Tasks, NetChange(t) \/ ProbeSucceeds(t)
     PROVE  OneRecycler'
  <2>1. CASE NetChange(t)
    BY <2>1 DEF NetChange, guard, marks, Calls
  <2>2. CASE ProbeSucceeds(t)
    BY <2>2 DEF ProbeSucceeds, guard, marks, Goes
  <2> QED
    BY <1>3, <2>1, <2>2
<1>4. ASSUME NEW t \in Connections, Connection(t)
     PROVE  OneRecycler'
  <2> t \in Tasks
    BY DEF Tasks
  <2>1. CASE DialTimeout(t)
    BY <2>1 DEF DialTimeout, marks, Goes
  <2>2. CASE ZeroPaths(t)
    BY <2>2 DEF ZeroPaths, guard, marks, Goes
  <2> QED
    BY <1>4, <2>1, <2>2 DEF Connection
<1>5. CASE NetLost
  BY <1>5 DEF NetLost, marks, Tasks, Keeps
<1>6. CASE PauseEngine
  <2>1. Aside(Host, RecycleSteps)
    BY <1>6, PauseEngineAside DEF RecycleSteps
  <2> QED
    BY <1>6, <2>1, RecyclerAside, Members DEF PauseEngine, RecycleSteps, guard, marks
<1>7. CASE NetBack
  BY <1>7 DEF NetBack, guard, marks, Calls
<1>8. CASE Wake
  <2>1. CASE paused
    BY <1>8, <2>1, Members DEF Wake, guard, marks
  <2>2. CASE ~paused
    <3>1. Aside(WakeMonitor, RecycleSteps)
      BY <1>8, <2>2, WakeAside DEF RecycleSteps
    <3> QED
      BY <1>8, <3>1, RecyclerAside, Members DEF Wake, RecycleSteps, guard, marks
  <2> QED
    BY <2>1, <2>2
<1>9. CASE DialOk
  BY <1>9 DEF DialOk, marks
<1>10. CASE DialTimeoutOffline
  BY <1>10 DEF DialTimeoutOffline, marks
<1>11. CASE WindowEnds
  BY <1>11 DEF WindowEnds, marks
<1>12. CASE PathsChange
  BY <1>12 DEF PathsChange, guard, marks
<1> QED
  BY <1>1, <1>2, <1>3, <1>4, <1>5, <1>6, <1>7, <1>8, <1>9, <1>10, <1>11, <1>12,
     Zenon DEF Next, Task

(* The latest rebind has one holder, who alone clears rebindInFlight. *)
LEMMA RebindStep ==
  ASSUME IInv, Next, TaskTypes'
  PROVE  OneRebind'
<1> USE DEF IInv, TaskTypes, OneRebind, Rebinds, RebindSteps, tasks
<1>1. ASSUME NEW t \in Tasks, Watches(t)
     PROVE  OneRebind'
  <2>1. CASE NapEnds(t)
    BY <2>1 DEF NapEnds, guard, marks, Goes, Returns
  <2>2. CASE ProbeFails(t)
    BY <2>2 DEF ProbeFails, guard, marks, Goes, Returns
  <2>3. CASE Proved(t)
    BY <2>3 DEF Proved, guard, marks, Returns, Calls
  <2>4. CASE NotPaused(t)
    <3>1. Aside(t, RebindSteps)
      BY <2>4, NotPausedAside DEF RebindSteps
    <3> QED
      BY <2>4, <3>1, RebindAside DEF NotPaused, RebindSteps, guard, marks
  <2>5. CASE Resume(t)
    BY <2>5 DEF Resume, marks, Tasks, PauseSteps, Keeps
  <2>6. CASE Unpause(t)
    <3>1. Aside(t, RebindSteps)
      BY <2>6, UnpauseAside DEF RebindSteps
    <3> QED
      BY <2>6, <3>1, RebindAside DEF Unpause, RebindSteps, guard, marks
  <2>7. CASE Rebound(t)
    <3>1. Rebinds(t) <=> fresh[t]
      BY <2>7 DEF Rebound, Rebinds, RebindSteps
    <3>2. PICK r \in Routines : Started(t, "watch", r)
      <4>1. Starts(t, "watch", FALSE) /\ "watch" \in Steps
        BY <2>7 DEF Rebound, Steps
      <4> QED
        BY <4>1, StartsOne
    <3>3. r \in Tasks /\ rebindInFlight' = rebindInFlight
      BY <2>7, Members DEF Rebound, guard, marks
    <3>4. \A u \in Tasks : Rebinds(u)' <=> IF u = r THEN fresh[t] ELSE u # t /\ Rebinds(u)
      BY <3>2, <3>3 DEF Started, Rebinds, RebindSteps
    <3>5. Rebinds(r) => r = t
      BY <3>2 DEF Started, Rebinds, RebindSteps
    <3> QED
      BY <3>1, <3>3, <3>4, <3>5 DEF OneRebind
  <2>8. CASE CannotRebind(t)
    <3>1. Aside(t, RebindSteps) /\ at[t] \in RebindSteps
      BY <2>8, CannotRebindAside DEF CannotRebind, RebindSteps
    <3>2. rebindInFlight' = (rebindInFlight /\ ~fresh[t])
      BY <2>8 DEF CannotRebind, FinishRebind
    <3>3. \A u \in Tasks : Rebinds(u)' <=> u # t /\ Rebinds(u)
      BY <3>1 DEF Aside, Rebinds
    <3>4. Rebinds(t) <=> fresh[t]
      BY <3>1 DEF Rebinds
    <3> QED
      BY <3>2, <3>3, <3>4 DEF OneRebind
  <2>9. CASE WatchStale(t)
    BY <2>9 DEF WatchStale, guard, marks, Goes
  <2>10. CASE WatchPolls(t)
    BY <2>10 DEF WatchPolls, guard, marks, Goes
  <2>11. CASE Polled(t)
    BY <2>11 DEF Polled, guard, marks, Goes
  <2>12. CASE WatchEnds(t)
    BY <2>12 DEF WatchEnds, guard, marks, Goes
  <2>13. CASE WatchFinishes(t)
    BY <2>13 DEF WatchFinishes, FinishRebind, Returns
  <2>14. CASE SoftArms(t)
    BY <2>14 DEF SoftArms, guard, marks, Tasks, SoftSteps, Keeps
  <2>15. CASE SoftEnds(t)
    BY <2>15 DEF SoftEnds, guard, marks, Drops, Returns
  <2>16. CASE SoftJudges(t)
    BY <2>16 DEF SoftJudges, guard, marks, Goes, Returns
  <2> QED
    BY <1>1, <2>1, <2>2, <2>3, <2>4, <2>5, <2>6, <2>7, <2>8, <2>9, <2>10, <2>11,
       <2>12, <2>13, <2>14, <2>15, <2>16, Zenon DEF Watches
<1>2. ASSUME NEW t \in Tasks, Heals(t)
     PROVE  OneRebind'
  <2>1. CASE Handover(t)
    BY <2>1, ZenonT(40) DEF Handover, Tasks, Keeps
  <2>2. CASE HandoverLater(t)
    BY <2>2 DEF HandoverLater, Returns
  <2>3. CASE HandoverIgnored(t)
    BY <2>3 DEF HandoverIgnored, guard, marks, Returns
  <2>4. CASE Heal(t)
    BY <2>4 DEF Heal, guard, marks, Goes, Returns, Calls
  <2>5. CASE HealInGap(t)
    BY <2>5 DEF HealInGap, guard, marks, Returns
  <2>6. CASE RecycleLater(t)
    BY <2>6 DEF RecycleLater, marks, Returns
  <2>7. CASE RecycleIgnored(t)
    BY <2>7 DEF RecycleIgnored, guard, marks, Returns
  <2>8. CASE RecycleBegins(t)
    BY <2>8 DEF RecycleBegins, MayRecycle, Goes
  <2>9. CASE RecyclesExhausted(t)
    BY <2>9 DEF RecyclesExhausted, marks, MayRecycle, Goes
  <2>10. CASE StopEngine(t)
    BY <2>10 DEF StopEngine, guard, marks, Goes
  <2>11. CASE StartEngine(t)
    BY <2>11 DEF StartEngine, guard, marks, Goes
  <2>12. CASE EngineFails(t)
    BY <2>12 DEF EngineFails, guard, marks, Goes
  <2>13. CASE EngineReady(t)
    BY <2>13 DEF EngineReady, guard, marks, Goes
  <2>14. CASE Recycled(t)
    BY <2>14 DEF Recycled, Returns, Calls
  <2>15. CASE FailOffline(t)
    BY <2>15 DEF FailOffline, Returns
  <2>16. CASE FailOnline(t)
    BY <2>16 DEF FailOnline, Goes
  <2>17. CASE Exit(t)
    BY <2>17 DEF Exit, guard, marks
  <2> QED
    BY <1>2, <2>1, <2>2, <2>3, <2>4, <2>5, <2>6, <2>7, <2>8, <2>9, <2>10, <2>11,
       <2>12, <2>13, <2>14, <2>15, <2>16, <2>17, Zenon DEF Heals
<1>3. ASSUME NEW t \in Tasks, NetChange(t) \/ ProbeSucceeds(t)
     PROVE  OneRebind'
  <2>1. CASE NetChange(t)
    BY <2>1 DEF NetChange, guard, marks, Calls
  <2>2. CASE ProbeSucceeds(t)
    BY <2>2 DEF ProbeSucceeds, guard, marks, Goes
  <2> QED
    BY <1>3, <2>1, <2>2
<1>4. ASSUME NEW t \in Connections, Connection(t)
     PROVE  OneRebind'
  <2> t \in Tasks
    BY DEF Tasks
  <2>1. CASE DialTimeout(t)
    BY <2>1 DEF DialTimeout, marks, Goes
  <2>2. CASE ZeroPaths(t)
    BY <2>2 DEF ZeroPaths, guard, marks, Goes
  <2> QED
    BY <1>4, <2>1, <2>2 DEF Connection
<1>5. CASE NetLost
  BY <1>5 DEF NetLost, marks, Tasks, PauseSteps, Keeps
<1>6. CASE PauseEngine
  <2>1. Aside(Host, RebindSteps)
    BY <1>6, PauseEngineAside DEF RebindSteps
  <2> QED
    BY <1>6, <2>1, RebindAside, Members DEF PauseEngine, RebindSteps, guard, marks
<1>7. CASE NetBack
  BY <1>7 DEF NetBack, guard, marks, Calls
<1>8. CASE Wake
  <2>1. CASE paused
    BY <1>8, <2>1, Members DEF Wake, guard, marks
  <2>2. CASE ~paused
    <3>1. Aside(WakeMonitor, RebindSteps)
      BY <1>8, <2>2, WakeAside DEF RebindSteps
    <3> QED
      BY <1>8, <3>1, RebindAside, Members DEF Wake, RebindSteps, guard, marks
  <2> QED
    BY <2>1, <2>2
<1>9. CASE DialOk
  BY <1>9 DEF DialOk, marks
<1>10. CASE DialTimeoutOffline
  BY <1>10 DEF DialTimeoutOffline, marks
<1>11. CASE WindowEnds
  BY <1>11 DEF WindowEnds, marks
<1>12. CASE PathsChange
  BY <1>12 DEF PathsChange, guard, marks
<1> QED
  BY <1>1, <1>2, <1>3, <1>4, <1>5, <1>6, <1>7, <1>8, <1>9, <1>10, <1>11, <1>12,
     Zenon DEF Next, Task

(* While the pause lasts, its guard stays. *)
LEMMA GuardStays ==
  ASSUME IInv, Next, TaskTypes', paused, paused', ~exiting,
         NEW w \in Routines \cup {Host}, Guards(w), ~NetLost, ~PauseEngine
  PROVE  Guards(w)'
<1> w \in Tasks /\ w # WakeMonitor
  BY Members
<1> USE DEF IInv, TaskTypes, Guards, PauseSteps, tasks
<1>1. ASSUME NEW t \in Tasks, Watches(t)
     PROVE  Guards(w)'
  <2>1. CASE NapEnds(t)
    BY <2>1 DEF NapEnds, Goes, Returns
  <2>2. CASE ProbeFails(t)
    BY <2>2 DEF ProbeFails, Goes, Returns
  <2>3. CASE Proved(t)
    BY <2>3 DEF Proved, Returns, Calls
  <2>4. CASE NotPaused(t)
    BY <2>4 DEF NotPaused, Drops, Returns
  <2>5. CASE Resume(t)
    BY <2>5 DEF Resume, Tasks, Keeps
  <2>6. CASE Unpause(t)
    <3>1. Aside(t, PauseSteps) /\ at[t] \notin PauseSteps
      BY <2>6, UnpauseAside DEF Unpause, PauseSteps
    <3> QED
      BY <3>1 DEF Aside, Guards
  <2>7. CASE Rebound(t)
    <3>1. Aside(t, PauseSteps) /\ at[t] \notin PauseSteps
      BY <2>7, ReboundAside DEF Rebound, PauseSteps
    <3> QED
      BY <3>1 DEF Aside, Guards
  <2>8. CASE CannotRebind(t)
    <3>1. Aside(t, PauseSteps) /\ at[t] \notin PauseSteps
      BY <2>8, CannotRebindAside DEF CannotRebind, PauseSteps
    <3> QED
      BY <3>1 DEF Aside, Guards
  <2>9. CASE WatchStale(t)
    BY <2>9 DEF WatchStale, Goes
  <2>10. CASE WatchPolls(t)
    BY <2>10 DEF WatchPolls, Goes
  <2>11. CASE Polled(t)
    BY <2>11 DEF Polled, Goes
  <2>12. CASE WatchEnds(t)
    BY <2>12 DEF WatchEnds, Goes
  <2>13. CASE WatchFinishes(t)
    BY <2>13 DEF WatchFinishes, Returns
  <2>14. CASE SoftArms(t)
    BY <2>14 DEF SoftArms, Tasks, SoftSteps, Keeps
  <2>15. CASE SoftEnds(t)
    BY <2>15 DEF SoftEnds, Drops, Returns
  <2>16. CASE SoftJudges(t)
    BY <2>16 DEF SoftJudges, Goes, Returns
  <2> QED
    BY <1>1, <2>1, <2>2, <2>3, <2>4, <2>5, <2>6, <2>7, <2>8, <2>9, <2>10, <2>11,
       <2>12, <2>13, <2>14, <2>15, <2>16, Zenon DEF Watches
<1>2. ASSUME NEW t \in Tasks, Heals(t)
     PROVE  Guards(w)'
  <2>1. CASE Handover(t)
    BY <2>1 DEF Handover, Tasks, RebindSteps, Keeps
  <2>2. CASE HandoverLater(t)
    BY <2>2 DEF HandoverLater, Returns
  <2>3. CASE HandoverIgnored(t)
    BY <2>3 DEF HandoverIgnored, Returns
  <2>4. CASE Heal(t)
    BY <2>4 DEF Heal, Goes, Returns, Calls
  <2>5. CASE HealInGap(t)
    BY <2>5 DEF HealInGap, Returns
  <2>6. CASE RecycleLater(t)
    BY <2>6 DEF RecycleLater, Returns
  <2>7. CASE RecycleIgnored(t)
    BY <2>7 DEF RecycleIgnored, Returns
  <2>8. CASE RecycleBegins(t)
    BY <2>8 DEF RecycleBegins, MayRecycle, Goes
  <2>9. CASE RecyclesExhausted(t)
    BY <2>9 DEF RecyclesExhausted, MayRecycle, Goes
  <2>10. CASE StopEngine(t)
    BY <2>10 DEF StopEngine, Goes
  <2>11. CASE StartEngine(t)
    BY <2>11 DEF StartEngine, Goes
  <2>12. CASE EngineFails(t)
    BY <2>12 DEF EngineFails, Goes
  <2>13. CASE EngineReady(t)
    BY <2>13 DEF EngineReady, Goes
  <2>14. CASE Recycled(t)
    BY <2>14 DEF Recycled, Returns, Calls
  <2>15. CASE FailOffline(t)
    BY <2>15 DEF FailOffline, Returns
  <2>16. CASE FailOnline(t)
    BY <2>16 DEF FailOnline, Goes
  <2>17. CASE Exit(t)
    BY <2>17 DEF Exit
  <2> QED
    BY <1>2, <2>1, <2>2, <2>3, <2>4, <2>5, <2>6, <2>7, <2>8, <2>9, <2>10, <2>11,
       <2>12, <2>13, <2>14, <2>15, <2>16, <2>17, Zenon DEF Heals
<1>3. ASSUME NEW t \in Tasks, NetChange(t) \/ ProbeSucceeds(t)
     PROVE  Guards(w)'
  <2>1. CASE NetChange(t)
    BY <2>1 DEF NetChange, Calls
  <2>2. CASE ProbeSucceeds(t)
    BY <2>2 DEF ProbeSucceeds, Goes
  <2> QED
    BY <1>3, <2>1, <2>2
<1>4. ASSUME NEW t \in Connections, Connection(t)
     PROVE  Guards(w)'
  <2> t \in Tasks
    BY DEF Tasks
  <2>1. CASE DialTimeout(t)
    BY <2>1 DEF DialTimeout, Goes
  <2>2. CASE ZeroPaths(t)
    BY <2>2 DEF ZeroPaths, Goes
  <2> QED
    BY <1>4, <2>1, <2>2 DEF Connection
<1>5. CASE NetLost
  BY <1>5
<1>6. CASE PauseEngine
  BY <1>6
<1>7. CASE NetBack
  BY <1>7 DEF NetBack, Calls
<1>8. CASE Wake
  BY <1>8 DEF Wake
<1>9. CASE DialOk
  BY <1>9 DEF DialOk
<1>10. CASE DialTimeoutOffline
  BY <1>10 DEF DialTimeoutOffline
<1>11. CASE WindowEnds
  BY <1>11 DEF WindowEnds
<1>12. CASE PathsChange
  BY <1>12 DEF PathsChange
<1> QED
  BY <1>1, <1>2, <1>3, <1>4, <1>5, <1>6, <1>7, <1>8, <1>9, <1>10, <1>11, <1>12,
     Zenon DEF Next, Task

(* Only netlost pauses the guard, and nothing takes an exit back. *)
LEMMA OnlyNetLostPauses ==
  ASSUME IInv, Next, ~NetLost
  PROVE  (paused' => paused) /\ (exiting => exiting')
<1> USE DEF guard
<1>1. ASSUME NEW t \in Tasks, Watches(t)
     PROVE  (paused' => paused) /\ (exiting => exiting')
  <2>1. CASE Resume(t)
    BY <2>1 DEF Resume, marks
  <2>2. CASE Unpause(t)
    BY <2>2 DEF Unpause
  <2>3. CASE CannotRebind(t)
    BY <2>3 DEF CannotRebind
  <2>4. CASE WatchFinishes(t)
    BY <2>4 DEF WatchFinishes
  <2>5. CASE QuietStep(t)
    BY <2>5, QuietLeaves DEF guard
  <2> QED
    BY <1>1, <2>1, <2>2, <2>3, <2>4, <2>5, Zenon DEF Watches, QuietStep
<1>2. ASSUME NEW t \in Tasks, Heals(t)
     PROVE  (paused' => paused) /\ (exiting => exiting')
  <2>1. CASE Handover(t)
    BY <2>1 DEF Handover
  <2>2. CASE HandoverLater(t)
    BY <2>2 DEF HandoverLater
  <2>3. CASE RecycleLater(t)
    BY <2>3 DEF RecycleLater, marks
  <2>4. CASE RecycleBegins(t)
    BY <2>4 DEF RecycleBegins, MayRecycle
  <2>5. CASE RecyclesExhausted(t)
    BY <2>5 DEF RecyclesExhausted, marks, MayRecycle
  <2>6. CASE StopEngine(t)
    BY <2>6 DEF StopEngine
  <2>7. CASE StartEngine(t)
    BY <2>7 DEF StartEngine
  <2>8. CASE Recycled(t)
    BY <2>8 DEF Recycled
  <2>9. CASE FailOffline(t)
    BY <2>9 DEF FailOffline
  <2>10. CASE FailOnline(t)
    BY <2>10 DEF FailOnline
  <2>11. CASE Exit(t)
    BY <2>11 DEF Exit
  <2>12. CASE QuietStep(t)
    BY <2>12, QuietLeaves DEF guard
  <2> QED
    BY <1>2, <2>1, <2>2, <2>3, <2>4, <2>5, <2>6, <2>7, <2>8, <2>9, <2>10, <2>11,
       <2>12, Zenon DEF Heals, QuietStep
<1>3. ASSUME NEW t \in Tasks, NetChange(t) \/ ProbeSucceeds(t)
     PROVE  (paused' => paused) /\ (exiting => exiting')
  <2>1. CASE NetChange(t)
    BY <2>1 DEF NetChange
  <2>2. CASE ProbeSucceeds(t)
    BY <2>2, QuietLeaves DEF QuietStep, guard
  <2> QED
    BY <1>3, <2>1, <2>2
<1>4. ASSUME NEW t \in Connections, Connection(t)
     PROVE  (paused' => paused) /\ (exiting => exiting')
  <2> t \in Tasks
    BY DEF Tasks
  <2>1. CASE DialTimeout(t)
    BY <2>1 DEF DialTimeout, marks
  <2>2. CASE ZeroPaths(t)
    BY <2>2 DEF ZeroPaths
  <2> QED
    BY <1>4, <2>1, <2>2 DEF Connection
<1>5. CASE NetLost
  BY <1>5
<1>6. CASE PauseEngine
  BY <1>6 DEF PauseEngine
<1>7. CASE NetBack
  BY <1>7 DEF NetBack
<1>8. CASE Wake
  BY <1>8 DEF Wake, marks
<1>9. CASE DialOk
  BY <1>9 DEF DialOk, marks
<1>10. CASE DialTimeoutOffline
  BY <1>10 DEF DialTimeoutOffline, marks
<1>11. CASE WindowEnds
  BY <1>11 DEF WindowEnds, marks
<1>12. CASE PathsChange
  BY <1>12 DEF PathsChange
<1> QED
  BY <1>1, <1>2, <1>3, <1>4, <1>5, <1>6, <1>7, <1>8, <1>9, <1>10, <1>11, <1>12,
     Zenon DEF Next, Task

(* Whatever happens in a pause, someone goes on watching it.               *)
LEMMA PauseStep ==
  ASSUME IInv, Next, TaskTypes'
  PROVE  PauseIsWatched'
<1> SUFFICES ASSUME paused', ~exiting'
             PROVE  \E t \in Routines \cup {Host} : Guards(t)'
  BY DEF PauseIsWatched, Guards
<1>1. CASE NetLost
  <2>1. Guards(Host)'
    BY <1>1, Members DEF NetLost, Guards, PauseSteps, IInv, TaskTypes
  <2> QED
    BY <2>1
<1>2. CASE ~NetLost
  <2>1. paused /\ ~exiting
    BY <1>2, OnlyNetLostPauses
  <2>2. PICK w \in Routines \cup {Host} : Guards(w)
    BY <2>1 DEF IInv, PauseIsWatched, Guards
  <2>3. CASE PauseEngine
    <3>1. Starts(Host, "nap", FALSE) /\ "nap" \in Steps /\ Host \in Tasks
      BY <2>3, Members DEF PauseEngine, Steps
    <3>2. PICK r \in Routines : Started(Host, "nap", r)
      BY <3>1, StartsOne DEF IInv
    <3>3. Guards(IF w = Host THEN r ELSE w)'
      BY <2>2, <3>2, Members DEF Guards, Started, PauseSteps
    <3> QED
      BY <3>2, <3>3
  <2>4. CASE ~PauseEngine
    BY <1>2, <2>1, <2>2, <2>4, GuardStays
  <2> QED
    BY <2>3, <2>4
<1> QED
  BY <1>1, <1>2

-----------------------------------------------------------------------------
(* Counters stay below their bounds. *)
LEMMA CountsStep ==
  ASSUME IInv, Next
  PROVE  Counts'
<1> USE DataPathAssumption DEF IInv, Counts, guard, world, engine, streak, windows
<1>1. ASSUME NEW t \in Tasks, Watches(t)
     PROVE  Counts'
  <2>1. CASE Resume(t)
    BY <2>1 DEF Resume, marks, world, engine
  <2>2. CASE Unpause(t)
    BY <2>2 DEF Unpause, guard, deferred, marks, streak, windows
  <2>3. CASE CannotRebind(t)
    BY <2>3 DEF CannotRebind, FinishRebind, deferred, streak, windows, world, engine
  <2>4. CASE WatchFinishes(t)
    BY <2>4 DEF WatchFinishes, FinishRebind, deferred, streak, windows, world, engine
  <2>5. CASE QuietStep(t)
    BY <2>5, QuietLeaves DEF guard, world
  <2> QED
    BY <1>1, <2>1, <2>2, <2>3, <2>4, <2>5, Zenon DEF Watches, QuietStep
<1>2. ASSUME NEW t \in Tasks, Heals(t)
     PROVE  Counts'
  <2>1. CASE Handover(t)
    BY <2>1 DEF Handover, deferred, world, engine
  <2>2. CASE HandoverLater(t)
    BY <2>2 DEF HandoverLater, deferred, streak, windows, world, engine
  <2>3. CASE RecycleLater(t)
    BY <2>3 DEF RecycleLater, marks, streak, windows, world, engine
  <2>4. CASE RecycleBegins(t)
    BY <2>4 DEF RecycleBegins, MayRecycle, deferred, world, engine
  <2>5. CASE RecyclesExhausted(t)
    BY <2>5 DEF RecyclesExhausted, MayRecycle, deferred, marks, streak, windows,
       world, engine
  <2>6. CASE StopEngine(t)
    BY <2>6 DEF StopEngine, Unknown, guard, deferred, marks, streak, windows
  <2>7. CASE StartEngine(t)
    BY <2>7 DEF StartEngine, guard, deferred, marks, streak, windows
  <2>8. CASE Recycled(t)
    BY <2>8 DEF Recycled, deferred, world, engine
  <2>9. CASE FailOffline(t)
    BY <2>9 DEF FailOffline, streak, windows, world, engine
  <2>10. CASE FailOnline(t)
    BY <2>10 DEF FailOnline, deferred, streak, windows, world, engine
  <2>11. CASE Exit(t)
    BY <2>11 DEF Exit, guard, deferred, marks, streak, windows, engine
  <2>12. CASE QuietStep(t)
    BY <2>12, QuietLeaves DEF guard, world
  <2> QED
    BY <1>2, <2>1, <2>2, <2>3, <2>4, <2>5, <2>6, <2>7, <2>8, <2>9, <2>10, <2>11,
       <2>12, Zenon DEF Heals, QuietStep
<1>3. ASSUME NEW t \in Tasks, NetChange(t) \/ ProbeSucceeds(t)
     PROVE  Counts'
  <2>1. CASE NetChange(t)
    BY <2>1 DEF NetChange, Event, guard, deferred, marks, streak, windows, world, engine
  <2>2. CASE ProbeSucceeds(t)
    BY <2>2, QuietLeaves DEF QuietStep, guard, world
  <2> QED
    BY <1>3, <2>1, <2>2
<1>4. ASSUME NEW t \in Connections, Connection(t)
     PROVE  Counts'
  <2> t \in Tasks
    BY DEF Tasks
  <2>1. CASE DialTimeout(t)
    BY <2>1 DEF DialTimeout, Event, deferred, marks, windows, world, engine
  <2>2. CASE ZeroPaths(t)
    BY <2>2 DEF ZeroPaths, Event, guard, deferred, marks, streak, windows, world, engine
  <2> QED
    BY <1>4, <2>1, <2>2 DEF Connection
<1>5. CASE NetLost
  BY <1>5 DEF NetLost, Event, deferred, marks, windows, world, engine
<1>6. CASE PauseEngine
  BY <1>6 DEF PauseEngine, guard, deferred, marks, streak, windows
<1>7. CASE NetBack
  BY <1>7 DEF NetBack, Event, guard, deferred, marks, streak, windows, world, engine
<1>8. CASE Wake
  BY <1>8 DEF Wake, Event, deferred, marks, world, engine
<1>9. CASE DialOk
  BY <1>9 DEF DialOk, marks, windows, world, engine
<1>10. CASE DialTimeoutOffline
  BY <1>10 DEF DialTimeoutOffline, marks, windows, world, engine
<1>11. CASE WindowEnds
  BY <1>11 DEF WindowEnds, deferred, marks, streak, world, engine
<1>12. CASE PathsChange
  BY <1>12 DEF PathsChange, Unknown, guard, deferred, marks, streak, windows
<1> QED
  BY <1>1, <1>2, <1>3, <1>4, <1>5, <1>6, <1>7, <1>8, <1>9, <1>10, <1>11, <1>12,
     Zenon DEF Next, Task

(* Flags stay flags. *)
LEMMA FlagsStep ==
  ASSUME IInv, Next
  PROVE  Flags'
<1> USE DEF IInv, Flags, TaskTypes, guard, deferred, marks, windows, world, engine
<1>1. ASSUME NEW t \in Tasks, Watches(t)
     PROVE  Flags'
  <2>1. CASE Resume(t)
    BY <2>1 DEF Resume, marks, world, engine
  <2>2. CASE Unpause(t)
    BY <2>2 DEF Unpause, guard, deferred, marks, streak, windows
  <2>3. CASE CannotRebind(t)
    BY <2>3 DEF CannotRebind, FinishRebind, deferred, streak, windows, world, engine
  <2>4. CASE WatchFinishes(t)
    BY <2>4 DEF WatchFinishes, FinishRebind, deferred, streak, windows, world, engine
  <2>5. CASE QuietStep(t)
    BY <2>5, QuietLeaves DEF guard, world
  <2> QED
    BY <1>1, <2>1, <2>2, <2>3, <2>4, <2>5, Zenon DEF Watches, QuietStep
<1>2. ASSUME NEW t \in Tasks, Heals(t)
     PROVE  Flags'
  <2>1. CASE Handover(t)
    BY <2>1 DEF Handover, deferred, world, engine
  <2>2. CASE HandoverLater(t)
    BY <2>2 DEF HandoverLater, deferred, streak, windows, world, engine
  <2>3. CASE RecycleLater(t)
    BY <2>3 DEF RecycleLater, marks, streak, windows, world, engine
  <2>4. CASE RecycleBegins(t)
    BY <2>4 DEF RecycleBegins, MayRecycle, deferred, world, engine
  <2>5. CASE RecyclesExhausted(t)
    BY <2>5 DEF RecyclesExhausted, MayRecycle, deferred, marks, streak, windows,
       world, engine
  <2>6. CASE StopEngine(t)
    BY <2>6 DEF StopEngine, Unknown, guard, deferred, marks, streak, windows
  <2>7. CASE StartEngine(t)
    BY <2>7 DEF StartEngine, guard, deferred, marks, streak, windows
  <2>8. CASE Recycled(t)
    BY <2>8 DEF Recycled, deferred, world, engine
  <2>9. CASE FailOffline(t)
    BY <2>9 DEF FailOffline, streak, windows, world, engine
  <2>10. CASE FailOnline(t)
    BY <2>10 DEF FailOnline, deferred, streak, windows, world, engine
  <2>11. CASE Exit(t)
    BY <2>11 DEF Exit, guard, deferred, marks, streak, windows, engine
  <2>12. CASE QuietStep(t)
    BY <2>12, QuietLeaves DEF guard, world
  <2> QED
    BY <1>2, <2>1, <2>2, <2>3, <2>4, <2>5, <2>6, <2>7, <2>8, <2>9, <2>10, <2>11,
       <2>12, Zenon DEF Heals, QuietStep
<1>3. ASSUME NEW t \in Tasks, NetChange(t) \/ ProbeSucceeds(t)
     PROVE  Flags'
  <2>1. CASE NetChange(t)
    BY <2>1 DEF NetChange, Event, guard, deferred, marks, streak, windows, world, engine
  <2>2. CASE ProbeSucceeds(t)
    BY <2>2, QuietLeaves DEF QuietStep, guard, world
  <2> QED
    BY <1>3, <2>1, <2>2
<1>4. ASSUME NEW t \in Connections, Connection(t)
     PROVE  Flags'
  <2> t \in Tasks
    BY DEF Tasks
  <2>1. CASE DialTimeout(t)
    BY <2>1 DEF DialTimeout, Event, deferred, marks, windows, world, engine
  <2>2. CASE ZeroPaths(t)
    BY <2>2 DEF ZeroPaths, Event, guard, deferred, marks, streak, windows, world, engine
  <2> QED
    BY <1>4, <2>1, <2>2 DEF Connection
<1>5. CASE NetLost
  BY <1>5 DEF NetLost, Event, deferred, marks, windows, world, engine
<1>6. CASE PauseEngine
  BY <1>6 DEF PauseEngine, guard, deferred, marks, streak, windows
<1>7. CASE NetBack
  BY <1>7 DEF NetBack, Event, guard, deferred, marks, streak, windows, world, engine
<1>8. CASE Wake
  BY <1>8 DEF Wake, Event, deferred, marks, world, engine
<1>9. CASE DialOk
  BY <1>9 DEF DialOk, marks, windows, world, engine
<1>10. CASE DialTimeoutOffline
  BY <1>10 DEF DialTimeoutOffline, marks, windows, world, engine
<1>11. CASE WindowEnds
  <2>1. /\ grace' = grace \/ grace' = FALSE
        /\ justRebound' = justRebound \/ justRebound' = FALSE
    BY <1>11, Zenon DEF WindowEnds
  <2>2. grace' \in BOOLEAN /\ justRebound' \in BOOLEAN
    BY <2>1, Zenon
  <2>3. UNCHANGED <<paused, deferred, marks, exiting, world>>
    BY <1>11, Zenon DEF WindowEnds
  <2>4. /\ UNCHANGED <<paused, pendingRecycle, pendingHard>>
        /\ UNCHANGED <<rebindInFlight, recycling, pendingHandover>>
        /\ UNCHANGED <<exiting, up, enginePaused, alive>>
    BY <2>3 DEF deferred, marks, world, engine
  <2> QED
    BY <2>2, <2>4, Zenon
<1>12. CASE PathsChange
  BY <1>12 DEF PathsChange, Unknown, guard, deferred, marks, streak, windows
<1> QED
  BY <1>1, <1>2, <1>3, <1>4, <1>5, <1>6, <1>7, <1>8, <1>9, <1>10, <1>11, <1>12,
     Zenon DEF Next, Task

(* The guard starts with no duty.                                          *)
LEMMA InitInv == Init => IInv
<1> SUFFICES ASSUME Init PROVE IInv
  OBVIOUS
<1> USE DataPathAssumption DEF Init
<1>1. Flags
  BY Zenon DEF Flags
<1>4. Counts
  BY DEF Counts, Unknown
<1>2. TaskTypes /\ Called
  BY DEF TaskTypes, Called, Steps, Callers
<1>3. OneRecycler /\ OneRebind /\ PauseIsWatched
  BY DEF OneRecycler, OneRebind, PauseIsWatched, Recycles, Rebinds, RecycleSteps,
     RebindSteps
<1> QED
  BY <1>1, <1>2, <1>3, <1>4 DEF IInv

(* A step of nothing.                                                      *)
LEMMA StutterInv ==
  ASSUME IInv, UNCHANGED vars
  PROVE  IInv'
<1> USE DEF vars, guard, deferred, marks, streak, windows, world, engine, tasks
<1>1. Flags' /\ Counts' /\ TaskTypes' /\ Called'
  BY DEF IInv, Flags, Counts, TaskTypes, Called
<1>2. OneRecycler' /\ OneRebind' /\ PauseIsWatched'
  BY DEF IInv, OneRecycler, OneRebind, PauseIsWatched, Recycles, Rebinds
<1> QED
  BY <1>1, <1>2 DEF IInv

(* Every step keeps every part of the invariant.                           *)
LEMMA StepInv == IInv /\ [Next]_vars => IInv'
<1>1. ASSUME IInv, Next PROVE IInv'
  <2>1. Flags' /\ Counts' /\ TaskTypes' /\ Called'
    BY <1>1, CountsStep, FlagsStep, TypesStep
  <2>2. OneRecycler' /\ OneRebind' /\ PauseIsWatched'
    BY <1>1, <2>1, RecyclerStep, RebindStep, PauseStep
  <2> QED
    BY <2>1, <2>2 DEF IInv
<1> QED
  BY <1>1, StutterInv

(* The invariant, which the theorems below only read.                      *)
LEMMA Invariance == Spec => []IInv
  BY InitInv, StepInv, PTL DEF Spec

-----------------------------------------------------------------------------
(* requestRecycle and failRecycle: at most one task is between the stop of *)
(* the engine and the verdict on the new one, recycling is set exactly     *)
(* then, and every variable keeps its type (recycles never exceeds         *)
(* dataPathMaxRecycles).                                                   *)
THEOREM RecycleExclusive == Spec => []RecycleIsExclusive
<1>1. ASSUME IInv PROVE RecycleIsExclusive
  <2> DEFINE recyclers == {t \in Tasks : at[t] \in RecycleSteps}
  <2>1. Cardinality(recyclers) = IF recycling THEN 1 ELSE 0
    <3>1. CASE recycling
      <4>1. PICK t \in Tasks : recyclers = {t}
        BY <1>1, <3>1 DEF IInv, OneRecycler, Recycles
      <4> QED
        BY <3>1, <4>1, FS_Singleton
    <3>2. CASE ~recycling
      <4>1. recyclers = {}
        BY <1>1, <3>2 DEF IInv, OneRecycler, Recycles
      <4> QED
        BY <3>2, <4>1, FS_EmptySet
    <3> QED
      BY <3>1, <3>2
  <2> QED
    BY <1>1, <2>1, TypeParts DEF IInv, RecycleIsExclusive
<1> QED
  BY <1>1, Invariance, PTL

(* heal relies on it: rebindInFlight is set exactly as long as the latest  *)
(* rebind has a task that will judge it.                                   *)
THEOREM InFlightWatched == Spec => []InFlightIsWatched
<1>1. IInv => InFlightIsWatched
  BY DEF IInv, OneRebind, Rebinds, InFlightIsWatched
<1> QED
  BY <1>1, Invariance, PTL

(* pausedWatchdog: as long as the guard is paused, a goroutine of the      *)
(* present pause, or the host about to start it, will end the pause.       *)
THEOREM PauseWatched == Spec => []PauseIsWatched
<1>1. IInv => PauseIsWatched
  BY DEF IInv
<1> QED
  BY <1>1, Invariance, PTL
=============================================================================
