--------------------------- MODULE ShutdownProofs ---------------------------
(***************************************************************************)
(* Safety of the goodbye (Shutdown, session.rs and lib.rs) for any number  *)
(* of sessions and hashes and any timers with Budget < HostWait <          *)
(* FollowWait.                                                             *)
(*                                                                         *)
(* The argument is about time.  While the goodbye is on, one task leads,   *)
(* and time passes only in a wait of the leader that ends before its       *)
(* deadline; so whatever began with more time than the leader had left     *)
(* still has more: a follower's wait, and the host's.  The time that the   *)
(* leader has used is paid for by the streams it has tried, two attempts   *)
(* each.                                                                   *)
(***************************************************************************)
EXTENDS Shutdown, Integers, TLAPS

Typed ==
  /\ active \in BOOLEAN /\ completed \in BOOLEAN /\ stopping \in BOOLEAN
  /\ flag \in BOOLEAN /\ done \in BOOLEAN
  /\ cancelled \in SUBSET Sessions
  /\ pc \in [Actors -> {"off", "live", "lead", "follow", "over"}]
  /\ step \in {"none", "snap", "next", "send", "ack", "finish"}
  /\ work \in Seq(Sessions)
  /\ target \in Actors /\ (step = "send" => target \in Sessions)
  /\ leadLeft \in 0..Budget
  /\ stepLeft \in 0..Attempt
  /\ followLeft \in [Actors -> 0..FollowWait]
  /\ host \in {"idle", "wait", "returned"}
  /\ hostLeft \in 0..HostWait
  /\ delivered \in SUBSET Sessions
  /\ told \in SUBSET Sessions
  /\ tried \in Nat
  /\ unheard \in SUBSET Sessions

(* Only sessions that run are registered, each once. *)
Registered ==
  /\ streams \in Seq(Sessions) /\ IsInjective(streams)
  /\ \A s \in ToSet(streams) : Live(s)

OneLeader ==
  /\ \A a, b \in Actors : pc[a] = "lead" /\ pc[b] = "lead" => a = b
  /\ step # "none" <=> \E a \in Actors : pc[a] = "lead"
  /\ active /\ ~completed => step # "none"
  /\ \A a \in Actors : pc[a] \in {"lead", "follow"} => active

(* The leader's waits end before its deadline, the followers' after it. *)
InTime ==
  /\ step \in {"send", "ack"} => stepLeft <= leadLeft
  /\ \A a \in Actors : pc[a] = "follow" /\ ~completed => followLeft[a] > leadLeft

(* What the streams tried so far may have cost. *)
Cost == 2 * Attempt * tried

Accounted ==
  /\ step \in {"snap", "next"} => Budget - leadLeft <= Cost
  /\ step = "send" => Budget - leadLeft + stepLeft + Attempt <= Cost
  /\ step = "ack" => Budget - leadLeft + stepLeft <= Cost
  /\ step = "finish" => work = <<>> \/ completed \/ Budget <= Cost

(* A host that waits has more time than the goodbye needs. *)
HostInTime ==
  /\ pc[Main] # "off"
  /\ host = "wait" /\ ~done =>
       /\ pc[Main] = "live" => flag /\ hostLeft = HostWait
       /\ pc[Main] \in {"lead", "follow"} => hostLeft > leadLeft

IInv ==
  /\ Typed /\ Registered /\ OneLeader /\ InTime /\ Accounted /\ HostInTime

-----------------------------------------------------------------------------
(* The list without one of its elements. *)
LEMMA RemoveOne ==
  ASSUME NEW q \in Seq(Sessions), NEW k \in DOMAIN q
  PROVE  /\ RemoveAt(q, k) \in Seq(Sessions)
         /\ DOMAIN RemoveAt(q, k) = 1..(Len(q) - 1)
         /\ \A i \in 1..(Len(q) - 1) : RemoveAt(q, k)[i] = IF i < k THEN q[i] ELSE q[i + 1]
<1> DEFINE a == SubSeq(q, 1, k - 1)
           b == SubSeq(q, k + 1, Len(q))
<1>1. k \in 1..Len(q) /\ Len(q) \in Nat
  OBVIOUS
<1>2. /\ a \in Seq(Sessions) /\ Len(a) = k - 1
      /\ \A i \in 1..(k - 1) : a[i] = q[i]
  BY <1>1
<1>3. /\ b \in Seq(Sessions) /\ Len(b) = Len(q) - k
      /\ \A i \in 1..(Len(q) - k) : b[i] = q[k + i]
  BY <1>1
<1>4. RemoveAt(q, k) = a \o b
  BY DEF RemoveAt
<1> HIDE DEF a, b
<1>5. /\ a \o b \in Seq(Sessions) /\ Len(a \o b) = Len(q) - 1
      /\ \A i \in 1..(Len(q) - 1) :
           (a \o b)[i] = IF i <= k - 1 THEN a[i] ELSE b[i - (k - 1)]
  BY <1>1, <1>2, <1>3
<1>6. ASSUME NEW i \in 1..(Len(q) - 1)
      PROVE  (a \o b)[i] = IF i < k THEN q[i] ELSE q[i + 1]
  <2>1. CASE i < k
    BY <1>1, <1>2, <1>5, <2>1
  <2>2. CASE ~(i < k)
    <3>1. i - (k - 1) \in 1..(Len(q) - k) /\ k + (i - (k - 1)) = i + 1
      BY <1>1, <2>2
    <3>2. b[i - (k - 1)] = q[i + 1]
      BY <1>3, <3>1
    <3>3. ~(i <= k - 1)
      BY <1>1, <2>2
    <3> QED
      BY <1>5, <2>2, <3>2, <3>3
  <2> QED
    BY <2>1, <2>2
<1> QED
  BY <1>4, <1>5, <1>6

(* Removing and prepending keep the registered streams distinct. *)
LEMMA WithoutFacts ==
  ASSUME NEW q \in Seq(Sessions), IsInjective(q), NEW s
  PROVE  /\ Without(q, s) \in Seq(Sessions)
         /\ IsInjective(Without(q, s))
         /\ ToSet(Without(q, s)) = ToSet(q) \ {s}
<1>1. CASE s \notin ToSet(q)
  BY <1>1 DEF Without
<1>2. CASE s \in ToSet(q)
  <2> DEFINE k == CHOOSE i \in DOMAIN q : q[i] = s
             r == RemoveAt(q, k)
  <2>1. k \in DOMAIN q /\ q[k] = s
    BY <1>2 DEF ToSet
  <2>2. Without(q, s) = r
    BY <1>2 DEF Without
  <2> HIDE DEF k
  <2>3. /\ r \in Seq(Sessions) /\ DOMAIN r = 1..(Len(q) - 1)
        /\ \A i \in 1..(Len(q) - 1) : r[i] = IF i < k THEN q[i] ELSE q[i + 1]
    BY <2>1, RemoveOne
  <2> HIDE DEF r
  <2>4. DOMAIN q = 1..Len(q) /\ Len(q) \in Nat
    OBVIOUS
  <2>5. IsInjective(r)
    <3> SUFFICES ASSUME NEW i \in 1..(Len(q) - 1), NEW j \in 1..(Len(q) - 1), r[i] = r[j]
                 PROVE  i = j
      BY <2>3 DEF IsInjective
    <3> DEFINE Old(n) == IF n < k THEN n ELSE n + 1
    <3>1. /\ Old(i) \in DOMAIN q /\ Old(j) \in DOMAIN q
          /\ q[Old(i)] = r[i] /\ q[Old(j)] = r[j]
      BY <2>1, <2>3, <2>4
    <3>2. Old(i) = Old(j)
      BY <3>1 DEF IsInjective
    <3> QED
      BY <2>1, <2>4, <3>2
  <2>6. ASSUME NEW x \in ToSet(r) PROVE x \in ToSet(q) \ {s}
    BY <2>1, <2>3, <2>4 DEF IsInjective, ToSet
  <2>7. ASSUME NEW x \in ToSet(q) \ {s} PROVE x \in ToSet(r)
    <3>1. PICK j \in 1..Len(q) : q[j] = x
      BY <2>4 DEF ToSet
    <3>2. CASE j < k
      BY <2>1, <2>3, <2>4, <3>1, <3>2 DEF ToSet
    <3>3. CASE j > k
      <4>1. j - 1 \in 1..(Len(q) - 1) /\ ~(j - 1 < k)
        BY <2>1, <2>4, <3>1, <3>3
      <4>2. r[j - 1] = x
        BY <2>3, <2>4, <3>1, <4>1
      <4> QED
        BY <2>3, <4>1, <4>2 DEF ToSet
    <3> QED
      BY <2>1, <2>4, <3>1, <3>2, <3>3
  <2> QED
    BY <2>2, <2>3, <2>5, <2>6, <2>7
<1> QED
  BY <1>1, <1>2

(* A new path session goes to the front of the list. *)
LEMMA FrontFacts ==
  ASSUME NEW q \in Seq(Sessions), IsInjective(q), NEW s \in Sessions, s \notin ToSet(q)
  PROVE  /\ <<s>> \o q \in Seq(Sessions)
         /\ IsInjective(<<s>> \o q)
         /\ ToSet(<<s>> \o q) = ToSet(q) \cup {s}
<1> DEFINE r == <<s>> \o q
<1>1. /\ r \in Seq(Sessions) /\ DOMAIN r = 1..(Len(q) + 1) /\ DOMAIN q = 1..Len(q)
      /\ Len(q) \in Nat /\ r[1] = s
      /\ \A i \in 2..(Len(q) + 1) : r[i] = q[i - 1]
  OBVIOUS
<1> HIDE DEF r
<1>2. IsInjective(r)
  <2> SUFFICES ASSUME NEW i \in DOMAIN r, NEW j \in DOMAIN r, r[i] = r[j], i < j
               PROVE  FALSE
    BY <1>1 DEF IsInjective
  <2>1. j \in 2..(Len(q) + 1) /\ r[j] = q[j - 1] /\ j - 1 \in DOMAIN q
    BY <1>1
  <2>2. CASE i = 1
    BY <1>1, <2>1, <2>2 DEF ToSet
  <2>3. CASE i # 1
    <3>1. r[i] = q[i - 1] /\ i - 1 \in DOMAIN q
      BY <1>1, <2>3
    <3>2. i - 1 = j - 1
      BY <2>1, <3>1 DEF IsInjective
    <3> QED
      BY <1>1, <3>2
  <2> QED
    BY <2>2, <2>3
<1>3. ASSUME NEW x \in ToSet(r) PROVE x \in ToSet(q) \cup {s}
  BY <1>1 DEF ToSet
<1>4. ASSUME NEW x \in ToSet(q) PROVE x \in ToSet(r)
  <2>1. PICK j \in 1..Len(q) : q[j] = x
    BY <1>1 DEF ToSet
  <2>2. j + 1 \in 2..(Len(q) + 1) /\ (j + 1) - 1 = j
    BY <1>1, <2>1
  <2>3. j + 1 \in DOMAIN r /\ r[j + 1] = x
    BY <1>1, <2>1, <2>2
  <2> QED
    BY <2>3 DEF ToSet
<1>5. s \in ToSet(r)
  BY <1>1 DEF ToSet
<1> QED
  BY <1>1, <1>2, <1>3, <1>4, <1>5 DEF r

(* request_disconnect, by cases. *)
LEMMA RequestTypes ==
  ASSUME Typed, NEW a \in Actors, Request(a)
  PROVE  /\ active' \in BOOLEAN /\ completed' \in BOOLEAN
         /\ pc' \in [Actors -> {"off", "live", "lead", "follow", "over"}]
         /\ step' \in {"none", "snap", "next", "send", "ack", "finish"}
         /\ leadLeft' \in 0..Budget
         /\ followLeft' \in [Actors -> 0..FollowWait]
<1> USE ShutdownAssumption DEF Typed
<1>1. CASE active
  <2>1. /\ pc' = [pc EXCEPT ![a] = "follow"]
        /\ followLeft' = [followLeft EXCEPT ![a] = FollowWait]
    BY <1>1 DEF Request
  <2>2. active' = active /\ completed' = completed
    BY <1>1, Zenon DEF Request
  <2>3. step' = step /\ leadLeft' = leadLeft
    BY <1>1, Zenon DEF Request
  <2> QED
    BY <2>1, <2>2, <2>3
<1>2. CASE ~active
  <2>1. pc' = [pc EXCEPT ![a] = "lead"] /\ followLeft' = followLeft
    BY <1>2, Zenon DEF Request
  <2>2. active' = TRUE /\ completed' = FALSE
    BY <1>2, Zenon DEF Request
  <2>3. step' = "snap" /\ leadLeft' = Budget
    BY <1>2, Zenon DEF Request
  <2>4. pc' \in [Actors -> {"off", "live", "lead", "follow", "over"}]
    BY <2>1
  <2>5. leadLeft' \in 0..Budget
    BY <2>3
  <2>6. active' \in BOOLEAN /\ completed' \in BOOLEAN
    BY <2>2
  <2> QED
    BY <2>1, <2>3, <2>4, <2>5, <2>6
<1> QED
  BY <1>1, <1>2

(* A task that returns from request_disconnect is over. *)
LEMMA ReturnTypes ==
  ASSUME Typed, NEW a \in Actors, Return(a)
  PROVE  /\ pc' \in [Actors -> {"off", "live", "lead", "follow", "over"}]
         /\ unheard' \in SUBSET Sessions
         /\ done' \in BOOLEAN
<1>1. pc' \in [Actors -> {"off", "live", "lead", "follow", "over"}]
  BY DEF Typed, Return
<1>2. unheard' \in SUBSET Sessions
  BY DEF Typed, Return
<1>3. done' \in BOOLEAN
  BY DEF Typed, Return
<1> QED
  BY <1>1, <1>2, <1>3

(* Registered streams are those of sessions. *)
LEMMA OnlySessions ==
  ASSUME streams \in Seq(Sessions)
  PROVE  ToSet(streams) \subseteq Sessions
  BY DEF ToSet

(* Registered streams stay those of sessions that run. *)
LEMMA RegisteredStep ==
  ASSUME IInv, Next
  PROVE  Registered'
<1> USE ShutdownAssumption DEF IInv, Typed, Actors, Registered, Live
<1>1. ASSUME NEW s \in Sessions,
             Start(s) \/ MarkActivity(s) \/ PathEnds(s) \/ WorkerQuits(s)
             \/ SessionCancelled(s) \/ ControlResponse(s)
      PROVE  Registered'
  <2> s \in Actors /\ s # Main
    BY ShutdownAssumption DEF Actors
  <2>1. CASE Start(s)
    <3>1. CASE active
      BY <2>1, <3>1 DEF Start
    <3>2. CASE ~active
      <4>1. s \notin ToSet(streams) /\ streams' = <<s>> \o streams
        BY <2>1, <3>2 DEF Start
      <4> QED
        BY <2>1, <4>1, FrontFacts DEF Start
    <3> QED
      BY <3>1, <3>2
  <2>2. CASE MarkActivity(s)
    <3>1. s \in ToSet(streams) /\ streams' = <<s>> \o Without(streams, s) /\ pc' = pc
      BY <2>2 DEF MarkActivity
    <3>2. /\ Without(streams, s) \in Seq(Sessions) /\ IsInjective(Without(streams, s))
          /\ ToSet(Without(streams, s)) = ToSet(streams) \ {s}
      BY WithoutFacts
    <3>3. /\ streams' \in Seq(Sessions) /\ IsInjective(streams')
          /\ ToSet(streams') = (ToSet(streams) \ {s}) \cup {s}
      BY <3>1, <3>2, FrontFacts
    <3> QED
      BY <3>1, <3>3
  <2>3. CASE PathEnds(s)
    <3>1. /\ streams' = Without(streams, s)
          /\ \A u \in Sessions \ {s} : pc'[u] = pc[u]
      BY <2>3 DEF PathEnds
    <3>2. /\ streams' \in Seq(Sessions) /\ IsInjective(streams')
          /\ ToSet(streams') = ToSet(streams) \ {s}
      BY <3>1, WithoutFacts
    <3> QED
      BY <3>1, <3>2, OnlySessions
  <2>4. CASE WorkerQuits(s)
    BY <2>4 DEF WorkerQuits, coordinator, leader, hostVars, history, bounds
  <2>5. CASE SessionCancelled(s)
    <3>1. /\ streams' = streams
          /\ pc' \in {[pc EXCEPT ![s] = "follow"], [pc EXCEPT ![s] = "lead"]}
      BY <2>5 DEF SessionCancelled, Request
    <3> QED
      BY <3>1, OnlySessions
  <2>6. CASE ControlResponse(s)
    BY <2>6 DEF ControlResponse, leader, hostVars, history, Live
  <2> QED
    BY <1>1, <2>1, <2>2, <2>3, <2>4, <2>5, <2>6
<1>2. ASSUME NEW h \in Hashes, HashUnavailable(h)
      PROVE  Registered'
  BY <1>2 DEF HashUnavailable, coordinator, leader, hostVars, history, bounds
<1>3. CASE LeadSnapshot
  BY <1>3 DEF LeadSnapshot, coordinator, hostVars, history, bounds
<1>4. CASE LeadGivesUp
  BY <1>4 DEF LeadGivesUp, coordinator, hostVars, history, bounds
<1>5. CASE LeadTries
  BY <1>5 DEF LeadTries, coordinator, hostVars, bounds, Shorter
<1>6. CASE LeadSent
  BY <1>6 DEF LeadSent, coordinator, hostVars, bounds, Shorter, Live
<1>7. CASE LeadSendFails
  BY <1>7 DEF LeadSendFails, coordinator, hostVars, history, bounds
<1>8. CASE LeadAcked
  BY <1>8 DEF LeadAcked, coordinator, hostVars, history, bounds
<1>9. CASE LeadAckTimeout
  BY <1>9 DEF LeadAckTimeout, coordinator, hostVars, history, bounds
<1>10. ASSUME NEW a \in Actors, LeadFinishes(a)
       PROVE  Registered'
  <2>1. /\ streams' = Without(streams, a)
       /\ \A u \in Sessions \ {a} : pc'[u] = pc[u]
    BY <1>10 DEF LeadFinishes, Return
  <2>2. /\ streams' \in Seq(Sessions) /\ IsInjective(streams')
       /\ ToSet(streams') = ToSet(streams) \ {a}
    BY <2>1, WithoutFacts
  <2> QED
    BY <2>1, <2>2, OnlySessions
<1>11. ASSUME NEW a \in Actors, FollowEnds(a)
       PROVE  Registered'
  <2>1. /\ streams' = Without(streams, a)
       /\ \A u \in Sessions \ {a} : pc'[u] = pc[u]
    BY <1>11 DEF FollowEnds, Return
  <2>2. /\ streams' \in Seq(Sessions) /\ IsInjective(streams')
       /\ ToSet(streams') = ToSet(streams) \ {a}
    BY <2>1, WithoutFacts
  <2> QED
    BY <2>1, <2>2, OnlySessions
<1>12. CASE SignalStop
  BY <1>12 DEF SignalStop, coordinator, leader, Live
<1>13. CASE HostReturns
  BY <1>13 DEF HostReturns, coordinator, leader, history, bounds
<1>14. CASE MainServesStop
  <2>1. streams' = streams /\ \A s \in Sessions : pc'[s] = pc[s]
    BY <1>14 DEF MainServesStop, Request
  <2> QED
    BY <2>1, OnlySessions
<1>15. CASE EngineCancel
  BY <1>15 DEF EngineCancel, coordinator, leader, hostVars, history, bounds
<1>16. CASE MainBreaks
  <2>1. streams' = streams /\ \A s \in Sessions : pc'[s] = pc[s]
    BY <1>16 DEF MainBreaks, coordinator
  <2> QED
    BY <2>1, OnlySessions
<1>17. CASE Tick
  BY <1>17 DEF Tick, coordinator, history, bounds, Less
<1> QED
  BY <1>1, <1>2, <1>3, <1>4, <1>5, <1>6, <1>7, <1>8, <1>9, <1>10, <1>11, <1>12,
     <1>13, <1>14, <1>15, <1>16, <1>17, Zenon DEF Next, Leader

(* Every variable keeps its type. *)
LEMMA TypedStep ==
  ASSUME IInv, Next
  PROVE  Typed'
<1> USE ShutdownAssumption DEF IInv, Typed, Actors
<1>1. ASSUME NEW s \in Sessions,
             Start(s) \/ MarkActivity(s) \/ PathEnds(s) \/ WorkerQuits(s)
             \/ SessionCancelled(s) \/ ControlResponse(s)
      PROVE  Typed'
  <2> s \in Actors /\ s # Main
    BY ShutdownAssumption DEF Actors
  <2>1. CASE Start(s)
    BY <2>1 DEF Start, leader, hostVars
  <2>2. CASE MarkActivity(s)
    BY <2>2 DEF MarkActivity, leader, hostVars, history
  <2>3. CASE PathEnds(s)
    BY <2>3 DEF PathEnds, leader, hostVars, bounds
  <2>4. CASE WorkerQuits(s)
    BY <2>4 DEF WorkerQuits, coordinator, leader, hostVars, history, bounds
  <2>5. CASE SessionCancelled(s)
    <3>1. Request(s)
      BY <2>5 DEF SessionCancelled
    <3> QED
      BY <2>5, <3>1, RequestTypes DEF SessionCancelled, Request, hostVars, history,
         bounds
  <2>6. CASE ControlResponse(s)
    BY <2>6 DEF ControlResponse, leader, hostVars, history, Live
  <2> QED
    BY <1>1, <2>1, <2>2, <2>3, <2>4, <2>5, <2>6
<1>2. ASSUME NEW h \in Hashes, HashUnavailable(h)
      PROVE  Typed'
  BY <1>2 DEF HashUnavailable, coordinator, leader, hostVars, history, bounds
<1>3. CASE LeadSnapshot
  BY <1>3 DEF LeadSnapshot, Registered, coordinator, hostVars, history, bounds
<1>4. CASE LeadGivesUp
  BY <1>4 DEF LeadGivesUp, coordinator, hostVars, history, bounds
<1>5. CASE LeadTries
  BY <1>5 DEF LeadTries, coordinator, hostVars, bounds, Shorter
<1>6. CASE LeadSent
  <2>1. told' \in SUBSET Sessions
    BY <1>6 DEF LeadSent
  <2>2. delivered' \in SUBSET Sessions
    BY <1>6 DEF LeadSent
  <2> QED
    BY <1>6, <2>1, <2>2 DEF LeadSent, coordinator, hostVars, bounds, Shorter
<1>7. CASE LeadSendFails
  BY <1>7 DEF LeadSendFails, coordinator, hostVars, history, bounds
<1>8. CASE LeadAcked
  BY <1>8 DEF LeadAcked, coordinator, hostVars, history, bounds
<1>9. CASE LeadAckTimeout
  BY <1>9 DEF LeadAckTimeout, coordinator, hostVars, history, bounds
<1>10. ASSUME NEW a \in Actors, LeadFinishes(a)
       PROVE  Typed'
  <2>1. Return(a)
    BY <1>10 DEF LeadFinishes
  <2> QED
    BY <1>10, <2>1, ReturnTypes DEF LeadFinishes, bounds
<1>11. ASSUME NEW a \in Actors, FollowEnds(a)
       PROVE  Typed'
  <2>1. Return(a)
    BY <1>11 DEF FollowEnds
  <2> QED
    BY <1>11, <2>1, ReturnTypes DEF FollowEnds, leader, bounds
<1>12. CASE SignalStop
  <2>1. unheard' \in SUBSET Sessions
    BY <1>12 DEF SignalStop
  <2>2. done' \in BOOLEAN /\ flag' \in BOOLEAN /\ host' = "wait" /\ hostLeft' = HostWait
    BY <1>12 DEF SignalStop
  <2>3. UNCHANGED <<coordinator, cancelled, stopping, pc, leader, followLeft,
  delivered, told, tried>>
    BY <1>12 DEF SignalStop
  <2> QED
    BY <2>1, <2>2, <2>3 DEF coordinator, leader
<1>13. CASE HostReturns
  BY <1>13 DEF HostReturns, coordinator, leader, history, bounds
<1>14. CASE MainServesStop
  <2>1. Request(Main) /\ Main \in Actors
    BY <1>14 DEF MainServesStop
  <2> QED
    BY <1>14, <2>1, RequestTypes DEF MainServesStop, Request, history, bounds
<1>15. CASE EngineCancel
  BY <1>15 DEF EngineCancel, coordinator, leader, hostVars, history, bounds
<1>16. CASE MainBreaks
  BY <1>16 DEF MainBreaks, coordinator, leader, hostVars, history, bounds
<1>17. CASE Tick
  BY <1>17 DEF Tick, coordinator, history, bounds, Less
<1> QED
  BY <1>1, <1>2, <1>3, <1>4, <1>5, <1>6, <1>7, <1>8, <1>9, <1>10, <1>11, <1>12,
     <1>13, <1>14, <1>15, <1>16, <1>17, Zenon DEF Next, Leader

(* One task leads at most, and one does while the goodbye is on. *)
LEMMA OneLeaderStep ==
  ASSUME IInv, Next, Typed'
  PROVE  OneLeader'
<1> USE ShutdownAssumption DEF IInv, Typed, Actors, OneLeader
<1>1. ASSUME NEW s \in Sessions,
             Start(s) \/ MarkActivity(s) \/ PathEnds(s) \/ WorkerQuits(s)
             \/ SessionCancelled(s) \/ ControlResponse(s)
      PROVE  OneLeader'
  <2> s \in Actors /\ s # Main
    BY ShutdownAssumption DEF Actors
  <2>1. CASE Start(s)
    BY <2>1 DEF Start, leader, hostVars
  <2>2. CASE MarkActivity(s)
    BY <2>2 DEF MarkActivity, leader, hostVars, history
  <2>3. CASE PathEnds(s)
    BY <2>3 DEF PathEnds, leader, hostVars, bounds
  <2>4. CASE WorkerQuits(s)
    BY <2>4 DEF WorkerQuits, coordinator, leader, hostVars, history, bounds
  <2>5. CASE SessionCancelled(s)
    BY <2>5 DEF SessionCancelled, Request, hostVars, history, bounds
  <2>6. CASE ControlResponse(s)
    BY <2>6 DEF ControlResponse, leader, hostVars, history, Live
  <2> QED
    BY <1>1, <2>1, <2>2, <2>3, <2>4, <2>5, <2>6
<1>2. ASSUME NEW h \in Hashes, HashUnavailable(h)
      PROVE  OneLeader'
  BY <1>2 DEF HashUnavailable, coordinator, leader, hostVars, history, bounds
<1>3. CASE LeadSnapshot
  BY <1>3 DEF LeadSnapshot, coordinator, hostVars, history, bounds
<1>4. CASE LeadGivesUp
  BY <1>4 DEF LeadGivesUp, coordinator, hostVars, history, bounds
<1>5. CASE LeadTries
  BY <1>5 DEF LeadTries, coordinator, hostVars, bounds, Shorter
<1>6. CASE LeadSent
  BY <1>6 DEF LeadSent, coordinator, hostVars, bounds, Shorter, Live
<1>7. CASE LeadSendFails
  BY <1>7 DEF LeadSendFails, coordinator, hostVars, history, bounds
<1>8. CASE LeadAcked
  BY <1>8 DEF LeadAcked, coordinator, hostVars, history, bounds
<1>9. CASE LeadAckTimeout
  BY <1>9 DEF LeadAckTimeout, coordinator, hostVars, history, bounds
<1>10. ASSUME NEW a \in Actors, LeadFinishes(a)
       PROVE  OneLeader'
  BY <1>10 DEF LeadFinishes, Return, bounds
<1>11. ASSUME NEW a \in Actors, FollowEnds(a)
       PROVE  OneLeader'
  BY <1>11 DEF FollowEnds, Return, leader, bounds
<1>12. CASE SignalStop
  BY <1>12 DEF SignalStop, coordinator, leader, Live
<1>13. CASE HostReturns
  BY <1>13 DEF HostReturns, coordinator, leader, history, bounds
<1>14. CASE MainServesStop
  BY <1>14 DEF MainServesStop, Request, history, bounds
<1>15. CASE EngineCancel
  BY <1>15 DEF EngineCancel, coordinator, leader, hostVars, history, bounds
<1>16. CASE MainBreaks
  BY <1>16 DEF MainBreaks, coordinator, leader, hostVars, history, bounds
<1>17. CASE Tick
  BY <1>17 DEF Tick, coordinator, history, bounds, Less
<1> QED
  BY <1>1, <1>2, <1>3, <1>4, <1>5, <1>6, <1>7, <1>8, <1>9, <1>10, <1>11, <1>12,
     <1>13, <1>14, <1>15, <1>16, <1>17, Zenon DEF Next, Leader

(* Time passes only while the leader waits. *)
LEMMA InTimeStep ==
  ASSUME IInv, Next, Typed'
  PROVE  InTime'
<1> USE ShutdownAssumption DEF IInv, Typed, Actors, InTime, OneLeader
<1>1. ASSUME NEW s \in Sessions,
             Start(s) \/ MarkActivity(s) \/ PathEnds(s) \/ WorkerQuits(s)
             \/ SessionCancelled(s) \/ ControlResponse(s)
      PROVE  InTime'
  <2> s \in Actors /\ s # Main
    BY ShutdownAssumption DEF Actors
  <2>1. CASE Start(s)
    BY <2>1 DEF Start, leader, hostVars
  <2>2. CASE MarkActivity(s)
    BY <2>2 DEF MarkActivity, leader, hostVars, history
  <2>3. CASE PathEnds(s)
    BY <2>3 DEF PathEnds, leader, hostVars, bounds
  <2>4. CASE WorkerQuits(s)
    BY <2>4 DEF WorkerQuits, coordinator, leader, hostVars, history, bounds
  <2>5. CASE SessionCancelled(s)
    <3>1. CASE active
      <4>1. /\ pc' = [pc EXCEPT ![s] = "follow"]
            /\ followLeft' = [followLeft EXCEPT ![s] = FollowWait]
            /\ UNCHANGED <<completed, step, stepLeft, leadLeft>>
        BY <2>5, <3>1 DEF SessionCancelled, Request
      <4>2. ASSUME NEW u \in Actors, pc'[u] = "follow", ~completed
            PROVE  followLeft'[u] > leadLeft
        <5>1. CASE u = s
          BY <4>1, <5>1
        <5>2. CASE u # s
          BY <4>1, <4>2, <5>2
        <5> QED
          BY <5>1, <5>2
      <4> QED
        BY <4>1, <4>2
    <3>2. CASE ~active
      BY <2>5, <3>2 DEF SessionCancelled, Request
    <3> QED
      BY <3>1, <3>2
  <2>6. CASE ControlResponse(s)
    BY <2>6 DEF ControlResponse, leader, hostVars, history, Live
  <2> QED
    BY <1>1, <2>1, <2>2, <2>3, <2>4, <2>5, <2>6
<1>2. ASSUME NEW h \in Hashes, HashUnavailable(h)
      PROVE  InTime'
  BY <1>2 DEF HashUnavailable, coordinator, leader, hostVars, history, bounds
<1>3. CASE LeadSnapshot
  BY <1>3 DEF LeadSnapshot, coordinator, hostVars, history, bounds
<1>4. CASE LeadGivesUp
  BY <1>4 DEF LeadGivesUp, coordinator, hostVars, history, bounds
<1>5. CASE LeadTries
  BY <1>5 DEF LeadTries, coordinator, hostVars, bounds, Shorter
<1>6. CASE LeadSent
  BY <1>6 DEF LeadSent, coordinator, hostVars, bounds, Shorter, Live
<1>7. CASE LeadSendFails
  BY <1>7 DEF LeadSendFails, coordinator, hostVars, history, bounds
<1>8. CASE LeadAcked
  BY <1>8 DEF LeadAcked, coordinator, hostVars, history, bounds
<1>9. CASE LeadAckTimeout
  BY <1>9 DEF LeadAckTimeout, coordinator, hostVars, history, bounds
<1>10. ASSUME NEW a \in Actors, LeadFinishes(a)
       PROVE  InTime'
  BY <1>10 DEF LeadFinishes, Return, bounds
<1>11. ASSUME NEW a \in Actors, FollowEnds(a)
       PROVE  InTime'
  BY <1>11 DEF FollowEnds, Return, leader, bounds
<1>12. CASE SignalStop
  BY <1>12 DEF SignalStop, coordinator, leader, Live
<1>13. CASE HostReturns
  BY <1>13 DEF HostReturns, coordinator, leader, history, bounds
<1>14. CASE MainServesStop
  BY <1>14 DEF MainServesStop, Request, history, bounds
<1>15. CASE EngineCancel
  BY <1>15 DEF EngineCancel, coordinator, leader, hostVars, history, bounds
<1>16. CASE MainBreaks
  BY <1>16 DEF MainBreaks, coordinator, leader, hostVars, history, bounds
<1>17. CASE Tick
  BY <1>17 DEF Tick, coordinator, history, bounds, Less, Urgent
<1> QED
  BY <1>1, <1>2, <1>3, <1>4, <1>5, <1>6, <1>7, <1>8, <1>9, <1>10, <1>11, <1>12,
     <1>13, <1>14, <1>15, <1>16, <1>17, Zenon DEF Next, Leader

(* The leader's time is paid for by the streams it tried. *)
LEMMA AccountedStep ==
  ASSUME IInv, Next
  PROVE  Accounted'
<1> USE DEF Accounted, InTime
<1> /\ Budget \in Nat /\ Attempt \in Nat /\ leadLeft \in 0..Budget /\ stepLeft \in 0..Attempt
    /\ step \in {"none", "snap", "next", "send", "ack", "finish"}
  BY ShutdownAssumption DEF IInv, Typed
<1> Accounted /\ InTime
  BY DEF IInv
<1> /\ Cost \in Nat
    /\ tried' = tried => Cost' = Cost
    /\ tried' = tried + 1 => Cost' = Cost + 2 * Attempt
  BY ShutdownAssumption DEF Cost, IInv, Typed
<1>1. ASSUME NEW s \in Sessions,
             Start(s) \/ MarkActivity(s) \/ PathEnds(s) \/ WorkerQuits(s)
             \/ SessionCancelled(s) \/ ControlResponse(s)
      PROVE  Accounted'
  <2> s \in Actors /\ s # Main
    BY ShutdownAssumption DEF Actors
  <2>1. CASE Start(s)
    BY <2>1 DEF Start, leader, hostVars
  <2>2. CASE MarkActivity(s)
    BY <2>2 DEF MarkActivity, leader, hostVars, history
  <2>3. CASE PathEnds(s)
    BY <2>3 DEF PathEnds, leader, hostVars, bounds
  <2>4. CASE WorkerQuits(s)
    BY <2>4 DEF WorkerQuits, coordinator, leader, hostVars, history, bounds
  <2>5. CASE SessionCancelled(s)
    BY <2>5 DEF SessionCancelled, Request, hostVars, history, bounds
  <2>6. CASE ControlResponse(s)
    BY <2>6 DEF ControlResponse, leader, hostVars, history, Live
  <2> QED
    BY <1>1, <2>1, <2>2, <2>3, <2>4, <2>5, <2>6
<1>2. ASSUME NEW h \in Hashes, HashUnavailable(h)
      PROVE  Accounted'
  BY <1>2 DEF HashUnavailable, coordinator, leader, hostVars, history, bounds
<1>3. CASE LeadSnapshot
  BY <1>3 DEF LeadSnapshot, coordinator, hostVars, history, bounds
<1>4. CASE LeadGivesUp
  BY <1>4 DEF LeadGivesUp, coordinator, hostVars, history, bounds
<1>5. CASE LeadTries
  BY <1>5 DEF LeadTries, coordinator, hostVars, bounds, Shorter
<1>6. CASE LeadSent
  BY <1>6 DEF LeadSent, coordinator, hostVars, bounds, Shorter, Live
<1>7. CASE LeadSendFails
  BY <1>7 DEF LeadSendFails, coordinator, hostVars, history, bounds
<1>8. CASE LeadAcked
  BY <1>8 DEF LeadAcked, coordinator, hostVars, history, bounds
<1>9. CASE LeadAckTimeout
  BY <1>9 DEF LeadAckTimeout, coordinator, hostVars, history, bounds
<1>10. ASSUME NEW a \in Actors, LeadFinishes(a)
       PROVE  Accounted'
  BY <1>10 DEF LeadFinishes, Return, bounds
<1>11. ASSUME NEW a \in Actors, FollowEnds(a)
       PROVE  Accounted'
  BY <1>11 DEF FollowEnds, Return, leader, bounds
<1>12. CASE SignalStop
  BY <1>12 DEF SignalStop, coordinator, leader, Live
<1>13. CASE HostReturns
  BY <1>13 DEF HostReturns, coordinator, leader, history, bounds
<1>14. CASE MainServesStop
  BY <1>14 DEF MainServesStop, Request, history, bounds
<1>15. CASE EngineCancel
  BY <1>15 DEF EngineCancel, coordinator, leader, hostVars, history, bounds
<1>16. CASE MainBreaks
  BY <1>16 DEF MainBreaks, coordinator, leader, hostVars, history, bounds
<1>17. CASE Tick
  BY <1>17 DEF Tick, coordinator, history, bounds, Less, Urgent
<1> QED
  BY <1>1, <1>2, <1>3, <1>4, <1>5, <1>6, <1>7, <1>8, <1>9, <1>10, <1>11, <1>12,
     <1>13, <1>14, <1>15, <1>16, <1>17, Zenon DEF Next, Leader

(* The host's wait is longer than what is left of the goodbye. *)
LEMMA HostInTimeStep ==
  ASSUME IInv, Next, Typed'
  PROVE  HostInTime'
<1> USE ShutdownAssumption DEF IInv, Typed, Actors, HostInTime, InTime, OneLeader
<1>1. ASSUME NEW s \in Sessions,
             Start(s) \/ MarkActivity(s) \/ PathEnds(s) \/ WorkerQuits(s)
             \/ SessionCancelled(s) \/ ControlResponse(s)
      PROVE  HostInTime'
  <2> s \in Actors /\ s # Main
    BY ShutdownAssumption DEF Actors
  <2>1. CASE Start(s)
    BY <2>1 DEF Start, leader, hostVars
  <2>2. CASE MarkActivity(s)
    BY <2>2 DEF MarkActivity, leader, hostVars, history
  <2>3. CASE PathEnds(s)
    BY <2>3 DEF PathEnds, leader, hostVars, bounds
  <2>4. CASE WorkerQuits(s)
    BY <2>4 DEF WorkerQuits, coordinator, leader, hostVars, history, bounds
  <2>5. CASE SessionCancelled(s)
    BY <2>5 DEF SessionCancelled, Request, hostVars, history, bounds
  <2>6. CASE ControlResponse(s)
    BY <2>6 DEF ControlResponse, leader, hostVars, history, Live
  <2> QED
    BY <1>1, <2>1, <2>2, <2>3, <2>4, <2>5, <2>6
<1>2. ASSUME NEW h \in Hashes, HashUnavailable(h)
      PROVE  HostInTime'
  BY <1>2 DEF HashUnavailable, coordinator, leader, hostVars, history, bounds
<1>3. CASE LeadSnapshot
  BY <1>3 DEF LeadSnapshot, coordinator, hostVars, history, bounds
<1>4. CASE LeadGivesUp
  BY <1>4 DEF LeadGivesUp, coordinator, hostVars, history, bounds
<1>5. CASE LeadTries
  BY <1>5 DEF LeadTries, coordinator, hostVars, bounds, Shorter
<1>6. CASE LeadSent
  BY <1>6 DEF LeadSent, coordinator, hostVars, bounds, Shorter, Live
<1>7. CASE LeadSendFails
  BY <1>7 DEF LeadSendFails, coordinator, hostVars, history, bounds
<1>8. CASE LeadAcked
  BY <1>8 DEF LeadAcked, coordinator, hostVars, history, bounds
<1>9. CASE LeadAckTimeout
  BY <1>9 DEF LeadAckTimeout, coordinator, hostVars, history, bounds
<1>10. ASSUME NEW a \in Actors, LeadFinishes(a)
       PROVE  HostInTime'
  BY <1>10 DEF LeadFinishes, Return, bounds
<1>11. ASSUME NEW a \in Actors, FollowEnds(a)
       PROVE  HostInTime'
  BY <1>11 DEF FollowEnds, Return, leader, bounds
<1>12. CASE SignalStop
  BY <1>12 DEF SignalStop, coordinator, leader, Live
<1>13. CASE HostReturns
  BY <1>13 DEF HostReturns, coordinator, leader, history, bounds
<1>14. CASE MainServesStop
  BY <1>14 DEF MainServesStop, Request, history, bounds
<1>15. CASE EngineCancel
  BY <1>15 DEF EngineCancel, coordinator, leader, hostVars, history, bounds
<1>16. CASE MainBreaks
  BY <1>16 DEF MainBreaks, coordinator, leader, hostVars, history, bounds
<1>17. CASE Tick
  BY <1>17 DEF Tick, coordinator, history, bounds, Less, Urgent
<1> QED
  BY <1>1, <1>2, <1>3, <1>4, <1>5, <1>6, <1>7, <1>8, <1>9, <1>10, <1>11, <1>12,
     <1>13, <1>14, <1>15, <1>16, <1>17, Zenon DEF Next, Leader

-----------------------------------------------------------------------------
(* The engine starts with nothing registered and nobody waiting. *)
LEMMA InitInv == Init => IInv
<1> SUFFICES ASSUME Init PROVE IInv
  OBVIOUS
<1> USE ShutdownAssumption DEF Init, Actors
<1>1. Typed
  <2>1. /\ active \in BOOLEAN /\ completed \in BOOLEAN /\ stopping \in BOOLEAN
        /\ flag \in BOOLEAN /\ done \in BOOLEAN
    BY Zenon
  <2>2. pc \in [Actors -> {"off", "live", "lead", "follow", "over"}]
    OBVIOUS
  <2>3. followLeft \in [Actors -> 0..FollowWait]
    OBVIOUS
  <2>4. /\ cancelled \in SUBSET Sessions /\ delivered \in SUBSET Sessions
        /\ told \in SUBSET Sessions /\ unheard \in SUBSET Sessions
    OBVIOUS
  <2>5. /\ work \in Seq(Sessions) /\ target \in Actors /\ step = "none"
        /\ leadLeft \in 0..Budget /\ stepLeft \in 0..Attempt
        /\ host = "idle" /\ hostLeft \in 0..HostWait /\ tried \in Nat
    OBVIOUS
  <2> QED
    BY <2>1, <2>2, <2>3, <2>4, <2>5 DEF Typed
<1>2. Registered
  BY DEF Registered, IsInjective, ToSet
<1>3. OneLeader /\ InTime /\ Accounted /\ HostInTime
  BY DEF OneLeader, InTime, Accounted, HostInTime
<1> QED
  BY <1>1, <1>2, <1>3 DEF IInv

(* A step that changes nothing keeps the invariant. *)
LEMMA StutterInv ==
  ASSUME IInv, UNCHANGED vars
  PROVE  IInv'
<1> USE DEF vars, coordinator, leader, hostVars, history, bounds, IInv
<1>1. Typed'
  <2>1. /\ active' = active /\ completed' = completed /\ stopping' = stopping
        /\ flag' = flag /\ done' = done
    OBVIOUS
  <2>2. UNCHANGED <<cancelled, pc, step, work, target, leadLeft, stepLeft, followLeft>>
    OBVIOUS
  <2>3. UNCHANGED <<host, hostLeft, delivered, told, tried, unheard>>
    OBVIOUS
  <2> QED
    BY <2>1, <2>2, <2>3, Zenon DEF Typed
<1>2. Registered'
  BY DEF Registered, Live
<1>3. OneLeader' /\ InTime' /\ Accounted' /\ HostInTime'
  BY DEF OneLeader, InTime, Accounted, HostInTime, Cost
<1> QED
  BY <1>1, <1>2, <1>3

(* Every step keeps the parts of the invariant, each by its own lemma. *)
LEMMA StepInv == IInv /\ [Next]_vars => IInv'
<1>1. ASSUME IInv, Next PROVE IInv'
  <2>1. Typed' /\ Registered'
    BY <1>1, TypedStep, RegisteredStep
  <2>2. OneLeader' /\ InTime' /\ Accounted' /\ HostInTime'
    BY <1>1, <2>1, OneLeaderStep, InTimeStep, AccountedStep, HostInTimeStep
  <2> QED
    BY <2>1, <2>2 DEF IInv
<1> QED
  BY <1>1, StutterInv

(* The invariant holds throughout. *)
LEMMA Invariance == Spec => []IInv
  BY InitInv, StepInv, PTL DEF Spec

-----------------------------------------------------------------------------
(* A budget that t tries of cost m have used up buys no more than t tries. *)
LEMMA Afford ==
  ASSUME NEW b \in Nat, NEW m \in Nat, m > 0, NEW t \in Nat, b <= m * t
  PROVE  t >= b \div m
<1>1. b = m * (b \div m) + (b % m) /\ b \div m \in Int /\ b % m >= 0 /\ b % m \in Int
  OBVIOUS
<1>2. ASSUME b \div m >= t + 1 PROVE FALSE
  <2>1. m * (b \div m) >= m * (t + 1)
    BY <1>1, <1>2
  <2>2. m * (t + 1) = m * t + m
    OBVIOUS
  <2> QED
    BY <1>1, <2>1, <2>2
<1> QED
  BY <1>1, <1>2

(* DISCONNECT_ATTEMPT: the leader gives up early only after so many        *)
(* streams that two attempts for each make up the whole budget; and every  *)
(* variable keeps its type, the list of streams without repetition.        *)
THEOREM LaterStreamsTried == Spec => []LaterStreamsAreTried
<1>1. ASSUME IInv PROVE LaterStreamsAreTried
  <2>1. TypeOK
    BY <1>1 DEF IInv, Typed, Registered, TypeOK
  <2>2. ASSUME step = "finish", Budget <= Cost PROVE tried >= Budget \div (2 * Attempt)
    <3>1. 2 * Attempt \in Nat /\ 2 * Attempt > 0 /\ Budget \in Nat
      BY ShutdownAssumption
    <3>2. tried \in Nat /\ Budget <= (2 * Attempt) * tried
      BY <1>1, <2>2, ShutdownAssumption DEF IInv, Typed, Cost
    <3> QED
      BY <3>1, <3>2, Afford
  <2>3. step = "finish" => work = <<>> \/ completed \/ Budget <= Cost
    BY <1>1 DEF IInv, Accounted
  <2> QED
    BY <2>1, <2>2, <2>3 DEF LaterStreamsAreTried
<1> QED
  BY <1>1, Invariance, PTL

(* request_disconnect: a task that does not lead leaves only when the      *)
(* leader's goodbye is over, never because its own wait ran out.           *)
THEOREM FollowersWaiting == Spec => FollowersWait
<1> DEFINE Left == \A a \in Actors : pc[a] = "follow" /\ pc'[a] # "follow" => completed'
<1>1. ASSUME IInv, Next PROVE Left
  <2> USE DEF IInv, Typed, Actors
  <2>1. ASSUME NEW s \in Sessions,
               Start(s) \/ MarkActivity(s) \/ PathEnds(s) \/ WorkerQuits(s)
               \/ SessionCancelled(s) \/ ControlResponse(s)
        PROVE  Left
    BY <1>1, <2>1 DEF Start, MarkActivity, PathEnds, WorkerQuits, SessionCancelled, Request,
       ControlResponse
  <2>2. ASSUME NEW a \in Actors, LeadFinishes(a) PROVE Left
    BY <1>1, <2>2 DEF LeadFinishes, Return
  <2>3. ASSUME NEW a \in Actors, FollowEnds(a) PROVE Left
    <3>1. completed' = completed /\ (completed \/ followLeft[a] = 0) /\ pc[a] = "follow"
      BY <2>3 DEF FollowEnds
    <3>2. completed
      BY <1>1, <3>1, ShutdownAssumption DEF InTime
    <3> QED
      BY <3>1, <3>2
  <2>4. CASE MainServesStop
    BY <1>1, <2>4 DEF MainServesStop, Request
  <2>5. CASE MainBreaks
    BY <1>1, <2>5 DEF MainBreaks
  <2>6. CASE \/ \E h \in Hashes : HashUnavailable(h)
             \/ LeadSnapshot \/ LeadGivesUp \/ LeadTries \/ LeadSent \/ LeadSendFails
             \/ LeadAcked \/ LeadAckTimeout \/ SignalStop \/ HostReturns \/ EngineCancel
             \/ Tick
    <3>1. pc' = pc
      BY <2>6, Zenon DEF HashUnavailable, LeadSnapshot, LeadGivesUp, LeadTries, LeadSent,
         LeadSendFails, LeadAcked, LeadAckTimeout, SignalStop, HostReturns, EngineCancel,
         Tick
    <3> QED
      BY <3>1
  <2> QED
    BY <1>1, <2>1, <2>2, <2>3, <2>4, <2>5, <2>6, Zenon DEF Next, Leader
<1>2. IInv /\ [Next]_vars => [Left]_vars
  BY <1>1
<1> QED
  BY <1>2, Invariance, PTL DEF Spec, FollowersWait

(* signal_stop_disconnect: the host's wait runs out without STOP_DONE only *)
(* when the main loop is no longer there to set it.                        *)
THEOREM HostWaitCovers == Spec => HostWaitCoversGoodbye
<1> DEFINE Answered == host = "wait" /\ host' = "returned" => done \/ pc[Main] = "over"
<1>1. ASSUME IInv, Next PROVE Answered
  <2> SUFFICES ASSUME host = "wait", host' # "wait", ~done, pc[Main] # "over"
               PROVE  FALSE
    OBVIOUS
  <2>1. HostReturns
    BY <1>1, Zenon DEF Next, Leader, Start, MarkActivity, PathEnds, WorkerQuits,
       SessionCancelled, ControlResponse, HashUnavailable, LeadSnapshot, LeadGivesUp,
       LeadTries, LeadSent, LeadSendFails, LeadAcked, LeadAckTimeout, LeadFinishes,
       FollowEnds, SignalStop, MainServesStop, EngineCancel, MainBreaks, Tick, hostVars
  <2>2. hostLeft = 0 /\ pc[Main] \in {"live", "lead", "follow"}
    BY <1>1, <2>1 DEF HostReturns, HostInTime, IInv, Typed, Actors
  <2> QED
    BY <1>1, <2>2, ShutdownAssumption DEF HostInTime, IInv, Typed
<1>2. IInv /\ [Next]_vars => [Answered]_vars
  BY <1>1
<1> QED
  BY <1>2, Invariance, PTL DEF Spec, HostWaitCoversGoodbye
=============================================================================
