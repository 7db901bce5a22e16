----------------------- MODULE WorkerCredentialsProofs -----------------------
(***************************************************************************)
(* Safety of the credential cache (WorkerCredentials, worker.rs) for any   *)
(* number of workers, values, allocations per credential and generations.  *)
(*                                                                         *)
(* The argument: every operation that changes the cached credentials either *)
(* keeps the mutex through get() or takes it for one step, so get() finds  *)
(* the cache as it left it; a lease whose generation is still cached has   *)
(* been charged to attempts and is given back at most once; generations    *)
(* are never reused.                                                       *)
(***************************************************************************)
EXTENDS WorkerCredentials, FiniteSetTheorems, TLAPS

Fetching == {"fetch", "post", "backoff"}
Ended == {"closing", "unstarted", "guard", "outage", "swap", "verdict"}

(* The mutex of get(), and what it protects. *)
Locking ==
  /\ \A w \in Workers : pc[w] \in Fetching <=> holder = {w}
  /\ \A w \in Workers : pc[w] \in {"fetch", "backoff"} => current = NoCredential
  /\ \A w \in Workers : pc[w] = "post" => current # NoCredential /\ current.attempts = 0

(* Who has a lease; generations are numbered by nextGen. *)
Leases ==
  /\ \A w \in Workers :
       pc[w] \in Fetching \cup {"gate", "get", "over"} => lease[w] = NoLease
  /\ \A w \in Workers : lease[w].gen <= nextGen
  /\ current.gen <= nextGen

Charged == {w \in Workers : Leased(w)}

(* Every lease of the cached credentials is charged. *)
Counted == Cardinality(Charged) <= current.attempts

Rotated ==
  \A g \in Gens : rotations[g] # 0 => rotations[g] = 1 /\ g # current.gen /\ g <= nextGen

BlockedIsEmpty == blocked # NoValue => current = NoCredential

Flight ==
  /\ \A w \in Workers :
       getConf[w] => pc[w] \in {"dial", "record", "channel", "live", "closing",
                                "unstarted", "guard"}
  /\ FlightHasOwner

(* A parked session has been started; so it gives its slot back. *)
Parked ==
  /\ \A w \in Workers : pc[w] \in {"record", "channel", "live"} => started[w]
  /\ parksOnly => \A w \in Workers :
       /\ result[w] \in {"none", "park"}
       /\ pc[w] \in Ended => result[w] = "park" /\ started[w]

Gone == {w \in Workers : pc[w] = "over"}

(* While sessions only park, a charge belongs to a lease or to a worker    *)
(* that has returned.                                                      *)
Balanced == parksOnly => current.attempts <= Cardinality(Charged \cup Gone)

OneCredential ==
  parksOnly /\ Cardinality(Workers) <= PerCredential =>
    nextGen <= 1 /\ (current = NoCredential <=> nextGen = 0)

IInv ==
  /\ TypeOK /\ Locking /\ Leases /\ Counted /\ Rotated /\ BlockedIsEmpty
  /\ Flight /\ Parked /\ Balanced /\ OneCredential

-----------------------------------------------------------------------------
(* Types, in three parts. *)
CacheTyped ==
  /\ current \in [value : Values, gen : Gens, attempts : 0..PerCredential,
                  mismatches : 0..1] \cup {NoCredential}
  /\ blocked \in Values \cup {NoValue}
  /\ nextGen \in 0..MaxGen
  /\ retries \in 0..Ladder
  /\ lease \in [Workers -> [value : Values, gen : Gens] \cup {NoLease}]
  /\ rotations \in [Gens -> Nat]

TasksTyped ==
  /\ holder \in SUBSET Workers /\ Cardinality(holder) <= 1
  /\ pc \in [Workers -> Steps]
  /\ result \in [Workers -> Results]
  /\ held \in SUBSET Workers
  /\ holds \in 0..MaxHolds

FlagsTyped ==
  /\ started \in [Workers -> BOOLEAN]
  /\ ready \in [Workers -> BOOLEAN]
  /\ getConf \in [Workers -> BOOLEAN]
  /\ sent \in BOOLEAN /\ inFlight \in BOOLEAN
  /\ unavailable \in BOOLEAN /\ stopping \in BOOLEAN
  /\ parksOnly \in BOOLEAN /\ movesOnly \in BOOLEAN

(* The type invariant, in three parts. *)
LEMMA TypeParts == TypeOK <=> CacheTyped /\ TasksTyped /\ FlagsTyped
BY DEF TypeOK, CacheTyped, TasksTyped, FlagsTyped

(* The initial state. *)
LEMMA InitInv == Init => IInv
<1> SUFFICES ASSUME Init PROVE IInv
  OBVIOUS
<1>1. CacheTyped
  BY CredentialsAssumption DEF Init, CacheTyped
<1>2. TasksTyped
  BY CredentialsAssumption, FS_EmptySet DEF Init, TasksTyped, Steps, Results
<1>3. FlagsTyped
  BY DEF Init, FlagsTyped
<1>4. Locking /\ Leases /\ Rotated /\ BlockedIsEmpty
  BY DEF Init, NoCredential, NoLease, Locking, Leases, Rotated, BlockedIsEmpty, Fetching,
     Gens
<1>5. Charged = {} /\ Gone = {}
  BY DEF Init, Charged, Leased, Gone
<1>6. Counted /\ Balanced
  BY <1>5, FS_EmptySet DEF Init, NoCredential, Counted, Balanced
<1>7. Flight /\ Parked
  BY DEF Init, Flight, FlightHasOwner, Parked, Ended
<1>8. OneCredential
  BY DEF Init, OneCredential
<1> QED
  BY <1>1, <1>2, <1>3, <1>4, <1>6, <1>7, <1>8, TypeParts DEF IInv

(* The cache, the leases and the counts of rotations keep their types. *)
LEMMA CacheTypedStep ==
  ASSUME IInv, [Next]_vars
  PROVE  CacheTyped'
<1> USE CredentialsAssumption DEF CacheTyped, cache, history
<1>0. CacheTyped /\ Locking
  BY TypeParts DEF IInv
<1>1. ASSUME UNCHANGED <<cache, lease, rotations>> PROVE CacheTyped'
  BY <1>0, <1>1
<1>2. ASSUME NEW w \in Workers, Reserve(w) PROVE CacheTyped'
  BY <1>0, <1>2 DEF Reserve, Usable, Grant, NoCredential
<1>3. ASSUME NEW w \in Workers, BeginFetch(w) PROVE CacheTyped'
  BY <1>0, <1>3 DEF BeginFetch
<1>4. ASSUME NEW w \in Workers, Fetched(w) PROVE CacheTyped'
  BY <1>0, <1>4 DEF Fetched, Store, Gens
<1>5. ASSUME NEW w \in Workers, FetchDone(w) PROVE CacheTyped'
  BY <1>0, <1>5 DEF FetchDone, Grant, Goto, Locking, NoCredential
<1>6. ASSUME NEW w \in Workers, FetchedBlocked(w) PROVE CacheTyped'
  BY <1>0, <1>6 DEF FetchedBlocked, NextRung
<1>7. ASSUME NEW w \in Workers, Release(w) PROVE current' \in
              [value : Values, gen : Gens, attempts : 0..PerCredential, mismatches : 0..1]
                \cup {NoCredential}
  BY <1>0, <1>7 DEF Release, Leased, NoCredential
<1>8. ASSUME NEW w \in Workers, QuitAtPace(w) PROVE CacheTyped'
  BY <1>0, <1>7, <1>8 DEF QuitAtPace
<1>9. ASSUME NEW w \in Workers, RecordAllocation(w) PROVE CacheTyped'
  BY <1>0, <1>9 DEF RecordAllocation, Leased, NoCredential
<1>10. ASSUME NEW w \in Workers, ReleaseUnstarted(w) PROVE CacheTyped'
  BY <1>0, <1>7, <1>10 DEF ReleaseUnstarted
<1>11. ASSUME NEW w \in Workers, QuitAfterSession(w) PROVE CacheTyped'
  BY <1>0, <1>11 DEF QuitAfterSession, Forget
<1>12. ASSUME NEW w \in Workers, Verdict(w) PROVE CacheTyped'
  <2>1. lease' \in [Workers -> [value : Values, gen : Gens] \cup {NoLease}]
    BY <1>0, <1>12 DEF Verdict, Forget
  <2>2. CASE VerdictPark(w) /\ UNCHANGED history
    BY <1>0, <1>7, <2>1, <2>2 DEF VerdictPark
  <2>3. CASE VerdictKeep(w) /\ UNCHANGED history
    BY <1>0, <2>1, <2>3 DEF VerdictKeep
  <2>4. CASE VerdictInvalidate(w) /\ UNCHANGED history
    BY <1>0, <2>1, <2>4 DEF VerdictInvalidate
  <2>5. CASE VerdictQuota(w)
    BY <1>0, <2>1, <2>5 DEF VerdictQuota, NextRung, Rotates, Leased, NoCredential
  <2>6. CASE VerdictMismatch(w) /\ UNCHANGED history
    BY <1>0, <2>1, <2>6 DEF VerdictMismatch, Leased, NoCredential
  <2> QED
    BY <1>12, <2>2, <2>3, <2>4, <2>5, <2>6 DEF Verdict
<1>13. \/ UNCHANGED <<cache, lease, rotations>>
       \/ \E w \in Workers :
            \/ Reserve(w) \/ BeginFetch(w) \/ Fetched(w) \/ FetchDone(w)
            \/ FetchedBlocked(w) \/ QuitAtPace(w) \/ RecordAllocation(w)
            \/ ReleaseUnstarted(w) \/ QuitAfterSession(w) \/ Verdict(w)
  <2> DEFINE Same == UNCHANGED <<cache, lease, rotations>>
  <2>1. ASSUME Hold \/ Stop \/ UNCHANGED vars PROVE Same
    BY <2>1 DEF Hold, Stop, vars
  <2>2. ASSUME NEW w \in Workers,
               Enter(w) \/ QuitAtGate(w) \/ QuitAtGet(w) \/ FetchCancelled(w)
                 \/ FetchCallGone(w) \/ FetchFails(w) \/ BackoffDone(w)
        PROVE Same
    BY <2>2 DEF Enter, QuitAtGate, QuitAtGet, Quit, FetchCancelled, FetchCallGone,
       FetchFails, BackoffDone
  <2>3. ASSUME NEW w \in Workers,
               StartSession(w) \/ AllocationStarted(w) \/ Allocated(w) \/ Handshake(w)
                 \/ DialFails(w) \/ ChannelFails(w) \/ LiveEnds(w) \/ SessionCancelled(w)
                 \/ Closed(w)
        PROVE Same
    BY <2>3 DEF StartSession, AllocationStarted, Allocated, Handshake, DialFails,
       ChannelFails, LiveEnds, SessionCancelled, Closed, Ends
  <2>4. ASSUME NEW w \in Workers, DropGuard(w) \/ CheckOutage(w) \/ ForgetConfig(w)
        PROVE Same
    BY <2>4 DEF DropGuard, CheckOutage, ForgetConfig
  <2> QED
    BY <2>1, <2>2, <2>3, <2>4 DEF Next, Worker, GetLease, RunSession, AfterSession
<1> QED
  BY <1>1, <1>2, <1>3, <1>4, <1>5, <1>6, <1>8, <1>9, <1>10, <1>11, <1>12, <1>13

(* The tasks of the workers keep their types. *)
LEMMA TasksTypedStep ==
  ASSUME IInv, [Next]_vars
  PROVE  TasksTyped'
<1> USE CredentialsAssumption DEF TasksTyped, Goto, Steps, Results, session, environment
<1>0. TasksTyped
  BY TypeParts DEF IInv
<1>1. ASSUME Hold \/ Stop \/ UNCHANGED vars PROVE TasksTyped'
  BY <1>0, <1>1 DEF Hold, Stop, vars
<1>2. ASSUME NEW w \in Workers, GetLease(w) PROVE TasksTyped'
  <2>1. CASE BeginFetch(w)
    BY <1>0, <2>1, FS_Singleton DEF BeginFetch
  <2>2. CASE FetchCancelled(w) \/ FetchDone(w) \/ FetchedBlocked(w) \/ FetchCallGone(w)
             \/ BackoffDone(w)
    BY <1>0, <2>2, FS_EmptySet DEF FetchCancelled, FetchDone, FetchedBlocked, FetchCallGone,
       BackoffDone
  <2>3. CASE Enter(w) \/ QuitAtGate(w) \/ QuitAtGet(w) \/ Reserve(w) \/ Fetched(w)
             \/ FetchFails(w)
    BY <1>0, <2>3 DEF Enter, QuitAtGate, QuitAtGet, Quit, Reserve, Fetched, FetchFails
  <2> QED
    BY <1>2, <2>1, <2>2, <2>3 DEF GetLease
<1>3. ASSUME NEW w \in Workers, RunSession(w) PROVE TasksTyped'
  BY <1>0, <1>3, ZenonT(40) DEF RunSession, QuitAtPace, StartSession, AllocationStarted, Allocated,
     RecordAllocation, Handshake, DialFails, ChannelFails, LiveEnds, SessionCancelled,
     Closed, Ends
<1>4. ASSUME NEW w \in Workers, AfterSession(w) PROVE TasksTyped'
  BY <1>0, <1>4 DEF AfterSession, ReleaseUnstarted, DropGuard, CheckOutage, ForgetConfig,
     QuitAfterSession, Verdict, Forget
<1> QED
  BY <1>1, <1>2, <1>3, <1>4 DEF Next, Worker

(* The flags stay Booleans. *)
LEMMA FlagsTypedStep ==
  ASSUME IInv, [Next]_vars
  PROVE  FlagsTyped'
<1> USE DEF FlagsTyped, session, config, environment, history
<1>0. FlagsTyped
  BY TypeParts DEF IInv
<1>1. ASSUME Hold \/ Stop \/ UNCHANGED vars PROVE FlagsTyped'
  BY <1>0, <1>1 DEF Hold, Stop, vars
<1>2. ASSUME NEW w \in Workers, GetLease(w) PROVE FlagsTyped'
  BY <1>0, <1>2 DEF GetLease, Enter, QuitAtGate, QuitAtGet, Quit, Reserve, BeginFetch,
     FetchCancelled, Fetched, FetchDone, FetchedBlocked, FetchCallGone, FetchFails,
     BackoffDone
<1>3. ASSUME NEW w \in Workers,
             QuitAtPace(w) \/ StartSession(w) \/ AllocationStarted(w) \/ Allocated(w)
               \/ RecordAllocation(w) \/ Closed(w)
      PROVE FlagsTyped'
  BY <1>0, <1>3 DEF QuitAtPace, StartSession, Acquires, AllocationStarted, Allocated,
     RecordAllocation, Closed
<1>4. ASSUME NEW w \in Workers, Handshake(w) \/ ChannelFails(w) PROVE FlagsTyped'
  BY <1>0, <1>4 DEF Handshake, ChannelFails, Complete, Ends
<1>5. ASSUME NEW w \in Workers, DialFails(w) \/ LiveEnds(w) \/ SessionCancelled(w)
      PROVE FlagsTyped'
  BY <1>0, <1>5 DEF DialFails, LiveEnds, SessionCancelled, Ends
<1>6. ASSUME NEW w \in Workers, AfterSession(w) PROVE FlagsTyped'
  BY <1>0, <1>6 DEF AfterSession, ReleaseUnstarted, DropGuard, CheckOutage, ForgetConfig,
     QuitAfterSession, Verdict, Forget, VerdictQuota
<1> QED
  BY <1>1, <1>2, <1>3, <1>4, <1>5, <1>6 DEF Next, Worker, RunSession

-----------------------------------------------------------------------------
(* get() finds the cache as it left it: nobody else changes it meanwhile.  *)
LEMMA LockingStep ==
  ASSUME IInv, [Next]_vars
  PROVE  Locking'
<1> USE DEF Locking, Fetching, Goto, Unlocked, cache, TasksTyped, Steps
<1>0. CacheTyped /\ TasksTyped /\ Locking
  BY TypeParts DEF IInv
<1>1. ASSUME UNCHANGED <<current, holder, pc>> PROVE Locking'
  BY <1>0, <1>1
<1>2. ASSUME NEW w \in Workers, UNCHANGED <<current, holder>>,
             pc[w] \notin Fetching, \E q \in Steps \ Fetching : pc' = [pc EXCEPT ![w] = q]
      PROVE Locking'
  BY <1>0, <1>2
<1>3. ASSUME NEW w \in Workers, holder = {}, holder' = {},
             pc[w] \notin Fetching, \E q \in Steps \ Fetching : pc' = [pc EXCEPT ![w] = q]
      PROVE Locking'
  BY <1>0, <1>3
<1>4. ASSUME NEW w \in Workers, BeginFetch(w) PROVE Locking'
  BY <1>0, <1>4 DEF BeginFetch
<1>5. ASSUME NEW w \in Workers,
             FetchCancelled(w) \/ FetchedBlocked(w) \/ FetchCallGone(w) \/ BackoffDone(w)
      PROVE Locking'
  BY <1>0, <1>5 DEF FetchCancelled, FetchedBlocked, FetchCallGone, BackoffDone
<1>6. ASSUME NEW w \in Workers, FetchDone(w) PROVE Locking'
  BY <1>0, <1>6 DEF FetchDone
<1>7. ASSUME NEW w \in Workers, Fetched(w) PROVE Locking'
  <2>1. PICK v \in Values : Store(v)
    BY <1>7 DEF Fetched
  <2>2. current' # NoCredential /\ current'.attempts = 0
    BY <2>1, CredentialsAssumption DEF Store, NoCredential
  <2> QED
    BY <1>0, <1>7, <2>2 DEF Fetched
<1>8. ASSUME NEW w \in Workers, FetchFails(w) PROVE Locking'
  BY <1>0, <1>8 DEF FetchFails
<1>9. ASSUME Hold \/ Stop \/ UNCHANGED vars PROVE Locking'
  BY <1>1, <1>9 DEF Hold, Stop, vars
<1>10. ASSUME NEW w \in Workers,
              Enter(w) \/ QuitAtGate(w) \/ QuitAtGet(w) \/ StartSession(w) \/ Allocated(w)
                \/ Handshake(w) \/ DialFails(w) \/ ChannelFails(w) \/ LiveEnds(w)
                \/ SessionCancelled(w) \/ Closed(w) \/ DropGuard(w) \/ CheckOutage(w)
                \/ ForgetConfig(w) \/ QuitAfterSession(w)
       PROVE Locking'
  BY <1>2, <1>10 DEF Enter, QuitAtGate, QuitAtGet, Quit, StartSession, Allocated, Handshake,
     DialFails, ChannelFails, LiveEnds, SessionCancelled, Closed, Ends, DropGuard,
     CheckOutage, ForgetConfig, QuitAfterSession
<1>11. ASSUME NEW w \in Workers, AllocationStarted(w) PROVE Locking'
  BY <1>1, <1>11 DEF AllocationStarted
<1>12. ASSUME NEW w \in Workers,
              Reserve(w) \/ QuitAtPace(w) \/ RecordAllocation(w)
       PROVE Locking'
  BY <1>3, <1>12 DEF Reserve, QuitAtPace, RecordAllocation
<1>13. ASSUME NEW w \in Workers, ReleaseUnstarted(w) PROVE Locking'
  BY <1>2, <1>3, <1>13 DEF ReleaseUnstarted
<1>14. ASSUME NEW w \in Workers, Verdict(w) PROVE Locking'
  <2>1. UNCHANGED holder /\ (UNCHANGED current \/ holder = {})
    BY <1>14 DEF Verdict, VerdictPark, VerdictKeep, VerdictInvalidate, VerdictQuota,
       VerdictMismatch
  <2> QED
    BY <1>2, <1>3, <1>14, <2>1 DEF Verdict
<1> QED
  BY <1>4, <1>5, <1>6, <1>7, <1>8, <1>9, <1>10, <1>11, <1>12, <1>13, <1>14
     DEF Next, Worker, GetLease, RunSession, AfterSession

(* Every step either moves one worker and leaves the cache and the leases  *)
(* alone, or is one of the operations on the cache.                        *)
Moves(w) ==
  /\ UNCHANGED <<current, nextGen, lease>>
  /\ pc[w] # "over"
  /\ \E q \in Steps : pc' = [pc EXCEPT ![w] = q]
  /\ pc'[w] \in Fetching \cup {"gate", "get", "over"} => lease[w] = NoLease
  /\ pc'[w] \notin Fetching \/ (pc[w] \in {"fetch"} /\ pc'[w] = "backoff")

(* What a step does to leases and attempts, action by action. *)
LEMMA StepCases ==
  ASSUME IInv, [Next]_vars
  PROVE  \/ UNCHANGED <<current, nextGen, lease, pc>>
         \/ \E w \in Workers :
              \/ Moves(w) \/ Reserve(w) \/ BeginFetch(w) \/ Fetched(w) \/ FetchDone(w)
              \/ QuitAtPace(w) \/ RecordAllocation(w) \/ ReleaseUnstarted(w)
              \/ QuitAfterSession(w) \/ Verdict(w)
<1> USE DEF Fetching, Goto, cache, TasksTyped, Steps, Moves
<1>0. TasksTyped /\ Leases
  BY TypeParts DEF IInv
<1>1. ASSUME Hold \/ Stop \/ UNCHANGED vars PROVE UNCHANGED <<current, nextGen, lease, pc>>
  BY <1>1 DEF Hold, Stop, vars
<1>2. ASSUME NEW w \in Workers, AllocationStarted(w)
      PROVE UNCHANGED <<current, nextGen, lease, pc>>
  BY <1>2 DEF AllocationStarted
<1>3. ASSUME NEW w \in Workers,
             Enter(w) \/ QuitAtGate(w) \/ QuitAtGet(w) \/ FetchCancelled(w)
               \/ FetchedBlocked(w) \/ FetchCallGone(w) \/ FetchFails(w) \/ BackoffDone(w)
      PROVE Moves(w)
  BY <1>0, <1>3 DEF Leases, Enter, QuitAtGate, QuitAtGet, Quit, FetchCancelled,
     FetchedBlocked, FetchCallGone, FetchFails, BackoffDone
<1>4. ASSUME NEW w \in Workers,
             StartSession(w) \/ Allocated(w) \/ Handshake(w) \/ DialFails(w)
               \/ ChannelFails(w) \/ LiveEnds(w) \/ SessionCancelled(w) \/ Closed(w)
      PROVE Moves(w)
  BY <1>0, <1>4 DEF StartSession, Allocated, Handshake, DialFails, ChannelFails, LiveEnds,
     SessionCancelled, Closed, Ends
<1>5. ASSUME NEW w \in Workers, DropGuard(w) \/ CheckOutage(w) \/ ForgetConfig(w)
      PROVE Moves(w)
  BY <1>0, <1>5 DEF DropGuard, CheckOutage, ForgetConfig
<1> QED
  BY <1>1, <1>2, <1>3, <1>4, <1>5 DEF Next, Worker, GetLease, RunSession, AfterSession

(* Who keeps a lease, and that generations only grow. *)
LEMMA LeasesStep ==
  ASSUME IInv, [Next]_vars
  PROVE  Leases'
<1> USE CredentialsAssumption DEF Leases, Fetching, Goto, cache, CacheTyped, TasksTyped,
        NoLease, NoCredential, Gens, Steps
<1>0. CacheTyped /\ TasksTyped /\ Leases /\ Locking
  BY TypeParts DEF IInv
<1>1. ASSUME NEW w \in Workers, Moves(w) PROVE Leases'
  BY <1>0, <1>1 DEF Moves
<1>2. ASSUME NEW w \in Workers, UNCHANGED nextGen, current'.gen <= nextGen,
             lease' = [lease EXCEPT ![w] = NoLease],
             \E q \in Steps : pc' = [pc EXCEPT ![w] = q]
      PROVE Leases'
  BY <1>0, <1>2
<1>3. ASSUME NEW w \in Workers, Reserve(w) \/ FetchDone(w) PROVE Leases'
  <2>1. current' = [current EXCEPT !.attempts = @ + 1] /\ nextGen' = nextGen
        /\ lease' = [lease EXCEPT ![w] = [value |-> current.value, gen |-> current.gen]]
        /\ pc' = [pc EXCEPT ![w] = "pace"]
    BY <1>3 DEF Reserve, FetchDone, Grant
  <2> QED
    BY <1>0, <2>1
<1>4. ASSUME NEW w \in Workers, BeginFetch(w) PROVE Leases'
  BY <1>0, <1>4 DEF BeginFetch
<1>5. ASSUME NEW w \in Workers, Fetched(w) PROVE Leases'
  <2>1. PICK v \in Values : Store(v)
    BY <1>5 DEF Fetched
  <2>2. nextGen' = nextGen + 1 /\ current'.gen = nextGen + 1
    BY <2>1 DEF Store
  <2>3. \A u \in Workers : lease[u].gen \in Nat /\ lease[u].gen <= nextGen + 1
    BY <1>0
  <2>4. UNCHANGED lease /\ pc' = [pc EXCEPT ![w] = "post"] /\ pc[w] = "fetch"
    BY <1>5 DEF Fetched
  <2> QED
    BY <1>0, <2>2, <2>3, <2>4
<1>6. ASSUME NEW w \in Workers, Release(w) \/ UNCHANGED current PROVE current'.gen <= nextGen
  BY <1>0, <1>6 DEF Release
<1>7. ASSUME NEW w \in Workers, QuitAtPace(w) PROVE Leases'
  BY <1>0, <1>2, <1>6, <1>7 DEF QuitAtPace
<1>8. ASSUME NEW w \in Workers, RecordAllocation(w) PROVE Leases'
  BY <1>0, <1>8 DEF RecordAllocation
<1>9. ASSUME NEW w \in Workers, ReleaseUnstarted(w) PROVE Leases'
  <2>1. CASE started[w]
    BY <1>0, <1>9, <2>1 DEF ReleaseUnstarted
  <2>2. CASE ~started[w]
    BY <1>0, <1>2, <1>6, <1>9, <2>2 DEF ReleaseUnstarted
  <2> QED
    BY <2>1, <2>2
<1>10. ASSUME NEW w \in Workers, QuitAfterSession(w) PROVE Leases'
  BY <1>0, <1>2, <1>6, <1>10 DEF QuitAfterSession, Forget
<1>11. ASSUME NEW w \in Workers, Verdict(w) PROVE Leases'
  <2>1. current'.gen <= nextGen /\ nextGen' = nextGen
    BY <1>0, <1>6, <1>11 DEF Verdict, VerdictPark, VerdictKeep, VerdictInvalidate,
       VerdictQuota, VerdictMismatch
  <2> QED
    BY <1>0, <1>2, <1>11, <2>1 DEF Verdict, Forget
<1> QED
  BY <1>0, <1>1, <1>3, <1>4, <1>5, <1>7, <1>8, <1>9, <1>10, <1>11, StepCases

(* What a step does to the set of charged leases and to attempts. *)
Keeps == Charged' = Charged /\ current'.attempts = current.attempts /\ Gone \subseteq Gone'
Empties == Charged' = {} /\ current'.attempts = 0
Charges(w) ==
  /\ w \notin Charged \cup Gone
  /\ Charged' = Charged \cup {w} /\ Gone' = Gone
  /\ current'.attempts = current.attempts + 1
Refunds(w) ==
  /\ w \in Charged
  /\ Charged' = Charged \ {w} /\ Gone \subseteq Gone'
  /\ current'.attempts = IF current.attempts = 0 THEN 0 ELSE current.attempts - 1
Leaves(w) ==
  /\ Charged' = Charged \ {w} /\ Gone \subseteq Gone'
  /\ current'.attempts = current.attempts
  /\ parksOnly' /\ w \in Charged => w \in Gone'

(* Every attempt counted belongs to a lease or to a worker that returned. *)
LEMMA Accounting ==
  ASSUME IInv, [Next]_vars
  PROVE  Keeps \/ Empties \/ \E w \in Workers : Charges(w) \/ Refunds(w) \/ Leaves(w)
<1> USE DEF Charged, Leased, Gone
<1>0. CacheTyped /\ TasksTyped /\ Leases /\ Locking /\ Parked
  BY TypeParts DEF IInv
<1>a. \A w \in Workers : lease[w] # NoLease => lease[w].gen \in Nat \ {0}
  BY <1>0 DEF CacheTyped, NoLease, Gens
<1>b. \A w \in Workers : pc[w] \in {"get", "post", "over"} => ~Leased(w)
  BY <1>0 DEF Leases, Fetching
<1>1. ASSUME UNCHANGED <<current, nextGen, lease, pc>> PROVE Keeps
  BY <1>1 DEF Keeps
<1>2. ASSUME NEW w \in Workers, Moves(w) PROVE Keeps
  BY <1>0, <1>2 DEF Keeps, Moves, TasksTyped
<1>3. ASSUME NEW w \in Workers, Reserve(w) \/ FetchDone(w) PROVE Charges(w)
  <2>1. /\ current' = [current EXCEPT !.attempts = @ + 1]
        /\ lease' = [lease EXCEPT ![w] = [value |-> current.value, gen |-> current.gen]]
        /\ pc[w] \in {"get", "post"} /\ pc' = [pc EXCEPT ![w] = "pace"]
        /\ current # NoCredential
    BY <1>0, <1>3 DEF Reserve, FetchDone, Grant, Goto, Usable, Locking, NoCredential
  <2>2. /\ current'.attempts = current.attempts + 1
        /\ current'.gen = current.gen /\ current'.value = current.value
        /\ current.value # NoValue
    BY <1>0, <2>1, CredentialsAssumption DEF CacheTyped, NoCredential
  <2>3. w \notin Charged \cup Gone /\ Gone' = Gone
    BY <1>0, <1>b, <2>1 DEF TasksTyped
  <2>4. lease'[w].gen = current'.gen /\ lease'[w].value = current'.value
        /\ lease'[w] # NoLease
    BY <1>0, <2>1, <2>2 DEF CacheTyped, NoLease
  <2>5. \A u \in Workers \ {w} : lease'[u] = lease[u]
    BY <1>0, <2>1 DEF CacheTyped
  <2>6. Charged' = Charged \cup {w}
    BY <2>2, <2>4, <2>5
  <2> QED
    BY <2>2, <2>3, <2>6 DEF Charges
<1>4. ASSUME NEW w \in Workers, BeginFetch(w) PROVE Empties
  BY <1>a, <1>4 DEF Empties, BeginFetch, NoCredential
<1>5. ASSUME NEW w \in Workers, Fetched(w) PROVE Empties
  <2>1. PICK v \in Values : Store(v)
    BY <1>5 DEF Fetched
  <2>2. current'.gen = nextGen + 1 /\ current'.attempts = 0 /\ lease' = lease
    BY <1>5, <2>1 DEF Store, Fetched
  <2>3. \A u \in Workers : lease[u].gen # nextGen + 1
    BY <1>0 DEF Leases, CacheTyped, NoLease, Gens
  <2> QED
    BY <2>2, <2>3 DEF Empties
<1>6. ASSUME NEW w \in Workers, lease' = [lease EXCEPT ![w] = NoLease], Release(w),
             Gone \subseteq Gone'
      PROVE  Refunds(w) \/ Keeps
  BY <1>0, <1>6 DEF Refunds, Keeps, Release, CacheTyped, NoCredential
<1>7. ASSUME NEW w \in Workers, lease' = [lease EXCEPT ![w] = NoLease], UNCHANGED current,
             Gone \subseteq Gone', parksOnly' /\ w \in Charged => w \in Gone'
      PROVE  Leaves(w)
  BY <1>0, <1>7 DEF Leaves, CacheTyped
<1>8. ASSUME NEW w \in Workers, QuitAtPace(w) PROVE Refunds(w) \/ Keeps
  BY <1>0, <1>6, <1>8 DEF QuitAtPace, TasksTyped
<1>9. ASSUME NEW w \in Workers, RecordAllocation(w) PROVE Keeps
  <2>1. /\ current'.attempts = current.attempts
        /\ current'.gen = current.gen /\ current'.value = current.value
    BY <1>0, <1>9 DEF RecordAllocation, CacheTyped, NoCredential
  <2> QED
    BY <1>0, <1>9, <2>1 DEF Keeps, RecordAllocation, Goto, TasksTyped
<1>10. ASSUME NEW w \in Workers, ReleaseUnstarted(w) PROVE Refunds(w) \/ Keeps
  <2>1. Gone \subseteq Gone'
    BY <1>0, <1>10 DEF ReleaseUnstarted, Goto, TasksTyped
  <2>2. CASE started[w]
    BY <1>10, <2>1, <2>2 DEF ReleaseUnstarted, Keeps
  <2>3. CASE ~started[w]
    BY <1>6, <1>10, <2>1, <2>3 DEF ReleaseUnstarted
  <2> QED
    BY <2>2, <2>3
<1>11. ASSUME NEW w \in Workers, QuitAfterSession(w) PROVE Leaves(w)
  BY <1>0, <1>7, <1>11 DEF QuitAfterSession, Goto, Forget, cache, TasksTyped
<1>12. ASSUME NEW w \in Workers, Verdict(w)
       PROVE  Refunds(w) \/ Keeps \/ Empties \/ Leaves(w)
  <2>1. /\ lease' = [lease EXCEPT ![w] = NoLease]
        /\ Gone \subseteq Gone'
        /\ pc[w] = "verdict"
    BY <1>0, <1>12 DEF Verdict, Forget, Goto, TasksTyped
  <2>2. parksOnly => result[w] = "park" /\ started[w]
    BY <1>0, <2>1 DEF Parked, Ended
  <2>3. CASE VerdictPark(w) /\ UNCHANGED history
    <3>1. CASE started[w]
      BY <1>6, <2>1, <2>3, <3>1 DEF VerdictPark
    <3>2. CASE ~started[w]
      BY <1>7, <2>1, <2>2, <2>3, <3>2 DEF VerdictPark, history
    <3> QED
      BY <3>1, <3>2
  <2>4. CASE VerdictKeep(w) /\ UNCHANGED history
    BY <1>7, <2>1, <2>2, <2>4 DEF VerdictKeep, cache, history
  <2>5. ASSUME current' = NoCredential PROVE Empties
    BY <1>0, <1>a, <2>1, <2>5 DEF Empties, NoCredential, CacheTyped
  <2>6. CASE VerdictInvalidate(w) /\ UNCHANGED history
    BY <1>7, <2>1, <2>2, <2>5, <2>6 DEF VerdictInvalidate, history
  <2>7. CASE VerdictQuota(w)
    BY <1>7, <2>1, <2>2, <2>5, <2>7 DEF VerdictQuota
  <2>8. CASE VerdictMismatch(w) /\ UNCHANGED history
    <3>1. ~parksOnly'
      BY <2>2, <2>8 DEF VerdictMismatch, history
    <3>2. CASE current' = [current EXCEPT !.mismatches = 1]
      <4>1. /\ current'.attempts = current.attempts
            /\ current'.gen = current.gen /\ current'.value = current.value
        BY <1>0, <3>2 DEF CacheTyped, NoCredential
      <4> QED
        BY <1>0, <2>1, <3>1, <4>1 DEF Leaves, CacheTyped
    <3> QED
      BY <1>7, <2>1, <2>5, <2>8, <3>1, <3>2 DEF VerdictMismatch
  <2> QED
    BY <1>12, <2>3, <2>4, <2>6, <2>7, <2>8 DEF Verdict
<1> QED
  BY <1>1, <1>2, <1>3, <1>4, <1>5, <1>8, <1>9, <1>10, <1>11, <1>12, StepCases

(* Charged leases never outnumber attempts, and while sessions only park   *)
(* attempts counts no more than leases and workers that have returned.     *)
LEMMA CountedStep ==
  ASSUME IInv, [Next]_vars
  PROVE  Counted' /\ (parksOnly /\ parksOnly' => Balanced')
<1> DEFINE B == Charged \cup Gone
<1>1. /\ Charged \in SUBSET Workers /\ Gone \in SUBSET Workers
      /\ Charged' \in SUBSET Workers /\ Gone' \in SUBSET Workers
  BY DEF Charged, Gone
<1>2. /\ IsFiniteSet(Charged) /\ IsFiniteSet(B) /\ IsFiniteSet(Charged') /\ IsFiniteSet(B')
      /\ Cardinality(Charged) \in Nat /\ Cardinality(B) \in Nat /\ Cardinality(B') \in Nat
      /\ Cardinality(Charged') \in Nat
  <2>1. \A S \in SUBSET Workers : IsFiniteSet(S) /\ Cardinality(S) \in Nat
    BY FS_Subset, FS_CardinalityType, CredentialsAssumption
  <2> QED
    BY <1>1, <2>1
<1>3. current.attempts \in Nat /\ Cardinality(Charged) <= current.attempts
  BY TypeParts, CredentialsAssumption DEF IInv, CacheTyped, NoCredential, Counted
<1>4. parksOnly => current.attempts <= Cardinality(B)
  BY DEF IInv, Balanced
<1>5. Charged \cap Gone = {}
  BY DEF IInv, Leases, Charged, Gone, Leased, Fetching
<1>6. CASE Keeps
  <2>1. B \subseteq B'
    BY <1>6 DEF Keeps
  <2> QED
    BY <1>2, <1>3, <1>4, <1>6, <2>1, FS_Subset DEF Keeps, Counted, Balanced
<1>7. CASE Empties
  BY <1>2, <1>7, FS_EmptySet DEF Empties, Counted, Balanced
<1>8. ASSUME NEW w \in Workers, Charges(w) PROVE Counted' /\ (parksOnly => Balanced')
  <2>1. w \notin Charged /\ w \notin B /\ Charged' = Charged \cup {w} /\ B' = B \cup {w}
        /\ current'.attempts = current.attempts + 1
    BY <1>8 DEF Charges
  <2>2. Cardinality(Charged') = Cardinality(Charged) + 1 /\ Cardinality(B') = Cardinality(B) + 1
    BY <1>2, <2>1, FS_AddElement
  <2> QED
    BY <1>2, <1>3, <1>4, <2>1, <2>2 DEF Counted, Balanced
<1>9. ASSUME NEW w \in Workers, Refunds(w) PROVE Counted' /\ (parksOnly => Balanced')
  <2>1. w \in Charged /\ Charged' = Charged \ {w} /\ Gone \subseteq Gone'
        /\ current'.attempts = IF current.attempts = 0 THEN 0 ELSE current.attempts - 1
    BY <1>9 DEF Refunds
  <2>2. Cardinality(Charged') = Cardinality(Charged) - 1
    BY <1>2, <2>1, FS_RemoveElement
  <2>3. Cardinality(B \ {w}) = Cardinality(B) - 1 /\ IsFiniteSet(B \ {w})
    BY <1>2, <2>1, FS_RemoveElement
  <2>4. B \ {w} \subseteq B'
    BY <2>1
  <2>5. Cardinality(B) - 1 <= Cardinality(B')
    BY <1>2, <2>3, <2>4, FS_Subset
  <2> QED
    BY <1>2, <1>3, <1>4, <2>1, <2>2, <2>5 DEF Counted, Balanced
<1>10. ASSUME NEW w \in Workers, Leaves(w)
       PROVE  Counted' /\ (parksOnly /\ parksOnly' => Balanced')
  <2>1. Charged' \subseteq Charged /\ current'.attempts = current.attempts
    BY <1>10 DEF Leaves
  <2>2. Cardinality(Charged') <= Cardinality(Charged)
    BY <1>2, <2>1, FS_Subset
  <2>3. ASSUME parksOnly' PROVE Cardinality(B) <= Cardinality(B')
    <3>1. B \subseteq B'
      BY <1>10, <2>3 DEF Leaves
    <3> QED
      BY <1>2, <3>1, FS_Subset
  <2> QED
    BY <1>2, <1>3, <1>4, <2>1, <2>2, <2>3 DEF Counted, Balanced
<1> QED
  BY <1>6, <1>7, <1>8, <1>9, <1>10, Accounting

(* Only a successful fetch fills an empty cache. *)
LEMMA EmptyStays ==
  ASSUME IInv, [Next]_vars, current = NoCredential, current' # NoCredential
  PROVE  \E w \in Workers : Fetched(w)
<1> USE DEF Leased, NoCredential
<1>0. CacheTyped /\ Locking
  BY TypeParts DEF IInv
<1>a. \A w \in Workers : ~Leased(w)
  BY <1>0, CredentialsAssumption DEF CacheTyped, NoLease, Gens
<1>1. ASSUME NEW w \in Workers, Moves(w) \/ BeginFetch(w) \/ QuitAfterSession(w) PROVE FALSE
  BY <1>1 DEF Moves, BeginFetch, QuitAfterSession, cache
<1>2. ASSUME NEW w \in Workers, Reserve(w) \/ FetchDone(w) PROVE FALSE
  BY <1>0, <1>2 DEF Reserve, Usable, FetchDone, Goto, Locking
<1>3. ASSUME NEW w \in Workers, QuitAtPace(w) \/ RecordAllocation(w) \/ ReleaseUnstarted(w)
      PROVE FALSE
  BY <1>a, <1>3 DEF QuitAtPace, RecordAllocation, ReleaseUnstarted, Release
<1>4. ASSUME NEW w \in Workers, Verdict(w) PROVE FALSE
  BY <1>a, <1>4 DEF Verdict, VerdictPark, VerdictKeep, VerdictInvalidate, VerdictQuota,
     VerdictMismatch, Rotates, Release, cache
<1> QED
  BY <1>1, <1>2, <1>3, <1>4, StepCases

(* rotate_after_quota empties the cache; only other credentials fill it.   *)
LEMMA BlockedStep ==
  ASSUME IInv, [Next]_vars
  PROVE  BlockedIsEmpty' /\ (blocked # NoValue => current'.value # blocked)
<1>0. CacheTyped /\ BlockedIsEmpty
  BY TypeParts DEF IInv
<1>1. ASSUME NEW w \in Workers, Fetched(w)
      PROVE  blocked' = NoValue /\ current'.value # blocked
  BY <1>1 DEF Fetched, Store
<1>2. UNCHANGED blocked \/ current' = NoCredential \/ \E w \in Workers : Fetched(w)
  <2>1. ASSUME Hold \/ Stop \/ UNCHANGED vars PROVE UNCHANGED blocked
    BY <2>1 DEF Hold, Stop, vars, cache
  <2>2. ASSUME NEW w \in Workers,
               Enter(w) \/ QuitAtGate(w) \/ QuitAtGet(w) \/ Reserve(w) \/ BeginFetch(w)
                 \/ FetchCancelled(w) \/ FetchDone(w) \/ FetchedBlocked(w)
                 \/ FetchCallGone(w) \/ FetchFails(w) \/ BackoffDone(w)
        PROVE UNCHANGED blocked
    BY <2>2 DEF Enter, QuitAtGate, QuitAtGet, Quit, Reserve, BeginFetch, FetchCancelled,
       FetchDone, FetchedBlocked, FetchCallGone, FetchFails, BackoffDone, cache
  <2>3. ASSUME NEW w \in Workers, RunSession(w) PROVE UNCHANGED blocked
    BY <2>3 DEF RunSession, QuitAtPace, StartSession, AllocationStarted, Allocated,
       RecordAllocation, Handshake, DialFails, ChannelFails, LiveEnds, SessionCancelled,
       Closed, Ends, cache
  <2>4. ASSUME NEW w \in Workers, AfterSession(w)
        PROVE  UNCHANGED blocked \/ current' = NoCredential
    BY <2>4 DEF AfterSession, ReleaseUnstarted, DropGuard, CheckOutage, ForgetConfig,
       QuitAfterSession, Verdict, VerdictPark, VerdictKeep, VerdictInvalidate, VerdictQuota,
       VerdictMismatch, cache
  <2> QED
    BY <2>1, <2>2, <2>3, <2>4 DEF Next, Worker, GetLease
<1>3. current = NoCredential => current' = NoCredential \/ \E w \in Workers : Fetched(w)
  BY EmptyStays
<1> QED
  BY <1>0, <1>1, <1>2, <1>3 DEF BlockedIsEmpty, NoCredential

(* A generation that has been rotated is never cached again. *)
LEMMA RotatedStep ==
  ASSUME IInv, [Next]_vars
  PROVE  Rotated'
<1> USE DEF Rotated
<1>0. CacheTyped /\ TasksTyped /\ Leases /\ Locking /\ Rotated
  BY TypeParts DEF IInv
<1>1. ASSUME UNCHANGED <<rotations, nextGen>>, current'.gen \in {current.gen, 0} PROVE Rotated'
  BY <1>0, <1>1 DEF Gens
<1>2. ASSUME NEW w \in Workers, Fetched(w) PROVE Rotated'
  <2>1. nextGen' = nextGen + 1 /\ current'.gen = nextGen + 1 /\ rotations' = rotations
    BY <1>2 DEF Fetched, Store, history
  <2> QED
    BY <1>0, <2>1 DEF Gens, CacheTyped
<1>3. ASSUME NEW w \in Workers, VerdictQuota(w) PROVE Rotated'
  <2>1. nextGen' = nextGen
    BY <1>3 DEF VerdictQuota
  <2>2. CASE Rotates(w)
    <3>1. current.gen \in Gens /\ lease[w].gen = current.gen /\ current.gen <= nextGen
      BY <1>0, <2>2 DEF Rotates, Leased, CacheTyped, Leases, NoLease
    <3>2. rotations' = [rotations EXCEPT ![current.gen] = @ + 1] /\ current'.gen = 0
      BY <1>3, <2>2, <3>1 DEF VerdictQuota, NoCredential
    <3> QED
      BY <1>0, <2>1, <3>1, <3>2 DEF Gens, CacheTyped
  <2>3. CASE ~Rotates(w)
    BY <1>1, <1>3, <2>1, <2>3 DEF VerdictQuota
  <2> QED
    BY <2>2, <2>3
<1>4. ASSUME NEW w \in Workers, Release(w) PROVE current'.gen = current.gen
  BY <1>0, <1>4 DEF Release, CacheTyped, NoCredential
<1>5. ASSUME Hold \/ Stop \/ UNCHANGED vars PROVE Rotated'
  BY <1>1, <1>5 DEF Hold, Stop, vars, cache, history
<1>6. ASSUME NEW w \in Workers, GetLease(w), ~Fetched(w) PROVE Rotated'
  <2>1. CASE Reserve(w) \/ FetchDone(w)
    <3>1. current'.gen = current.gen
      BY <1>0, <2>1 DEF Reserve, FetchDone, Grant, CacheTyped, NoCredential
    <3> QED
      BY <1>1, <2>1, <3>1 DEF Reserve, FetchDone, history
  <2>2. CASE BeginFetch(w)
    BY <1>1, <2>2 DEF BeginFetch, NoCredential, history
  <2>3. CASE Enter(w) \/ QuitAtGate(w) \/ QuitAtGet(w) \/ FetchCancelled(w)
             \/ FetchedBlocked(w) \/ FetchCallGone(w) \/ FetchFails(w) \/ BackoffDone(w)
    BY <1>1, <2>3 DEF Enter, QuitAtGate, QuitAtGet, Quit, FetchCancelled, FetchedBlocked,
       FetchCallGone, FetchFails, BackoffDone, cache, history
  <2> QED
    BY <1>6, <2>1, <2>2, <2>3 DEF GetLease
<1>7. ASSUME NEW w \in Workers, RunSession(w) PROVE Rotated'
  <2>1. CASE QuitAtPace(w)
    BY <1>1, <1>4, <2>1 DEF QuitAtPace, history
  <2>2. CASE RecordAllocation(w)
    <3>1. current'.gen = current.gen
      BY <1>0, <2>2 DEF RecordAllocation, CacheTyped, NoCredential
    <3> QED
      BY <1>1, <2>2, <3>1 DEF RecordAllocation, history
  <2>3. CASE \/ StartSession(w) \/ AllocationStarted(w) \/ Allocated(w) \/ Handshake(w)
             \/ DialFails(w) \/ ChannelFails(w) \/ LiveEnds(w) \/ SessionCancelled(w)
             \/ Closed(w)
    BY <1>1, <2>3 DEF StartSession, AllocationStarted, Allocated, Handshake, DialFails,
       ChannelFails, LiveEnds, SessionCancelled, Closed, Ends, cache, history
  <2> QED
    BY <1>7, <2>1, <2>2, <2>3 DEF RunSession
<1>8. ASSUME NEW w \in Workers, AfterSession(w), ~VerdictQuota(w) PROVE Rotated'
  <2>1. CASE ReleaseUnstarted(w)
    BY <1>1, <1>4, <2>1 DEF ReleaseUnstarted, history
  <2>2. CASE DropGuard(w) \/ CheckOutage(w) \/ ForgetConfig(w) \/ QuitAfterSession(w)
    BY <1>1, <2>2 DEF DropGuard, CheckOutage, ForgetConfig, QuitAfterSession, cache, history
  <2>3. CASE Verdict(w)
    <3>1. current'.gen \in {current.gen, 0} /\ nextGen' = nextGen /\ rotations' = rotations
      <4>1. CASE VerdictPark(w) /\ UNCHANGED history
        BY <1>4, <4>1 DEF VerdictPark, history
      <4>2. CASE VerdictKeep(w) /\ UNCHANGED history
        BY <4>2 DEF VerdictKeep, cache, history
      <4>3. CASE VerdictInvalidate(w) /\ UNCHANGED history
        BY <4>3 DEF VerdictInvalidate, NoCredential, history
      <4>4. CASE VerdictMismatch(w) /\ UNCHANGED history
        BY <1>0, <4>4 DEF VerdictMismatch, NoCredential, CacheTyped, history
      <4> QED
        BY <1>8, <2>3, <4>1, <4>2, <4>3, <4>4 DEF Verdict
    <3> QED
      BY <1>1, <3>1
  <2> QED
    BY <1>8, <2>1, <2>2, <2>3 DEF AfterSession
<1> QED
  BY <1>2, <1>3, <1>5, <1>6, <1>7, <1>8 DEF Next, Worker

(* Whoever holds the flight of the configuration request clears it. *)
LEMMA FlightStep ==
  ASSUME IInv, [Next]_vars
  PROVE  Flight'
<1> USE DEF Flight, FlightHasOwner, Goto, config, FlagsTyped, TasksTyped, Steps
<1>0. TasksTyped /\ FlagsTyped /\ Flight
  BY TypeParts DEF IInv
<1>1. ASSUME Hold \/ Stop \/ UNCHANGED vars PROVE Flight'
  BY <1>0, <1>1 DEF Hold, Stop, vars
<1>2. ASSUME NEW w \in Workers, GetLease(w) PROVE Flight'
  BY <1>0, <1>2 DEF GetLease, Enter, QuitAtGate, QuitAtGet, Quit, Reserve, BeginFetch,
     FetchCancelled, Fetched, FetchDone, FetchedBlocked, FetchCallGone, FetchFails,
     BackoffDone
<1>3. ASSUME NEW w \in Workers,
             QuitAtPace(w) \/ AllocationStarted(w) \/ Allocated(w) \/ RecordAllocation(w)
               \/ DialFails(w) \/ LiveEnds(w) \/ SessionCancelled(w) \/ Closed(w)
      PROVE Flight'
  BY <1>0, <1>3 DEF QuitAtPace, AllocationStarted, Allocated, RecordAllocation, DialFails,
     LiveEnds, SessionCancelled, Closed, Ends
<1>4. ASSUME NEW w \in Workers, StartSession(w) PROVE Flight'
  BY <1>0, <1>4 DEF StartSession, Acquires
<1>5. ASSUME NEW w \in Workers, Handshake(w) \/ ChannelFails(w) PROVE Flight'
  BY <1>0, <1>5 DEF Handshake, ChannelFails, Complete, Ends
<1>6. ASSUME NEW w \in Workers, DropGuard(w) PROVE Flight'
  BY <1>0, <1>6 DEF DropGuard
<1>7. ASSUME NEW w \in Workers,
             ReleaseUnstarted(w) \/ CheckOutage(w) \/ ForgetConfig(w) \/ QuitAfterSession(w)
               \/ Verdict(w)
      PROVE Flight'
  BY <1>0, <1>7 DEF ReleaseUnstarted, CheckOutage, ForgetConfig, QuitAfterSession, Verdict
<1> QED
  BY <1>1, <1>2, <1>3, <1>4, <1>5, <1>6, <1>7 DEF Next, Worker, RunSession, AfterSession

(* A session that was parked had been started; parksOnly is never regained. *)
LEMMA ParkedStep ==
  ASSUME IInv, [Next]_vars
  PROVE  Parked' /\ (parksOnly' => parksOnly)
<1> USE DEF Parked, Ended, Goto, session, history, FlagsTyped, TasksTyped, Steps
<1>0. TasksTyped /\ FlagsTyped /\ Parked
  BY TypeParts DEF IInv
<1>1. ASSUME Hold \/ Stop \/ UNCHANGED vars PROVE Parked' /\ UNCHANGED parksOnly
  BY <1>0, <1>1 DEF Hold, Stop, vars
<1>2. ASSUME NEW w \in Workers, GetLease(w) PROVE Parked' /\ UNCHANGED parksOnly
  BY <1>0, <1>2 DEF GetLease, Enter, QuitAtGate, QuitAtGet, Quit, Reserve, BeginFetch,
     FetchCancelled, Fetched, FetchDone, FetchedBlocked, FetchCallGone, FetchFails,
     BackoffDone
<1>3. ASSUME NEW w \in Workers,
             QuitAtPace(w) \/ StartSession(w) \/ AllocationStarted(w) \/ Allocated(w)
               \/ RecordAllocation(w)
      PROVE Parked' /\ UNCHANGED parksOnly
  BY <1>0, <1>3 DEF QuitAtPace, StartSession, AllocationStarted, Allocated, RecordAllocation
<1>4. ASSUME NEW w \in Workers, Handshake(w) \/ Closed(w)
      PROVE Parked' /\ UNCHANGED parksOnly
  BY <1>0, <1>4 DEF Handshake, Closed
<1>5. ASSUME NEW w \in Workers, DialFails(w) \/ ChannelFails(w) \/ SessionCancelled(w)
      PROVE Parked' /\ ~parksOnly'
  <2>1. ~parksOnly'
    BY <1>5 DEF DialFails, ChannelFails, SessionCancelled, Ends
  <2>2. /\ UNCHANGED started
        /\ pc' \in {[pc EXCEPT ![w] = "unstarted"], [pc EXCEPT ![w] = "closing"]}
    BY <1>5 DEF DialFails, ChannelFails, SessionCancelled, Ends
  <2> QED
    BY <1>0, <2>1, <2>2
<1>6. ASSUME NEW w \in Workers, LiveEnds(w) PROVE Parked' /\ (parksOnly' => parksOnly)
  <2>1. PICK r \in Results : Ends(w, r)
    BY <1>6 DEF LiveEnds, Results
  <2> QED
    BY <1>0, <1>6, <2>1 DEF LiveEnds, Ends
<1>7. ASSUME NEW w \in Workers,
             ReleaseUnstarted(w) \/ DropGuard(w) \/ CheckOutage(w) \/ ForgetConfig(w)
      PROVE Parked' /\ UNCHANGED parksOnly
  BY <1>0, <1>7 DEF ReleaseUnstarted, DropGuard, CheckOutage, ForgetConfig
<1>8. ASSUME NEW w \in Workers, QuitAfterSession(w) \/ Verdict(w)
      PROVE Parked' /\ UNCHANGED parksOnly
  <2>1. /\ started' = [started EXCEPT ![w] = FALSE]
        /\ result' = [result EXCEPT ![w] = "none"]
        /\ pc' \in {[pc EXCEPT ![w] = "over"], [pc EXCEPT ![w] = "gate"]}
        /\ UNCHANGED parksOnly
    BY <1>8 DEF QuitAfterSession, Verdict, Forget, VerdictQuota
  <2> QED
    BY <1>0, <2>1
<1> QED
  BY <1>1, <1>2, <1>3, <1>4, <1>5, <1>6, <1>7, <1>8
     DEF Next, Worker, RunSession, AfterSession

(* Without a verdict but IDLE_PARK the cache is emptied only when it is    *)
(* used up, which a cohort that fits its credential cannot do.             *)
LEMMA OneCredentialStep ==
  ASSUME IInv, [Next]_vars
  PROVE  OneCredential'
<1> SUFFICES ASSUME parksOnly', Cardinality(Workers) <= PerCredential
             PROVE  (nextGen <= 1 /\ (current = NoCredential <=> nextGen = 0))'
  BY DEF OneCredential
<1>0. CacheTyped /\ Locking /\ Leases /\ Parked /\ Counted /\ Balanced
  BY TypeParts DEF IInv
<1>1. parksOnly /\ nextGen <= 1 /\ (current = NoCredential <=> nextGen = 0)
  BY ParkedStep DEF IInv, OneCredential
<1>2. ASSUME NEW w \in Workers, Fetched(w)
      PROVE  (nextGen <= 1 /\ (current = NoCredential <=> nextGen = 0))'
  <2>1. current = NoCredential
    BY <1>0, <1>2 DEF Fetched, Goto, Locking
  <2>2. nextGen = 0
    BY <1>1, <2>1
  <2> QED
    BY <1>2, <2>2 DEF Fetched, Store, NoCredential
<1>3. ASSUME NEW w \in Workers, BeginFetch(w) PROVE current = NoCredential
  <2> SUFFICES ASSUME current # NoCredential PROVE FALSE
    OBVIOUS
  <2>1. current.attempts = PerCredential
    BY <1>0, <1>3, CredentialsAssumption DEF BeginFetch, Usable, CacheTyped, NoCredential
  <2>2. Charged \cup Gone \subseteq Workers \ {w}
    BY <1>0, <1>3 DEF Charged, Gone, Leased, Leases, BeginFetch, Goto
  <2>3. IsFiniteSet(Workers \ {w}) /\ Cardinality(Workers \ {w}) = Cardinality(Workers) - 1
    BY FS_RemoveElement, CredentialsAssumption
  <2>4. Cardinality(Charged \cup Gone) <= Cardinality(Workers \ {w})
    BY <2>2, <2>3, FS_Subset
  <2>5. current.attempts <= Cardinality(Charged \cup Gone)
    BY <1>0, <1>1 DEF Balanced
  <2>6. Cardinality(Workers) \in Nat /\ Cardinality(Charged \cup Gone) \in Nat
    <3>1. IsFiniteSet(Charged \cup Gone)
      BY <2>2, <2>3, FS_Subset
    <3> QED
      BY <3>1, FS_CardinalityType, CredentialsAssumption
  <2> QED
    BY <2>1, <2>3, <2>4, <2>5, <2>6, CredentialsAssumption
<1>4. ASSUME \A w \in Workers : ~Fetched(w)
      PROVE  nextGen' = nextGen /\ (current = NoCredential <=> current' = NoCredential)
  <2>1. nextGen' = nextGen
    <3>1. ASSUME NEW w \in Workers,
                 Moves(w) \/ Reserve(w) \/ BeginFetch(w) \/ FetchDone(w) \/ QuitAtPace(w)
                   \/ RecordAllocation(w) \/ ReleaseUnstarted(w) \/ QuitAfterSession(w)
          PROVE nextGen' = nextGen
      BY <3>1 DEF Moves, Reserve, BeginFetch, FetchDone, QuitAtPace, RecordAllocation,
         ReleaseUnstarted, QuitAfterSession, cache
    <3>2. ASSUME NEW w \in Workers, Verdict(w) PROVE nextGen' = nextGen
      BY <3>2 DEF Verdict, VerdictPark, VerdictKeep, VerdictInvalidate, VerdictQuota,
         VerdictMismatch, cache
    <3> QED
      BY <1>4, <3>1, <3>2, StepCases
  <2>2. current = NoCredential => current' = NoCredential
    BY <1>4, EmptyStays
  <2>3. ASSUME current # NoCredential PROVE current' # NoCredential
    <3>1. current.value \in Values /\ NoValue \notin Values
      BY <1>0, <2>3, CredentialsAssumption DEF CacheTyped
    <3>2. ASSUME NEW w \in Workers, Release(w) PROVE current'.value = current.value
      BY <1>0, <3>2 DEF Release, CacheTyped, NoCredential
    <3>3. ASSUME NEW w \in Workers, Moves(w) \/ QuitAfterSession(w) PROVE current' = current
      BY <3>3 DEF Moves, QuitAfterSession, cache
    <3>4. ASSUME NEW w \in Workers,
                 Reserve(w) \/ FetchDone(w) \/ QuitAtPace(w) \/ RecordAllocation(w)
                   \/ ReleaseUnstarted(w)
          PROVE current'.value = current.value
      BY <1>0, <3>2, <3>4 DEF Reserve, FetchDone, Grant, QuitAtPace, RecordAllocation,
         ReleaseUnstarted, CacheTyped, NoCredential
    <3>5. ASSUME NEW w \in Workers, Verdict(w) PROVE current'.value = current.value
      <4>1. result[w] = "park"
        BY <1>0, <1>1, <3>5 DEF Parked, Ended, Verdict, Goto
      <4> QED
        BY <3>2, <3>5, <4>1 DEF Verdict, VerdictPark, VerdictKeep, VerdictInvalidate,
           VerdictQuota, VerdictMismatch
    <3> QED
      BY <1>3, <1>4, <2>3, <3>1, <3>3, <3>4, <3>5, StepCases DEF NoCredential
  <2> QED
    BY <2>1, <2>2, <2>3
<1> QED
  BY <1>1, <1>2, <1>4

-----------------------------------------------------------------------------
(* IInv is an invariant of the specification. *)
THEOREM Invariance == Spec => []IInv
<1>1. ASSUME IInv, [Next]_vars PROVE IInv'
  <2>1. TypeOK'
    BY <1>1, CacheTypedStep, TasksTypedStep, FlagsTypedStep
       DEF TypeOK, CacheTyped, TasksTyped, FlagsTyped
  <2>2. Balanced'
    BY <1>1, CountedStep, ParkedStep DEF Balanced
  <2> QED
    BY <1>1, <2>1, <2>2, LockingStep, LeasesStep, CountedStep, RotatedStep, BlockedStep,
       FlightStep, ParkedStep, OneCredentialStep DEF IInv
<1> QED
  BY InitInv, <1>1, PTL DEF Spec

(* Type correctness: attempts never exceeds WORKERS_PER_CREDENTIAL. *)
THEOREM TypeCorrect == Spec => []TypeOK
<1>1. IInv => TypeOK
  BY DEF IInv
<1> QED
  BY Invariance, <1>1, PTL

(* reserve, release: every session that may hold an allocation on the      *)
(* cached credential is counted against WORKERS_PER_CREDENTIAL.            *)
THEOREM Counts == Spec => []AllocationsAreCounted
<1>1. ASSUME IInv PROVE AllocationsAreCounted
  <2>1. Holders \subseteq Charged /\ IsFiniteSet(Charged)
    BY FS_Subset, CredentialsAssumption DEF Holders, Charged
  <2>2. Cardinality(Holders) <= Cardinality(Charged)
    BY <2>1, FS_Subset
  <2>3. Cardinality(Holders) \in Nat /\ Cardinality(Charged) \in Nat
    BY <2>1, FS_Subset, FS_CardinalityType
  <2>4. current.attempts \in Nat /\ Cardinality(Charged) <= current.attempts
    BY <1>1, TypeParts, CredentialsAssumption DEF IInv, CacheTyped, NoCredential, Counted
  <2> QED
    BY <2>2, <2>3, <2>4 DEF AllocationsAreCounted
<1> QED
  BY Invariance, <1>1, PTL

(* rotate_after_quota, store: rejected credentials do not come back before *)
(* VK has returned others.                                                 *)
THEOREM RejectedStaysOut == Spec => RejectedIsNotServed
<1>1. IInv /\ [Next]_vars => [blocked # NoValue => current'.value # blocked]_vars
  BY BlockedStep
<1> QED
  BY Invariance, <1>1, PTL DEF Spec, RejectedIsNotServed

(* rotate_after_quota: a credential is rotated once, however many workers  *)
(* report that its quota is exhausted.                                     *)
THEOREM RotatesOnce == Spec => []OneRotationPerGeneration
<1>1. IInv => OneRotationPerGeneration
  BY TypeParts DEF IInv, Rotated, OneRotationPerGeneration, CacheTyped
<1> QED
  BY Invariance, <1>1, PTL

(* IDLE_PARK: parking and unparking never costs a cohort that fits its     *)
(* credential a new one.                                                   *)
THEOREM ParkingIsFree == Spec => []ParkingKeepsCredential
<1>1. IInv => ParkingKeepsCredential
  BY DEF IInv, OneCredential, ParkingKeepsCredential
<1> QED
  BY Invariance, <1>1, PTL

(* ConfigFlightGuard: the flight of the configuration request always has   *)
(* a worker that will end it.                                              *)
THEOREM FlightIsOwned == Spec => []FlightHasOwner
<1>1. IInv => FlightHasOwner
  BY DEF IInv, Flight
<1> QED
  BY Invariance, <1>1, PTL
=============================================================================
