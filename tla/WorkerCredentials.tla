-------------------------- MODULE WorkerCredentials --------------------------
(***************************************************************************)
(* The workers of one credential cohort (worker.rs): CredentialCache behind *)
(* the mutex of GroupCredentials, worker_loop around run_session, the       *)
(* availability of the call hash and the flight of the configuration        *)
(* request (ConfigFlightGuard, ConfigDeliveryState).                        *)
(*                                                                         *)
(* get() keeps the mutex while it fetches credentials; every other cache   *)
(* operation takes it for one step.  The session is seen from outside: the *)
(* signals it sends and the result it returns (PathSession has the inside). *)
(***************************************************************************)
EXTENDS Naturals, FiniteSets

CONSTANTS
  Workers,        \* the workers that share the credentials
  Values,         \* credentials VK may return (username, password, URLs)
  NoValue,        \* no credentials
  PerCredential,  \* WORKERS_PER_CREDENTIAL
  Ladder,         \* length of the quota_rotation_delay ladder
  MaxGen,         \* bound: credentials stored
  MaxHolds        \* bound: changes of PauseGate::allows

ASSUME CredentialsAssumption ==
  /\ IsFiniteSet(Workers)
  /\ NoValue \notin Values
  /\ PerCredential \in Nat \ {0}
  /\ Ladder \in Nat \ {0}
  /\ MaxGen \in Nat /\ MaxHolds \in Nat

VARIABLES
  current,      \* CredentialCache.current (value NoValue: None)
  blocked,      \* quota_blocked (NoValue: None)
  nextGen,      \* next_generation
  retries,      \* quota_retries
  holder,       \* worker whose get() keeps the mutex ({}: nobody)
  pc,           \* next step of every worker
  lease,        \* its CredentialLease
  started,      \* allocation_started
  ready,        \* was_ready
  result,       \* what its session returned
  getConf,      \* config_guard.acquired
  sent,         \* config_sent
  inFlight,     \* config_in_flight
  unavailable,  \* HashAvailability
  stopping,     \* context.cancel
  held,         \* workers that PauseGate::allows holds back
  holds,        \* number of changes of held
  rotations,    \* history: generations -> rotations after a quota error
  parksOnly,    \* history: no session has ended but by IDLE_PARK
  movesOnly     \* history: ... but by IDLE_PARK or NET_REBIND

cache == <<current, blocked, nextGen, retries>>
session == <<started, ready, result>>
config == <<getConf, sent, inFlight>>
environment == <<unavailable, stopping, held, holds>>
history == <<rotations, parksOnly, movesOnly>>
vars == <<cache, holder, pc, lease, session, config, environment, history>>

Gens == 1..MaxGen
NoCredential == [value |-> NoValue, gen |-> 0, attempts |-> 0, mismatches |-> 0]
NoLease == [value |-> NoValue, gen |-> 0]
Steps == {"gate", "get", "fetch", "post", "backoff", "pace", "dial", "record", "channel",
          "live", "closing", "unstarted", "guard", "outage", "swap", "verdict", "over"}
Results == {"none", "ok", "park", "rebind", "repair", "auth", "quota", "mismatch", "other"}

TypeOK ==
  /\ current \in [value : Values, gen : Gens, attempts : 0..PerCredential,
                  mismatches : 0..1] \cup {NoCredential}
  /\ blocked \in Values \cup {NoValue}
  /\ nextGen \in 0..MaxGen
  /\ retries \in 0..Ladder
  /\ holder \in SUBSET Workers /\ Cardinality(holder) <= 1
  /\ pc \in [Workers -> Steps]
  /\ lease \in [Workers -> [value : Values, gen : Gens] \cup {NoLease}]
  /\ started \in [Workers -> BOOLEAN]
  /\ ready \in [Workers -> BOOLEAN]
  /\ result \in [Workers -> Results]
  /\ getConf \in [Workers -> BOOLEAN]
  /\ {sent, inFlight, unavailable, stopping, parksOnly, movesOnly} \subseteq BOOLEAN
  /\ held \in SUBSET Workers
  /\ holds \in 0..MaxHolds
  /\ rotations \in [Gens -> Nat]

Init ==
  /\ current = NoCredential /\ blocked = NoValue /\ nextGen = 0 /\ retries = 0
  /\ holder = {}
  /\ pc = [w \in Workers |-> "gate"]
  /\ lease = [w \in Workers |-> NoLease]
  /\ started = [w \in Workers |-> FALSE]
  /\ ready = [w \in Workers |-> FALSE]
  /\ result = [w \in Workers |-> "none"]
  /\ getConf = [w \in Workers |-> FALSE]
  /\ sent = FALSE /\ inFlight = FALSE
  /\ unavailable = FALSE /\ stopping = FALSE /\ held = {} /\ holds = 0
  /\ rotations = [g \in Gens |-> 0]
  /\ parksOnly = TRUE /\ movesOnly = TRUE

Goto(w, from, to) ==
  /\ pc[w] = from
  /\ pc' = [pc EXCEPT ![w] = to]

Unlocked == holder = {}

(* The cached credentials are the ones of w's lease.                       *)
Leased(w) == current.gen = lease[w].gen /\ current.value = lease[w].value /\ lease[w] # NoLease

(* cancellation_token: the child of context.cancel.                        *)
Cancelled == unavailable \/ stopping
Allows(w) == w \notin held

(* One more failed rotation: the delay ladder has Ladder rungs.            *)
NextRung == IF retries < Ladder THEN retries + 1 ELSE Ladder

-----------------------------------------------------------------------------
(* The host pauses and resumes, idle mode parks and unparks; the engine    *)
(* stops.                                                                  *)

Hold ==
  /\ holds < MaxHolds
  /\ \E S \in SUBSET Workers : S # held /\ held' = S
  /\ holds' = holds + 1
  /\ UNCHANGED <<cache, holder, pc, lease, session, config, unavailable, stopping, history>>

Stop ==
  /\ ~stopping
  /\ stopping' = TRUE
  /\ UNCHANGED <<cache, holder, pc, lease, session, config, unavailable, held, holds, history>>

-----------------------------------------------------------------------------
(* worker_loop, up to a lease. *)

Quit(w) ==
  /\ pc' = [pc EXCEPT ![w] = "over"]
  /\ UNCHANGED <<cache, holder, lease, session, config, environment, history>>

(* wait_until_allowed gives up on context.cancel only. *)
Enter(w) ==
  /\ Allows(w)
  /\ Goto(w, "gate", "get")
  /\ UNCHANGED <<cache, holder, lease, session, config, environment, history>>

QuitAtGate(w) ==
  /\ pc[w] = "gate" /\ stopping
  /\ Quit(w)

QuitAtGet(w) ==
  /\ pc[w] = "get" /\ Cancelled
  /\ Quit(w)

(* Mutant: a full credential is handed out once more. *)
Mut_Usable == current.value # NoValue /\ current.attempts <= PerCredential

(* reserve: credentials used by PerCredential allocations are used up. *)
Usable == current.value # NoValue /\ current.attempts < PerCredential

Grant(w, c) ==
  /\ current' = [c EXCEPT !.attempts = @ + 1]
  /\ lease' = [lease EXCEPT ![w] = [value |-> c.value, gen |-> c.gen]]

Reserve(w) ==
  /\ ~unavailable
  /\ Unlocked /\ Usable
  /\ Goto(w, "get", "pace")
  /\ Grant(w, current)
  /\ UNCHANGED <<blocked, nextGen, retries, holder, session, config, environment, history>>

(* reserve drops credentials that are used up; get() keeps the mutex.      *)
BeginFetch(w) ==
  /\ ~unavailable
  /\ Unlocked /\ ~Usable
  /\ Goto(w, "get", "fetch")
  /\ current' = NoCredential
  /\ holder' = {w}
  /\ UNCHANGED <<blocked, nextGen, retries, lease, session, config, environment, history>>

(* Every await of get() ends when a token is cancelled. *)
FetchCancelled(w) ==
  /\ pc[w] \in {"fetch", "post", "backoff"}
  /\ Cancelled
  /\ pc' = [pc EXCEPT ![w] = "get"]
  /\ holder' = {}
  /\ UNCHANGED <<cache, lease, session, config, environment, history>>

(* Mutant: the rejected credentials are stored again. *)
Mut_Store(v) ==
  /\ nextGen < MaxGen
  /\ blocked' = NoValue
  /\ nextGen' = nextGen + 1
  /\ current' = [value |-> v, gen |-> nextGen + 1, attempts |-> 0, mismatches |-> 0]
  /\ UNCHANGED retries

(* store, for other credentials than the rejected ones. *)
Store(v) ==
  /\ v # blocked
  /\ nextGen < MaxGen
  /\ blocked' = NoValue
  /\ nextGen' = nextGen + 1
  /\ current' = [value |-> v, gen |-> nextGen + 1, attempts |-> 0, mismatches |-> 0]
  /\ UNCHANGED retries

Fetched(w) ==
  /\ Goto(w, "fetch", "post")
  /\ \E v \in Values : Store(v)
  /\ UNCHANGED <<holder, lease, session, config, environment, history>>

(* CREDENTIAL_POST_DELAY is over: reserve and unlock. *)
FetchDone(w) ==
  /\ Goto(w, "post", "pace")
  /\ Grant(w, current)
  /\ holder' = {}
  /\ UNCHANGED <<blocked, nextGen, retries, session, config, environment, history>>

(* VK returned the credentials whose quota is exhausted: next_quota_delay, *)
(* and unlock before the delay.                                            *)
FetchedBlocked(w) ==
  /\ blocked # NoValue
  /\ Goto(w, "fetch", "get")
  /\ retries' = NextRung
  /\ holder' = {}
  /\ UNCHANGED <<current, blocked, nextGen, lease, session, config, environment, history>>

(* CallUnavailable: the hash is gone for all its workers. *)
FetchCallGone(w) ==
  /\ Goto(w, "fetch", "get")
  /\ unavailable' = TRUE
  /\ holder' = {}
  /\ UNCHANGED <<cache, lease, session, config, stopping, held, holds, history>>

(* Any other error backs off with the mutex held. *)
FetchFails(w) ==
  /\ Goto(w, "fetch", "backoff")
  /\ UNCHANGED <<cache, holder, lease, session, config, environment, history>>

BackoffDone(w) ==
  /\ Goto(w, "backoff", "get")
  /\ holder' = {}
  /\ UNCHANGED <<cache, lease, session, config, environment, history>>

-----------------------------------------------------------------------------
(* With a lease: start_pacer and the gate once more, then the session. *)

(* Mutant: release trusts the value of the lease alone. *)
Mut_Release(w) ==
  IF current.value = lease[w].value /\ current.value # NoValue
  THEN current' = [current EXCEPT !.attempts = IF @ = 0 THEN 0 ELSE @ - 1]
  ELSE UNCHANGED current

Release(w) ==
  IF Leased(w)
  THEN current' = [current EXCEPT !.attempts = IF @ = 0 THEN 0 ELSE @ - 1]
  ELSE UNCHANGED current

QuitAtPace(w) ==
  /\ pc[w] = "pace" /\ stopping /\ Unlocked
  /\ Release(w)
  /\ pc' = [pc EXCEPT ![w] = "over"]
  /\ lease' = [lease EXCEPT ![w] = NoLease]
  /\ UNCHANGED <<blocked, nextGen, retries, holder, session, config, environment, history>>

(* ConfigFlightGuard::acquire. *)
Acquires == ~sent /\ ~inFlight

StartSession(w) ==
  /\ Allows(w)
  /\ Goto(w, "pace", "dial")
  /\ getConf' = [getConf EXCEPT ![w] = Acquires]
  /\ inFlight' = (inFlight \/ Acquires)
  /\ UNCHANGED <<cache, holder, lease, session, sent, environment, history>>

(* The select sees allocation_started.                                     *)
AllocationStarted(w) ==
  /\ pc[w] = "dial" /\ ~started[w]
  /\ started' = [started EXCEPT ![w] = TRUE]
  /\ UNCHANGED <<cache, holder, pc, lease, ready, result, config, environment, history>>

(* allocation_ready: the select handler waits for the mutex, and run_session *)
(* is not polled meanwhile.                                                *)
Allocated(w) ==
  /\ started[w]
  /\ Goto(w, "dial", "record")
  /\ UNCHANGED <<cache, holder, lease, session, config, environment, history>>

RecordAllocation(w) ==
  /\ Unlocked
  /\ Goto(w, "record", "channel")
  /\ current' = IF Leased(w) THEN [current EXCEPT !.mismatches = 0] ELSE current
  /\ retries' = IF Leased(w) THEN 0 ELSE retries
  /\ UNCHANGED <<blocked, nextGen, holder, lease, session, config, environment, history>>

(* The handshake is over: ConfigDeliveryState::complete of a session that  *)
(* asked for the configuration.                                            *)
Complete(w, delivered) ==
  IF getConf[w]
  THEN /\ sent' = (sent \/ delivered)
       /\ inFlight' = FALSE
       /\ UNCHANGED getConf
  ELSE UNCHANGED config

Handshake(w) ==
  /\ Goto(w, "channel", "live")
  /\ \E delivered \in BOOLEAN : Complete(w, delivered)
  /\ ready' = [ready EXCEPT ![w] = TRUE]
  /\ UNCHANGED <<cache, holder, lease, started, result, environment, history>>

Ends(w, r) ==
  /\ result' = [result EXCEPT ![w] = r]
  /\ parksOnly' = (parksOnly /\ r = "park")
  /\ movesOnly' = (movesOnly /\ r \in {"park", "rebind"})
  /\ UNCHANGED <<cache, holder, lease, started, ready, environment, rotations>>

(* The session fails before or in Allocate; the address may be unusable.   *)
DialFails(w) ==
  /\ Goto(w, "dial", "unstarted")
  /\ \E r \in {"auth", "quota", "mismatch", "rebind", "other"} :
       (started[w] \/ r = "other") /\ Ends(w, r)
  /\ UNCHANGED config

(* ChannelBind or the handshake fails.                                     *)
ChannelFails(w) ==
  /\ Goto(w, "channel", "unstarted")
  /\ \E r \in {"auth", "mismatch", "other"} : Ends(w, r)
  /\ UNCHANGED config \/ Complete(w, FALSE)

(* Only a live session looks at these epochs (PathSession). *)
LiveEnds(w) ==
  /\ Goto(w, "live", "closing")
  /\ \E r \in {"park", "repair", "rebind", "auth", "mismatch", "other"} :
       (r = "park" => ~Allows(w)) /\ Ends(w, r)
  /\ UNCHANGED config

(* The session leaves by its token; run_session returns Ok.                *)
SessionCancelled(w) ==
  /\ Cancelled
  /\ \/ Goto(w, "dial", "unstarted")
     \/ Goto(w, "channel", "unstarted")
     \/ Goto(w, "live", "closing")
  /\ Ends(w, "ok")
  /\ UNCHANGED config

(* deallocate *)
Closed(w) ==
  /\ Goto(w, "closing", "unstarted")
  /\ UNCHANGED <<cache, holder, lease, session, config, environment, history>>

-----------------------------------------------------------------------------
(* worker_loop, after the session. *)

ReleaseUnstarted(w) ==
  /\ Goto(w, "unstarted", "guard")
  /\ IF started[w]
     THEN UNCHANGED <<current, lease>>
     ELSE /\ Unlocked /\ Release(w)
          /\ lease' = [lease EXCEPT ![w] = NoLease]
  /\ UNCHANGED <<blocked, nextGen, retries, holder, session, config, environment, history>>

(* Mutant: only a delivered configuration ends the flight. *)
Mut_DropGuard(w) ==
  /\ Goto(w, "guard", "outage")
  /\ getConf' = [getConf EXCEPT ![w] = FALSE]
  /\ UNCHANGED inFlight
  /\ UNCHANGED <<cache, holder, lease, session, sent, environment, history>>

(* drop(config_guard) *)
DropGuard(w) ==
  /\ Goto(w, "guard", "outage")
  /\ getConf' = [getConf EXCEPT ![w] = FALSE]
  /\ inFlight' = (inFlight /\ ~getConf[w])
  /\ UNCHANGED <<cache, holder, lease, session, sent, environment, history>>

(* should_refresh_configuration_after_full_outage reads the connections... *)
CheckOutage(w) ==
  /\ pc[w] = "outage"
  /\ LET outage == /\ ready[w] /\ result[w] # "ok" /\ ~stopping
                   /\ \A v \in Workers : pc[v] # "live"
     IN pc' = [pc EXCEPT ![w] = IF outage THEN "swap" ELSE "verdict"]
  /\ UNCHANGED <<cache, holder, lease, session, config, environment, history>>

(* ... before config_sent is swapped. *)
ForgetConfig(w) ==
  /\ Goto(w, "swap", "verdict")
  /\ sent' = FALSE
  /\ UNCHANGED <<cache, holder, lease, session, getConf, inFlight, environment, history>>

Forget(w) ==
  /\ started' = [started EXCEPT ![w] = FALSE]
  /\ ready' = [ready EXCEPT ![w] = FALSE]
  /\ result' = [result EXCEPT ![w] = "none"]
  /\ lease' = [lease EXCEPT ![w] = NoLease]

QuitAfterSession(w) ==
  /\ Cancelled
  /\ Goto(w, "verdict", "over")
  /\ Forget(w)
  /\ UNCHANGED <<cache, holder, config, environment, history>>

(* Mutant: a parked worker keeps its slot. *)
Mut_VerdictPark(w) ==
  /\ ~Cancelled /\ result[w] = "park"
  /\ UNCHANGED cache

(* IDLE_PARK hands the slot back. *)
VerdictPark(w) ==
  /\ ~Cancelled /\ result[w] = "park"
  /\ IF started[w] THEN Unlocked /\ Release(w) ELSE UNCHANGED current
  /\ UNCHANGED <<blocked, nextGen, retries>>

(* Results that leave the cache alone; any result of a worker held back.   *)
VerdictKeep(w) ==
  /\ ~Cancelled
  /\ \/ result[w] \in {"ok", "other", "rebind", "repair"}
     \/ result[w] # "park" /\ ~Allows(w)
  /\ UNCHANGED cache

(* invalidate: failed authentication, or a repair that escalated.          *)
VerdictInvalidate(w) ==
  /\ ~Cancelled /\ Allows(w)
  /\ result[w] \in {"auth", "repair"}
  /\ Unlocked
  /\ current' = IF Leased(w) THEN NoCredential ELSE current
  /\ UNCHANGED <<blocked, nextGen, retries>>

(* Mutant: the generation of the lease is not compared. *)
Mut_Rotates(w) == current.value # NoValue

Rotates(w) == Leased(w)

(* rotate_after_quota *)
VerdictQuota(w) ==
  /\ ~Cancelled /\ Allows(w) /\ result[w] = "quota"
  /\ Unlocked
  /\ IF Rotates(w)
     THEN /\ blocked' = current.value
          /\ current' = NoCredential
          /\ retries' = NextRung
          /\ rotations' = [rotations EXCEPT ![lease[w].gen] = @ + 1]
     ELSE UNCHANGED <<blocked, current, retries, rotations>>
  /\ UNCHANGED <<nextGen, parksOnly, movesOnly>>

(* retry_after_mismatch *)
VerdictMismatch(w) ==
  /\ ~Cancelled /\ Allows(w) /\ result[w] = "mismatch"
  /\ Unlocked
  /\ current' = IF ~Leased(w) THEN current
                ELSE IF current.mismatches = 0 THEN [current EXCEPT !.mismatches = 1]
                ELSE NoCredential
  /\ UNCHANGED <<blocked, nextGen, retries>>

Verdict(w) ==
  /\ Goto(w, "verdict", "gate")
  /\ Forget(w)
  /\ \/ VerdictPark(w) /\ UNCHANGED history
     \/ VerdictKeep(w) /\ UNCHANGED history
     \/ VerdictInvalidate(w) /\ UNCHANGED history
     \/ VerdictQuota(w)
     \/ VerdictMismatch(w) /\ UNCHANGED history
  /\ UNCHANGED <<holder, config, environment>>

-----------------------------------------------------------------------------
GetLease(w) ==
  \/ Enter(w) \/ QuitAtGate(w) \/ QuitAtGet(w) \/ Reserve(w) \/ BeginFetch(w)
  \/ FetchCancelled(w) \/ Fetched(w) \/ FetchDone(w) \/ FetchedBlocked(w)
  \/ FetchCallGone(w) \/ FetchFails(w) \/ BackoffDone(w)

RunSession(w) ==
  \/ QuitAtPace(w) \/ StartSession(w) \/ AllocationStarted(w) \/ Allocated(w)
  \/ RecordAllocation(w) \/ Handshake(w) \/ DialFails(w) \/ ChannelFails(w)
  \/ LiveEnds(w) \/ SessionCancelled(w) \/ Closed(w)

AfterSession(w) ==
  \/ ReleaseUnstarted(w) \/ DropGuard(w) \/ CheckOutage(w) \/ ForgetConfig(w)
  \/ QuitAfterSession(w) \/ Verdict(w)

Worker(w) == GetLease(w) \/ RunSession(w) \/ AfterSession(w)

Next == Hold \/ Stop \/ \E w \in Workers : Worker(w)

Spec == Init /\ [][Next]_vars

-----------------------------------------------------------------------------
Holders == {w \in Workers : Leased(w) /\ pc[w] \in {"pace", "dial", "record", "channel", "live"}}

(* WORKERS_PER_CREDENTIAL: TURN grants a credential so many allocations.   *)
(* Whatever is released, parked, rotated and fetched meanwhile, every      *)
(* session that may hold one on the cached credential is counted.          *)
AllocationsAreCounted == Cardinality(Holders) <= current.attempts

(* rotate_after_quota, store: credentials whose quota is exhausted do not  *)
(* come back into the cache before VK has returned others, whichever       *)
(* worker's fetch, verdict or release comes next.                          *)
RejectedIsNotServed == [][blocked # NoValue => current'.value # blocked]_vars

(* rotate_after_quota: however many workers of the cohort report 486, the  *)
(* credential is rotated and the delay ladder climbed once.                *)
OneRotationPerGeneration == \A g \in Gens : rotations[g] <= 1

(* worker.rs, IDLE_PARK: parking and unparking, however often, never costs *)
(* a cohort that fits its credential a new one.                            *)
ParkingKeepsCredential ==
  parksOnly /\ Cardinality(Workers) <= PerCredential => nextGen <= 1

(* rebind.rs: "re-allocates with the cached credentials": nor does a       *)
(* change of network.                                                      *)
RebindKeepsCredential ==
  movesOnly /\ Cardinality(Workers) <= PerCredential => nextGen <= 1

(* config_in_flight is never left set: as long as it is, a worker that     *)
(* will clear it is on its way, so the configuration is asked for again.   *)
FlightHasOwner == inFlight => \E w \in Workers : getConf[w]
=============================================================================
