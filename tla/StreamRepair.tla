---------------------------- MODULE StreamRepair ----------------------------
(***************************************************************************)
(* The repair slot of one worker (repair.rs) and the session that watches  *)
(* it (session.rs, worker.rs).  The server's STREAM_REPAIR and             *)
(* STREAM_ALIVE commands reach the slot through the reader tasks of all    *)
(* live paths, so several of them apply commands at once, in any order and *)
(* with duplicates.  Slots are independent of each other.                  *)
(***************************************************************************)
EXTENDS Naturals, FiniteSets

CONSTANTS
  Readers,     \* reader tasks that may deliver a command
  MaxSeq,      \* bound: sequences are 1..MaxSeq
  MaxSessions  \* bound: sessions the worker runs

ASSUME RepairAssumption ==
  /\ MaxSeq \in Nat \ {0}
  /\ MaxSessions \in Nat \ {0}
  /\ IsFiniteSet(Readers)

VARIABLES
  restartGen,  \* restart_generation
  credGen,     \* credential_generation
  lastSeq,     \* last_sequence
  readySeq,    \* ready_sequence
  rpc,         \* next step of every reader in apply_repair
  rseq,        \* sequence of the command it applies
  rcur,        \* last_sequence as it last saw it
  spc,         \* next step of the worker's session
  sessions,    \* sessions started
  observed,    \* restart generation the session compares with
  credSnap,    \* credential generation before the session
  rlast,       \* last_sequence as loaded by mark_ready
  restarts,    \* history: sequences -> restarts they caused
  escalating,  \* history: sequences that decided to reset credentials
  escalated,   \* history: sequences whose reset has been stored
  vouched      \* history: highest sequence known answered

slotVars == <<restartGen, credGen, lastSeq, readySeq>>
readerVars == <<rpc, rseq, rcur>>
repairedVars == <<spc, sessions, observed, credSnap, rlast>>
history == <<restarts, escalating, escalated, vouched>>
repairVars == <<slotVars, readerVars, repairedVars, history>>

Seqs == 1..MaxSeq
ReaderStep == {"idle", "load", "cas", "ready", "cred", "restart", "notify"}
SessionStep == {"out", "mark", "store", "observe", "check", "register", "wait", "ended"}

RepairTypeOK ==
  /\ restartGen \in 0..MaxSeq
  /\ credGen \in 0..MaxSeq
  /\ lastSeq \in 0..MaxSeq
  /\ readySeq \in 0..MaxSeq
  /\ rpc \in [Readers -> ReaderStep]
  /\ rseq \in [Readers -> 0..MaxSeq]
  /\ rcur \in [Readers -> 0..MaxSeq]
  /\ spc \in SessionStep
  /\ sessions \in 0..MaxSessions
  /\ observed \in 0..MaxSeq
  /\ credSnap \in 0..MaxSeq
  /\ rlast \in 0..MaxSeq
  /\ restarts \in [Seqs -> Nat]
  /\ escalating \in SUBSET Seqs
  /\ escalated \in SUBSET Seqs
  /\ vouched \in 0..MaxSeq

RepairInit ==
  /\ restartGen = 0 /\ credGen = 0 /\ lastSeq = 0 /\ readySeq = 0
  /\ rpc = [r \in Readers |-> "idle"]
  /\ rseq = [r \in Readers |-> 0]
  /\ rcur = [r \in Readers |-> 0]
  /\ spc = "out"
  /\ sessions = 0 /\ observed = 0 /\ credSnap = 0 /\ rlast = 0
  /\ restarts = [s \in Seqs |-> 0]
  /\ escalating = {} /\ escalated = {}
  /\ vouched = 0

Larger(a, b) == IF a >= b THEN a ELSE b

-----------------------------------------------------------------------------
(* apply_repair, one atomic operation a step. *)

ReceiveRepair(r) ==
  /\ rpc[r] = "idle"
  /\ \E s \in Seqs : rseq' = [rseq EXCEPT ![r] = s]
  /\ rpc' = [rpc EXCEPT ![r] = "load"]
  /\ UNCHANGED <<slotVars, rcur, repairedVars, history>>

LoadLast(r) ==
  /\ rpc[r] = "load"
  /\ rcur' = [rcur EXCEPT ![r] = lastSeq]
  /\ rpc' = [rpc EXCEPT ![r] = "cas"]
  /\ UNCHANGED <<slotVars, rseq, repairedVars, history>>

(* The command is not newer than the slot. *)
Outdated(r) ==
  /\ rpc[r] = "cas"
  /\ rseq[r] <= rcur[r]
  /\ rpc' = [rpc EXCEPT ![r] = "idle"]
  /\ UNCHANGED <<slotVars, rseq, rcur, repairedVars, history>>

(* Mutant: a plain store in place of the compare_exchange. *)
Mut_Exchange(r) ==
  /\ rpc[r] = "cas"
  /\ rseq[r] > rcur[r]
  /\ lastSeq' = rseq[r]
  /\ rpc' = [rpc EXCEPT ![r] = IF rcur[r] # 0 THEN "ready" ELSE "restart"]
  /\ UNCHANGED <<restartGen, credGen, readySeq, rseq, rcur, repairedVars, history>>

(* The compare_exchange: previous = rcur[r] decides whether the ready      *)
(* sequence is looked at.                                                  *)
Exchange(r) ==
  /\ rpc[r] = "cas"
  /\ rseq[r] > rcur[r]
  /\ lastSeq = rcur[r]
  /\ lastSeq' = rseq[r]
  /\ rpc' = [rpc EXCEPT ![r] = IF rcur[r] # 0 THEN "ready" ELSE "restart"]
  /\ UNCHANGED <<restartGen, credGen, readySeq, rseq, rcur, repairedVars, history>>

ExchangeFails(r) ==
  /\ rpc[r] = "cas"
  /\ rseq[r] > rcur[r]
  /\ lastSeq # rcur[r]
  /\ rcur' = [rcur EXCEPT ![r] = lastSeq]
  /\ UNCHANGED <<slotVars, rpc, rseq, repairedVars, history>>

(* Mutant: restart first, credentials afterwards. *)
Mut_LoadReady(r) ==
  /\ rpc[r] = "ready"
  /\ restartGen' = restartGen + 1
  /\ restarts' = [restarts EXCEPT ![rseq[r]] = @ + 1]
  /\ rpc' = [rpc EXCEPT ![r] = IF readySeq < rcur[r] THEN "cred" ELSE "notify"]
  /\ escalating' = IF readySeq < rcur[r] THEN escalating \cup {rseq[r]} ELSE escalating
  /\ UNCHANGED <<credGen, lastSeq, readySeq, rseq, rcur, repairedVars, escalated, vouched>>

LoadReady(r) ==
  /\ rpc[r] = "ready"
  /\ rpc' = [rpc EXCEPT ![r] = IF readySeq < rcur[r] THEN "cred" ELSE "restart"]
  /\ escalating' = IF readySeq < rcur[r] THEN escalating \cup {rseq[r]} ELSE escalating
  /\ UNCHANGED <<slotVars, rseq, rcur, repairedVars, restarts, escalated, vouched>>

BumpCredential(r) ==
  /\ rpc[r] = "cred"
  /\ credGen' = credGen + 1
  /\ rpc' = [rpc EXCEPT ![r] = "restart"]
  /\ escalated' = escalated \cup {rseq[r]}
  /\ UNCHANGED <<restartGen, lastSeq, readySeq, rseq, rcur, repairedVars, restarts,
                 escalating, vouched>>

BumpRestart(r) ==
  /\ rpc[r] = "restart"
  /\ restartGen' = restartGen + 1
  /\ restarts' = [restarts EXCEPT ![rseq[r]] = @ + 1]
  /\ rpc' = [rpc EXCEPT ![r] = "notify"]
  /\ UNCHANGED <<credGen, lastSeq, readySeq, rseq, rcur, repairedVars, escalating,
                 escalated, vouched>>

(* notify_waiters reaches only a future that is already registered. *)
NotifyWaiters(r) ==
  /\ rpc[r] = "notify"
  /\ rpc' = [rpc EXCEPT ![r] = "idle"]
  /\ spc' = IF spc = "wait" THEN "check" ELSE spc
  /\ UNCHANGED <<slotVars, rseq, rcur, sessions, observed, credSnap, rlast, history>>

(* apply_alive: one fetch_max. *)
ApplyAlive(r) ==
  /\ rpc[r] = "idle"
  /\ \E s \in Seqs :
       /\ readySeq' = Larger(readySeq, s)
       /\ vouched' = Larger(vouched, s)
  /\ UNCHANGED <<restartGen, credGen, lastSeq, readerVars, repairedVars, restarts,
                 escalating, escalated>>

-----------------------------------------------------------------------------
(* The worker's session. *)

(* worker_loop takes the credential generation and starts a session; the   *)
(* handshake succeeds.                                                     *)
StartSession ==
  /\ spc = "out"
  /\ sessions < MaxSessions
  /\ sessions' = sessions + 1
  /\ credSnap' = credGen
  /\ spc' = "mark"
  /\ UNCHANGED <<slotVars, readerVars, observed, rlast, history>>

(* mark_ready: a load and a store. *)
MarkLoad ==
  /\ spc = "mark"
  /\ rlast' = lastSeq
  /\ spc' = "store"
  /\ UNCHANGED <<slotVars, readerVars, sessions, observed, credSnap, history>>

MarkStore ==
  /\ spc = "store"
  /\ readySeq' = rlast
  /\ vouched' = Larger(vouched, rlast)
  /\ spc' = "observe"
  /\ UNCHANGED <<restartGen, credGen, lastSeq, readerVars, sessions, observed, credSnap,
                 rlast, restarts, escalating, escalated>>

Observe ==
  /\ spc = "observe"
  /\ observed' = restartGen
  /\ spc' = "check"
  /\ UNCHANGED <<slotVars, readerVars, sessions, credSnap, rlast, history>>

(* changed: check, then register, then wait. *)
Check ==
  /\ spc = "check"
  /\ spc' = IF restartGen # observed THEN "ended" ELSE "register"
  /\ UNCHANGED <<slotVars, readerVars, sessions, observed, credSnap, rlast, history>>

RegisterWaiter ==
  /\ spc = "register"
  /\ spc' = "wait"
  /\ UNCHANGED <<slotVars, readerVars, sessions, observed, credSnap, rlast, history>>

(* TARGET_REPAIR in worker_loop: fresh credentials if the generation moved *)
(* (CredentialCache models invalidate); then the next round.               *)
EndSession ==
  /\ spc = "ended"
  /\ spc' = "out"
  /\ UNCHANGED <<slotVars, readerVars, sessions, observed, credSnap, rlast, history>>

Reader(r) ==
  \/ LoadLast(r) \/ Outdated(r) \/ Exchange(r) \/ ExchangeFails(r) \/ LoadReady(r)
  \/ BumpCredential(r) \/ BumpRestart(r) \/ NotifyWaiters(r)

Session ==
  \/ StartSession \/ MarkLoad \/ MarkStore \/ Observe
  \/ Check \/ RegisterWaiter \/ EndSession

RepairNext ==
  \/ \E r \in Readers : ReceiveRepair(r) \/ ApplyAlive(r) \/ Reader(r)
  \/ Session

RepairSpec == RepairInit /\ [][RepairNext]_repairVars

(* The runtime polls every task that is ready; the server owes nothing. *)
FairRepairSpec ==
  /\ RepairSpec
  /\ \A r \in Readers : WF_repairVars(Reader(r))
  /\ WF_repairVars(Session)

-----------------------------------------------------------------------------
(* apply_repair: a sequence restarts the worker at most once, whichever    *)
(* readers deliver it and however often ("duplicate_repair_sequence_is_    *)
(* ignored", repair.rs, for concurrent readers).                           *)
OneRestartPerSequence == \A s \in Seqs : restarts[s] <= 1

(* apply_repair: the slot's sequence never goes back, so an old command    *)
(* that overtakes a newer one stays without effect.                        *)
SequenceOnlyGrows == [][lastSeq' >= lastSeq]_repairVars

(* apply_repair bumps the credential generation before the restart         *)
(* generation: a worker that leaves its session because of an escalated    *)
(* repair finds the new credential generation.                             *)
EscalationBeforeRestart ==
  \A s \in escalating : restarts[s] > 0 => s \in escalated

(* repair.rs, ready_or_alive_sequence_prevents_credential_escalation: once *)
(* the previous repair is answered, the next does not reset credentials.   *)
AnsweredDoesNotEscalate ==
  [][\A r \in Readers :
       rpc[r] = "ready" /\ vouched >= rcur[r] => rpc'[r] # "cred"]_repairVars

(* session.rs: a repair of a live session ends it (TARGET_REPAIR). *)
RepairEndsSession ==
  (spc = "wait" /\ restartGen # observed) ~> (spc # "wait")
=============================================================================
