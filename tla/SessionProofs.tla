---------------------------- MODULE SessionProofs ----------------------------
(***************************************************************************)
(* Safety of what a path session is steered by: the repair slot of its     *)
(* worker (StreamRepair, repair.rs), and the idle protocol with the        *)
(* sessions that follow it (IdleGate, PathSession), for any number of      *)
(* readers, sequences, workers, keepers, injecting threads, attempts,      *)
(* epochs and network changes.                                             *)
(*                                                                         *)
(* The argument for the slot: a reader that won the compare_exchange for a *)
(* sequence owns it until it has bumped the restart generation.  Sequences *)
(* above last_sequence are untouched, two owners never own the same one,   *)
(* and an owned sequence has not restarted the worker yet.                 *)
(*                                                                         *)
(* The argument for ReannounceCatchesUp: whoever stores GEN_OFFSET or      *)
(* DECLARED has still to bump ANNOUNCE (Pending), ANNOUNCE only grows, and *)
(* a session notes ANNOUNCE before it loads either.  So as long as         *)
(* ANNOUNCE is the one it noted and nobody is Pending, what it has loaded  *)
(* is current.                                                             *)
(***************************************************************************)
EXTENDS StreamRepair, PathSession, FiniteSetTheorems, TLAPS

-----------------------------------------------------------------------------
(* The repair slot.                                                        *)

Owns(r) == rpc[r] \in {"ready", "cred", "restart"}

Restarted == {s \in Seqs : restarts[s] = 1}

(* What the types of the history and of the readers' locals leave open.    *)
Typed ==
  /\ restartGen \in Nat /\ credGen \in Nat
  /\ lastSeq \in 0..MaxSeq /\ readySeq \in 0..MaxSeq
  /\ rpc \in [Readers -> ReaderStep]
  /\ rseq \in [Readers -> 0..MaxSeq]
  /\ rcur \in [Readers -> 0..MaxSeq]
  /\ spc \in SessionStep
  /\ sessions \in 0..MaxSessions
  /\ observed \in 0..MaxSeq /\ credSnap \in 0..MaxSeq /\ rlast \in 0..MaxSeq
  /\ restarts \in [Seqs -> Nat]
  /\ escalating \in SUBSET Seqs /\ escalated \in SUBSET Seqs
  /\ vouched \in 0..MaxSeq

Busy == \A r \in Readers : rpc[r] # "idle" => rseq[r] \in Seqs

(* Nothing is known of sequences above last_sequence. *)
Untouched ==
  \A s \in Seqs : s > lastSeq => restarts[s] = 0 /\ s \notin escalating /\ s \notin escalated

Owned ==
  \A r \in Readers : Owns(r) =>
    /\ rseq[r] <= lastSeq
    /\ restarts[rseq[r]] = 0
    /\ rpc[r] = "ready" => rseq[r] \notin escalating
    /\ rpc[r] \in {"ready", "cred"} => rseq[r] \notin escalated
    /\ rpc[r] = "restart" /\ rseq[r] \in escalating => rseq[r] \in escalated

OneOwner ==
  \A r, q \in Readers : Owns(r) /\ Owns(q) /\ rseq[r] = rseq[q] => r = q

(* The generations count the sequences that caused them. *)
Counted ==
  /\ restartGen = Cardinality(Restarted)
  /\ credGen = Cardinality(escalated)

RepairInv ==
  /\ Typed /\ Busy /\ Untouched /\ Owned /\ OneOwner /\ Counted
  /\ OneRestartPerSequence
  /\ EscalationBeforeRestart

-----------------------------------------------------------------------------
(* The generations never exceed the number of sequences. *)
LEMMA GenerationsBounded ==
  ASSUME Typed, Counted
  PROVE  restartGen \in 0..MaxSeq /\ credGen \in 0..MaxSeq
<1>1. IsFiniteSet(Seqs) /\ Cardinality(Seqs) = MaxSeq
  BY FS_Interval, RepairAssumption DEF Seqs
<1>2. Restarted \in SUBSET Seqs /\ escalated \in SUBSET Seqs
  BY DEF Typed, Restarted
<1>3. Cardinality(Restarted) <= MaxSeq /\ Cardinality(escalated) <= MaxSeq
  BY <1>1, <1>2, FS_Subset
<1> QED
  BY <1>3, RepairAssumption DEF Typed, Counted

(* The initial state: no sequence has been seen. *)
LEMMA RepairInitInv == RepairInit => RepairInv
<1> SUFFICES ASSUME RepairInit PROVE RepairInv
  OBVIOUS
<1> USE RepairAssumption DEF RepairInit
<1>1. Typed
  BY DEF Typed, ReaderStep, SessionStep, Seqs
<1>2. Busy /\ Untouched /\ Owned /\ OneOwner
  BY DEF Busy, Untouched, Owned, OneOwner, Owns
<1>3. Counted
  <2>1. Restarted = {}
    BY DEF Restarted
  <2> QED
    BY <2>1, FS_EmptySet DEF Counted
<1>4. OneRestartPerSequence /\ EscalationBeforeRestart
  BY DEF OneRestartPerSequence, EscalationBeforeRestart
<1> QED
  BY <1>1, <1>2, <1>3, <1>4 DEF RepairInv

(* Types: the generations are bounded by what they count. *)
LEMMA TypedStep ==
  ASSUME RepairInv, [RepairNext]_repairVars
  PROVE  Typed' /\ Busy'
<1> USE RepairAssumption DEF Typed, Busy, Seqs, ReaderStep, SessionStep
<1>0. Typed /\ Busy /\ restartGen \in 0..MaxSeq /\ credGen \in 0..MaxSeq
  BY GenerationsBounded DEF RepairInv
<1>1. ASSUME NEW r \in Readers, ReceiveRepair(r) PROVE Typed' /\ Busy'
  BY <1>0, <1>1 DEF ReceiveRepair, slotVars, repairedVars, history
<1>2. ASSUME NEW r \in Readers, ApplyAlive(r) PROVE Typed' /\ Busy'
  BY <1>0, <1>2 DEF ApplyAlive, Larger, readerVars, repairedVars
<1>3. ASSUME NEW r \in Readers, LoadLast(r) \/ Outdated(r) \/ ExchangeFails(r)
      PROVE Typed' /\ Busy'
  BY <1>0, <1>3 DEF LoadLast, Outdated, ExchangeFails, slotVars, repairedVars, history
<1>4. ASSUME NEW r \in Readers, Exchange(r) PROVE Typed' /\ Busy'
  BY <1>0, <1>4 DEF Exchange, repairedVars, history
<1>5. ASSUME NEW r \in Readers, LoadReady(r) PROVE Typed' /\ Busy'
  BY <1>0, <1>5 DEF LoadReady, slotVars, repairedVars
<1>6. ASSUME NEW r \in Readers, BumpCredential(r) PROVE Typed' /\ Busy'
  <2>1. rseq[r] \in 1..MaxSeq
    BY <1>0, <1>6 DEF BumpCredential
  <2>2. escalated' \in SUBSET (1..MaxSeq)
    BY <1>0, <1>6, <2>1 DEF BumpCredential
  <2> QED
    BY <1>0, <1>6, <2>2 DEF BumpCredential, repairedVars
<1>7. ASSUME NEW r \in Readers, BumpRestart(r) PROVE Typed' /\ Busy'
  BY <1>0, <1>7 DEF BumpRestart, repairedVars
<1>8. ASSUME NEW r \in Readers, NotifyWaiters(r) PROVE Typed' /\ Busy'
  BY <1>0, <1>8 DEF NotifyWaiters, slotVars, history
<1>9. ASSUME Session PROVE Typed' /\ Busy'
  <2>1. UNCHANGED <<restartGen, credGen, lastSeq, rpc, rseq, rcur, restarts, escalating,
                    escalated>>
    BY <1>9 DEF Session, StartSession, MarkLoad, MarkStore, Observe, Check, RegisterWaiter,
       EndSession, slotVars, readerVars, history
  <2>2. spc' \in SessionStep /\ sessions' \in 0..MaxSessions
    BY <1>0, <1>9 DEF Session, StartSession, MarkLoad, MarkStore, Observe, Check,
       RegisterWaiter, EndSession
  <2>3. readySeq' \in 0..MaxSeq /\ vouched' \in 0..MaxSeq /\ rlast' \in 0..MaxSeq
    BY <1>0, <1>9 DEF Session, StartSession, MarkLoad, MarkStore, Observe, Check,
       RegisterWaiter, EndSession, slotVars, history, Larger
  <2>4. observed' \in 0..MaxSeq /\ credSnap' \in 0..MaxSeq
    BY <1>0, <1>9 DEF Session, StartSession, MarkLoad, MarkStore, Observe, Check,
       RegisterWaiter, EndSession
  <2> QED
    BY <1>0, <2>1, <2>2, <2>3, <2>4
<1>10. CASE UNCHANGED repairVars
  BY <1>0, <1>10 DEF repairVars, slotVars, readerVars, repairedVars, history
<1> QED
  BY <1>1, <1>2, <1>3, <1>4, <1>5, <1>6, <1>7, <1>8, <1>9, <1>10 DEF RepairNext, Reader

Sound == /\ Untouched /\ Owned /\ OneOwner
         /\ OneRestartPerSequence /\ EscalationBeforeRestart

(* Ownership: only the winner of the compare_exchange may bump the         *)
(* generations for its sequence.                                           *)
LEMMA SoundStep ==
  ASSUME RepairInv, [RepairNext]_repairVars
  PROVE  Sound'
<1> USE DEF Sound, Untouched, Owned, OneOwner, Owns, OneRestartPerSequence,
            EscalationBeforeRestart
<1>0. Typed /\ Busy /\ Sound
  BY DEF RepairInv
<1>1. ASSUME NEW r \in Readers,
             ReceiveRepair(r) \/ LoadLast(r) \/ Outdated(r) \/ ExchangeFails(r)
      PROVE Sound'
  BY <1>0, <1>1 DEF ReceiveRepair, LoadLast, Outdated, ExchangeFails, slotVars,
     repairedVars, history, Typed
<1>2. ASSUME NEW r \in Readers, ApplyAlive(r) \/ NotifyWaiters(r) PROVE Sound'
  BY <1>0, <1>2 DEF ApplyAlive, NotifyWaiters, readerVars, slotVars, repairedVars, history,
     Typed
<1>3. ASSUME NEW r \in Readers, Exchange(r) PROVE Sound'
  BY <1>0, <1>3, RepairAssumption DEF Exchange, repairedVars, history, Typed, Busy, Seqs
<1>4. ASSUME NEW r \in Readers, LoadReady(r) PROVE Sound'
  BY <1>0, <1>4 DEF LoadReady, slotVars, repairedVars, Typed, Busy
<1>5. ASSUME NEW r \in Readers, BumpCredential(r) PROVE Sound'
  BY <1>0, <1>5 DEF BumpCredential, repairedVars, Typed, Busy
<1>6. ASSUME NEW r \in Readers, BumpRestart(r) PROVE Sound'
  BY <1>0, <1>6 DEF BumpRestart, repairedVars, Typed, Busy, Seqs
<1>7. ASSUME Session PROVE Sound'
  BY <1>0, <1>7 DEF Session, StartSession, MarkLoad, MarkStore, Observe, Check,
     RegisterWaiter, EndSession, slotVars, readerVars, history
<1>8. CASE UNCHANGED repairVars
  BY <1>0, <1>8 DEF repairVars, slotVars, readerVars, repairedVars, history
<1> QED
  BY <1>1, <1>2, <1>3, <1>4, <1>5, <1>6, <1>7, <1>8 DEF RepairNext, Reader

(* Counting: each bump of a generation adds the sequence it is for. *)
LEMMA CountedStep ==
  ASSUME RepairInv, [RepairNext]_repairVars
  PROVE  Counted'
<1>0. Typed /\ Busy /\ Owned /\ Counted
  BY DEF RepairInv
<1>1. IsFiniteSet(Restarted) /\ IsFiniteSet(escalated)
  <2>1. IsFiniteSet(Seqs)
    BY FS_Interval, RepairAssumption DEF Seqs
  <2> QED
    BY <1>0, <2>1, FS_Subset DEF Restarted, Typed
<1>2. ASSUME NEW r \in Readers, BumpCredential(r) PROVE Counted'
  <2>1. rseq[r] \notin escalated /\ escalated' = escalated \cup {rseq[r]}
        /\ credGen' = credGen + 1 /\ restartGen' = restartGen /\ restarts' = restarts
    BY <1>0, <1>2 DEF BumpCredential, Owned, Owns
  <2>2. Restarted' = Restarted
    BY <2>1 DEF Restarted
  <2>3. Cardinality(escalated') = Cardinality(escalated) + 1
    BY <1>1, <2>1, FS_AddElement
  <2> QED
    BY <1>0, <2>1, <2>2, <2>3 DEF Counted
<1>3. ASSUME NEW r \in Readers, BumpRestart(r) PROVE Counted'
  <2>1. rseq[r] \in Seqs /\ restarts[rseq[r]] = 0
        /\ restarts' = [restarts EXCEPT ![rseq[r]] = @ + 1]
        /\ restartGen' = restartGen + 1 /\ credGen' = credGen /\ escalated' = escalated
    BY <1>0, <1>3 DEF BumpRestart, Owned, Owns, Busy
  <2>2. Restarted' = Restarted \cup {rseq[r]} /\ rseq[r] \notin Restarted
    BY <1>0, <2>1 DEF Restarted, Typed
  <2>3. Cardinality(Restarted') = Cardinality(Restarted) + 1
    BY <1>1, <2>2, FS_AddElement
  <2> QED
    BY <1>0, <2>1, <2>3 DEF Counted
<1>4. ASSUME UNCHANGED <<restartGen, credGen, restarts, escalated>> PROVE Counted'
  <2>1. Restarted' = Restarted
    BY <1>4 DEF Restarted
  <2> QED
    BY <1>0, <1>4, <2>1 DEF Counted
<1>5. \/ \E r \in Readers : BumpCredential(r) \/ BumpRestart(r)
      \/ UNCHANGED <<restartGen, credGen, restarts, escalated>>
  BY DEF RepairNext, Reader, ReceiveRepair, ApplyAlive, LoadLast, Outdated, Exchange,
     ExchangeFails, LoadReady, NotifyWaiters, Session, StartSession, MarkLoad, MarkStore,
     Observe, Check, RegisterWaiter, EndSession, repairVars, slotVars, readerVars, repairedVars,
     history
<1> QED
  BY <1>2, <1>3, <1>4, <1>5

(* RepairInv is an invariant of the specification. *)
THEOREM RepairInvariance == RepairSpec => []RepairInv
<1>1. RepairInv /\ [RepairNext]_repairVars => RepairInv'
  BY TypedStep, SoundStep, CountedStep DEF RepairInv, Sound
<1> QED
  BY RepairInitInv, <1>1, PTL DEF RepairSpec

(* Type correctness; both generations stay below the highest sequence.     *)
THEOREM RepairTypeCorrect == RepairSpec => []RepairTypeOK
<1>1. RepairInv => RepairTypeOK
  BY GenerationsBounded DEF RepairInv, Typed, RepairTypeOK
<1> QED
  BY RepairInvariance, <1>1, PTL

(* apply_repair: a repair sequence restarts the worker at most once, for   *)
(* any number of readers that deliver it, in any order, with duplicates.   *)
THEOREM RestartsOnce == RepairSpec => []OneRestartPerSequence
<1>1. RepairInv => OneRestartPerSequence
  BY DEF RepairInv
<1> QED
  BY RepairInvariance, <1>1, PTL

(* apply_repair: an escalated repair publishes the new credential          *)
(* generation before the restart that makes the worker look at it.         *)
THEOREM EscalatesFirst == RepairSpec => []EscalationBeforeRestart
<1>1. RepairInv => EscalationBeforeRestart
  BY DEF RepairInv
<1> QED
  BY RepairInvariance, <1>1, PTL

(* apply_repair: the slot's sequence never goes back. *)
THEOREM SequenceGrows == RepairSpec => SequenceOnlyGrows
<1>1. RepairInv /\ [RepairNext]_repairVars => [lastSeq' >= lastSeq]_repairVars
  <2> SUFFICES ASSUME RepairInv, RepairNext PROVE lastSeq' >= lastSeq
    OBVIOUS
  <2>1. ASSUME NEW r \in Readers, Exchange(r) PROVE lastSeq' >= lastSeq
    BY <2>1 DEF Exchange, RepairInv, Typed
  <2>2. ASSUME UNCHANGED lastSeq PROVE lastSeq' >= lastSeq
    BY <2>2 DEF RepairInv, Typed
  <2>3. (\E r \in Readers : Exchange(r)) \/ UNCHANGED lastSeq
    BY DEF RepairNext, Reader, ReceiveRepair, ApplyAlive, LoadLast, Outdated, ExchangeFails,
       LoadReady, BumpCredential, BumpRestart, NotifyWaiters, Session, StartSession,
       MarkLoad, MarkStore, Observe, Check, RegisterWaiter, EndSession, slotVars,
       repairedVars, history
  <2> QED
    BY <2>1, <2>2, <2>3
<1> QED
  BY RepairInvariance, <1>1, PTL DEF RepairSpec, SequenceOnlyGrows-----------------------------------------------------------------------------
(* The idle protocol and the path sessions.                                *)

ExitStep == {"limit", "declared", "announce"}

(* One change of mode at a time, and how far it is. *)
SeqMode ==
  ~overlap =>
    /\ Entering => active /\ \A i \in Injectors : inj[i] \notin ExitStep
    /\ \A i, j \in Injectors : inj[i] \in ExitStep /\ inj[j] \in ExitStep => i = j
    /\ mon = "limit" => limit = Unlimited /\ declared = Total
    /\ mon = "declared" => limit = Keep /\ declared = Total
    /\ mon \in {"gen", "announce", "windows"} => limit = Keep /\ declared = Keep
    /\ \A i \in Injectors :
         /\ inj[i] \in ExitStep => ~active
         /\ inj[i] = "limit" => limit = Keep /\ declared = Keep
         /\ inj[i] = "declared" => limit = Unlimited /\ declared = Keep
         /\ inj[i] = "announce" => limit = Unlimited /\ declared = Total
    /\ ModeAgrees

(* GEN_OFFSET or DECLARED may have been stored, ANNOUNCE not yet bumped.   *)
Pending ==
  \/ mon \in {"limit", "declared", "gen", "announce"}
  \/ \E i \in Injectors : inj[i] \in ExitStep
  \/ \E w \in Workers : pc[w] = "bump"

(* What a session that re-announces has loaded so far is current. *)
Loaded(w) ==
  /\ inLoop[w] /\ pc[w] \in {"off", "count", "send"} => pgen[w] = genOffset
  /\ inLoop[w] /\ pc[w] = "send" => pcount[w] = declared
  /\ pc[w] = "loop" /\ relisted[w] => UpToDate(w)

Announced ==
  \A w \in Workers :
    /\ seen[w] <= announce
    /\ ~Pending /\ announce = seen[w] => Loaded(w)

Phases ==
  \A w \in Workers :
    /\ inLoop[w] => pc[w] \in {"gen", "off", "count", "send"}
    /\ relisted[w] => inLoop[w] \/ pc[w] \in {"loop", "lost", "load", "cas", "bump"}

Rebinds ==
  \A w \in Workers :
    /\ pc[w] = "dial" => rseen[w] <= rebindEpoch
    /\ pc[w] = "connect" => rseen[w] <= sock[w] /\ sock[w] <= rebindEpoch

Losing ==
  \A w \in Workers :
    /\ pc[w] \in {"load", "cas"} => joined[w] # 0
    /\ pc[w] = "cas" => cur[w] + 1 = joined[w]

(* The handshake sends no more than Attempts registrations. *)
Tries == \A w \in Workers : pc[w] # "await" => attempt[w] < Attempts

IInv == TypeOK /\ Tries /\ SeqMode /\ Announced /\ Phases /\ Rebinds /\ Losing

-----------------------------------------------------------------------------
(* The initial state. *)
LEMMA InitInv == Init => IInv
<1> SUFFICES ASSUME Init PROVE IInv
  OBVIOUS
<1> USE IdleAssumption, SessionAssumption DEF Init, IdleInit
<1>1. TypeOK
  <2>1. IdleTypeOK
    <3>1. limit \in {Keep, Unlimited} /\ declared \in {Keep, Total}
      OBVIOUS
    <3>2. mon \in MonStep /\ inj \in [Injectors -> InjStep]
      BY DEF MonStep, InjStep
    <3>3. packets \in 0..ExitPackets /\ syns \in 0..ExitSyns /\ enters \in 0..MaxEnters
      OBVIOUS
    <3>4. genOffset \in Nat /\ announce \in Nat /\ active \in BOOLEAN /\ overlap \in BOOLEAN
      OBVIOUS
    <3> QED
      BY <3>1, <3>2, <3>3, <3>4 DEF IdleTypeOK
  <2>2. advert \in [Workers -> [gen : Nat, count : Nat]] /\ pc \in [Workers -> Step]
    BY DEF Step, NoAdvert
  <2>3. paused \in BOOLEAN
    OBVIOUS
  <2>6. pauses \in 0..MaxPauses /\ rebindEpoch \in 0..MaxRebinds
    OBVIOUS
  <2>4. /\ inLoop \in [Workers -> BOOLEAN] /\ relisted \in [Workers -> BOOLEAN]
        /\ attempt \in [Workers -> 0..Attempts]
        /\ rseen \in [Workers -> 0..MaxRebinds] /\ sock \in [Workers -> 0..MaxRebinds]
    OBVIOUS
  <2>5. /\ pgen \in [Workers -> Nat] /\ poff \in [Workers -> Nat]
        /\ pcount \in [Workers -> Nat] /\ cur \in [Workers -> Nat]
        /\ joined \in [Workers -> Nat] /\ seen \in [Workers -> Nat]
    OBVIOUS
  <2> QED
    BY <2>1, <2>2, <2>3, <2>6, <2>4, <2>5 DEF TypeOK
<1>2. SeqMode
  BY DEF SeqMode, ModeAgrees, Settled, Entering, Exiting, ExitStep
<1>3. Announced /\ Phases /\ Rebinds /\ Losing /\ Tries
  BY DEF Tries, Announced, Loaded, Phases, Rebinds, Losing
<1> QED
  BY <1>1, <1>2, <1>3 DEF IInv

-----------------------------------------------------------------------------
(* Steps of idle.rs on their own. *)

(* Types of idle.rs. *)
LEMMA IdleTypeStep ==
  ASSUME IdleTypeOK, IdleNext
  PROVE  IdleTypeOK'
<1> USE IdleAssumption DEF IdleTypeOK, MonStep, InjStep, counters
<1>1. CASE EnterSwap
  BY <1>1 DEF EnterSwap, Exiting
<1>2. CASE EnterLimit \/ EnterDeclared \/ EnterGen \/ EnterAnnounce \/ EnterWindows
  BY <1>2 DEF EnterLimit, EnterDeclared, EnterGen, EnterAnnounce, EnterWindows
<1>3. ASSUME NEW i \in Injectors, NoteUplink(i) PROVE IdleTypeOK'
  <2>1. PICK syn \in BOOLEAN, synExpired \in BOOLEAN, expired \in BOOLEAN :
          LET s == IF syn THEN WindowCount(syns, synExpired, ExitSyns) ELSE syns
              p == WindowCount(packets, expired, ExitPackets)
              synHit == syn /\ s >= ExitSyns
          IN /\ syns' = s
             /\ packets' = IF synHit THEN packets ELSE p
             /\ inj' = [inj EXCEPT ![i] =
                          IF synHit \/ p >= ExitPackets THEN "swap" ELSE "run"]
    BY <1>3 DEF NoteUplink
  <2>2. syns' \in 0..ExitSyns /\ packets' \in 0..ExitPackets
    BY <2>1 DEF WindowCount
  <2>3. inj' \in [Injectors -> InjStep]
    BY <2>1
  <2> QED
    BY <1>3, <2>2, <2>3 DEF NoteUplink
<1>4. ASSUME NEW i \in Injectors, ExitSwap(i) PROVE IdleTypeOK'
  BY <1>4 DEF ExitSwap, Entering, Exiting
<1>5. ASSUME NEW i \in Injectors, ExitLimit(i) \/ ExitDeclared(i) \/ ExitAnnounce(i)
      PROVE IdleTypeOK'
  BY <1>5 DEF ExitLimit, ExitDeclared, ExitAnnounce
<1> QED
  BY <1>1, <1>2, <1>3, <1>4, <1>5 DEF IdleNext, Monitor, Injector

(* One enter or one exit at a time leaves the mode in agreement. *)
LEMMA SeqModeStep ==
  ASSUME IdleTypeOK, SeqMode, IdleNext
  PROVE  SeqMode'
<1> USE IdleAssumption DEF IdleTypeOK, SeqMode, ModeAgrees, Settled, Entering, Exiting,
        ExitStep
<1>1. CASE EnterSwap
  BY <1>1 DEF EnterSwap
<1>2. CASE EnterLimit
  BY <1>2 DEF EnterLimit
<1>3. CASE EnterDeclared
  BY <1>3 DEF EnterDeclared
<1>4. CASE EnterGen \/ EnterAnnounce
  BY <1>4 DEF EnterGen, EnterAnnounce
<1>5. CASE EnterWindows
  BY <1>5 DEF EnterWindows
<1>6. ASSUME NEW i \in Injectors, NoteUplink(i) PROVE SeqMode'
  <2>1. /\ \E q \in {"swap", "run"} : inj' = [inj EXCEPT ![i] = q]
        /\ inj[i] = "run"
        /\ UNCHANGED <<active, limit, declared, mon, overlap>>
    BY <1>6 DEF NoteUplink
  <2> QED
    BY <2>1
<1>7. ASSUME NEW i \in Injectors, ExitSwap(i) PROVE SeqMode'
  BY <1>7 DEF ExitSwap
<1>8. ASSUME NEW i \in Injectors, ExitLimit(i) PROVE SeqMode'
  BY <1>8 DEF ExitLimit
<1>9. ASSUME NEW i \in Injectors, ExitDeclared(i) PROVE SeqMode'
  BY <1>9 DEF ExitDeclared
<1>10. ASSUME NEW i \in Injectors, ExitAnnounce(i) PROVE SeqMode'
  BY <1>10 DEF ExitAnnounce
<1> QED
  BY <1>1, <1>2, <1>3, <1>4, <1>5, <1>6, <1>7, <1>8, <1>9, <1>10
     DEF IdleNext, Monitor, Injector

-----------------------------------------------------------------------------
(* Types of the sessions. *)

(* The locals of a worker. *)
LocalsTyped ==
  /\ pc \in [Workers -> Step]
  /\ inLoop \in [Workers -> BOOLEAN]
  /\ attempt \in [Workers -> 0..Attempts]
  /\ pgen \in [Workers -> Nat]
  /\ poff \in [Workers -> Nat]
  /\ pcount \in [Workers -> Nat]
  /\ cur \in [Workers -> Nat]
  /\ joined \in [Workers -> Nat]
  /\ advert \in [Workers -> [gen : Nat, count : Nat]]
  /\ relisted \in [Workers -> BOOLEAN]
  /\ seen \in [Workers -> Nat]
  /\ rseen \in [Workers -> 0..MaxRebinds]
  /\ sock \in [Workers -> 0..MaxRebinds]

HostTyped == paused \in BOOLEAN /\ pauses \in 0..MaxPauses /\ rebindEpoch \in 0..MaxRebinds

(* The type invariant, one part per component. *)
LEMMA TypeParts == TypeOK <=> IdleTypeOK /\ HostTyped /\ LocalsTyped
BY DEF TypeOK, HostTyped, LocalsTyped

(* The locals of the workers keep their types. *)
LEMMA LocalsStep ==
  ASSUME IInv, [Next]_vars
  PROVE  LocalsTyped'
<1> USE IdleAssumption, SessionAssumption
        DEF LocalsTyped, HostTyped, Step, Goto, DropPayload, End, payload
<1>0. LocalsTyped /\ HostTyped /\ genOffset \in Nat /\ announce \in Nat /\ declared \in Nat
  BY TypeParts DEF IInv, IdleTypeOK
<1>1. ASSUME (IdleNext /\ UNCHANGED sessionVars) \/ UNCHANGED vars \/ SetPaused \/ RebindRequest
      PROVE LocalsTyped'
  BY <1>0, <1>1 DEF sessionVars, vars, SetPaused, RebindRequest
<1>2. ASSUME NEW w \in Workers, End(w), UNCHANGED joined PROVE LocalsTyped'
  BY <1>0, <1>2 DEF NoAdvert
<1>3. ASSUME NEW w \in Workers,
             ConnectFails(w) \/ RebindWhileConnecting(w) \/ HandshakeFails(w) \/ LoopRebind(w)
               \/ LoopParked(w) \/ LoopEndsQuietly(w) \/ LostIgnored(w) \/ LostAnnounce(w)
      PROVE LocalsTyped'
  BY <1>2, <1>3 DEF ConnectFails, RebindWhileConnecting, HandshakeFails, LoopRebind,
     LoopParked, LoopEndsQuietly, LostIgnored, LostAnnounce
<1>4. ASSUME NEW w \in Workers, Start(w) PROVE LocalsTyped'
  BY <1>0, <1>4 DEF Start
<1>5. ASSUME NEW w \in Workers, ReadEpoch(w) PROVE LocalsTyped'
  BY <1>0, <1>5 DEF ReadEpoch
<1>6. ASSUME NEW w \in Workers, Dial(w) PROVE LocalsTyped'
  BY <1>0, <1>6 DEF Dial
<1>7. ASSUME NEW w \in Workers, Connected(w) PROVE LocalsTyped'
  BY <1>0, <1>7 DEF Connected
<1>8. ASSUME NEW w \in Workers, ChannelBound(w) PROVE LocalsTyped'
  BY <1>0, <1>8 DEF ChannelBound
<1>9. ASSUME NEW w \in Workers, ReadGeneration(w) PROVE LocalsTyped'
  BY <1>0, <1>9 DEF ReadGeneration
<1>10. ASSUME NEW w \in Workers, ReadOffset(w) PROVE LocalsTyped'
  BY <1>0, <1>10 DEF ReadOffset
<1>11. ASSUME NEW w \in Workers, ReadDeclared(w) PROVE LocalsTyped'
  BY <1>0, <1>11 DEF ReadDeclared
<1>12. ASSUME NEW w \in Workers, SendGetConf(w) PROVE LocalsTyped'
  <2>1. pc[w] = "send" /\ attempt[w] < Attempts
    BY <1>12 DEF SendGetConf, IInv, Tries
  <2>2. Payload(w) \in [gen : Nat, count : Nat]
    BY <1>0 DEF Payload
  <2> QED
    BY <1>0, <1>12, <2>1, <2>2 DEF SendGetConf
<1>13. ASSUME NEW w \in Workers, GetConfTimeout(w) PROVE LocalsTyped'
  BY <1>0, <1>13 DEF GetConfTimeout
<1>14. ASSUME NEW w \in Workers, ReadLoopEpoch(w) PROVE LocalsTyped'
  BY <1>0, <1>14 DEF ReadLoopEpoch
<1>15. ASSUME NEW w \in Workers, ReadAnnounce(w) PROVE LocalsTyped'
  BY <1>0, <1>15 DEF ReadAnnounce
<1>16. ASSUME NEW w \in Workers, TunConf(w) PROVE LocalsTyped'
  BY <1>0, <1>16 DEF TunConf
<1>17. ASSUME NEW w \in Workers, NoConfig(w) PROVE LocalsTyped'
  BY <1>0, <1>17 DEF NoConfig
<1>18. ASSUME NEW w \in Workers, LoopAnnounce(w) PROVE LocalsTyped'
  BY <1>0, <1>18 DEF LoopAnnounce
<1>19. ASSUME NEW w \in Workers, Reannounced(w) PROVE LocalsTyped'
  BY <1>0, <1>19 DEF Reannounced, Payload
<1>20. ASSUME NEW w \in Workers, ReannounceFails(w) PROVE LocalsTyped'
  BY <1>0, <1>20 DEF ReannounceFails
<1>21. ASSUME NEW w \in Workers, PathLost(w) PROVE LocalsTyped'
  BY <1>0, <1>21 DEF PathLost
<1>22. ASSUME NEW w \in Workers, LostJoined(w) PROVE LocalsTyped'
  BY <1>0, <1>22 DEF LostJoined
<1>23. ASSUME NEW w \in Workers, LostLoad(w) PROVE LocalsTyped'
  BY <1>0, <1>23 DEF LostLoad
<1>24. ASSUME NEW w \in Workers, LostExchange(w) PROVE LocalsTyped'
  BY <1>0, <1>24 DEF LostExchange
<1> QED
  BY <1>1, <1>3, <1>4, <1>5, <1>6, <1>7, <1>8, <1>9, <1>10, <1>11, <1>12, <1>13, <1>14,
     <1>15, <1>16, <1>17, <1>18, <1>19, <1>20, <1>21, <1>22, <1>23, <1>24
     DEF Next, Connect, Register, Loop, Lost

(* Every step keeps the type invariant. *)
LEMMA TypeStep ==
  ASSUME IInv, [Next]_vars
  PROVE  TypeOK'
<1>0. IdleTypeOK /\ HostTyped /\ LocalsTyped
  BY TypeParts DEF IInv
<1>1. LocalsTyped'
  BY LocalsStep
<1>2. CASE IdleNext /\ UNCHANGED sessionVars
  <2>1. IdleTypeOK'
    BY <1>0, <1>2, IdleTypeStep
  <2>2. HostTyped'
    BY <1>0, <1>2 DEF HostTyped, sessionVars
  <2> QED
    BY <1>1, <2>1, <2>2 DEF TypeOK, HostTyped, LocalsTyped
<1>3. ASSUME IdleTypeOK', HostTyped' PROVE TypeOK'
  BY <1>1, <1>3 DEF TypeOK, HostTyped, LocalsTyped
<1>4. ASSUME UNCHANGED <<idleVars, paused, pauses, rebindEpoch>> PROVE TypeOK'
  BY <1>0, <1>3, <1>4 DEF IdleTypeOK, HostTyped, idleVars, counters
<1>5. CASE SetPaused \/ RebindRequest
  <2>1. HostTyped'
    <3>1. paused' \in BOOLEAN
      BY <1>0, <1>5 DEF HostTyped, SetPaused, RebindRequest
    <3>2. pauses' \in 0..MaxPauses /\ rebindEpoch' \in 0..MaxRebinds
      BY <1>0, <1>5, SessionAssumption DEF HostTyped, SetPaused, RebindRequest
    <3> QED
      BY <3>1, <3>2 DEF HostTyped
  <2>2. IdleTypeOK'
    BY <1>0, <1>5 DEF IdleTypeOK, idleVars, counters, SetPaused, RebindRequest
  <2> QED
    BY <1>3, <2>1, <2>2
<1>6. ASSUME NEW w \in Workers, LostExchange(w) \/ LostAnnounce(w) PROVE TypeOK'
  BY <1>0, <1>3, <1>6 DEF IdleTypeOK, HostTyped, counters, LostExchange, LostAnnounce
<1>7. ASSUME NEW w \in Workers, Connect(w) PROVE TypeOK'
  BY <1>4, <1>7 DEF Connect, Start, ReadEpoch, Dial, Connected, ConnectFails,
     RebindWhileConnecting, ChannelBound
<1>8. ASSUME NEW w \in Workers, Register(w) PROVE TypeOK'
  BY <1>4, <1>8 DEF Register, ReadGeneration, ReadOffset, ReadDeclared, SendGetConf,
     GetConfTimeout, HandshakeFails, TunConf, NoConfig, ReadLoopEpoch, ReadAnnounce
<1>9. ASSUME NEW w \in Workers, Loop(w) PROVE TypeOK'
  BY <1>4, <1>9 DEF Loop, LoopRebind, LoopParked, LoopEndsQuietly, LoopAnnounce, Reannounced,
     ReannounceFails
<1>10. ASSUME NEW w \in Workers, PathLost(w) \/ LostIgnored(w) \/ LostJoined(w) \/ LostLoad(w)
       PROVE TypeOK'
  BY <1>4, <1>10 DEF PathLost, LostIgnored, LostJoined, LostLoad
<1>11. CASE UNCHANGED vars
  BY <1>4, <1>11 DEF vars, sessionVars
<1> QED
  BY <1>2, <1>5, <1>6, <1>7, <1>8, <1>9, <1>10, <1>11 DEF Next, Lost

-----------------------------------------------------------------------------
(* A worker's phases: what its locals say of where it is. *)
PhaseInv == Tries /\ Phases /\ Rebinds /\ Losing

(* Every step keeps what the locals say of a worker's phase. *)
LEMMA PhaseStep ==
  ASSUME IInv, [Next]_vars
  PROVE  PhaseInv'
<1> USE IdleAssumption, SessionAssumption
        DEF PhaseInv, Tries, Phases, Rebinds, Losing, LocalsTyped, HostTyped, Goto, DropPayload,
            payload
<1>0. LocalsTyped /\ HostTyped /\ PhaseInv
  BY TypeParts DEF IInv
<1>1. ASSUME (IdleNext /\ UNCHANGED sessionVars) \/ UNCHANGED vars \/ SetPaused \/ RebindRequest
      PROVE PhaseInv'
  BY <1>0, <1>1 DEF sessionVars, vars, SetPaused, RebindRequest
<1>2. ASSUME NEW w \in Workers, End(w), UNCHANGED joined, UNCHANGED rebindEpoch PROVE PhaseInv'
  BY <1>0, <1>2 DEF End
<1>3. ASSUME NEW w \in Workers,
             ConnectFails(w) \/ RebindWhileConnecting(w) \/ HandshakeFails(w) \/ LoopRebind(w)
               \/ LoopParked(w) \/ LoopEndsQuietly(w) \/ LostIgnored(w) \/ LostAnnounce(w)
      PROVE PhaseInv'
  BY <1>2, <1>3 DEF ConnectFails, RebindWhileConnecting, HandshakeFails, LoopRebind,
     LoopParked, LoopEndsQuietly, LostIgnored, LostAnnounce
<1>4. ASSUME NEW w \in Workers,
             Start(w) \/ ReadEpoch(w) \/ Dial(w) \/ Connected(w) \/ ChannelBound(w)
      PROVE PhaseInv'
  <2>1. CASE Start(w)
    BY <1>0, <2>1 DEF Start
  <2>2. CASE ReadEpoch(w)
    BY <1>0, <2>2 DEF ReadEpoch
  <2>3. CASE Dial(w)
    BY <1>0, <2>3 DEF Dial
  <2>4. CASE Connected(w)
    BY <1>0, <2>4 DEF Connected
  <2>5. CASE ChannelBound(w)
    BY <1>0, <2>5 DEF ChannelBound
  <2> QED
    BY <1>4, <2>1, <2>2, <2>3, <2>4, <2>5
<1>5. ASSUME NEW w \in Workers, ReadGeneration(w) \/ ReadOffset(w) \/ ReadDeclared(w)
      PROVE PhaseInv'
  <2>1. CASE ReadGeneration(w)
    BY <1>0, <2>1 DEF ReadGeneration
  <2>2. CASE ReadOffset(w)
    BY <1>0, <2>2 DEF ReadOffset
  <2>3. CASE ReadDeclared(w)
    BY <1>0, <2>3 DEF ReadDeclared
  <2> QED
    BY <1>5, <2>1, <2>2, <2>3
<1>6. ASSUME NEW w \in Workers, SendGetConf(w) \/ GetConfTimeout(w)
      PROVE PhaseInv'
  <2>1. CASE SendGetConf(w)
    BY <1>0, <2>1 DEF SendGetConf
  <2>2. CASE GetConfTimeout(w)
    BY <1>0, <2>2 DEF GetConfTimeout
  <2> QED
    BY <1>6, <2>1, <2>2
<1>7. ASSUME NEW w \in Workers, ReadLoopEpoch(w) \/ ReadAnnounce(w) PROVE PhaseInv'
  <2>1. CASE ReadLoopEpoch(w)
    BY <1>0, <2>1 DEF ReadLoopEpoch
  <2>2. CASE ReadAnnounce(w)
    BY <1>0, <2>2 DEF ReadAnnounce
  <2> QED
    BY <1>7, <2>1, <2>2
<1>8. ASSUME NEW w \in Workers, TunConf(w) \/ NoConfig(w) PROVE PhaseInv'
  BY <1>0, <1>8 DEF TunConf, NoConfig
<1>9. ASSUME NEW w \in Workers, LoopAnnounce(w) PROVE PhaseInv'
  BY <1>0, <1>9 DEF LoopAnnounce
<1>10. ASSUME NEW w \in Workers, Reannounced(w) \/ ReannounceFails(w) PROVE PhaseInv'
  <2>1. CASE Reannounced(w)
    BY <1>0, <2>1 DEF Reannounced
  <2>2. CASE ReannounceFails(w)
    BY <1>0, <2>2 DEF ReannounceFails
  <2> QED
    BY <1>10, <2>1, <2>2
<1>11. ASSUME NEW w \in Workers, PathLost(w) \/ LostJoined(w) PROVE PhaseInv'
  BY <1>0, <1>11 DEF PathLost, LostJoined
<1>12. ASSUME NEW w \in Workers, LostLoad(w) PROVE PhaseInv'
  <2>1. /\ pc[w] = "load" /\ pc' = [pc EXCEPT ![w] = "cas"]
        /\ cur' = [cur EXCEPT ![w] = genOffset]
        /\ joined[w] - 1 = genOffset /\ joined[w] \in Nat /\ joined[w] # 0
    BY <1>0, <1>12 DEF LostLoad
  <2>2. genOffset + 1 = joined[w]
    BY <2>1
  <2>3. Losing'
    BY <1>0, <1>12, <2>1, <2>2 DEF LostLoad
  <2> QED
    BY <1>0, <1>12, <2>1, <2>3 DEF LostLoad
<1>13. ASSUME NEW w \in Workers, LostExchange(w) PROVE PhaseInv'
  BY <1>0, <1>13 DEF LostExchange
<1> QED
  BY <1>1, <1>3, <1>4, <1>5, <1>6, <1>7, <1>8, <1>9, <1>10, <1>11, <1>12, <1>13
     DEF Next, Connect, Register, Loop, Lost

-----------------------------------------------------------------------------
(* The epochs: who stores GEN_OFFSET or DECLARED bumps ANNOUNCE. *)

(* Steps of idle.rs. *)
LEMMA AnnouncedIdleStep ==
  ASSUME IInv, IdleNext, UNCHANGED sessionVars
  PROVE  Announced'
<1> USE DEF Announced, Loaded, UpToDate, Pending, ExitStep, sessionVars, LocalsTyped,
            IdleTypeOK, InjStep
<1>0. LocalsTyped /\ IdleTypeOK /\ Announced
  BY TypeParts DEF IInv
<1>1. CASE EnterSwap
  BY <1>0, <1>1 DEF EnterSwap
<1>2. CASE EnterLimit \/ EnterDeclared \/ EnterGen
  BY <1>0, <1>2 DEF EnterLimit, EnterDeclared, EnterGen
<1>3. CASE EnterAnnounce
  BY <1>0, <1>3 DEF EnterAnnounce
<1>4. CASE EnterWindows
  BY <1>0, <1>4 DEF EnterWindows
<1>5. ASSUME NEW i \in Injectors, NoteUplink(i) PROVE Announced'
  <2>1. /\ \E q \in {"swap", "run"} : inj' = [inj EXCEPT ![i] = q]
        /\ inj[i] = "run"
        /\ UNCHANGED <<declared, genOffset, announce, mon>>
    BY <1>5 DEF NoteUplink
  <2> QED
    BY <1>0, <2>1
<1>6. ASSUME NEW i \in Injectors, ExitSwap(i) PROVE Announced'
  BY <1>0, <1>6 DEF ExitSwap
<1>7. ASSUME NEW i \in Injectors, ExitLimit(i) PROVE Announced'
  BY <1>0, <1>7 DEF ExitLimit
<1>8. ASSUME NEW i \in Injectors, ExitDeclared(i) PROVE Announced'
  BY <1>0, <1>8 DEF ExitDeclared
<1>9. ASSUME NEW i \in Injectors, ExitAnnounce(i) PROVE Announced'
  BY <1>0, <1>9 DEF ExitAnnounce
<1> QED
  BY <1>1, <1>2, <1>3, <1>4, <1>5, <1>6, <1>7, <1>8, <1>9 DEF IdleNext, Monitor, Injector

(* A worker that neither stores nor bumps: the others are as they were. *)
LEMMA AnnouncedLocal ==
  ASSUME IInv, NEW w \in Workers,
         UNCHANGED <<mon, inj, genOffset, declared, announce>>,
         pc[w] # "bump", \E q \in Step : pc' = [pc EXCEPT ![w] = q],
         \A u \in Workers \ {w} :
           /\ seen'[u] = seen[u] /\ inLoop'[u] = inLoop[u] /\ relisted'[u] = relisted[u]
           /\ pgen'[u] = pgen[u] /\ pcount'[u] = pcount[u] /\ advert'[u] = advert[u],
         seen'[w] <= announce,
         ~Pending /\ announce = seen'[w] => Loaded(w)'
  PROVE  Announced'
<1>0. LocalsTyped /\ Announced
  BY TypeParts DEF IInv
<1>2. ~Pending' => ~Pending
  BY <1>0 DEF Pending, LocalsTyped
<1>3. ASSUME NEW u \in Workers \ {w} PROVE Loaded(u) <=> Loaded(u)'
  BY <1>0 DEF Loaded, UpToDate, LocalsTyped
<1> QED
  BY <1>0, <1>2, <1>3 DEF Announced

(* Every step keeps Announced: a session noted ANNOUNCE before it loaded. *)
LEMMA AnnouncedStep ==
  ASSUME IInv, [Next]_vars
  PROVE  Announced'
<1> USE DEF Goto, payload, LocalsTyped, idleVars
<1>0. LocalsTyped /\ Announced /\ Phases /\ IdleTypeOK
  BY TypeParts DEF IInv
<1>1. CASE IdleNext /\ UNCHANGED sessionVars
  BY <1>1, AnnouncedIdleStep
<1>2. CASE UNCHANGED vars \/ SetPaused \/ RebindRequest
  BY <1>0, <1>2 DEF vars, sessionVars, SetPaused, RebindRequest, Announced, Loaded, UpToDate,
     Pending
<1>3. ASSUME NEW w \in Workers, End(w), UNCHANGED <<mon, inj, genOffset, declared, announce>>,
             pc[w] # "bump"
      PROVE  Announced'
  <2>1. /\ pc' = [pc EXCEPT ![w] = "gate"] /\ seen'[w] = 0 /\ pc'[w] = "gate"
        /\ inLoop'[w] = FALSE
    BY <1>0, <1>3 DEF End
  <2>2. \A u \in Workers \ {w} :
           /\ seen'[u] = seen[u] /\ inLoop'[u] = inLoop[u] /\ relisted'[u] = relisted[u]
           /\ pgen'[u] = pgen[u] /\ pcount'[u] = pcount[u] /\ advert'[u] = advert[u]
    BY <1>0, <1>3 DEF End, DropPayload
  <2>3. Loaded(w)' /\ seen'[w] <= announce
    BY <1>0, <2>1 DEF Loaded, IdleTypeOK
  <2>4. \E q \in Step : pc' = [pc EXCEPT ![w] = q]
    BY <2>1 DEF Step
  <2>5. pc[w] # "bump" /\ UNCHANGED <<mon, inj, genOffset, declared, announce>>
    BY <1>3
  <2>6. ~Pending /\ announce = seen'[w] => Loaded(w)'
    BY <2>3
  <2> HIDE DEF Goto, payload, LocalsTyped, idleVars
  <2> QED
    BY <2>2, <2>3, <2>4, <2>5, <2>6, AnnouncedLocal
<1>4. ASSUME NEW w \in Workers,
             ConnectFails(w) \/ RebindWhileConnecting(w) \/ HandshakeFails(w) \/ LoopRebind(w)
               \/ LoopParked(w) \/ LoopEndsQuietly(w) \/ LostIgnored(w)
      PROVE Announced'
  BY <1>3, <1>4 DEF ConnectFails, RebindWhileConnecting, HandshakeFails, LoopRebind,
     LoopParked, LoopEndsQuietly, LostIgnored
(* A step of w that touches neither the epochs nor what w has loaded.      *)
<1>5. ASSUME NEW w \in Workers, UNCHANGED <<idleVars, inLoop, relisted, advert, seen>>,
             pc[w] # "bump", ~inLoop[w], ~relisted[w],
             \E q \in Step : pc' = [pc EXCEPT ![w] = q],
             \A u \in Workers \ {w} : pgen'[u] = pgen[u] /\ pcount'[u] = pcount[u]
      PROVE  Announced'
  <2>1. Loaded(w)' /\ seen'[w] <= announce
    BY <1>0, <1>5 DEF Loaded, Announced
  <2>2. UNCHANGED <<mon, inj, genOffset, declared, announce>>
    BY <1>5
  <2>3. \A u \in Workers \ {w} :
           /\ seen'[u] = seen[u] /\ inLoop'[u] = inLoop[u] /\ relisted'[u] = relisted[u]
           /\ pgen'[u] = pgen[u] /\ pcount'[u] = pcount[u] /\ advert'[u] = advert[u]
    BY <1>5
  <2> HIDE DEF Goto, payload, LocalsTyped, idleVars
  <2> QED
    BY <1>5, <2>1, <2>2, <2>3, AnnouncedLocal
<1>6. ASSUME NEW w \in Workers,
             Start(w) \/ ReadEpoch(w) \/ Dial(w) \/ Connected(w) \/ ChannelBound(w)
               \/ GetConfTimeout(w) \/ ReadLoopEpoch(w)
      PROVE Announced'
  <2>1. pc[w] \in {"gate", "epoch", "dial", "connect", "channel", "await", "rebind"}
    BY <1>6 DEF Start, ReadEpoch, Dial, Connected, ChannelBound, GetConfTimeout, ReadLoopEpoch
  <2>2. ~inLoop[w] /\ ~relisted[w]
    BY <1>0, <2>1 DEF Phases
  <2>3. \E q \in Step : pc' = [pc EXCEPT ![w] = q]
    BY <1>6 DEF Start, ReadEpoch, Dial, Connected, ChannelBound, GetConfTimeout, ReadLoopEpoch,
       Step
  <2>4. UNCHANGED <<idleVars, inLoop, relisted, advert, seen, pgen, pcount>>
    BY <1>6 DEF Start, ReadEpoch, Dial, Connected, ChannelBound, GetConfTimeout, ReadLoopEpoch
  <2> QED
    BY <1>5, <2>1, <2>2, <2>3, <2>4
<1>7. ASSUME NEW w \in Workers, TunConf(w) \/ NoConfig(w) PROVE Announced'
  <2>1. pc[w] = "await" /\ pc' = [pc EXCEPT ![w] = "rebind"]
    BY <1>7 DEF TunConf, NoConfig
  <2>2. ~inLoop[w] /\ ~relisted[w]
    BY <1>0, <2>1 DEF Phases
  <2>3. UNCHANGED <<idleVars, inLoop, relisted, advert, seen>>
        /\ \A u \in Workers \ {w} : pgen'[u] = pgen[u] /\ pcount'[u] = pcount[u]
    BY <1>0, <1>7 DEF TunConf, NoConfig, DropPayload
  <2> QED
    BY <1>5, <2>1, <2>2, <2>3 DEF Step
<1>8. ASSUME NEW w \in Workers, SendGetConf(w) PROVE Announced'
  <2>1. pc[w] = "send" /\ pc' = [pc EXCEPT ![w] = "await"] /\ ~inLoop[w]
    BY <1>8 DEF SendGetConf
  <2>2. UNCHANGED <<mon, inj, genOffset, declared, announce, inLoop, relisted, seen, pgen, pcount>>
        /\ \A u \in Workers \ {w} : advert'[u] = advert[u]
    BY <1>0, <1>8 DEF SendGetConf
  <2>3. Loaded(w)' /\ seen'[w] <= announce
    BY <1>0, <2>1, <2>2 DEF Loaded, Announced
  <2>4. \E q \in Step : pc' = [pc EXCEPT ![w] = q]
    BY <2>1 DEF Step
  <2>5. \A u \in Workers \ {w} :
           /\ seen'[u] = seen[u] /\ inLoop'[u] = inLoop[u] /\ relisted'[u] = relisted[u]
           /\ pgen'[u] = pgen[u] /\ pcount'[u] = pcount[u] /\ advert'[u] = advert[u]
    BY <2>2
  <2> HIDE DEF Goto, payload, LocalsTyped, idleVars
  <2> QED
    BY <2>1, <2>2, <2>3, <2>4, <2>5, AnnouncedLocal
(* The three loads of build_registration_payload.                          *)
<1>9. ASSUME NEW w \in Workers, ReadGeneration(w) \/ ReadOffset(w) \/ ReadDeclared(w)
      PROVE Announced'
  <2>1. /\ pc[w] \in {"gen", "off", "count"}
        /\ \E q \in Step : pc' = [pc EXCEPT ![w] = q]
        /\ UNCHANGED <<mon, inj, genOffset, declared, announce, inLoop, relisted, seen, advert>>
        /\ \A u \in Workers \ {w} : pgen'[u] = pgen[u] /\ pcount'[u] = pcount[u]
    BY <1>0, <1>9 DEF ReadGeneration, ReadOffset, ReadDeclared, Step
  <2>2. ~Pending /\ announce = seen'[w] => Loaded(w)'
    <3>1. CASE ReadGeneration(w)
      BY <1>0, <3>1 DEF ReadGeneration, Loaded
    <3>2. CASE ReadOffset(w)
      BY <1>0, <3>2 DEF ReadOffset, Loaded, Announced
    <3>3. CASE ReadDeclared(w)
      BY <1>0, <3>3 DEF ReadDeclared, Loaded, Announced
    <3> QED
      BY <1>9, <3>1, <3>2, <3>3
  <2>3. seen'[w] <= announce
    BY <1>0, <2>1 DEF Announced
  <2>4. \A u \in Workers \ {w} :
           /\ seen'[u] = seen[u] /\ inLoop'[u] = inLoop[u] /\ relisted'[u] = relisted[u]
           /\ pgen'[u] = pgen[u] /\ pcount'[u] = pcount[u] /\ advert'[u] = advert[u]
    BY <2>1
  <2>5. pc[w] # "bump" /\ UNCHANGED <<mon, inj, genOffset, declared, announce>>
        /\ \E q \in Step : pc' = [pc EXCEPT ![w] = q]
    BY <2>1
  <2> HIDE DEF Goto, payload, LocalsTyped, idleVars
  <2> QED
    BY <2>2, <2>3, <2>4, <2>5, AnnouncedLocal
(* ReadAnnounce and LoopAnnounce note ANNOUNCE before anything is loaded. *)
<1>10. ASSUME NEW w \in Workers, ReadAnnounce(w) \/ LoopAnnounce(w) PROVE Announced'
  <2>1. /\ pc[w] \in {"seen", "loop"}
        /\ UNCHANGED <<mon, inj, genOffset, declared, announce, relisted, advert, pgen, pcount>>
        /\ \A u \in Workers \ {w} : seen'[u] = seen[u] /\ inLoop'[u] = inLoop[u]
        /\ seen'[w] = announce
    BY <1>0, <1>10 DEF ReadAnnounce, LoopAnnounce
  <2>2. \E q \in Step : pc' = [pc EXCEPT ![w] = q]
    BY <1>10 DEF ReadAnnounce, LoopAnnounce, Step
  <2>3. Loaded(w)'
    <3>1. CASE ReadAnnounce(w)
      <4>1. ~inLoop[w] /\ ~relisted[w]
        BY <1>0, <3>1 DEF ReadAnnounce, Phases
      <4> QED
        BY <1>0, <3>1, <4>1 DEF ReadAnnounce, Loaded
    <3>2. CASE LoopAnnounce(w)
      BY <1>0, <3>2 DEF LoopAnnounce, Loaded
    <3> QED
      BY <1>10, <3>1, <3>2
  <2>4. \A u \in Workers \ {w} :
           /\ seen'[u] = seen[u] /\ inLoop'[u] = inLoop[u] /\ relisted'[u] = relisted[u]
           /\ pgen'[u] = pgen[u] /\ pcount'[u] = pcount[u] /\ advert'[u] = advert[u]
    BY <2>1
  <2>5. pc[w] # "bump" /\ UNCHANGED <<mon, inj, genOffset, declared, announce>>
    BY <2>1
  <2>6. seen'[w] <= announce
    BY <1>0, <2>1 DEF IdleTypeOK
  <2> HIDE DEF Goto, payload, LocalsTyped, idleVars
  <2> QED
    BY <2>2, <2>3, <2>4, <2>5, <2>6, AnnouncedLocal
(* The payload reaches the writer, or is dropped. *)
<1>11. ASSUME NEW w \in Workers, Reannounced(w) \/ ReannounceFails(w) PROVE Announced'
  <2>1. /\ pc[w] = "send" /\ inLoop[w] /\ pc' = [pc EXCEPT ![w] = "loop"]
        /\ UNCHANGED <<mon, inj, genOffset, declared, announce, seen>>
        /\ inLoop'[w] = FALSE
    BY <1>0, <1>11 DEF Reannounced, ReannounceFails
  <2>2. \A u \in Workers \ {w} :
           /\ seen'[u] = seen[u] /\ inLoop'[u] = inLoop[u] /\ relisted'[u] = relisted[u]
           /\ pgen'[u] = pgen[u] /\ pcount'[u] = pcount[u] /\ advert'[u] = advert[u]
    BY <1>0, <1>11 DEF Reannounced, ReannounceFails, DropPayload
  <2>3. ~Pending /\ announce = seen'[w] => Loaded(w)'
    <3>1. CASE Reannounced(w)
      <4>1. advert'[w] = [gen |-> pgen[w], count |-> pcount[w]]
        BY <1>0, <3>1 DEF Reannounced, Payload
      <4>2. ~Pending /\ announce = seen[w] => pgen[w] = genOffset /\ pcount[w] = declared
        BY <1>0, <2>1 DEF Announced, Loaded
      <4> QED
        BY <1>0, <2>1, <4>1, <4>2 DEF Loaded, UpToDate
    <3>2. CASE ReannounceFails(w)
      BY <1>0, <2>1, <3>2 DEF ReannounceFails, Loaded
    <3> QED
      BY <1>11, <3>1, <3>2
  <2>4. \E q \in Step : pc' = [pc EXCEPT ![w] = q]
    BY <2>1 DEF Step
  <2>5. pc[w] # "bump" /\ UNCHANGED <<mon, inj, genOffset, declared, announce>>
    BY <2>1
  <2>6. seen'[w] <= announce
    BY <1>0, <2>1 DEF Announced
  <2> HIDE DEF Goto, payload, LocalsTyped, idleVars
  <2> QED
    BY <2>2, <2>3, <2>4, <2>5, <2>6, AnnouncedLocal
<1>12. ASSUME NEW w \in Workers, PathLost(w) \/ LostJoined(w) \/ LostLoad(w) PROVE Announced'
  <2>1. /\ pc[w] \in {"loop", "lost", "load"}
        /\ UNCHANGED <<mon, inj, genOffset, declared, announce, seen, inLoop, relisted, pgen,
                       pcount, advert>>
    BY <1>12 DEF PathLost, LostJoined, LostLoad
  <2>2. /\ \E q \in Step : pc' = [pc EXCEPT ![w] = q]
        /\ pc'[w] \in {"lost", "load", "cas"}
    BY <1>0, <1>12 DEF PathLost, LostJoined, LostLoad, Step
  <2>3. Loaded(w)' /\ seen'[w] <= announce
    BY <1>0, <2>1, <2>2 DEF Loaded, Announced
  <2>4. \A u \in Workers \ {w} :
           /\ seen'[u] = seen[u] /\ inLoop'[u] = inLoop[u] /\ relisted'[u] = relisted[u]
           /\ pgen'[u] = pgen[u] /\ pcount'[u] = pcount[u] /\ advert'[u] = advert[u]
    BY <2>1
  <2>5. pc[w] # "bump" /\ UNCHANGED <<mon, inj, genOffset, declared, announce>>
    BY <2>1
  <2> HIDE DEF Goto, payload, LocalsTyped, idleVars
  <2> QED
    BY <2>2, <2>3, <2>4, <2>5, AnnouncedLocal
(* The new epoch is stored: w is Pending.  It is announced: every session  *)
(* has noted an older ANNOUNCE.                                            *)
<1>13. ASSUME NEW w \in Workers, LostExchange(w) PROVE Announced'
  <2>1. Pending' /\ UNCHANGED <<seen, announce>>
    BY <1>0, <1>13 DEF LostExchange, Pending
  <2> QED
    BY <1>0, <2>1 DEF Announced
<1>14. ASSUME NEW w \in Workers, LostAnnounce(w) PROVE Announced'
  <2>1. announce' = announce + 1 /\ announce \in Nat
    BY <1>0, <1>14 DEF LostAnnounce, IdleTypeOK
  <2>2. \A u \in Workers : seen'[u] \in Nat /\ seen'[u] <= announce
    BY <1>0, <1>14, <2>1 DEF LostAnnounce, End, Announced
  <2> QED
    BY <2>1, <2>2 DEF Announced
<1> QED
  BY <1>1, <1>2, <1>4, <1>6, <1>7, <1>8, <1>9, <1>10, <1>11, <1>12, <1>13, <1>14
     DEF Next, Connect, Register, Loop, Lost

-----------------------------------------------------------------------------
(* The mode is none of the sessions' business. *)
LEMMA ModeStep ==
  ASSUME IInv, [Next]_vars
  PROVE  SeqMode'
<1>0. IdleTypeOK /\ SeqMode
  BY TypeParts DEF IInv
<1>1. CASE IdleNext
  BY <1>0, <1>1, SeqModeStep
<1>2. ASSUME UNCHANGED <<active, limit, declared, mon, inj, overlap>> PROVE SeqMode'
  BY <1>0, <1>2 DEF SeqMode, ModeAgrees, Settled, Entering, Exiting
<1>3. CASE SetPaused \/ RebindRequest \/ UNCHANGED vars
  BY <1>2, <1>3 DEF SetPaused, RebindRequest, vars, idleVars
<1>4. ASSUME NEW w \in Workers, Connect(w) PROVE SeqMode'
  BY <1>2, <1>4 DEF Connect, Start, ReadEpoch, Dial, Connected, ConnectFails,
     RebindWhileConnecting, ChannelBound, idleVars
<1>5. ASSUME NEW w \in Workers, Register(w) PROVE SeqMode'
  BY <1>2, <1>5 DEF Register, ReadGeneration, ReadOffset, ReadDeclared, SendGetConf,
     GetConfTimeout, HandshakeFails, TunConf, NoConfig, ReadLoopEpoch, ReadAnnounce, idleVars
<1>6. ASSUME NEW w \in Workers, Loop(w) PROVE SeqMode'
  BY <1>2, <1>6 DEF Loop, LoopRebind, LoopParked, LoopEndsQuietly, LoopAnnounce, Reannounced,
     ReannounceFails, idleVars
<1>7. ASSUME NEW w \in Workers, Lost(w) PROVE SeqMode'
  BY <1>2, <1>7 DEF Lost, PathLost, LostIgnored, LostJoined, LostLoad, LostExchange,
     LostAnnounce, idleVars
<1> QED
  BY <1>1, <1>3, <1>4, <1>5, <1>6, <1>7 DEF Next

(* IInv is an invariant of the specification. *)
THEOREM Invariance == Spec => []IInv
<1>1. ASSUME IInv, [Next]_vars PROVE IInv'
  BY <1>1, TypeStep, PhaseStep, AnnouncedStep, ModeStep DEF IInv, PhaseInv
<1> QED
  BY InitInv, <1>1, PTL DEF Spec

(* Type correctness; a handshake sends at most Attempts registrations.     *)
THEOREM TypeCorrect == Spec => []TypeOK
<1>1. IInv => TypeOK
  BY DEF IInv
<1> QED
  BY Invariance, <1>1, PTL

(* idle.rs: ACTIVE, LIMIT and DECLARED tell one story whenever no change   *)
(* of mode is under way, unless an enter and an exit have overlapped.      *)
THEOREM SequentialModeAgrees == Spec => []ModeAgreesSequentially
<1>1. IInv => ModeAgreesSequentially
  BY DEF IInv, SeqMode, ModeAgreesSequentially
<1> QED
  BY Invariance, <1>1, PTL

(* run_allocated_session, announce branch: a session that registered again *)
(* is up to date, or will register once more.                              *)
THEOREM CatchesUp == Spec => []ReannounceCatchesUp
<1>1. IInv => ReannounceCatchesUp
  BY DEF IInv, Announced, Loaded, Pending, ReannounceCatchesUp, Quiet, Settled, Entering,
     Exiting, ExitStep
<1> QED
  BY Invariance, <1>1, PTL

(* run_session: an allocation under construction is told of every change   *)
(* of network after its sockets were opened.                               *)
THEOREM ConnectIsTold == Spec => []ConnectSeesRebind
<1>1. ASSUME IInv PROVE ConnectSeesRebind
  <2> SUFFICES ASSUME NEW w \in Workers, pc[w] = "connect", rseen[w] = rebindEpoch
               PROVE  sock[w] = rebindEpoch
    BY DEF ConnectSeesRebind
  <2>1. rseen[w] \in 0..MaxRebinds /\ sock[w] \in 0..MaxRebinds /\ rebindEpoch \in 0..MaxRebinds
    BY <1>1, TypeParts DEF IInv, LocalsTyped, HostTyped
  <2>2. rseen[w] <= sock[w] /\ sock[w] <= rebindEpoch
    BY <1>1 DEF IInv, Rebinds
  <2> QED
    BY <2>1, <2>2, SessionAssumption
<1> QED
  BY Invariance, <1>1, PTL

(* note_path_lost: a lost path closes only the epoch it had joined.        *)
THEOREM ClosesOwnEpoch == Spec => LossClosesOwnEpoch
<1>1. IInv /\ [Next]_vars =>
        [\A w \in Workers : pc[w] = "cas" /\ pc'[w] = "bump" => genOffset + 1 = joined[w]]_vars
  <2> SUFFICES ASSUME IInv, Next, NEW w \in Workers, pc[w] = "cas", pc'[w] = "bump"
               PROVE  genOffset + 1 = joined[w]
    OBVIOUS
  <2>0. LocalsTyped
    BY TypeParts DEF IInv
  <2>1. LostExchange(w)
    <3>1. CASE (IdleNext /\ UNCHANGED sessionVars) \/ SetPaused \/ RebindRequest
      BY <3>1 DEF sessionVars, SetPaused, RebindRequest
    <3>2. ASSUME NEW v \in Workers, Connect(v) PROVE FALSE
      <4>1. pc[v] # "cas" /\ \E q \in Step : pc' = [pc EXCEPT ![v] = q]
        BY <3>2 DEF Connect, Start, ReadEpoch, Dial, Connected, ConnectFails,
           RebindWhileConnecting, ChannelBound, Goto, End, Step
      <4> QED
        BY <2>0, <4>1 DEF LocalsTyped
    <3>3. ASSUME NEW v \in Workers, Register(v) PROVE FALSE
      <4>1. pc[v] # "cas" /\ \E q \in Step : pc' = [pc EXCEPT ![v] = q]
        BY <3>3 DEF Register, ReadGeneration, ReadOffset, ReadDeclared, SendGetConf,
           GetConfTimeout, HandshakeFails, TunConf, NoConfig, ReadLoopEpoch, ReadAnnounce,
           Goto, End, Step
      <4> QED
        BY <2>0, <4>1 DEF LocalsTyped
    <3>4. ASSUME NEW v \in Workers, Loop(v) PROVE FALSE
      <4>1. pc[v] # "cas" /\ \E q \in Step : pc' = [pc EXCEPT ![v] = q]
        BY <3>4 DEF Loop, LoopRebind, LoopParked, LoopEndsQuietly, LoopAnnounce, Reannounced,
           ReannounceFails, Goto, End, Step
      <4> QED
        BY <2>0, <4>1 DEF LocalsTyped
    <3>5. ASSUME NEW v \in Workers, Lost(v) PROVE LostExchange(w)
      <4>1. CASE LostExchange(v)
        BY <2>0, <4>1 DEF LostExchange, Goto, LocalsTyped
      <4>2. CASE PathLost(v) \/ LostIgnored(v) \/ LostJoined(v) \/ LostLoad(v) \/ LostAnnounce(v)
        <5>1. \E q \in Step \ {"bump"} : pc' = [pc EXCEPT ![v] = q]
          BY <4>2 DEF PathLost, LostIgnored, LostJoined, LostLoad, LostAnnounce, Goto, End, Step
        <5> QED
          BY <2>0, <5>1 DEF LocalsTyped
      <4> QED
        BY <3>5, <4>1, <4>2 DEF Lost
    <3> QED
      BY <3>1, <3>2, <3>3, <3>4, <3>5 DEF Next
  <2>2. genOffset = cur[w]
    BY <2>1 DEF LostExchange
  <2> QED
    BY <2>2 DEF IInv, Losing
<1> QED
  BY Invariance, <1>1, PTL DEF Spec, LossClosesOwnEpoch
=============================================================================
