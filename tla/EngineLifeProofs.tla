-------------------------- MODULE EngineLifeProofs --------------------------
(***************************************************************************)
(* Safety of the statics that successive engines share (EngineLife, lib.rs *)
(* and ffi.rs), for any number of runs, workers and addresses.             *)
(*                                                                         *)
(* A run that was quiet, or over, when the last one was spawned stays so:  *)
(* it no longer writes the token, the gate or the bridge, and once over it *)
(* writes nothing.  So the cells are those of the last run, as far as it   *)
(* has come, and the bridge is ready only once that run's writer is there. *)
(* The sum of the sessions of all runs takes an induction: a step of one   *)
(* run changes it by what it changes in that run.                          *)
(***************************************************************************)
EXTENDS EngineLife, FiniteSetTheorems, WellFoundedInduction, TLAPS

Early == {"resolve", "token", "gate", "clear", "clear slot", "install", "install ready"}
Fresh == {"unborn"} \cup Early
Gated == {"clear", "clear slot", "install", "install ready"} \cup Started
Served == {"wait", "wait bridge", "check", "serving"}

(* What is so of a run, whatever the others and the helper do. *)
Sound(e) ==
    /\ e.opening + e.live <= Workers
    /\ e.at \notin {"serving", "unpause", "groups"} => e.opening = 0 /\ e.live = 0
    /\ e.at \in Fresh \cup {"over"} => e.mail = None
    /\ e.at \in Started => e.writer # "none"
    /\ e.writer # "none" => e.at \in Started \cup {"over"}
    /\ e.at = "over" => e.writer \in {"none", "done"}
    /\ e.at \in {"unpause", "groups", "tasks"} \/ e.writer \in {"clearing", "done"} =>
         e.cancelled

RunsAreSound ==
    \A r \in Runs : Sound(engine[r]) /\ (r > host.run <=> engine[r].at = "unborn")

HostIsSound ==
    /\ host.at \notin Served \cup {"down", "exited"} => host.run < MaxRuns
    /\ host.at \in Served => host.run \in Runs
    /\ host.at \in {"wait bridge", "check", "serving"} => statics.ip # None
    /\ host.at = "serving" => host.ip # None

(* What the older runs had come to, they do not go back on. *)
PastLasts ==
    /\ past.quiet => \A o \in Older(host.run) : Quiet(o)
    /\ past.alone => past.quiet /\ \A o \in Older(host.run) : engine[o].at = "over"

(* The bridge is ready only while a writer of some run serves it. *)
ReadyIsServed == bridge.ready => \E r \in Runs : engine[r].writer = "running"

(* The statics are those of run r, as far as it has come. *)
WiredTo(r, e) ==
    /\ e.at \in Gated \cup {"gate"} \/ e.writer # "none" => statics.cancel = r
    /\ e.at \in Gated /\ ~e.cancelled => statics.pause = r
    /\ e.at \in {"install ready", "serving"} /\ ~e.cancelled => bridge.slot = r
    /\ e.at = "serving" /\ ~e.cancelled => bridge.ready
    /\ host.at \in {"check", "serving"} => e.writer # "none"

Wired == host.at \in Served /\ past.quiet => WiredTo(host.run, engine[host.run])

(* With the older runs over, the address and the paths are this run's. *)
Addressed ==
    host.at \in Served /\ past.alone /\ statics.ip # None => statics.by = host.run

CountedAlone ==
    LET e == engine[host.run] IN
    past.alone /\ host.run \in Runs /\ (e.at \in Gated \/ e.writer # "none") =>
      statics.active = e.live

IInv ==
    /\ TypeOK
    /\ RunsAreSound /\ HostIsSound /\ PastLasts /\ ReadyIsServed
    /\ Wired /\ Addressed /\ CountedAlone
    /\ statics.active <= Live(Runs)

-----------------------------------------------------------------------------
(* The principle of induction, for sets. *)
LEMMA SetInduction ==
  ASSUME NEW T, T \subseteq Nat, 0 \in T, \A n \in T : n + 1 \in T
  PROVE  T = Nat
<1> DEFINE R == OpToRel(<, Nat)
<1> SUFFICES ASSUME Nat \ T # {} PROVE FALSE
  OBVIOUS
<1>1. IsWellFoundedOn(R, Nat)
  BY NatLessThanWellFounded
<1>2. PICK x \in Nat \ T : \A y \in Nat \ T : <<y, x>> \notin R
  BY <1>1, WFMin
<1>3. x - 1 \in Nat /\ x - 1 \notin T /\ x - 1 < x
  BY x # 0
<1>4. <<x - 1, x>> \in R
  BY <1>3 DEF OpToRel
<1> QED
  BY <1>2, <1>3, <1>4

(* MapThenSumSet: the sum over s, given the sums over smaller sets. *)
Total(e, S) == MapThenSumSet(LAMBDA r : e[r].live, S)
One(s) == CHOOSE x \in s : TRUE
Body(e, g, s) == IF s = {} THEN 0 ELSE e[One(s)].live + g[s \ {One(s)}]
Sums(e, g, S) == g = [s \in SUBSET S |-> Body(e, g, s)]
Counts(e, S) == \A r \in S : e[r].live \in Nat

(* Taking one element out of a set makes it smaller. *)
LEMMA Smaller ==
  ASSUME NEW S, IsFiniteSet(S), NEW s \in SUBSET S, s # {}
  PROVE  /\ One(s) \in s /\ s \ {One(s)} \in SUBSET S
         /\ IsFiniteSet(s) /\ Cardinality(s) \in Nat \ {0}
         /\ Cardinality(s \ {One(s)}) = Cardinality(s) - 1
<1>1. One(s) \in s
  BY DEF One
<1>2. IsFiniteSet(s)
  BY FS_Subset
<1>3. Cardinality(s) \in Nat \ {0}
  BY <1>2, FS_CardinalityType, FS_EmptySet
<1>4. Cardinality(s \ {One(s)}) = Cardinality(s) - 1
  BY <1>1, <1>2, FS_RemoveElement
<1> QED
  BY <1>1, <1>2, <1>3, <1>4

(* There is such a function, built up set size by set size. *)
LEMMA SumsExist ==
  ASSUME NEW S, IsFiniteSet(S), NEW e, Counts(e, S)
  PROVE  \E g \in [SUBSET S -> Nat] : Sums(e, g, S)
<1> DEFINE UpTo(g, n) == \A s \in SUBSET S : Cardinality(s) <= n => g[s] = Body(e, g, s)
           T == {n \in Nat : \E g \in [SUBSET S -> Nat] : UpTo(g, n)}
<1> USE Smaller
<1>0. ASSUME NEW s \in SUBSET S, Cardinality(s) <= 0 PROVE s = {}
  <2>1. IsFiniteSet(s) /\ Cardinality(s) \in Nat
    BY FS_Subset, FS_CardinalityType
  <2> QED
    BY <1>0, <2>1, FS_EmptySet
<1>1. ASSUME NEW g \in [SUBSET S -> Nat], NEW s \in SUBSET S
      PROVE  Body(e, g, s) \in Nat
  <2>1. CASE s = {}
    BY <2>1 DEF Body
  <2>2. CASE s # {}
    <3>1. e[One(s)].live \in Nat /\ g[s \ {One(s)}] \in Nat
      BY <2>2 DEF Counts
    <3> QED
      BY <2>2, <3>1 DEF Body
  <2> QED
    BY <2>1, <2>2
<1>2. 0 \in T
  <2> DEFINE g == [s \in SUBSET S |-> 0]
  <2>1. ASSUME NEW s \in SUBSET S, Cardinality(s) <= 0 PROVE g[s] = Body(e, g, s)
    <3>1. s = {}
      BY <1>0, <2>1
    <3> QED
      BY <3>1 DEF Body
  <2>2. g \in [SUBSET S -> Nat] /\ UpTo(g, 0)
    BY <2>1
  <2> QED
    BY <2>2
<1>3. ASSUME NEW n \in T PROVE n + 1 \in T
  <2>1. n \in Nat /\ \E g \in [SUBSET S -> Nat] : UpTo(g, n)
    OBVIOUS
  <2>2. PICK g \in [SUBSET S -> Nat] : UpTo(g, n)
    BY <2>1
  <2> DEFINE h == [s \in SUBSET S |-> Body(e, g, s)]
  <2>3. h \in [SUBSET S -> Nat]
    BY <1>1
  <2>4. ASSUME NEW s \in SUBSET S, Cardinality(s) <= n + 1 PROVE h[s] = Body(e, h, s)
    <3>1. CASE s = {}
      BY <3>1 DEF Body
    <3>2. CASE s # {}
      <4>1. /\ s \ {One(s)} \in SUBSET S
            /\ Cardinality(s \ {One(s)}) = Cardinality(s) - 1 /\ Cardinality(s) \in Nat
        BY <3>2
      <4>2. Cardinality(s \ {One(s)}) <= n
        BY <2>1, <2>4, <4>1
      <4>3. h[s \ {One(s)}] = g[s \ {One(s)}]
        BY <2>2, <4>1, <4>2
      <4> QED
        BY <4>3, <3>2 DEF Body
    <3> QED
      BY <3>1, <3>2
  <2>5. UpTo(h, n + 1)
    BY <2>4
  <2> HIDE DEF UpTo, h
  <2> QED
    BY <2>1, <2>3, <2>5
<1>4. T = Nat
  <2> HIDE DEF T
  <2> T \subseteq Nat
    BY DEF T
  <2> QED
    BY <1>2, <1>3, SetInduction
<1>5. Cardinality(S) \in T
  BY <1>4, FS_CardinalityType
<1>6. PICK g \in [SUBSET S -> Nat] : UpTo(g, Cardinality(S))
  BY <1>5
<1>7. ASSUME NEW s \in SUBSET S PROVE g[s] = Body(e, g, s)
  BY <1>6, FS_Subset
<1> QED
  BY <1>7 DEF Sums

(* The sum that MapThenSumSet chooses is one of those that exist. *)
LEMMA TotalSums ==
  ASSUME NEW S, IsFiniteSet(S), NEW e, Counts(e, S)
  PROVE  \E g : Sums(e, g, S) /\ Total(e, S) = g[S]
<1> DEFINE g == CHOOSE g : Sums(e, g, S)
<1>1. Sums(e, g, S)
  BY SumsExist
<1>2. Total(e, S) = g[S]
  BY DEF Total, MapThenSumSet, MapThenFoldSet, Sums, Body, One
<1> QED
  BY <1>1, <1>2

(* One count that changes by so much changes the sum by as much. *)
LEMMA TotalChanges ==
  ASSUME NEW S, IsFiniteSet(S), NEW e, Counts(e, S), NEW f, Counts(f, S),
         NEW r \in S, \A o \in S \ {r} : f[o].live = e[o].live
  PROVE  /\ Total(e, S) \in Nat
         /\ Total(f, S) = Total(e, S) + (f[r].live - e[r].live)
<1>1. PICK g : Sums(e, g, S) /\ Total(e, S) = g[S]
  BY TotalSums
<1>2. PICK h : Sums(f, h, S) /\ Total(f, S) = h[S]
  BY TotalSums
<1> DEFINE d == f[r].live - e[r].live
           Agree(s) == /\ g[s] \in Nat
                       /\ h[s] = g[s] + (IF r \in s THEN d ELSE 0)
           T == {n \in Nat : \A s \in SUBSET S : Cardinality(s) <= n => Agree(s)}
<1> d \in Int
  BY DEF Counts
<1> HIDE DEF d
<1>3. ASSUME NEW s \in SUBSET S PROVE g[s] = Body(e, g, s) /\ h[s] = Body(f, h, s)
  BY <1>1, <1>2 DEF Sums
<1>4. Agree({})
  BY <1>3 DEF Body
<1>5. 0 \in T
  <2>1. ASSUME NEW s \in SUBSET S, Cardinality(s) <= 0 PROVE s = {}
    <3>1. IsFiniteSet(s) /\ Cardinality(s) \in Nat
      BY FS_Subset, FS_CardinalityType
    <3> QED
      BY <2>1, <3>1, FS_EmptySet
  <2>2. ASSUME NEW s \in SUBSET S, Cardinality(s) <= 0 PROVE Agree(s)
    BY <1>4, <2>1, <2>2
  <2> HIDE DEF Agree
  <2> QED
    BY <2>2
<1>6. ASSUME NEW n \in T PROVE n + 1 \in T
  <2> n \in Nat
    OBVIOUS
  <2> SUFFICES ASSUME NEW s \in SUBSET S, Cardinality(s) <= n + 1, s # {}
               PROVE  Agree(s)
    <3> HIDE DEF Agree
    <3> QED
      BY <1>4
  <2> DEFINE x == One(s)
             t == s \ {x}
  <2>1. x \in s /\ t \in SUBSET S /\ Cardinality(t) <= n
    BY Smaller
  <2>2. Agree(t)
    BY <2>1
  <2>3. g[s] = e[x].live + g[t] /\ h[s] = f[x].live + h[t]
    BY <1>3 DEF Body
  <2>4. e[x].live \in Nat /\ f[x].live \in Nat
    BY <2>1 DEF Counts
  <2>5. CASE x = r
    <3>1. f[x].live = e[x].live + d
      BY <2>4, <2>5 DEF d
    <3> HIDE DEF x
    <3> QED
      BY <2>1, <2>2, <2>3, <2>4, <2>5, <3>1
  <2>6. CASE x # r
    <3>1. f[x].live = e[x].live
      BY <2>1, <2>6
    <3> HIDE DEF x
    <3> QED
      BY <2>1, <2>2, <2>3, <2>4, <2>6, <3>1
  <2> QED
    BY <2>5, <2>6
<1>7. T = Nat
  <2> HIDE DEF T
  <2> T \subseteq Nat
    BY DEF T
  <2> QED
    BY <1>5, <1>6, SetInduction
<1>8. Agree(S)
  BY <1>7, FS_CardinalityType
<1> QED
  BY <1>1, <1>2, <1>8 DEF d

-----------------------------------------------------------------------------
(* The types of a run, and of the cells. *)
Run == [at : At, cancelled : BOOLEAN, opening : 0 .. Workers, live : 0 .. Workers,
        mail : Addresses \cup {None}, last : Addresses \cup {None},
        writer : {"none", "running", "clearing", "done"}]

(* Where a run can be, without the sequence StartUp. *)
LEMMA AtFacts ==
  /\ {StartUp[i] : i \in DOMAIN StartUp} = Early
  /\ At = {"unborn", "over"} \cup Early \cup Started
<1>1. DOMAIN StartUp = 1 .. 7
  BY DEF StartUp
<1>2. /\ StartUp[1] = "resolve" /\ StartUp[2] = "token" /\ StartUp[3] = "gate"
      /\ StartUp[4] = "clear" /\ StartUp[5] = "clear slot" /\ StartUp[6] = "install"
      /\ StartUp[7] = "install ready"
  BY DEF StartUp
<1>3. 1 .. 7 = {1, 2, 3, 4, 5, 6, 7}
  OBVIOUS
<1>4. {StartUp[i] : i \in DOMAIN StartUp} = Early
  <2> HIDE DEF StartUp
  <2> QED
    BY <1>1, <1>2, <1>3, ZenonT(40) DEF Early
<1> QED
  BY <1>4 DEF At

(* What a run does not go back on. *)
Lasts(e, f) ==
  /\ f.at = "unborn" <=> e.at = "unborn"
  /\ e.at = "over" => f.at = "over"
  /\ e.at \in {"groups", "tasks", "over"} => f.at \in {"groups", "tasks", "over"}
  /\ e.writer \in {"none", "done"} /\ e.at \in {"groups", "tasks", "over"} =>
       f.writer = e.writer
  /\ e.cancelled => f.cancelled
  /\ e.writer # "none" => f.writer # "none"

(* Run r, and no other, is now f. *)
Becomes(r, f) ==
  /\ f \in Run /\ Sound(f)
  /\ engine' \in [Runs -> Run]
  /\ engine'[r] = f
  /\ \A o \in Runs \ {r} : engine'[o] = engine[o]
Goes(r, f) == Becomes(r, f) /\ Lasts(engine[r], f)

(* An update of a few fields of a run is an update of the run. *)
LEMMA Gone ==
  ASSUME engine \in [Runs -> Run], NEW r \in Runs,
         NEW f \in Run, Sound(f), engine' = [engine EXCEPT ![r] = f]
  PROVE  Becomes(r, f) /\ (Lasts(engine[r], f) => Goes(r, f))
  BY DEF Goes, Becomes

(* What the invariant says of one run. *)
LEMMA RunFacts ==
  ASSUME TypeOK, RunsAreSound, NEW r \in Runs
  PROVE  /\ engine \in [Runs -> Run] /\ engine[r] \in Run /\ Workers \in Nat
         /\ Sound(engine[r])
         /\ engine[r].opening \in 0 .. Workers /\ engine[r].live \in 0 .. Workers
  BY EngineLifeAssumption DEF TypeOK, Run, RunsAreSound

-----------------------------------------------------------------------------
(* The steps of a run, by what they do to its record. *)
LEMMA ResolvesDoes ==
  ASSUME TypeOK, RunsAreSound, NEW r \in Runs, Resolves(r)
  PROVE  /\ engine[r].at = "resolve"
         /\ \E to \in {"token", "over"} : Goes(r, [engine[r] EXCEPT !.at = to])
         /\ UNCHANGED <<host, statics, bridge, past>>
<1> USE Gone
<1> DEFINE e == engine[r]
<1> /\ engine \in [Runs -> Run] /\ e \in Run /\ Workers \in Nat /\ Sound(e)
    /\ e.opening \in 0 .. Workers /\ e.live \in 0 .. Workers
  BY RunFacts
<1>1. PICK to \in {"token", "over"} :
        engine' = [engine EXCEPT ![r] = [e EXCEPT !.at = to]]
  BY Zenon DEF Resolves, RunGoes
<1> DEFINE f == [e EXCEPT !.at = to]
<1>2. e.at = "resolve" /\ UNCHANGED <<host, statics, bridge, past>>
  BY Zenon DEF Resolves, RunGoes
<1>3. f \in Run
  BY AtFacts DEF Run, Early
<1>4. Sound(f) /\ Lasts(e, f)
  BY <1>2 DEF Sound, Lasts, Run, Early, Fresh, Started
<1>5. Goes(r, f)
  BY <1>1, <1>3, <1>4
<1> QED
  BY <1>2, <1>5

(* ENGINE_CANCEL is this run's token. *)
LEMMA StoresTokenDoes ==
  ASSUME TypeOK, RunsAreSound, NEW r \in Runs, StoresToken(r)
  PROVE  /\ engine[r].at = "token" /\ Goes(r, [engine[r] EXCEPT !.at = "gate"])
         /\ statics' = [statics EXCEPT !.cancel = r]
         /\ UNCHANGED <<host, bridge, past>>
<1> USE Gone
<1> DEFINE e == engine[r]
<1> /\ engine \in [Runs -> Run] /\ e \in Run /\ Workers \in Nat /\ Sound(e)
    /\ e.opening \in 0 .. Workers /\ e.live \in 0 .. Workers
  BY RunFacts
<1> DEFINE f == [e EXCEPT !.at = "gate"]
<1>1. e.at = "token" /\ engine' = [engine EXCEPT ![r] = f]
  BY Zenon DEF StoresToken, RunGoes
<1> HIDE DEF e
<1>3. f \in Run
  BY AtFacts DEF Run, Early, Started, None
<1>5. Sound(f) /\ Lasts(e, f)
  BY <1>1 DEF Sound, Lasts, Run, Early, Fresh, Started
<1>6. Goes(r, f)
  BY <1>1, <1>3, <1>5 DEF e
<1> QED
  BY <1>1, <1>6, Zenon DEF StoresToken, RunGoes, e

(* ENGINE_PAUSE is this run's gate, and ACTIVE_PATHS is 0. *)
LEMMA StoresGateDoes ==
  ASSUME TypeOK, RunsAreSound, NEW r \in Runs, StoresGate(r)
  PROVE  /\ engine[r].at = "gate" /\ Goes(r, [engine[r] EXCEPT !.at = "clear"])
         /\ statics' = [statics EXCEPT !.active = 0, !.pause = r]
         /\ UNCHANGED <<host, bridge, past>>
<1> USE Gone
<1> DEFINE e == engine[r]
<1> /\ engine \in [Runs -> Run] /\ e \in Run /\ Workers \in Nat /\ Sound(e)
    /\ e.opening \in 0 .. Workers /\ e.live \in 0 .. Workers
  BY RunFacts
<1> DEFINE f == [e EXCEPT !.at = "clear"]
<1>1. e.at = "gate" /\ engine' = [engine EXCEPT ![r] = f]
  BY Zenon DEF StoresGate, RunGoes
<1> HIDE DEF e
<1>3. f \in Run
  BY AtFacts DEF Run, Early, Started, None
<1>5. Sound(f) /\ Lasts(e, f)
  BY <1>1 DEF Sound, Lasts, Run, Early, Fresh, Started
<1>6. Goes(r, f)
  BY <1>1, <1>3, <1>5 DEF e
<1> QED
  BY <1>1, <1>6, Zenon DEF StoresGate, RunGoes, e

(* The bridge is cleared in two stores. *)
LEMMA ClearsBridgeDoes ==
  ASSUME TypeOK, RunsAreSound, NEW r \in Runs, ClearsBridge(r)
  PROVE  /\ \/ /\ engine[r].at = "clear"
               /\ Goes(r, [engine[r] EXCEPT !.at = "clear slot"])
               /\ bridge' = [bridge EXCEPT !.ready = FALSE]
            \/ /\ engine[r].at = "clear slot"
               /\ Goes(r, [engine[r] EXCEPT !.at = "install"])
               /\ bridge' = [bridge EXCEPT !.slot = None]
         /\ UNCHANGED <<host, statics, past>>
<1> USE Gone
<1> DEFINE e == engine[r]
<1> /\ engine \in [Runs -> Run] /\ e \in Run /\ Workers \in Nat /\ Sound(e)
    /\ e.opening \in 0 .. Workers /\ e.live \in 0 .. Workers
  BY RunFacts
<1>1. ASSUME e.at = "clear",
             engine' = [engine EXCEPT ![r] = [e EXCEPT !.at = "clear slot"]]
      PROVE  Goes(r, [e EXCEPT !.at = "clear slot"])
  <2>1. [e EXCEPT !.at = "clear slot"] \in Run
    BY AtFacts DEF Run, Early
  <2>2. Sound([e EXCEPT !.at = "clear slot"]) /\ Lasts(e, [e EXCEPT !.at = "clear slot"])
    BY <1>1 DEF Sound, Lasts, Run, Early, Fresh, Started
  <2> QED
    BY <1>1, <2>1, <2>2
<1>2. ASSUME e.at = "clear slot",
             engine' = [engine EXCEPT ![r] = [e EXCEPT !.at = "install"]]
      PROVE  Goes(r, [e EXCEPT !.at = "install"])
  <2>1. [e EXCEPT !.at = "install"] \in Run
    BY AtFacts DEF Run, Early
  <2>2. Sound([e EXCEPT !.at = "install"]) /\ Lasts(e, [e EXCEPT !.at = "install"])
    BY <1>2 DEF Sound, Lasts, Run, Early, Fresh, Started
  <2> QED
    BY <1>2, <2>1, <2>2
<1> QED
  BY <1>1, <1>2, Zenon DEF ClearsBridge, RunGoes

(* UPLINK is this run's queue. *)
LEMMA InstallsSlotDoes ==
  ASSUME TypeOK, RunsAreSound, NEW r \in Runs, InstallsSlot(r)
  PROVE  /\ engine[r].at = "install" /\ Goes(r, [engine[r] EXCEPT !.at = "install ready"])
         /\ bridge' = [bridge EXCEPT !.slot = r]
         /\ UNCHANGED <<host, statics, past>>
<1> USE Gone
<1> DEFINE e == engine[r]
<1> /\ engine \in [Runs -> Run] /\ e \in Run /\ Workers \in Nat /\ Sound(e)
    /\ e.opening \in 0 .. Workers /\ e.live \in 0 .. Workers
  BY RunFacts
<1> DEFINE f == [e EXCEPT !.at = "install ready"]
<1>1. e.at = "install" /\ engine' = [engine EXCEPT ![r] = f]
  BY Zenon DEF InstallsSlot, RunGoes
<1> HIDE DEF e
<1>3. f \in Run
  BY AtFacts DEF Run, Early, Started, None
<1>5. Sound(f) /\ Lasts(e, f)
  BY <1>1 DEF Sound, Lasts, Run, Early, Fresh, Started
<1>6. Goes(r, f)
  BY <1>1, <1>3, <1>5 DEF e
<1> QED
  BY <1>1, <1>6, Zenon DEF InstallsSlot, RunGoes, e

(* BRIDGE_READY is set, and the writer runs. *)
LEMMA InstallsReadyDoes ==
  ASSUME TypeOK, RunsAreSound, NEW r \in Runs, InstallsReady(r)
  PROVE  /\ engine[r].at = "install ready"
         /\ Goes(r, [engine[r] EXCEPT !.at = "serving", !.writer = "running"])
         /\ bridge' = [bridge EXCEPT !.ready = TRUE]
         /\ UNCHANGED <<host, statics, past>>
<1> USE Gone
<1> DEFINE e == engine[r]
<1> /\ engine \in [Runs -> Run] /\ e \in Run /\ Workers \in Nat /\ Sound(e)
    /\ e.opening \in 0 .. Workers /\ e.live \in 0 .. Workers
  BY RunFacts
<1> DEFINE f == [e EXCEPT !.at = "serving", !.writer = "running"]
<1>1. e.at = "install ready" /\ engine' = [engine EXCEPT ![r] = f]
  BY Zenon DEF InstallsReady
<1> HIDE DEF e
<1>3. f \in Run
  BY AtFacts DEF Run, Early, Started, None
<1>5. Sound(f) /\ Lasts(e, f)
  BY <1>1 DEF Sound, Lasts, Run, Early, Fresh, Started
<1>6. Goes(r, f)
  BY <1>1, <1>3, <1>5 DEF e
<1> QED
  BY <1>1, <1>6, Zenon DEF InstallsReady, e

(* A run may cancel itself while it serves. *)
LEMMA CancelsItselfDoes ==
  ASSUME TypeOK, RunsAreSound, NEW r \in Runs, CancelsItself(r)
  PROVE  /\ engine[r].at = "serving" /\ Goes(r, [engine[r] EXCEPT !.cancelled = TRUE])
         /\ UNCHANGED <<host, statics, bridge, past>>
<1> USE Gone
<1> DEFINE e == engine[r]
<1> /\ engine \in [Runs -> Run] /\ e \in Run /\ Workers \in Nat /\ Sound(e)
    /\ e.opening \in 0 .. Workers /\ e.live \in 0 .. Workers
  BY RunFacts
<1> DEFINE f == [e EXCEPT !.cancelled = TRUE]
<1>1. e.at = "serving" /\ engine' = [engine EXCEPT ![r] = f]
  BY Zenon DEF CancelsItself, Cancelled
<1> HIDE DEF e
<1>3. f \in Run
  BY DEF Run, None
<1>5. Sound(f) /\ Lasts(e, f)
  BY <1>1 DEF Sound, Lasts, Run, Early, Fresh, Started
<1>6. Goes(r, f)
  BY <1>1, <1>3, <1>5 DEF e
<1> QED
  BY <1>1, <1>6, Zenon DEF CancelsItself, Cancelled, e

(* A run that leaves its loop is cancelled. *)
LEMMA LeavesLoopDoes ==
  ASSUME TypeOK, RunsAreSound, NEW r \in Runs, LeavesLoop(r)
  PROVE  /\ engine[r].at = "serving"
         /\ Goes(r, [engine[r] EXCEPT !.at = "unpause", !.cancelled = TRUE])
         /\ UNCHANGED <<host, statics, bridge, past>>
<1> USE Gone
<1> DEFINE e == engine[r]
<1> /\ engine \in [Runs -> Run] /\ e \in Run /\ Workers \in Nat /\ Sound(e)
    /\ e.opening \in 0 .. Workers /\ e.live \in 0 .. Workers
  BY RunFacts
<1> DEFINE f == [e EXCEPT !.at = "unpause", !.cancelled = TRUE]
<1>1. e.at = "serving" /\ engine' = [engine EXCEPT ![r] = f]
  BY Zenon DEF LeavesLoop
<1> HIDE DEF e
<1>3. f \in Run
  BY AtFacts DEF Run, Early, Started, None
<1>5. Sound(f) /\ Lasts(e, f)
  BY <1>1 DEF Sound, Lasts, Run, Early, Fresh, Started
<1>6. Goes(r, f)
  BY <1>1, <1>3, <1>5 DEF e
<1> QED
  BY <1>1, <1>6, Zenon DEF LeavesLoop, e

(* ENGINE_PAUSE is emptied, whoever's it is. *)
LEMMA DropsGateDoes ==
  ASSUME TypeOK, RunsAreSound, NEW r \in Runs, DropsGate(r)
  PROVE  /\ engine[r].at = "unpause" /\ Goes(r, [engine[r] EXCEPT !.at = "groups"])
         /\ statics' = [statics EXCEPT !.pause = None]
         /\ UNCHANGED <<host, bridge, past>>
<1> USE Gone
<1> DEFINE e == engine[r]
<1> /\ engine \in [Runs -> Run] /\ e \in Run /\ Workers \in Nat /\ Sound(e)
    /\ e.opening \in 0 .. Workers /\ e.live \in 0 .. Workers
  BY RunFacts
<1> DEFINE f == [e EXCEPT !.at = "groups"]
<1>1. e.at = "unpause" /\ engine' = [engine EXCEPT ![r] = f]
  BY Zenon DEF DropsGate, RunGoes
<1> HIDE DEF e
<1>3. f \in Run
  BY AtFacts DEF Run, Early, Started, None
<1>5. Sound(f) /\ Lasts(e, f)
  BY <1>1 DEF Sound, Lasts, Run, Early, Fresh, Started
<1>6. Goes(r, f)
  BY <1>1, <1>3, <1>5 DEF e
<1> QED
  BY <1>1, <1>6, Zenon DEF DropsGate, RunGoes, e

(* The groups have ended when no session is left. *)
LEMMA AwaitsGroupsDoes ==
  ASSUME TypeOK, RunsAreSound, NEW r \in Runs, AwaitsGroups(r)
  PROVE  /\ engine[r].at = "groups" /\ engine[r].opening + engine[r].live = 0
         /\ Goes(r, [engine[r] EXCEPT !.at = "tasks"])
         /\ UNCHANGED <<host, statics, bridge, past>>
<1> USE Gone
<1> DEFINE e == engine[r]
<1> /\ engine \in [Runs -> Run] /\ e \in Run /\ Workers \in Nat /\ Sound(e)
    /\ e.opening \in 0 .. Workers /\ e.live \in 0 .. Workers
  BY RunFacts
<1> DEFINE f == [e EXCEPT !.at = "tasks"]
<1>1. e.at = "groups" /\ e.opening + e.live = 0 /\ engine' = [engine EXCEPT ![r] = f]
  BY Zenon DEF AwaitsGroups, RunGoes
<1> HIDE DEF e
<1>2. e.opening = 0 /\ e.live = 0
  BY <1>1
<1>3. f \in Run
  BY AtFacts DEF Run, Early, Started, None
<1>5. Sound(f) /\ Lasts(e, f)
  BY <1>1, <1>2 DEF Sound, Lasts, Run, Early, Fresh, Started
<1>6. Goes(r, f)
  BY <1>1, <1>3, <1>5 DEF e
<1> QED
  BY <1>1, <1>6, Zenon DEF AwaitsGroups, RunGoes, e

(* A run is over once its writer is done. *)
LEMMA AwaitsTasksDoes ==
  ASSUME TypeOK, RunsAreSound, NEW r \in Runs, AwaitsTasks(r)
  PROVE  /\ engine[r].at = "tasks" /\ engine[r].writer = "done"
         /\ Goes(r, [engine[r] EXCEPT !.at = "over", !.mail = None, !.last = None])
         /\ UNCHANGED <<host, statics, bridge, past>>
<1> USE Gone
<1> DEFINE e == engine[r]
<1> /\ engine \in [Runs -> Run] /\ e \in Run /\ Workers \in Nat /\ Sound(e)
    /\ e.opening \in 0 .. Workers /\ e.live \in 0 .. Workers
  BY RunFacts
<1> DEFINE f == [e EXCEPT !.at = "over", !.mail = None, !.last = None]
<1>1. e.at = "tasks" /\ e.writer = "done" /\ engine' = [engine EXCEPT ![r] = f]
  BY Zenon DEF AwaitsTasks
<1> HIDE DEF e
<1>3. f \in Run
  BY AtFacts DEF Run, Early, Started, None
<1>5. Sound(f) /\ Lasts(e, f)
  BY <1>1 DEF Sound, Lasts, Run, Early, Fresh, Started
<1>6. Goes(r, f)
  BY <1>1, <1>3, <1>5 DEF e
<1> QED
  BY <1>1, <1>6, Zenon DEF AwaitsTasks, e

(* A session more opens. *)
LEMMA BeginsDoes ==
  ASSUME TypeOK, RunsAreSound, NEW r \in Runs, Begins(r)
  PROVE  /\ engine[r].at = "serving" /\ engine[r].opening + engine[r].live < Workers
         /\ Goes(r, [engine[r] EXCEPT !.opening = @ + 1])
         /\ UNCHANGED <<host, statics, bridge, past>>
<1> USE Gone
<1> DEFINE e == engine[r]
<1> /\ engine \in [Runs -> Run] /\ e \in Run /\ Workers \in Nat /\ Sound(e)
    /\ e.opening \in 0 .. Workers /\ e.live \in 0 .. Workers
  BY RunFacts
<1> DEFINE f == [e EXCEPT !.opening = @ + 1]
<1>1. /\ e.at = "serving" /\ e.opening + e.live < Workers
      /\ engine' = [engine EXCEPT ![r] = f]
  BY Zenon DEF Begins
<1> HIDE DEF e
<1>2. e.opening + 1 \in 0 .. Workers
  BY <1>1
<1>3. f \in Run
  BY <1>2 DEF Run
<1>4. f.opening = e.opening + 1
      /\ f.at = e.at /\ f.cancelled = e.cancelled /\ f.live = e.live
      /\ f.mail = e.mail /\ f.writer = e.writer
  BY DEF Run
<1> HIDE DEF f
<1>5. Sound(f) /\ Lasts(e, f)
  BY <1>1, <1>4 DEF Sound, Lasts
<1>6. Goes(r, f)
  BY <1>1, <1>3, <1>5 DEF e
<1> QED
  BY <1>1, <1>6, Zenon DEF Begins, e

(* A session that opens fails. *)
LEMMA FailsDoes ==
  ASSUME TypeOK, RunsAreSound, NEW r \in Runs, Fails(r)
  PROVE  /\ engine[r].opening > 0 /\ Goes(r, [engine[r] EXCEPT !.opening = @ - 1])
         /\ UNCHANGED <<host, statics, bridge, past>>
<1> USE Gone
<1> DEFINE e == engine[r]
<1> /\ engine \in [Runs -> Run] /\ e \in Run /\ Workers \in Nat /\ Sound(e)
    /\ e.opening \in 0 .. Workers /\ e.live \in 0 .. Workers
  BY RunFacts
<1> DEFINE f == [e EXCEPT !.opening = @ - 1]
<1>1. e.opening > 0 /\ engine' = [engine EXCEPT ![r] = f]
  BY Zenon DEF Fails
<1> HIDE DEF e
<1>2. e.opening - 1 \in 0 .. Workers
  BY <1>1
<1>3. f \in Run
  BY <1>2 DEF Run
<1>4. f.opening = e.opening - 1
      /\ f.at = e.at /\ f.cancelled = e.cancelled /\ f.live = e.live
      /\ f.mail = e.mail /\ f.writer = e.writer
  BY DEF Run
<1> HIDE DEF f
<1>5. Sound(f) /\ Lasts(e, f)
  BY <1>1, <1>4 DEF Sound, Lasts
<1>6. Goes(r, f)
  BY <1>1, <1>3, <1>5 DEF e
<1> QED
  BY <1>1, <1>6, Zenon DEF Fails, e

(* A session becomes READY, and is counted. *)
LEMMA ReadiesDoes ==
  ASSUME TypeOK, RunsAreSound, NEW r \in Runs, Readies(r)
  PROVE  /\ engine[r].opening > 0
         /\ Goes(r, [engine[r] EXCEPT !.opening = @ - 1, !.live = @ + 1])
         /\ statics' = [statics EXCEPT !.active = @ + 1]
         /\ UNCHANGED <<host, bridge, past>>
<1> USE Gone
<1> DEFINE e == engine[r]
<1> /\ engine \in [Runs -> Run] /\ e \in Run /\ Workers \in Nat /\ Sound(e)
    /\ e.opening \in 0 .. Workers /\ e.live \in 0 .. Workers
  BY RunFacts
<1> DEFINE f == [e EXCEPT !.opening = @ - 1, !.live = @ + 1]
<1>1. e.opening > 0 /\ engine' = [engine EXCEPT ![r] = f]
  BY Zenon DEF Readies
<1> HIDE DEF e
<1>2. e.opening - 1 \in 0 .. Workers /\ e.live + 1 \in 0 .. Workers
  BY <1>1 DEF Sound
<1>3. f \in Run
  BY <1>2 DEF Run
<1>4. f.opening = e.opening - 1 /\ f.live = e.live + 1
      /\ f.at = e.at /\ f.cancelled = e.cancelled
      /\ f.mail = e.mail /\ f.writer = e.writer
  BY DEF Run
<1> HIDE DEF f
<1>5. Sound(f) /\ Lasts(e, f)
  BY <1>1, <1>4 DEF Sound, Lasts
<1>6. Goes(r, f)
  BY <1>1, <1>3, <1>5 DEF e
<1> QED
  BY <1>1, <1>6, Zenon DEF Readies, e

(* A READY session ends, and is counted down. *)
LEMMA PathEndsDoes ==
  ASSUME TypeOK, RunsAreSound, NEW r \in Runs, PathEnds(r)
  PROVE  /\ engine[r].live > 0 /\ Goes(r, [engine[r] EXCEPT !.live = @ - 1])
         /\ statics' = [statics EXCEPT !.active = @ - 1]
         /\ UNCHANGED <<host, bridge, past>>
<1> USE Gone
<1> DEFINE e == engine[r]
<1> /\ engine \in [Runs -> Run] /\ e \in Run /\ Workers \in Nat /\ Sound(e)
    /\ e.opening \in 0 .. Workers /\ e.live \in 0 .. Workers
  BY RunFacts
<1> DEFINE f == [e EXCEPT !.live = @ - 1]
<1>1. e.live > 0 /\ engine' = [engine EXCEPT ![r] = f]
  BY Zenon DEF PathEnds
<1> HIDE DEF e
<1>2. e.live - 1 \in 0 .. Workers
  BY <1>1
<1>3. f \in Run
  BY <1>2 DEF Run
<1>4. f.live = e.live - 1
      /\ f.at = e.at /\ f.cancelled = e.cancelled /\ f.opening = e.opening
      /\ f.mail = e.mail /\ f.writer = e.writer
  BY DEF Run
<1> HIDE DEF f
<1>5. Sound(f) /\ Lasts(e, f)
  BY <1>1, <1>4 DEF Sound, Lasts
<1>6. Goes(r, f)
  BY <1>1, <1>3, <1>5 DEF e
<1> QED
  BY <1>1, <1>6, Zenon DEF PathEnds, e

(* config_task stores the address it has read. *)
LEMMA TakesConfigDoes ==
  ASSUME TypeOK, RunsAreSound, NEW r \in Runs, TakesConfig(r)
  PROVE  /\ engine[r].mail # None
         /\ Goes(r, [engine[r] EXCEPT !.mail = None, !.last = engine[r].mail])
         /\ statics' = [statics EXCEPT !.ip = engine[r].mail, !.by = r]
         /\ UNCHANGED <<host, bridge, past>>
<1> USE Gone
<1> DEFINE e == engine[r]
<1> /\ engine \in [Runs -> Run] /\ e \in Run /\ Workers \in Nat /\ Sound(e)
    /\ e.opening \in 0 .. Workers /\ e.live \in 0 .. Workers
  BY RunFacts
<1> DEFINE f == [e EXCEPT !.mail = None, !.last = e.mail]
<1>1. e.mail # None /\ engine' = [engine EXCEPT ![r] = f]
  BY Zenon DEF TakesConfig
<1> HIDE DEF e
<1>3. f \in Run
  BY DEF Run, None
<1>5. Sound(f) /\ Lasts(e, f)
  BY <1>1 DEF Sound, Lasts, Run, Early, Fresh, Started
<1>6. Goes(r, f)
  BY <1>1, <1>3, <1>5 DEF e
<1> QED
  BY <1>1, <1>6, Zenon DEF TakesConfig, e

(* The writer clears the bridge in two stores. *)
LEMMA WriterEndsDoes ==
  ASSUME TypeOK, RunsAreSound, NEW r \in Runs, WriterEnds(r)
  PROVE  /\ \/ /\ engine[r].writer = "running" /\ engine[r].cancelled
               /\ Goes(r, [engine[r] EXCEPT !.writer = "clearing"])
               /\ bridge' = [bridge EXCEPT !.ready = FALSE]
            \/ /\ engine[r].writer = "clearing"
               /\ Goes(r, [engine[r] EXCEPT !.writer = "done"])
               /\ bridge' = [bridge EXCEPT !.slot = None]
         /\ UNCHANGED <<host, statics, past>>
<1> USE Gone
<1> DEFINE e == engine[r]
<1> /\ engine \in [Runs -> Run] /\ e \in Run /\ Workers \in Nat /\ Sound(e)
    /\ e.opening \in 0 .. Workers /\ e.live \in 0 .. Workers
  BY RunFacts
<1>1. ASSUME e.writer = "running" /\ e.cancelled,
             engine' = [engine EXCEPT ![r] = [e EXCEPT !.writer = "clearing"]]
      PROVE  Goes(r, [e EXCEPT !.writer = "clearing"])
  <2>1. [e EXCEPT !.writer = "clearing"] \in Run
    BY AtFacts DEF Run, Early
  <2>2. /\ Sound([e EXCEPT !.writer = "clearing"])
        /\ Lasts(e, [e EXCEPT !.writer = "clearing"])
    BY <1>1 DEF Sound, Lasts, Run, Early, Fresh, Started
  <2> QED
    BY <1>1, <2>1, <2>2
<1>2. ASSUME e.writer = "clearing",
             engine' = [engine EXCEPT ![r] = [e EXCEPT !.writer = "done"]]
      PROVE  Goes(r, [e EXCEPT !.writer = "done"])
  <2>1. [e EXCEPT !.writer = "done"] \in Run
    BY AtFacts DEF Run, Early
  <2>2. Sound([e EXCEPT !.writer = "done"]) /\ Lasts(e, [e EXCEPT !.writer = "done"])
    BY <1>2 DEF Sound, Lasts, Run, Early, Fresh, Started
  <2> QED
    BY <1>2, <2>1, <2>2
<1> QED
  BY <1>1, <1>2, Zenon DEF WriterEnds

(* An address arrives. *)
LEMMA HearsDoes ==
  ASSUME TypeOK, RunsAreSound, NEW r \in Runs, NEW a \in Addresses, Hears(r, a)
  PROVE  /\ engine[r].opening + engine[r].live > 0
         /\ Goes(r, [engine[r] EXCEPT !.mail = a])
         /\ UNCHANGED <<host, statics, bridge, past>>
<1> USE Gone
<1> DEFINE e == engine[r]
<1> /\ engine \in [Runs -> Run] /\ e \in Run /\ Workers \in Nat /\ Sound(e)
    /\ e.opening \in 0 .. Workers /\ e.live \in 0 .. Workers
  BY RunFacts
<1> DEFINE f == [e EXCEPT !.mail = a]
<1>1. e.opening + e.live > 0 /\ engine' = [engine EXCEPT ![r] = f]
  BY Zenon DEF Hears
<1> HIDE DEF e
<1>2. e.at \in {"serving", "unpause", "groups"}
  BY <1>1 DEF Sound
<1>3. f \in Run
  BY DEF Run, None
<1>5. Sound(f) /\ Lasts(e, f)
  BY <1>1, <1>2 DEF Sound, Lasts, Run, Early, Fresh, Started
<1>6. Goes(r, f)
  BY <1>1, <1>3, <1>5 DEF e
<1> QED
  BY <1>1, <1>6, Zenon DEF Hears, e

(* The steps of the helper that change a run. *)
LEMMA HostEffects ==
  ASSUME TypeOK, RunsAreSound, HostIsSound
  PROVE  /\ Spawn =>
              /\ host.at = "spawn" /\ host.run + 1 \in Runs
              /\ engine[host.run + 1].at = "unborn"
              /\ Becomes(host.run + 1, [engine[host.run + 1] EXCEPT !.at = "resolve"])
         /\ StopCancels =>
              \/ engine' = engine
              \/ /\ statics.cancel \in Runs
                 /\ Goes(statics.cancel, [engine[statics.cancel] EXCEPT !.cancelled = TRUE])
<1> USE Gone
<1>0. /\ engine \in [Runs -> Run] /\ At = {"unborn", "over"} \cup Early \cup Started
      /\ host.run \in Runs \cup {0} /\ MaxRuns \in Nat
      /\ statics.cancel \in Runs \cup {None}
  BY AtFacts, EngineLifeAssumption DEF TypeOK, Run
<1>1. ASSUME Spawn
      PROVE  /\ host.at = "spawn" /\ host.run + 1 \in Runs
             /\ engine[host.run + 1].at = "unborn"
             /\ Becomes(host.run + 1, [engine[host.run + 1] EXCEPT !.at = "resolve"])
  <2> DEFINE r == host.run + 1
  <2>1. host.at = "spawn"
    BY <1>1, Zenon DEF Spawn
  <2>2. r \in Runs /\ r > host.run
    BY <1>0, <2>1 DEF HostIsSound, Served, Runs
  <2>3. engine' = [engine EXCEPT ![r] = [engine[r] EXCEPT !.at = "resolve"]]
    BY <1>1, Zenon DEF Spawn
  <2> HIDE DEF r
  <2>4. [engine[r] EXCEPT !.at = "resolve"] \in Run
    BY <1>0, <2>2 DEF Run, Early
  <2>5. engine[r].at = "unborn" /\ Sound(engine[r])
    BY <2>2 DEF RunsAreSound
  <2>7. Sound([engine[r] EXCEPT !.at = "resolve"])
    BY <1>0, <2>2, <2>5 DEF Sound, Run, Early, Fresh, Started
  <2>6. Becomes(r, [engine[r] EXCEPT !.at = "resolve"])
    BY <1>0, <2>2, <2>3, <2>4, <2>7
  <2> QED
    BY <2>1, <2>2, <2>5, <2>6 DEF r
<1>2. ASSUME StopCancels, engine' # engine
      PROVE  /\ statics.cancel \in Runs
             /\ Goes(statics.cancel, [engine[statics.cancel] EXCEPT !.cancelled = TRUE])
  <2> DEFINE r == statics.cancel
  <2>1. r # None /\ engine' = [engine EXCEPT ![r] = [engine[r] EXCEPT !.cancelled = TRUE]]
    BY <1>2, Zenon DEF StopCancels, Cancelled
  <2>2. r \in Runs
    BY <1>0, <2>1
  <2> HIDE DEF r
  <2>3. [engine[r] EXCEPT !.cancelled = TRUE] \in Run
    BY <1>0, <2>2 DEF Run
  <2>4. Sound(engine[r])
    BY <2>2 DEF RunsAreSound
  <2>5. /\ Sound([engine[r] EXCEPT !.cancelled = TRUE])
        /\ Lasts(engine[r], [engine[r] EXCEPT !.cancelled = TRUE])
    BY <1>0, <2>2, <2>4 DEF Sound, Lasts, Run
  <2>6. Goes(r, [engine[r] EXCEPT !.cancelled = TRUE])
    BY <1>0, <2>1, <2>2, <2>3, <2>5
  <2> QED
    BY <2>2, <2>6 DEF r
<1> QED
  BY <1>1, <1>2

-----------------------------------------------------------------------------
(* A step of run r; those that leave the statics and the bridge alone. *)
Plain(r) ==
  \/ Resolves(r) \/ CancelsItself(r) \/ LeavesLoop(r) \/ AwaitsGroups(r) \/ AwaitsTasks(r)
  \/ Begins(r) \/ Fails(r) \/ \E a \in Addresses : Hears(r, a)

RunNext(r) ==
  \/ Startup(r) \/ CancelsItself(r) \/ LeavesLoop(r) \/ WindsDown(r)
  \/ Begins(r) \/ Fails(r) \/ Readies(r) \/ PathEnds(r)
  \/ (\E a \in Addresses : Hears(r, a)) \/ TakesConfig(r)
  \/ WriterEnds(r)

(* The steps of a run, those that matter to the statics by name. *)
LEMMA RunCases ==
  ASSUME NEW r \in Runs, RunNext(r)
  PROVE  \/ Plain(r)
         \/ StoresToken(r) \/ StoresGate(r) \/ ClearsBridge(r) \/ InstallsSlot(r)
         \/ InstallsReady(r) \/ DropsGate(r)
         \/ Readies(r) \/ PathEnds(r) \/ TakesConfig(r) \/ WriterEnds(r)
  BY Zenon DEF RunNext, Startup, WindsDown, Plain

(* The run has come no further, as far as the statics are concerned. *)
Back(e, f) ==
  /\ f.writer = e.writer
  /\ f.at # e.at =>
       f.at \notin {"gate", "clear", "clear slot", "install", "install ready", "serving"}
  /\ f.at \in Gated => e.at \in Gated

(* A plain step brings the run no further and counts nothing. *)
LEMMA PlainDoes ==
  ASSUME TypeOK, RunsAreSound, NEW r \in Runs, Plain(r)
  PROVE  /\ \E f : Goes(r, f) /\ Back(engine[r], f) /\ f.live = engine[r].live
         /\ UNCHANGED <<host, statics, bridge, past>>
<1> DEFINE e == engine[r]
           Mild(f) == Goes(r, f) /\ Back(e, f) /\ f.live = e.live
<1> e \in Run
  BY RunFacts
<1>1. CASE Resolves(r)
  <2>1. PICK to \in {"token", "over"} : Goes(r, [e EXCEPT !.at = to])
    BY <1>1, ResolvesDoes
  <2>2. Mild([e EXCEPT !.at = to])
    BY <2>1 DEF Back, Gated, Started, Run
  <2> QED
    BY <1>1, <2>2, ResolvesDoes
<1>2. CASE CancelsItself(r)
  <2>1. Mild([e EXCEPT !.cancelled = TRUE])
    BY <1>2, CancelsItselfDoes DEF Back, Gated, Started, Run
  <2> QED
    BY <1>2, <2>1, CancelsItselfDoes
<1>3. CASE LeavesLoop(r)
  <2>1. Mild([e EXCEPT !.at = "unpause", !.cancelled = TRUE])
    BY <1>3, LeavesLoopDoes DEF Back, Gated, Started, Run
  <2> QED
    BY <1>3, <2>1, LeavesLoopDoes
<1>4. CASE AwaitsGroups(r)
  <2>1. Mild([e EXCEPT !.at = "tasks"])
    BY <1>4, AwaitsGroupsDoes DEF Back, Gated, Started, Run
  <2> QED
    BY <1>4, <2>1, AwaitsGroupsDoes
<1>5. CASE AwaitsTasks(r)
  <2>1. Mild([e EXCEPT !.at = "over", !.mail = None, !.last = None])
    BY <1>5, AwaitsTasksDoes DEF Back, Gated, Started, Run
  <2> QED
    BY <1>5, <2>1, AwaitsTasksDoes
<1>6. CASE Begins(r)
  <2>1. Mild([e EXCEPT !.opening = @ + 1])
    BY <1>6, BeginsDoes DEF Back, Gated, Started, Run
  <2> QED
    BY <1>6, <2>1, BeginsDoes
<1>7. CASE Fails(r)
  <2>1. Mild([e EXCEPT !.opening = @ - 1])
    BY <1>7, FailsDoes DEF Back, Gated, Started, Run
  <2> QED
    BY <1>7, <2>1, FailsDoes
<1>8. ASSUME NEW a \in Addresses, Hears(r, a)
      PROVE  (\E f : Mild(f)) /\ UNCHANGED <<host, statics, bridge, past>>
  <2>1. Mild([e EXCEPT !.mail = a])
    BY <1>8, HearsDoes DEF Back, Gated, Started, Run
  <2> QED
    BY <1>8, <2>1, HearsDoes
<1> QED
  BY <1>1, <1>2, <1>3, <1>4, <1>5, <1>6, <1>7, <1>8, Zenon DEF Plain

(* A step of a run leaves the helper and the history alone. *)
LEMMA RunFrame ==
  ASSUME TypeOK, RunsAreSound, NEW r \in Runs, RunNext(r)
  PROVE  /\ \E f : Goes(r, f)
         /\ host' = host /\ past' = past
<1> QED
  BY RunCases, PlainDoes, StoresTokenDoes, StoresGateDoes, ClearsBridgeDoes,
     InstallsSlotDoes, InstallsReadyDoes, DropsGateDoes, ReadiesDoes, PathEndsDoes,
     TakesConfigDoes, WriterEndsDoes, Zenon

(* The runs stay sound, and those that were quiet or over stay so. *)
LEMMA RunsStay ==
  ASSUME TypeOK, RunsAreSound, NEW r \in Runs, NEW f, Goes(r, f), host' = host
  PROVE  /\ RunsAreSound'
         /\ \A o \in Runs : Quiet(o) => Quiet(o)'
         /\ \A o \in Runs : engine[o].at = "over" => engine'[o].at = "over"
<1>1. ASSUME NEW o \in Runs
      PROVE  /\ Sound(engine'[o]) /\ (o > host.run <=> engine'[o].at = "unborn")
             /\ Quiet(o) => Quiet(o)'
             /\ engine[o].at = "over" => engine'[o].at = "over"
  <2>1. Sound(engine[o]) /\ (o > host.run <=> engine[o].at = "unborn")
    BY DEF RunsAreSound
  <2>2. CASE o = r
    BY <2>1, <2>2 DEF Goes, Becomes, Lasts, Quiet
  <2>3. CASE o # r
    BY <2>1, <2>3 DEF Goes, Becomes, Quiet
  <2> QED
    BY <2>2, <2>3
<1>2. RunsAreSound'
  BY <1>1 DEF RunsAreSound
<1> QED
  BY <1>1, <1>2

(* The runs stay sound, and the older ones as quiet as they were. *)
LEMMA RunKeeps ==
  ASSUME IInv, NEW r \in Runs, RunNext(r)
  PROVE  RunsAreSound' /\ PastLasts'
<1> TypeOK /\ RunsAreSound /\ PastLasts
  BY DEF IInv
<1>1. PICK f : Goes(r, f)
  BY RunFrame
<1>2. host' = host /\ past' = past
  BY RunFrame
<1>3. Older(host.run) \subseteq Runs
  BY EngineLifeAssumption DEF TypeOK, Older, Runs
<1> QED
  BY <1>1, <1>2, <1>3, RunsStay DEF PastLasts, Older

-----------------------------------------------------------------------------
(* A run that is over, or not yet begun, takes no step. *)
LEMMA NoStep ==
  ASSUME TypeOK, RunsAreSound, NEW r \in Runs, RunNext(r)
  PROVE  engine[r].at \notin {"unborn", "over"}
<1> SUFFICES ASSUME engine[r].at \in {"unborn", "over"} PROVE FALSE
  OBVIOUS
<1>1. /\ engine[r].opening = 0 /\ engine[r].live = 0 /\ engine[r].mail = None
      /\ engine[r].writer \in {"none", "done"}
  BY RunFacts DEF Sound, Fresh, Started
<1>2. /\ ~(engine[r].opening > 0) /\ ~(engine[r].live > 0)
      /\ ~(engine[r].opening + engine[r].live > 0)
  BY <1>1
<1> QED
  BY <1>1, <1>2, Zenon DEF RunNext, Startup, WindsDown, Resolves, RunGoes, StoresToken,
     StoresGate, ClearsBridge, InstallsSlot, InstallsReady, CancelsItself, LeavesLoop,
     DropsGate, AwaitsGroups, AwaitsTasks, Begins, Fails, Readies, PathEnds, Hears,
     TakesConfig, WriterEnds

(* A run that is quiet changes neither the bridge nor the token or the gate. *)
LEMMA QuietStep ==
  ASSUME TypeOK, RunsAreSound, NEW r \in Runs, RunNext(r), Quiet(r)
  PROVE  /\ bridge' = bridge
         /\ statics'.cancel = statics.cancel /\ statics'.pause = statics.pause
<1>0. /\ engine[r].at \in {"groups", "tasks", "over"}
      /\ engine[r].writer \in {"none", "done"}
      /\ statics \in [cancel : Runs \cup {None}, pause : Runs \cup {None},
                      ip : Addresses \cup {None}, by : Runs \cup {None}, active : Int]
  BY DEF Quiet, TypeOK
<1>1. CASE Plain(r)
  BY <1>1, PlainDoes
<1>2. CASE StoresToken(r) \/ StoresGate(r) \/ ClearsBridge(r) \/ InstallsSlot(r)
           \/ InstallsReady(r) \/ DropsGate(r) \/ WriterEnds(r)
  BY <1>0, <1>2, Zenon DEF RunGoes, StoresToken, StoresGate, ClearsBridge, InstallsSlot,
     InstallsReady, DropsGate, WriterEnds
<1>3. CASE Readies(r)
  BY <1>0, <1>3, ReadiesDoes
<1>4. CASE PathEnds(r)
  BY <1>0, <1>4, PathEndsDoes
<1>5. CASE TakesConfig(r)
  BY <1>0, <1>5, TakesConfigDoes
<1> QED
  BY <1>1, <1>2, <1>3, <1>4, <1>5, RunCases

Statics == [cancel : Runs \cup {None}, pause : Runs \cup {None},
            ip : Addresses \cup {None}, by : Runs \cup {None}, active : Int]
Bridge == [slot : Runs \cup {None}, ready : BOOLEAN]

(* The types of the cells. *)
LEMMA StaticsFacts ==
  ASSUME TypeOK
  PROVE  statics \in Statics /\ bridge \in Bridge /\ host.run \in Runs \cup {0}
  BY DEF TypeOK, Statics, Bridge

(* The cells keep their types, and what the older runs write the helper may read. *)
LEMMA RunTypes ==
  ASSUME IInv, NEW r \in Runs, RunNext(r)
  PROVE  TypeOK' /\ HostIsSound'
<1> TypeOK /\ RunsAreSound /\ HostIsSound
  BY DEF IInv
<1>0. statics \in Statics /\ bridge \in Bridge /\ engine[r] \in Run
  BY StaticsFacts, RunFacts
<1> DEFINE Kept == statics' \in Statics /\ (statics.ip # None => statics'.ip # None)
<1>1. Kept /\ bridge' \in Bridge
  <2>1. CASE Plain(r)
    BY <1>0, <2>1, PlainDoes
  <2>2. CASE StoresToken(r)
    BY <1>0, <2>2, StoresTokenDoes DEF Statics
  <2>3. CASE StoresGate(r)
    <3>1. /\ statics' = [statics EXCEPT !.active = 0, !.pause = r] /\ bridge' = bridge
      BY <1>0, <2>3, StoresGateDoes DEF Run
    <3>2. ASSUME NEW n \in Int
          PROVE  [statics EXCEPT !.active = n, !.pause = r] \in Statics
      BY <1>0 DEF Statics
    <3>3. statics'.ip = statics.ip
      BY <1>0, <3>1 DEF Statics
    <3>4. 0 \in Int
      OBVIOUS
    <3>5. statics' \in Statics
      BY <3>1, <3>2, <3>4, Zenon
    <3> QED
      BY <1>0, <3>1, <3>3, <3>5
  <2>4. CASE ClearsBridge(r)
    BY <1>0, <2>4, ClearsBridgeDoes DEF Bridge
  <2>5. CASE InstallsSlot(r)
    BY <1>0, <2>5, InstallsSlotDoes DEF Bridge
  <2>6. CASE InstallsReady(r)
    BY <1>0, <2>6, InstallsReadyDoes DEF Bridge
  <2>7. CASE DropsGate(r)
    BY <1>0, <2>7, DropsGateDoes DEF Statics
  <2>8. CASE Readies(r)
    <3>1. /\ statics' = [statics EXCEPT !.active = @ + 1] /\ bridge' = bridge
      BY <1>0, <2>8, ReadiesDoes DEF Run
    <3> QED
      BY <1>0, <3>1 DEF Statics
  <2>9. CASE PathEnds(r)
    <3>1. /\ statics' = [statics EXCEPT !.active = @ - 1] /\ bridge' = bridge
      BY <1>0, <2>9, PathEndsDoes DEF Run
    <3> QED
      BY <1>0, <3>1 DEF Statics
  <2>10. CASE TakesConfig(r)
    <3>1. /\ statics' = [statics EXCEPT !.ip = engine[r].mail, !.by = r]
          /\ bridge' = bridge
          /\ engine[r].mail \in Addresses \cup {None} /\ engine[r].mail # None
      BY <1>0, <2>10, TakesConfigDoes DEF Run
    <3> QED
      BY <1>0, <3>1 DEF Statics
  <2>11. CASE WriterEnds(r)
    BY <1>0, <2>11, WriterEndsDoes DEF Bridge
  <2> QED
    BY <2>1, <2>2, <2>3, <2>4, <2>5, <2>6, <2>7, <2>8, <2>9, <2>10, <2>11, RunCases
<1>2. host' = host /\ past' = past /\ engine' \in [Runs -> Run]
  BY RunFrame DEF Goes, Becomes
<1>3. TypeOK'
  BY <1>1, <1>2 DEF TypeOK, Statics, Bridge, Run
<1>4. HostIsSound'
  BY <1>1, <1>2 DEF HostIsSound
<1> QED
  BY <1>3, <1>4

(* The flag of the bridge goes up with a writer, and down with the first that ends. *)
LEMMA RunServes ==
  ASSUME IInv, NEW r \in Runs, RunNext(r)
  PROVE  ReadyIsServed'
<1> TypeOK /\ RunsAreSound /\ ReadyIsServed
  BY DEF IInv
<1>0. bridge \in Bridge /\ engine[r] \in Run
  BY StaticsFacts, RunFacts
<1>1. ASSUME NEW f, Goes(r, f), bridge'.ready = bridge.ready,
             engine[r].writer = "running" => f.writer = "running"
      PROVE  ReadyIsServed'
  BY <1>1 DEF ReadyIsServed, Goes, Becomes
<1>2. CASE Plain(r)
  <2>1. PICK f : Goes(r, f) /\ Back(engine[r], f)
    BY <1>2, PlainDoes
  <2>2. bridge' = bridge /\ f.writer = engine[r].writer
    BY <1>2, <2>1, PlainDoes DEF Back
  <2> QED
    BY <1>1, <2>1, <2>2
<1>3. CASE StoresToken(r)
  BY <1>0, <1>1, <1>3, StoresTokenDoes DEF Run
<1>4. CASE StoresGate(r)
  BY <1>0, <1>1, <1>4, StoresGateDoes DEF Run
<1>5. CASE ClearsBridge(r)
  <2>1. CASE bridge' = [bridge EXCEPT !.ready = FALSE]
    BY <1>0, <2>1 DEF ReadyIsServed, Bridge
  <2>2. CASE bridge' # [bridge EXCEPT !.ready = FALSE]
    <3>1. /\ Goes(r, [engine[r] EXCEPT !.at = "install"])
          /\ bridge' = [bridge EXCEPT !.slot = None]
      BY <1>5, <2>2, ClearsBridgeDoes
    <3> QED
      BY <1>0, <1>1, <3>1 DEF Bridge, Run
  <2> QED
    BY <2>1, <2>2
<1>6. CASE InstallsSlot(r)
  <2>1. /\ Goes(r, [engine[r] EXCEPT !.at = "install ready"])
        /\ bridge' = [bridge EXCEPT !.slot = r]
    BY <1>6, InstallsSlotDoes
  <2> QED
    BY <1>0, <1>1, <2>1 DEF Bridge, Run
<1>7. CASE InstallsReady(r)
  BY <1>0, <1>7, InstallsReadyDoes, ZenonT(40) DEF Run, ReadyIsServed, Goes, Becomes
<1>8. CASE DropsGate(r)
  BY <1>0, <1>1, <1>8, DropsGateDoes DEF Run
<1>9. CASE Readies(r)
  BY <1>0, <1>1, <1>9, ReadiesDoes DEF Run
<1>10. CASE PathEnds(r)
  BY <1>0, <1>1, <1>10, PathEndsDoes DEF Run
<1>11. CASE TakesConfig(r)
  BY <1>0, <1>1, <1>11, TakesConfigDoes DEF Run
<1>12. CASE WriterEnds(r)
  <2>1. CASE bridge' = [bridge EXCEPT !.ready = FALSE]
    BY <1>0, <2>1 DEF ReadyIsServed, Bridge
  <2>2. CASE bridge' # [bridge EXCEPT !.ready = FALSE]
    <3>1. /\ Goes(r, [engine[r] EXCEPT !.writer = "done"])
          /\ engine[r].writer = "clearing"
          /\ bridge' = [bridge EXCEPT !.slot = None]
      BY <1>12, <2>2, WriterEndsDoes
    <3> QED
      BY <1>0, <1>1, <3>1 DEF Bridge, Run
  <2> QED
    BY <2>1, <2>2
<1> QED
  BY <1>2, <1>3, <1>4, <1>5, <1>6, <1>7, <1>8, <1>9, <1>10, <1>11, <1>12, RunCases

(* A step of another run leaves the wiring alone: it is quiet. *)
LEMMA RunWires ==
  ASSUME IInv, NEW r \in Runs, RunNext(r)
  PROVE  Wired'
<1> TypeOK /\ RunsAreSound /\ HostIsSound /\ PastLasts /\ Wired
  BY DEF IInv
<1>0. /\ statics \in Statics /\ bridge \in Bridge /\ engine[r] \in Run /\ Sound(engine[r])
      /\ host' = host /\ past' = past
  BY StaticsFacts, RunFacts, RunFrame
<1> SUFFICES ASSUME host.at \in Served, past.quiet
             PROVE  WiredTo(host.run, engine[host.run])'
  BY <1>0 DEF Wired
<1>1. host.run \in Runs /\ WiredTo(host.run, engine[host.run])
  BY DEF HostIsSound, Wired
<1>2. CASE r # host.run
  <2>1. Quiet(r)
    <3>1. ~(r > host.run)
      BY NoStep DEF RunsAreSound
    <3>2. r \in Older(host.run)
      BY <1>1, <1>2, <3>1, EngineLifeAssumption DEF Older, Runs
    <3> QED
      BY <3>2 DEF PastLasts
  <2>2. /\ bridge' = bridge /\ statics'.cancel = statics.cancel
        /\ statics'.pause = statics.pause
    BY <2>1, QuietStep
  <2>3. engine'[host.run] = engine[host.run]
    BY <1>1, <1>2, RunFrame DEF Goes, Becomes
  <2> QED
    BY <1>0, <1>1, <2>2, <2>3 DEF WiredTo
<1>3. CASE r = host.run
  <2> DEFINE e == engine[r]
  <2>0. WiredTo(r, e)
    BY <1>1, <1>3
  <2>1. SUFFICES ASSUME NEW f, Goes(r, f)
                 PROVE  /\ f.at \in Gated \cup {"gate"} \/ f.writer # "none" =>
                             statics'.cancel = r
                        /\ f.at \in Gated /\ ~f.cancelled => statics'.pause = r
                        /\ f.at \in {"install ready", "serving"} /\ ~f.cancelled =>
                             bridge'.slot = r
                        /\ f.at = "serving" /\ ~f.cancelled => bridge'.ready
                        /\ host.at \in {"check", "serving"} => f.writer # "none"
    BY <1>0, <1>3, RunFrame DEF WiredTo, Goes, Becomes
  <2>2. f = engine'[r] /\ Sound(f) /\ f \in Run /\ Lasts(e, f)
    BY <2>1 DEF Goes, Becomes
  <2>3. CASE Plain(r)
    <3>1. Back(e, f) /\ statics' = statics /\ bridge' = bridge
      BY <2>2, <2>3, PlainDoes DEF Goes, Becomes
    <3> QED
      BY <2>0, <2>2, <3>1 DEF WiredTo, Back, Lasts, Gated, Started
  <2>4. CASE StoresToken(r)
    <3>1. /\ e.at = "token" /\ f = [e EXCEPT !.at = "gate"]
          /\ statics' = [statics EXCEPT !.cancel = r] /\ bridge' = bridge
      BY <2>2, <2>4, StoresTokenDoes DEF Goes, Becomes
    <3> QED
      BY <1>0, <2>0, <3>1 DEF WiredTo, Gated, Started, Run, Statics
  <2>5. CASE StoresGate(r)
    <3>1. /\ e.at = "gate" /\ f = [e EXCEPT !.at = "clear"]
          /\ statics' = [statics EXCEPT !.active = 0, !.pause = r] /\ bridge' = bridge
      BY <2>2, <2>5, StoresGateDoes DEF Goes, Becomes
    <3>2. statics'.cancel = statics.cancel /\ statics'.pause = r
      BY <1>0, <3>1 DEF Statics
    <3>3. f.writer = e.writer /\ f.at = "clear"
      BY <1>0, <3>1 DEF Run
    <3> QED
      BY <2>0, <3>1, <3>2, <3>3 DEF WiredTo
  <2>6. CASE ClearsBridge(r)
    <3>1. /\ e.at \in {"clear", "clear slot"} /\ f.at \in {"clear slot", "install"}
          /\ f.writer = e.writer /\ f.cancelled = e.cancelled /\ statics' = statics
      <4>1. PICK to \in {"clear slot", "install"} :
              /\ e.at \in {"clear", "clear slot"} /\ statics' = statics
              /\ Goes(r, [e EXCEPT !.at = to])
        BY <2>6, ClearsBridgeDoes
      <4>2. f = [e EXCEPT !.at = to]
        BY <2>2, <4>1 DEF Goes, Becomes
      <4> QED
        BY <1>0, <4>1, <4>2 DEF Run
    <3> QED
      BY <2>0, <3>1 DEF WiredTo, Gated, Started
  <2>7. CASE InstallsSlot(r)
    <3>1. /\ e.at = "install" /\ f = [e EXCEPT !.at = "install ready"]
          /\ bridge' = [bridge EXCEPT !.slot = r] /\ statics' = statics
      BY <2>2, <2>7, InstallsSlotDoes DEF Goes, Becomes
    <3> QED
      BY <1>0, <2>0, <3>1 DEF WiredTo, Gated, Started, Run, Bridge
  <2>8. CASE InstallsReady(r)
    <3>1. /\ e.at = "install ready"
          /\ f = [e EXCEPT !.at = "serving", !.writer = "running"]
          /\ bridge' = [bridge EXCEPT !.ready = TRUE] /\ statics' = statics
      BY <2>2, <2>8, InstallsReadyDoes DEF Goes, Becomes
    <3>2. /\ f.at = "serving" /\ f.writer = "running" /\ f.cancelled = e.cancelled
          /\ bridge'.slot = bridge.slot /\ bridge'.ready
      BY <1>0, <3>1 DEF Run, Bridge
    <3> QED
      BY <2>0, <3>1, <3>2 DEF WiredTo, Gated, Started
  <2>9. CASE DropsGate(r)
    <3>1. /\ e.at = "unpause" /\ f = [e EXCEPT !.at = "groups"]
          /\ statics' = [statics EXCEPT !.pause = None] /\ bridge' = bridge
      BY <2>2, <2>9, DropsGateDoes DEF Goes, Becomes
    <3>2. /\ e.cancelled /\ f.cancelled = e.cancelled
          /\ f.at = "groups" /\ f.writer = e.writer
      BY <1>0, <3>1 DEF Sound, Run
    <3> QED
      BY <1>0, <2>0, <3>1, <3>2 DEF WiredTo, Gated, Started, Statics
  <2>10. CASE Readies(r)
    <3>1. /\ f = [e EXCEPT !.opening = @ - 1, !.live = @ + 1]
          /\ statics' = [statics EXCEPT !.active = @ + 1] /\ bridge' = bridge
      BY <2>2, <2>10, ReadiesDoes DEF Goes, Becomes
    <3> QED
      BY <1>0, <2>0, <3>1 DEF WiredTo, Run, Statics
  <2>11. CASE PathEnds(r)
    <3>1. /\ f = [e EXCEPT !.live = @ - 1]
          /\ statics' = [statics EXCEPT !.active = @ - 1] /\ bridge' = bridge
      BY <2>2, <2>11, PathEndsDoes DEF Goes, Becomes
    <3> QED
      BY <1>0, <2>0, <3>1 DEF WiredTo, Run, Statics
  <2>12. CASE TakesConfig(r)
    <3>1. /\ f = [e EXCEPT !.mail = None, !.last = e.mail]
          /\ statics' = [statics EXCEPT !.ip = e.mail, !.by = r] /\ bridge' = bridge
      BY <2>2, <2>12, TakesConfigDoes DEF Goes, Becomes
    <3> QED
      BY <1>0, <2>0, <3>1 DEF WiredTo, Run, Statics
  <2>13. CASE WriterEnds(r)
    <3>1. /\ e.writer \in {"running", "clearing"} /\ e.cancelled
          /\ f.writer \in {"clearing", "done"} /\ f.at = e.at /\ f.cancelled = e.cancelled
          /\ statics' = statics
      <4>1. PICK to \in {"clearing", "done"} :
              /\ e.writer \in {"running", "clearing"} /\ statics' = statics
              /\ Goes(r, [e EXCEPT !.writer = to])
              /\ e.writer = "running" => e.cancelled
        BY <2>13, WriterEndsDoes
      <4>2. f = [e EXCEPT !.writer = to]
        BY <2>2, <4>1 DEF Goes, Becomes
      <4>3. e.cancelled
        BY <1>0, <4>1 DEF Sound
      <4> QED
        BY <1>0, <4>1, <4>2, <4>3 DEF Run
    <3> QED
      BY <2>0, <3>1 DEF WiredTo
  <2> QED
    BY <2>3, <2>4, <2>5, <2>6, <2>7, <2>8, <2>9, <2>10, <2>11, <2>12, <2>13, RunCases
<1> QED
  BY <1>2, <1>3

(* The address is the last run's once the older ones are over. *)
LEMMA RunAddresses ==
  ASSUME IInv, NEW r \in Runs, RunNext(r)
  PROVE  Addressed'
<1> TypeOK /\ RunsAreSound /\ HostIsSound /\ PastLasts /\ Addressed
  BY DEF IInv
<1>0. statics \in Statics /\ host' = host /\ past' = past
  BY StaticsFacts, RunFrame
<1> SUFFICES ASSUME host.at \in Served, past.alone
             PROVE  statics'.ip # None => statics'.by = host.run
  BY <1>0 DEF Addressed
<1>1. host.run \in Runs
  BY DEF HostIsSound
<1>2. r = host.run
  BY <1>1, NoStep, EngineLifeAssumption DEF RunsAreSound, PastLasts, Older, Runs
<1>3. CASE TakesConfig(r)
  <2>1. statics' = [statics EXCEPT !.ip = engine[r].mail, !.by = r]
    BY <1>3, TakesConfigDoes
  <2> QED
    BY <1>0, <1>2, <2>1 DEF Statics
<1>4. CASE ~TakesConfig(r)
  <2>1. statics'.ip = statics.ip /\ statics'.by = statics.by
    <3>1. CASE statics' = statics
      BY <3>1
    <3>2. CASE StoresToken(r)
      BY <1>0, <3>2, StoresTokenDoes DEF Statics
    <3>3. CASE StoresGate(r)
      <4>1. statics' = [statics EXCEPT !.active = 0, !.pause = r]
        BY <3>3, StoresGateDoes
      <4> QED
        BY <1>0, <4>1 DEF Statics
    <3>4. CASE DropsGate(r)
      BY <1>0, <3>4, DropsGateDoes DEF Statics
    <3>5. CASE Readies(r)
      <4>1. statics' = [statics EXCEPT !.active = @ + 1]
        BY <3>5, ReadiesDoes
      <4> QED
        BY <1>0, <4>1 DEF Statics
    <3>6. CASE PathEnds(r)
      <4>1. statics' = [statics EXCEPT !.active = @ - 1]
        BY <3>6, PathEndsDoes
      <4> QED
        BY <1>0, <4>1 DEF Statics
    <3> QED
      BY <1>4, <3>1, <3>2, <3>3, <3>4, <3>5, <3>6, RunCases, PlainDoes, ClearsBridgeDoes,
         InstallsSlotDoes, InstallsReadyDoes, WriterEndsDoes, Zenon
  <2> QED
    BY <2>1 DEF Addressed
<1> QED
  BY <1>3, <1>4

(* What a step of a run does to ACTIVE_PATHS, beside its own sessions. *)
Counted(e, f) ==
  \/ f.live = e.live /\ statics'.active = statics.active
  \/ f.live = e.live + 1 /\ statics'.active = statics.active + 1
  \/ f.live = e.live - 1 /\ statics'.active = statics.active - 1

(* A step of a run changes ACTIVE_PATHS as it changes its own sessions,    *)
(* or sets it to 0.                                                        *)
LEMMA RunCounts ==
  ASSUME TypeOK, RunsAreSound, NEW r \in Runs, RunNext(r)
  PROVE  \E f : /\ Goes(r, f)
                /\ \/ /\ Counted(engine[r], f)
                      /\ f.at \in Gated => engine[r].at \in Gated
                      /\ f.writer # "none" =>
                           engine[r].at \in Gated \/ engine[r].writer # "none"
                   \/ f.live = 0 /\ engine[r].live = 0 /\ statics'.active = 0
<1> DEFINE e == engine[r]
           Near(f) == /\ Counted(e, f) /\ (f.at \in Gated => e.at \in Gated)
                      /\ (f.writer # "none" => e.at \in Gated \/ e.writer # "none")
           Zero(f) == f.live = 0 /\ e.live = 0 /\ statics'.active = 0
<1>0. statics \in Statics /\ e \in Run /\ Sound(e)
  BY StaticsFacts, RunFacts
<1> SUFFICES \E f : Goes(r, f) /\ (Near(f) \/ Zero(f))
  OBVIOUS
<1>1. ASSUME NEW f, Goes(r, f), statics'.active = statics.active, f.live = e.live,
             f.at \in Gated => e.at \in Gated,
             f.writer # "none" => e.at \in Gated \/ e.writer # "none"
      PROVE  Near(f)
  BY <1>1 DEF Counted
<1>2. CASE Plain(r)
  <2>1. PICK f : Goes(r, f) /\ Back(e, f) /\ f.live = e.live
    BY <1>2, PlainDoes
  <2>2. Near(f)
    BY <1>1, <1>2, <2>1, PlainDoes DEF Back
  <2> QED
    BY <2>1, <2>2
<1>3. CASE StoresToken(r)
  <2> DEFINE f == [e EXCEPT !.at = "gate"]
  <2>1. Goes(r, f) /\ statics'.active = statics.active
    BY <1>0, <1>3, StoresTokenDoes DEF Statics
  <2>2. Near(f)
    BY <1>0, <1>1, <2>1 DEF Run, Gated, Started
  <2> QED
    BY <2>1, <2>2
<1>4. CASE StoresGate(r)
  <2> DEFINE f == [e EXCEPT !.at = "clear"]
  <2>1. /\ Goes(r, f) /\ e.at = "gate"
        /\ statics' = [statics EXCEPT !.active = 0, !.pause = r]
    BY <1>4, StoresGateDoes
  <2>2. statics'.active = 0
    BY <1>0, <2>1 DEF Statics
  <2>3. e.live = 0
    BY <1>0, <2>1 DEF Sound
  <2>4. f.live = e.live
    BY <1>0 DEF Run
  <2> QED
    BY <2>1, <2>2, <2>3, <2>4
<1>5. CASE ClearsBridge(r)
  <2>1. PICK to \in {"clear slot", "install"} :
          e.at \in {"clear", "clear slot"} /\ Goes(r, [e EXCEPT !.at = to])
    BY <1>5, ClearsBridgeDoes
  <2>2. statics' = statics
    BY <1>5, ClearsBridgeDoes
  <2>3. Near([e EXCEPT !.at = to])
    BY <1>0, <1>1, <2>1, <2>2 DEF Run, Gated, Started
  <2> QED
    BY <2>1, <2>3
<1>6. CASE InstallsSlot(r)
  <2> DEFINE f == [e EXCEPT !.at = "install ready"]
  <2>1. Goes(r, f) /\ e.at = "install" /\ statics' = statics
    BY <1>6, InstallsSlotDoes
  <2>2. Near(f)
    BY <1>0, <1>1, <2>1 DEF Run, Gated, Started
  <2> QED
    BY <2>1, <2>2
<1>7. CASE InstallsReady(r)
  <2> DEFINE f == [e EXCEPT !.at = "serving", !.writer = "running"]
  <2>1. Goes(r, f) /\ e.at = "install ready" /\ statics' = statics
    BY <1>7, InstallsReadyDoes
  <2>2. f.live = e.live
    BY <1>0 DEF Run
  <2>3. Near(f)
    BY <1>1, <2>1, <2>2 DEF Gated
  <2> QED
    BY <2>1, <2>3
<1>8. CASE DropsGate(r)
  <2> DEFINE f == [e EXCEPT !.at = "groups"]
  <2>1. Goes(r, f) /\ e.at = "unpause" /\ statics'.active = statics.active
    BY <1>0, <1>8, DropsGateDoes DEF Statics
  <2>2. Near(f)
    BY <1>0, <1>1, <2>1 DEF Run, Gated, Started
  <2> QED
    BY <2>1, <2>2
<1>9. CASE Readies(r)
  <2> DEFINE f == [e EXCEPT !.opening = @ - 1, !.live = @ + 1]
  <2>1. Goes(r, f) /\ statics' = [statics EXCEPT !.active = @ + 1]
    BY <1>9, ReadiesDoes
  <2>2. statics'.active = statics.active + 1
    BY <1>0, <2>1 DEF Statics
  <2>3. f.live = e.live + 1 /\ f.at = e.at /\ f.writer = e.writer
    BY <1>0 DEF Run
  <2>4. Near(f)
    BY <2>2, <2>3 DEF Counted
  <2> QED
    BY <2>1, <2>4
<1>10. CASE PathEnds(r)
  <2> DEFINE f == [e EXCEPT !.live = @ - 1]
  <2>1. Goes(r, f) /\ statics' = [statics EXCEPT !.active = @ - 1]
    BY <1>10, PathEndsDoes
  <2>2. statics'.active = statics.active - 1
    BY <1>0, <2>1 DEF Statics
  <2>3. f.live = e.live - 1 /\ f.at = e.at /\ f.writer = e.writer
    BY <1>0 DEF Run
  <2>4. Near(f)
    BY <2>2, <2>3 DEF Counted
  <2> QED
    BY <2>1, <2>4
<1>11. CASE TakesConfig(r)
  <2> DEFINE f == [e EXCEPT !.mail = None, !.last = e.mail]
  <2>1. Goes(r, f) /\ statics' = [statics EXCEPT !.ip = e.mail, !.by = r]
    BY <1>11, TakesConfigDoes
  <2>2. statics'.active = statics.active
    BY <1>0, <2>1 DEF Statics
  <2>3. f.live = e.live /\ f.at = e.at /\ f.writer = e.writer
    BY <1>0 DEF Run
  <2>4. Near(f)
    BY <2>2, <2>3 DEF Counted
  <2> QED
    BY <2>1, <2>4
<1>12. CASE WriterEnds(r)
  <2>1. PICK to \in {"clearing", "done"} :
          e.writer \in {"running", "clearing"} /\ Goes(r, [e EXCEPT !.writer = to])
    BY <1>12, WriterEndsDoes
  <2>2. statics' = statics
    BY <1>12, WriterEndsDoes
  <2>3. Near([e EXCEPT !.writer = to])
    BY <1>0, <1>1, <2>1, <2>2 DEF Run
  <2> QED
    BY <2>1, <2>3
<1> QED
  BY <1>2, <1>3, <1>4, <1>5, <1>6, <1>7, <1>8, <1>9, <1>10, <1>11, <1>12, RunCases

(* The count of a run that is alone is its own. *)
LEMMA RunCountsAlone ==
  ASSUME IInv, NEW r \in Runs, RunNext(r)
  PROVE  CountedAlone'
<1> TypeOK /\ RunsAreSound /\ PastLasts /\ CountedAlone
  BY DEF IInv
<1>1. PICK f :
        /\ Goes(r, f)
        /\ \/ /\ Counted(engine[r], f)
              /\ f.at \in Gated => engine[r].at \in Gated
              /\ f.writer # "none" => engine[r].at \in Gated \/ engine[r].writer # "none"
           \/ f.live = 0 /\ engine[r].live = 0 /\ statics'.active = 0
  BY RunCounts
<1>2. host' = host /\ past' = past
  BY RunFrame
<1> SUFFICES ASSUME past.alone, host.run \in Runs
             PROVE  LET e == engine'[host.run] IN
                    e.at \in Gated \/ e.writer # "none" => statics'.active = e.live
  BY <1>2 DEF CountedAlone
<1>3. r = host.run
  BY NoStep, EngineLifeAssumption DEF RunsAreSound, PastLasts, Older, Runs
<1>4. engine'[r] = f
  BY <1>1 DEF Goes, Becomes
<1>5. engine[r].at \in Gated \/ engine[r].writer # "none" =>
        statics.active = engine[r].live
  BY <1>3 DEF CountedAlone
<1> QED
  BY <1>1, <1>3, <1>4, <1>5 DEF Counted

(* The sum of the sessions is a number. *)
LEMMA LiveIsNat ==
  ASSUME TypeOK
  PROVE  Live(Runs) \in Nat
<1>1. IsFiniteSet(Runs) /\ 1 \in Runs
  BY FS_Interval, EngineLifeAssumption DEF Runs
<1>2. Counts(engine, Runs)
  BY EngineLifeAssumption DEF TypeOK, Counts
<1>3. Live(Runs) = Total(engine, Runs)
  BY DEF Live, Total
<1> QED
  BY <1>1, <1>2, <1>3, TotalChanges

(* The sum of the sessions of the runs changes by those of the run that steps. *)
LEMMA LiveChanges ==
  ASSUME TypeOK, NEW r \in Runs, NEW f, Becomes(r, f)
  PROVE  /\ Live(Runs) \in Nat /\ Live(Runs)' \in Nat
         /\ Live(Runs)' = Live(Runs) + (f.live - engine[r].live)
<1> DEFINE e == engine
           g == engine'
<1>1. /\ \A o \in Runs : e[o].live \in 0 .. Workers /\ g[o].live \in 0 .. Workers
      /\ g[r] = f /\ \A o \in Runs \ {r} : g[o].live = e[o].live
      /\ Workers \in Nat
  BY EngineLifeAssumption DEF TypeOK, Becomes, Run
<1>2. IsFiniteSet(Runs)
  BY FS_Interval, EngineLifeAssumption DEF Runs
<1>3. Live(Runs) = Total(e, Runs)
  BY DEF Live, Total
<1>4. Live(Runs)' = Total(g, Runs)
  BY DEF Live, Total, Runs, MapThenSumSet, MapThenFoldSet
<1> HIDE DEF e, g
<1>5. Counts(e, Runs) /\ Counts(g, Runs)
  BY <1>1 DEF Counts
<1>6. /\ Total(e, Runs) \in Nat
      /\ Total(g, Runs) = Total(e, Runs) + (g[r].live - e[r].live)
  BY <1>1, <1>2, <1>5, TotalChanges
<1>7. Total(g, Runs) \in Nat
  BY <1>1, <1>2, <1>5, TotalChanges
<1> QED
  BY <1>1, <1>3, <1>4, <1>6, <1>7 DEF e

(* ACTIVE_PATHS claims no path that no run has. *)
LEMMA RunMirrors ==
  ASSUME IInv, NEW r \in Runs, RunNext(r)
  PROVE  (statics.active <= Live(Runs))'
<1> TypeOK /\ RunsAreSound /\ statics.active <= Live(Runs)
  BY DEF IInv
<1>1. PICK f :
        /\ Goes(r, f)
        /\ \/ Counted(engine[r], f)
           \/ f.live = 0 /\ engine[r].live = 0 /\ statics'.active = 0
  BY RunCounts
<1>2. /\ Live(Runs) \in Nat /\ Live(Runs)' \in Nat
      /\ Live(Runs)' = Live(Runs) + (f.live - engine[r].live)
  BY <1>1, LiveChanges DEF Goes
<1>3. f.live \in Int /\ engine[r].live \in Int /\ statics.active \in Int
  BY <1>1, RunFacts, StaticsFacts DEF Statics, Goes, Becomes, Run
<1>4. statics'.active <= Live(Runs)'
  BY <1>1, <1>2, <1>3 DEF Counted
<1> QED
  BY <1>4

-----------------------------------------------------------------------------
Host == [at : HostAt, run : Runs \cup {0}, ip : Addresses \cup {None}]

(* A step of the helper that leaves the runs alone. *)
Aside ==
  /\ host' \in Host /\ host'.run = host.run
  /\ statics' \in Statics /\ statics'.active = statics.active
  /\ bridge' \in Bridge /\ (bridge'.ready => bridge.ready)
  /\ UNCHANGED <<engine, past>>

(* Most of the invariant is about the runs, which such a step leaves alone. *)
LEMMA AsideKeeps ==
  ASSUME IInv, Aside
  PROVE  /\ TypeOK' /\ RunsAreSound' /\ PastLasts' /\ ReadyIsServed' /\ CountedAlone'
         /\ (statics.active <= Live(Runs))'
<1> TypeOK /\ RunsAreSound /\ PastLasts /\ ReadyIsServed /\ CountedAlone
    /\ statics.active <= Live(Runs)
  BY DEF IInv
<1>1. engine' = engine /\ past' = past /\ host'.run = host.run
  BY DEF Aside
<1>2. TypeOK'
  BY DEF Aside, TypeOK, Host, Statics, Bridge
<1>3. RunsAreSound' /\ PastLasts' /\ ReadyIsServed'
  BY <1>1 DEF Aside, RunsAreSound, Sound, PastLasts, Quiet, ReadyIsServed
<1>4. CountedAlone'
  BY <1>1 DEF Aside, CountedAlone
<1>5. Live(Runs)' = Live(Runs)
  BY <1>1 DEF Live, Runs, MapThenSumSet, MapThenFoldSet
<1>6. (statics.active <= Live(Runs))'
  BY <1>5 DEF Aside
<1> QED
  BY <1>2, <1>3, <1>4, <1>6

(* Where the helper is not between a spawn and a stop, no wiring is claimed. *)
LEMMA AsideInv ==
  ASSUME IInv, Aside, HostIsSound', host'.at \notin Served
  PROVE  IInv'
  BY AsideKeeps DEF IInv, Wired, Addressed

(* The types of the cells, and of the helper wherever it goes. *)
LEMMA HostFacts ==
  ASSUME IInv
  PROVE  /\ host \in Host /\ statics \in Statics /\ bridge \in Bridge
         /\ host.run \in Runs \cup {0} /\ MaxRuns \in Nat \ {0}
         /\ \A to \in HostAt : /\ [host EXCEPT !.at = to] \in Host
                               /\ [host EXCEPT !.at = to].at = to
                               /\ [host EXCEPT !.at = to].run = host.run
                               /\ [host EXCEPT !.at = to].ip = host.ip
<1>1. host \in Host /\ statics \in Statics /\ bridge \in Bridge
  BY DEF IInv, TypeOK, Host, Statics, Bridge
<1> QED
  BY <1>1, EngineLifeAssumption DEF Host

(* The helper goes on, and a store takes something away. *)
LEMMA StartClearsInv == IInv /\ (StartClears \/ StopClears) => IInv'
<1> SUFFICES ASSUME IInv, StartClears \/ StopClears PROVE IInv'
  OBVIOUS
<1>1. PICK to \in {"start slot", "unhook"} :
        /\ host.at \in {"start", "unready"} /\ host' = [host EXCEPT !.at = to]
        /\ bridge' = [bridge EXCEPT !.ready = FALSE]
        /\ UNCHANGED <<statics, engine, past>>
  BY Zenon DEF StartClears, StopClears, HostGoes
<1>2. /\ host' \in Host /\ host'.at = to /\ host'.run = host.run /\ host'.ip = host.ip
  <2>1. to \in HostAt
    BY DEF HostAt
  <2> QED
    BY <1>1, <2>1, HostFacts
<1>3. Aside
  BY <1>1, <1>2, HostFacts DEF Aside, Bridge
<1>4. HostIsSound' /\ host'.at \notin Served
  BY <1>1, <1>2 DEF IInv, HostIsSound, Served
<1> QED
  BY <1>3, <1>4, AsideInv

(* The slot is emptied, before a spawn and in a stop. *)
LEMMA StartClearsSlotInv == IInv /\ (StartClearsSlot \/ StopClearsSlot) => IInv'
<1> SUFFICES ASSUME IInv, StartClearsSlot \/ StopClearsSlot PROVE IInv'
  OBVIOUS
<1>1. PICK to \in {"spawn", "start"} :
        /\ host.at \in {"start slot", "unhook"} /\ host' = [host EXCEPT !.at = to]
        /\ bridge' = [bridge EXCEPT !.slot = None]
        /\ UNCHANGED <<statics, engine, past>>
  BY Zenon DEF StartClearsSlot, StopClearsSlot, HostGoes
<1>2. /\ host' \in Host /\ host'.at = to /\ host'.run = host.run /\ host'.ip = host.ip
  <2>1. to \in HostAt
    BY DEF HostAt
  <2> QED
    BY <1>1, <2>1, HostFacts
<1>3. Aside
  BY <1>1, <1>2, HostFacts DEF Aside, Bridge
<1>4. HostIsSound' /\ host'.at \notin Served
  BY <1>1, <1>2 DEF IInv, HostIsSound, Served
<1> QED
  BY <1>3, <1>4, AsideInv

(* Whatever becomes of the helper elsewhere, the cells stay as they are. *)
LEMMA WaitEndsInv == IInv /\ (WaitEnds \/ Recycle) => IInv'
<1> SUFFICES ASSUME IInv, WaitEnds \/ Recycle PROVE IInv'
  OBVIOUS
<1>1. PICK to \in {"exited", "down", "stop"} :
        /\ host' = [host EXCEPT !.at = to] /\ (to = "stop" => host.run < MaxRuns)
        /\ UNCHANGED <<statics, bridge, engine, past>>
  BY Zenon DEF WaitEnds, Recycle, HostGoes
<1>2. /\ host' \in Host /\ host'.at = to /\ host'.run = host.run /\ host'.ip = host.ip
  <2>1. to \in HostAt
    BY DEF HostAt
  <2> QED
    BY <1>1, <2>1, HostFacts
<1>3. Aside
  BY <1>1, <1>2, HostFacts DEF Aside
<1>4. HostIsSound' /\ host'.at \notin Served
  BY <1>1, <1>2 DEF IInv, HostIsSound, Served
<1> QED
  BY <1>3, <1>4, AsideInv

(* The stop empties ENGINE_PAUSE. *)
LEMMA StopDropsGateInv == IInv /\ StopDropsGate => IInv'
<1> SUFFICES ASSUME IInv, StopDropsGate PROVE IInv'
  OBVIOUS
<1>1. /\ host.at = "stop" /\ host' = [host EXCEPT !.at = "cancel"]
      /\ statics' = [statics EXCEPT !.pause = None]
      /\ UNCHANGED <<bridge, engine, past>>
  BY Zenon DEF StopDropsGate, HostGoes
<1>2. /\ host' \in Host /\ host'.at = "cancel"
      /\ host'.run = host.run /\ host'.ip = host.ip
  BY <1>1, HostFacts DEF HostAt
<1>3. Aside
  BY <1>1, <1>2, HostFacts DEF Aside, Statics
<1>4. HostIsSound' /\ host'.at \notin Served
  BY <1>1, <1>2 DEF IInv, HostIsSound, Served
<1> QED
  BY <1>3, <1>4, AsideInv

(* The wiring that a waiting or serving helper may rely on. *)
LEMMA ServedInv ==
  ASSUME IInv, host.at \in Served, host' \in Host, host'.run = host.run,
         UNCHANGED <<statics, bridge, engine, past>>, HostIsSound',
         host'.at \in {"check", "serving"} /\ past.quiet =>
           engine[host.run].writer # "none"
  PROVE  IInv'
<1>1. Aside
  BY HostFacts DEF Aside
<1>2. Wired' /\ Addressed'
  BY DEF IInv, Wired, WiredTo, Addressed
<1> QED
  BY <1>1, <1>2, AsideKeeps DEF IInv

(* A run is older than another, the same, or younger. *)
LEMMA OlderRuns ==
  ASSUME NEW h \in Runs, NEW r \in Runs, r \notin Older(h), ~(r > h)
  PROVE  r = h
  BY EngineLifeAssumption DEF Older, Runs

(* A helper that sees the bridge ready sees the writer of its own run. *)
LEMMA WaitSeesInv == IInv /\ (WaitSeesAddress \/ WaitSeesBridge) => IInv'
<1> SUFFICES ASSUME IInv, WaitSeesAddress \/ WaitSeesBridge PROVE IInv'
  OBVIOUS
<1>1. PICK to \in {"wait bridge", "check", "wait"} :
        /\ host.at \in {"wait", "wait bridge"} /\ host' = [host EXCEPT !.at = to]
        /\ UNCHANGED <<statics, bridge, engine, past>>
        /\ to = "check" => host.at = "wait bridge" /\ bridge.ready
        /\ to = "wait bridge" => statics.ip # None
  BY Zenon DEF WaitSeesAddress, WaitSeesBridge, HostGoes
<1>2. /\ host' \in Host /\ host'.at = to /\ host'.run = host.run /\ host'.ip = host.ip
  <2>1. to \in HostAt
    BY DEF HostAt
  <2> QED
    BY <1>1, <2>1, HostFacts
<1>3. HostIsSound' /\ host.at \in Served
  BY <1>1, <1>2 DEF IInv, HostIsSound, Served
<1>4. ASSUME to = "check", past.quiet PROVE engine[host.run].writer # "none"
  <2>1. PICK r \in Runs : engine[r].writer = "running"
    BY <1>1, <1>4 DEF IInv, ReadyIsServed
  <2>2. r \notin Older(host.run)
    BY <1>4, <2>1 DEF IInv, PastLasts, Quiet
  <2>3. ~(r > host.run)
    BY <2>1 DEF IInv, RunsAreSound, Sound, Started
  <2>4. r = host.run
    <3>1. host.run \in Runs
      BY <1>3 DEF IInv, HostIsSound
    <3> QED
      BY <2>2, <2>3, <3>1, OlderRuns
  <2> QED
    BY <2>1, <2>4
<1> QED
  BY <1>1, <1>2, <1>3, <1>4, ServedInv

(* The netstack takes the address that is there. *)
LEMMA ChecksInv == IInv /\ Checks => IInv'
<1> SUFFICES ASSUME IInv, Checks PROVE IInv'
  OBVIOUS
<1>1. /\ host.at = "check" /\ host' = [host EXCEPT !.at = "serving", !.ip = statics.ip]
      /\ UNCHANGED <<statics, bridge, engine, past>>
  BY Zenon DEF Checks
<1>2. /\ host' \in Host /\ host'.at = "serving" /\ host'.run = host.run
      /\ host'.ip = statics.ip
  BY <1>1, HostFacts DEF HostAt, Host, Statics
<1>3. HostIsSound' /\ host.at \in Served
  BY <1>1, <1>2 DEF IInv, HostIsSound, Served
<1>4. past.quiet => engine[host.run].writer # "none"
  BY <1>1, <1>3 DEF IInv, Wired, WiredTo
<1> QED
  BY <1>1, <1>2, <1>3, <1>4, ServedInv

(* A new engine: what the older ones have come to is noted. *)
LEMMA SpawnInv == IInv /\ Spawn => IInv'
<1> SUFFICES ASSUME IInv, Spawn PROVE IInv'
  OBVIOUS
<1> DEFINE r == host.run + 1
           e == engine[r]
           f == [e EXCEPT !.at = "resolve"]
<1> TypeOK /\ RunsAreSound /\ HostIsSound /\ PastLasts
  BY DEF IInv
<1>1. host.at = "spawn" /\ r \in Runs /\ e.at = "unborn" /\ Becomes(r, f)
  BY HostEffects
<1>2. /\ host' = [host EXCEPT !.at = "wait", !.run = r]
      /\ statics' = [statics EXCEPT !.ip = None, !.by = None]
      /\ past' = [quiet |-> \A o \in Older(r) : Quiet(o),
                  alone |-> \A o \in Older(r) : engine[o].at = "over"]
      /\ bridge' = bridge
  BY Zenon DEF Spawn
<1> HIDE DEF r
<1>3. /\ e \in Run /\ f \in Run /\ f.at = "resolve" /\ f.live = e.live
      /\ f.writer = e.writer /\ e.writer = "none"
      /\ engine'[r] = f /\ \A o \in Runs \ {r} : engine'[o] = engine[o]
      /\ engine' \in [Runs -> Run]
  BY <1>1, RunFacts DEF Run, Becomes, Sound, Started
<1>4. host' \in Host /\ host'.at = "wait" /\ host'.run = r /\ host'.ip = host.ip
  BY <1>1, <1>2, HostFacts DEF Host, HostAt
<1>5. /\ statics' \in Statics /\ statics'.ip = None /\ statics'.active = statics.active
  BY <1>2, HostFacts DEF Statics
<1>6. /\ past'.quiet = (\A o \in Older(r) : Quiet(o))
      /\ past'.alone = (\A o \in Older(r) : engine[o].at = "over")
      /\ past' \in [quiet : BOOLEAN, alone : BOOLEAN]
  BY <1>2, Zenon
<1>7. Older(r) \subseteq Runs \ {r} /\ \A o \in Runs : o # r => (o > r <=> o > host.run)
  BY <1>1, HostFacts, EngineLifeAssumption DEF r, Older, Runs
<1>8. TypeOK'
  BY <1>2, <1>3, <1>4, <1>5, <1>6, HostFacts DEF TypeOK, Host, Statics, Bridge, Run
<1>9. RunsAreSound'
  <2> SUFFICES ASSUME NEW o \in Runs
               PROVE  Sound(engine'[o]) /\ (o > r <=> engine'[o].at = "unborn")
    BY <1>4 DEF RunsAreSound
  <2>1. CASE o = r
    <3>1. Sound(f) /\ ~(r > r)
      BY <1>1 DEF Becomes, Runs
    <3> QED
      BY <1>3, <2>1, <3>1
  <2>2. CASE o # r
    BY <1>3, <1>7, <2>2 DEF RunsAreSound
  <2> QED
    BY <2>1, <2>2
<1>10. HostIsSound'
  BY <1>1, <1>4 DEF HostIsSound, Served
<1>11. PastLasts'
  <2>1. \A o \in Older(r) : engine'[o] = engine[o] /\ (Quiet(o)' <=> Quiet(o))
    BY <1>3, <1>7 DEF Quiet
  <2>2. \A o \in Older(r) : engine[o].at = "over" => Quiet(o)
    BY <1>7 DEF RunsAreSound, Sound, Quiet
  <2>3. past'.quiet => \A o \in Older(r) : Quiet(o)'
    BY <1>6, <2>1, Zenon
  <2>4. past'.alone => past'.quiet /\ \A o \in Older(r) : engine'[o].at = "over"
    BY <1>6, <2>1, <2>2, Zenon
  <2> QED
    BY <1>4, <2>3, <2>4 DEF PastLasts, Older
<1>12. ReadyIsServed'
  BY <1>1, <1>2, <1>3 DEF IInv, ReadyIsServed
<1>13. Wired' /\ Addressed' /\ CountedAlone'
  BY <1>3, <1>4, <1>5 DEF Wired, WiredTo, Addressed, CountedAlone, Gated, Started
<1>14. (statics.active <= Live(Runs))'
  <2>1. /\ Live(Runs)' = Live(Runs) + (f.live - e.live)
        /\ Live(Runs) \in Nat /\ e.live \in Int
    BY <1>1, <1>3, LiveChanges DEF Run
  <2> QED
    BY <1>3, <1>5, <2>1 DEF IInv
<1> QED
  BY <1>8, <1>9, <1>10, <1>11, <1>12, <1>13, <1>14 DEF IInv

(* The stop cancels whatever run the token belongs to. *)
LEMMA StopCancelsInv == IInv /\ StopCancels => IInv'
<1> SUFFICES ASSUME IInv, StopCancels PROVE IInv'
  OBVIOUS
<1> DEFINE r == statics.cancel
           e == engine[r]
           f == [e EXCEPT !.cancelled = TRUE]
<1> TypeOK /\ RunsAreSound /\ HostIsSound /\ PastLasts
  BY DEF IInv
<1>1. /\ host.at = "cancel" /\ host' = [host EXCEPT !.at = "unready"]
      /\ UNCHANGED <<statics, bridge, past>>
  BY Zenon DEF StopCancels, HostGoes
<1>2. /\ host' \in Host /\ host'.at = "unready"
      /\ host'.run = host.run /\ host'.ip = host.ip
  BY <1>1, HostFacts DEF HostAt
<1>3. HostIsSound' /\ host'.at \notin Served
  BY <1>1, <1>2 DEF HostIsSound, Served
<1>4. CASE engine' = engine
  <2>1. Aside
    BY <1>1, <1>2, <1>4, HostFacts DEF Aside
  <2> QED
    BY <1>3, <2>1, AsideInv
<1>5. CASE engine' # engine
  <2>1. r \in Runs /\ Goes(r, f)
    BY <1>5, HostEffects
  <2> HIDE DEF r
  <2>2. /\ engine' \in [Runs -> Run] /\ engine'[r] = f
        /\ \A o \in Runs \ {r} : engine'[o] = engine[o]
        /\ f.live = e.live /\ f.at = e.at /\ f.writer = e.writer /\ e.live \in Int
    BY <2>1, RunFacts DEF Goes, Becomes, Run
  <2>3. TypeOK'
    BY <1>1, <1>2, <2>2, HostFacts DEF TypeOK, Host, Run
  <2>4. RunsAreSound'
    <3> SUFFICES ASSUME NEW o \in Runs
                 PROVE  Sound(engine'[o]) /\ (o > host.run <=> engine'[o].at = "unborn")
      BY <1>2 DEF RunsAreSound
    <3>1. CASE o = r
      BY <2>1, <2>2, <3>1 DEF Goes, Becomes, RunsAreSound
    <3>2. CASE o # r
      BY <2>2, <3>2 DEF RunsAreSound
    <3> QED
      BY <3>1, <3>2
  <2>5. PastLasts'
    <3>1. Older(host.run) \subseteq Runs
      BY HostFacts DEF Older, Runs
    <3>2. \A o \in Older(host.run) :
             (Quiet(o)' <=> Quiet(o)) /\ engine'[o].at = engine[o].at
      BY <2>2, <3>1 DEF Quiet
    <3> QED
      BY <1>1, <1>2, <3>2 DEF PastLasts, Older
  <2>6. ReadyIsServed'
    BY <1>1, <2>1, <2>2 DEF IInv, ReadyIsServed
  <2>7. Wired' /\ Addressed'
    BY <1>3 DEF Wired, Addressed
  <2>8. CountedAlone'
    <3>1. \A o \in Runs :
            /\ engine'[o].live = engine[o].live /\ engine'[o].at = engine[o].at
            /\ engine'[o].writer = engine[o].writer
      BY <2>2
    <3> QED
      BY <1>1, <1>2, <3>1 DEF IInv, CountedAlone
  <2>9. (statics.active <= Live(Runs))'
    <3>1. Live(Runs)' = Live(Runs) + (f.live - e.live) /\ Live(Runs) \in Nat
      BY <2>1, LiveChanges DEF Goes
    <3> QED
      BY <1>1, <2>2, <3>1 DEF IInv
  <2> QED
    BY <1>3, <2>3, <2>4, <2>5, <2>6, <2>7, <2>8, <2>9 DEF IInv
<1> QED
  BY <1>4, <1>5

-----------------------------------------------------------------------------
(* No run has begun, and the sum of nothing is 0. *)
LEMMA InitInv == Init => IInv
<1> SUFFICES ASSUME Init PROVE IInv
  OBVIOUS
<1>1. /\ host = [at |-> "start", run |-> 0, ip |-> None]
      /\ statics = [cancel |-> None, pause |-> None, ip |-> None, by |-> None,
                    active |-> 0]
      /\ bridge = [slot |-> None, ready |-> FALSE]
      /\ engine = [r \in Runs |-> Unborn]
      /\ past = [quiet |-> TRUE, alone |-> TRUE]
  BY DEF Init
<1>2. Unborn \in Run
  BY AtFacts, EngineLifeAssumption DEF Unborn, Run
<1>3. TypeOK
  <2>1. host \in Host
    BY <1>1 DEF Host, HostAt
  <2>2. statics \in Statics
    BY <1>1 DEF Statics
  <2>3. bridge \in Bridge
    BY <1>1 DEF Bridge
  <2>4. past \in [quiet : BOOLEAN, alone : BOOLEAN]
    BY <1>1
  <2> QED
    BY <1>1, <1>2, <2>1, <2>2, <2>3, <2>4 DEF TypeOK, Host, Statics, Bridge, Run
<1>4. host.at = "start" /\ host.run = 0 /\ statics.active = 0 /\ ~bridge.ready
  BY <1>1
<1>5. RunsAreSound
  <2>1. Sound(Unborn) /\ Unborn.at = "unborn"
    BY EngineLifeAssumption DEF Sound, Unborn, Early, Fresh, Started
  <2>2. \A r \in Runs : r > 0
    BY DEF Runs
  <2> QED
    BY <1>1, <1>4, <2>1, <2>2 DEF RunsAreSound
<1>6. HostIsSound
  BY <1>4, EngineLifeAssumption DEF HostIsSound, Served
<1>7. Older(host.run) = {}
  BY <1>4 DEF Older
<1>8. PastLasts
  BY <1>1, <1>7 DEF PastLasts
<1>9. ReadyIsServed /\ Wired /\ Addressed /\ CountedAlone
  BY <1>4 DEF ReadyIsServed, Wired, Addressed, CountedAlone, Served, Runs
<1>10. Live(Runs) \in Nat
  BY <1>3, LiveIsNat
<1> QED
  BY <1>3, <1>4, <1>5, <1>6, <1>8, <1>9, <1>10 DEF IInv

(* A step that changes nothing keeps the invariant. *)
LEMMA StutterInv == IInv /\ UNCHANGED vars => IInv'
<1> SUFFICES ASSUME IInv, UNCHANGED vars PROVE IInv'
  OBVIOUS
<1>1. UNCHANGED <<host, statics, bridge, engine, past>>
  BY DEF vars
<1>2. Aside
  BY <1>1, HostFacts DEF Aside
<1>3. HostIsSound' /\ Wired' /\ Addressed'
  BY <1>1 DEF IInv, HostIsSound, Wired, WiredTo, Addressed
<1> QED
  BY <1>2, <1>3, AsideKeeps DEF IInv

(* Every step keeps the invariant. *)
LEMMA StepInv == IInv /\ [Next]_vars => IInv'
<1> SUFFICES ASSUME IInv, [Next]_vars PROVE IInv'
  OBVIOUS
<1>1. CASE HostSteps \/ WaitEnds \/ Recycle
  BY <1>1, StartClearsInv, StartClearsSlotInv, SpawnInv, WaitSeesInv, WaitEndsInv,
     ChecksInv, StopDropsGateInv, StopCancelsInv, Zenon DEF HostSteps
<1>2. ASSUME NEW r \in Runs, RunNext(r) PROVE IInv'
  BY <1>2, RunTypes, RunKeeps, RunServes, RunWires, RunAddresses, RunCountsAlone,
     RunMirrors DEF IInv
<1>3. CASE UNCHANGED vars
  BY <1>3, StutterInv
<1> QED
  BY <1>1, <1>2, <1>3, Zenon DEF Next, Rests, RunNext

(* The invariant holds throughout. *)
LEMMA Invariance == Spec => []IInv
  BY InitInv, StepInv, PTL DEF Spec

-----------------------------------------------------------------------------
(* ACTIVE_PATHS, which waitForPath and the stall monitor read: never more  *)
(* than the sessions that are READY, whatever runs wind down meanwhile,    *)
(* and exactly those of the engine that serves when it is alone.           *)
THEOREM PathsCounted == Spec => []PathsAreCounted
<1>1. ASSUME IInv PROVE PathsAreCounted
  <2> TypeOK /\ HostIsSound /\ RunsAreSound /\ PastLasts /\ Wired /\ CountedAlone
      /\ statics.active <= Live(Runs)
    BY <1>1 DEF IInv
  <2>1. ASSUME past.alone, host.at = "serving"
        PROVE  statics.active = engine[host.run].live
    <3>1. host.run \in Runs /\ past.quiet
      BY <2>1 DEF HostIsSound, PastLasts, Served
    <3>2. engine[host.run].writer # "none"
      BY <2>1, <3>1 DEF Wired, WiredTo, Served
    <3> QED
      BY <2>1, <3>1, <3>2 DEF CountedAlone
  <2> QED
    BY <2>1 DEF PathsAreCounted
<1> QED
  BY <1>1, Invariance, PTL

(* csqtt_engine_wait_ready and the statics: a helper that serves holds the *)
(* token, the gate and the bridge of the engine it started, if the older   *)
(* ones were quiet when it did, and an address of its own if they were     *)
(* over.                                                                   *)
THEOREM ServingWired == Spec => []ServingIsWired
<1>1. ASSUME IInv PROVE ServingIsWired
  <2> TypeOK /\ HostIsSound /\ RunsAreSound /\ Wired /\ Addressed
    BY <1>1 DEF IInv
  <2> DEFINE r == host.run
  <2> SUFFICES ASSUME host.at = "serving"
               PROVE  /\ past.quiet /\ ~engine[r].cancelled =>
                           /\ statics.cancel = r /\ statics.pause = r
                           /\ bridge = [slot |-> r, ready |-> TRUE]
                      /\ past.alone => statics.by = r /\ host.ip # None
    BY DEF ServingIsWired
  <2>1. /\ r \in Runs /\ host.ip # None /\ statics.ip # None /\ host.at \in Served
        /\ Sound(engine[r]) /\ engine[r] \in Run /\ bridge \in Bridge
    BY RunFacts, StaticsFacts DEF HostIsSound, Served
  <2>2. ASSUME past.quiet, ~engine[r].cancelled
        PROVE  statics.cancel = r /\ statics.pause = r /\ bridge.slot = r /\ bridge.ready
    <3>1. WiredTo(r, engine[r])
      BY <2>1, <2>2 DEF Wired
    <3>2. engine[r].writer # "none"
      BY <3>1 DEF WiredTo
    <3>3. engine[r].at = "serving"
      BY <2>1, <2>2, <3>2 DEF Sound, Started, Run
    <3> QED
      BY <2>2, <3>1, <3>3 DEF WiredTo, Gated, Started
  <2>3. past.alone => statics.by = r
    BY <2>1 DEF Addressed
  <2>4. ASSUME bridge.slot = r, bridge.ready PROVE bridge = [slot |-> r, ready |-> TRUE]
    <3>1. bridge = [slot |-> bridge.slot, ready |-> bridge.ready]
      BY <2>1 DEF Bridge
    <3> QED
      BY <2>1, <2>4, <3>1 DEF Bridge
  <2> QED
    BY <2>1, <2>2, <2>3, <2>4
<1> QED
  BY <1>1, Invariance, PTL
=============================================================================
