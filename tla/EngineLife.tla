----------------------------- MODULE EngineLife -----------------------------
(***************************************************************************)
(* One process, several engines one after the other.  The Go helper starts *)
(* the Rust engine through the C interface (ffi.rs), waits until it is     *)
(* ready, and recycles it with a stop and a start while the old run is     *)
(* still winding down on a thread of its own (lib.rs, run).  What the runs *)
(* and the helper share are process-wide statics, each a cell of its own:  *)
(* the cancellation token and the pause gate of "the" engine, the tunnel   *)
(* address, the count of paths, and the packet bridge with its ready flag. *)
(*                                                                         *)
(* Steps are split where another thread can come between two stores.  A    *)
(* Notify is its stored permit.  A path is one of two counters: sessions   *)
(* that open, and sessions that are counted as READY.                      *)
(*                                                                         *)
(* Abstracted: the configuration channel holds one message; the packets of *)
(* a burst are one.  Left out: JS mode, the TUN and UDP variants of the    *)
(* dispatcher, the monitors (stall, idle, wake, statistics), and what the  *)
(* guard does to a running engine (DataPath).                              *)
(***************************************************************************)
EXTENDS Integers, FiniteSets, FiniteSetsExt

CONSTANTS
    Workers,      \* the number of workers of a run
    Addresses,    \* tunnel addresses the server hands out
    MaxRuns       \* bound: engines started

ASSUME EngineLifeAssumption ==
    /\ {Workers, MaxRuns} \subseteq Nat \ {0}
    /\ Addresses \cap Nat = {}

VARIABLES
    host,      \* the helper: where it is, the run it started last, its netstack's address
    statics,   \* ENGINE_CANCEL, ENGINE_PAUSE, TUN_IP, ACTIVE_PATHS
    bridge,    \* UPLINK and BRIDGE_READY
    engine,    \* [Runs -> the state of a run]
    past       \* history: the older runs when the last one was spawned

vars == <<host, statics, bridge, engine, past>>

Runs == 1 .. MaxRuns
None == 0      \* no run, no address, no message

StartUp == <<"resolve", "token", "gate", "clear", "clear slot", "install", "install ready">>
Started == {"serving", "unpause", "groups", "tasks"}
At == {"unborn", "over"} \cup {StartUp[i] : i \in DOMAIN StartUp} \cup Started
HostAt == {"start", "start slot", "spawn", "wait", "wait bridge", "check", "serving", "stop",
           "cancel", "unready", "unhook", "down", "exited"}

Unborn == [at |-> "unborn", cancelled |-> FALSE, opening |-> 0, live |-> 0,
           mail |-> None, last |-> None,
           writer |-> "none"]

Init ==
    /\ host = [at |-> "start", run |-> 0, ip |-> None]
    /\ statics = [cancel |-> None, pause |-> None, ip |-> None, by |-> None, active |-> 0]
    /\ bridge = [slot |-> None, ready |-> FALSE]
    /\ engine = [r \in Runs |-> Unborn]
    /\ past = [quiet |-> TRUE, alone |-> TRUE]

Up == host.at # "exited"      \* the process, and every thread of it
Older(r) == 1 .. r - 1

Live(rs) == MapThenSumSet(LAMBDA r : engine[r].live, rs)

-----------------------------------------------------------------------------
(* csqtt_engine_start, csqtt_engine_wait_ready, and what follows in        *)
(* realMain and in requestRecycle.                                         *)

HostGoes(from, to) == host.at = from /\ host' = [host EXCEPT !.at = to]

StartClears ==
    /\ HostGoes("start", "start slot")
    /\ bridge' = [bridge EXCEPT !.ready = FALSE]
    /\ UNCHANGED <<statics, engine, past>>

StartClearsSlot ==
    /\ HostGoes("start slot", "spawn")
    /\ bridge' = [bridge EXCEPT !.slot = None]
    /\ UNCHANGED <<statics, engine, past>>

(* A run that can no longer write the token, the gate or the bridge.       *)
Quiet(r) == engine[r].at \in {"groups", "tasks", "over"} /\ engine[r].writer \in {"none", "done"}

Spawn ==
    LET r == host.run + 1 IN
    /\ host.at = "spawn"
    /\ host' = [host EXCEPT !.at = "wait", !.run = r]
    /\ statics' = [statics EXCEPT !.ip = None, !.by = None]
    /\ engine' = [engine EXCEPT ![r].at = "resolve"]
    /\ past' = [quiet |-> \A o \in Older(r) : Quiet(o),
                alone |-> \A o \in Older(r) : engine[o].at = "over"]
    /\ UNCHANGED <<bridge>>

(* The two loads of one turn of the waiting loop.                          *)
WaitSeesAddress ==
    /\ HostGoes("wait", "wait bridge")
    /\ statics.ip # None
    /\ UNCHANGED <<statics, bridge, engine, past>>

WaitSeesBridge ==
    /\ HostGoes("wait bridge", IF bridge.ready THEN "check" ELSE "wait")
    /\ UNCHANGED <<statics, bridge, engine, past>>

(* The budget of the wait ends: fatal, but a recycle that fails offline is *)
(* left to netback (failRecycle).                                          *)
WaitEnds ==
    /\ \/ HostGoes("wait", "exited")
       \/ HostGoes("wait", "down") /\ host.ip # None
    /\ UNCHANGED <<statics, bridge, engine, past>>

(* A new address rebuilds the netstack.                                    *)
Checks ==
    /\ host.at = "check"
    /\ host' = [host EXCEPT !.at = "serving", !.ip = statics.ip]
    /\ UNCHANGED <<statics, bridge, engine, past>>

Recycle ==
    /\ host.at \in {"serving", "down"} /\ host.run < MaxRuns
    /\ host' = [host EXCEPT !.at = "stop"]
    /\ UNCHANGED <<statics, bridge, engine, past>>

(* csqtt_engine_stop.                                                      *)
StopDropsGate ==
    /\ HostGoes("stop", "cancel")
    /\ statics' = [statics EXCEPT !.pause = None]
    /\ UNCHANGED <<bridge, engine, past>>

Cancelled(r) == [engine EXCEPT ![r].cancelled = TRUE]

StopCancels ==
    /\ HostGoes("cancel", "unready")
    /\ engine' = IF statics.cancel = None THEN engine ELSE Cancelled(statics.cancel)
    /\ UNCHANGED <<statics, bridge, past>>

StopClears ==
    /\ HostGoes("unready", "unhook")
    /\ bridge' = [bridge EXCEPT !.ready = FALSE]
    /\ UNCHANGED <<statics, engine, past>>

StopClearsSlot ==
    /\ HostGoes("unhook", "start")
    /\ bridge' = [bridge EXCEPT !.slot = None]
    /\ UNCHANGED <<statics, engine, past>>

HostSteps ==
    \/ StartClears \/ StartClearsSlot \/ Spawn
    \/ WaitSeesAddress \/ WaitSeesBridge \/ Checks
    \/ StopDropsGate \/ StopCancels \/ StopClears \/ StopClearsSlot

-----------------------------------------------------------------------------
(* run: start-up, in the order of its stores.                              *)

RunGoes(r, from, to) == engine[r].at = from /\ engine' = [engine EXCEPT ![r].at = to]

Resolves(r) ==
    /\ \/ RunGoes(r, "resolve", "token")
       \/ RunGoes(r, "resolve", "over")
    /\ UNCHANGED <<host, statics, bridge, past>>

(* Mutant: a token that is there is kept.                                  *)
Mut_StoresToken(r) ==
    /\ RunGoes(r, "token", "gate")
    /\ statics' = [statics EXCEPT !.cancel = IF @ = None THEN r ELSE @]
    /\ UNCHANGED <<host, bridge, past>>

StoresToken(r) ==
    /\ RunGoes(r, "token", "gate")
    /\ statics' = [statics EXCEPT !.cancel = r]
    /\ UNCHANGED <<host, bridge, past>>

(* ACTIVE_PATHS is set back on the way.                                    *)
StoresGate(r) ==
    /\ RunGoes(r, "gate", "clear")
    /\ statics' = [statics EXCEPT !.active = 0, !.pause = r]
    /\ UNCHANGED <<host, bridge, past>>

ClearsBridge(r) ==
    /\ \/ RunGoes(r, "clear", "clear slot") /\ bridge' = [bridge EXCEPT !.ready = FALSE]
       \/ RunGoes(r, "clear slot", "install") /\ bridge' = [bridge EXCEPT !.slot = None]
    /\ UNCHANGED <<host, statics, past>>

InstallsSlot(r) ==
    /\ RunGoes(r, "install", "install ready")
    /\ bridge' = [bridge EXCEPT !.slot = r]
    /\ UNCHANGED <<host, statics, past>>

(* The tasks of the bridge start behind it.                                *)
InstallsReady(r) ==
    /\ engine[r].at = "install ready"
    /\ engine' = [engine EXCEPT ![r].at = "serving", ![r].writer = "running"]
    /\ bridge' = [bridge EXCEPT !.ready = TRUE]
    /\ UNCHANGED <<host, statics, past>>

Startup(r) ==
    \/ Resolves(r) \/ StoresToken(r) \/ StoresGate(r) \/ ClearsBridge(r)
    \/ InstallsSlot(r) \/ InstallsReady(r)

(* The control channel closes, the parent is gone, a critical task panics. *)
CancelsItself(r) ==
    /\ engine[r].at = "serving" /\ ~engine[r].cancelled
    /\ engine' = Cancelled(r)
    /\ UNCHANGED <<host, statics, bridge, past>>

(* The main select is left: told to, or because the last group has ended.  *)
LeavesLoop(r) ==
    /\ engine[r].at = "serving"
    /\ engine[r].cancelled \/ engine[r].opening + engine[r].live = 0
    /\ engine' = [engine EXCEPT ![r].at = "unpause", ![r].cancelled = TRUE]
    /\ UNCHANGED <<host, statics, bridge, past>>

DropsGate(r) ==
    /\ RunGoes(r, "unpause", "groups")
    /\ statics' = [statics EXCEPT !.pause = None]
    /\ UNCHANGED <<host, bridge, past>>

AwaitsGroups(r) ==
    /\ engine[r].opening + engine[r].live = 0
    /\ RunGoes(r, "groups", "tasks")
    /\ UNCHANGED <<host, statics, bridge, past>>

(* Dispatcher::shutdown has joined the bridge's tasks; the others are      *)
(* aborted, and with them a configuration nobody will read.                *)
AwaitsTasks(r) ==
    /\ engine[r].at = "tasks" /\ engine[r].writer = "done"
    /\ engine' = [engine EXCEPT ![r].at = "over", ![r].mail = None, ![r].last = None]
    /\ UNCHANGED <<host, statics, bridge, past>>

WindsDown(r) == DropsGate(r) \/ AwaitsGroups(r) \/ AwaitsTasks(r)

-----------------------------------------------------------------------------
(* Paths: run_session, ActiveConnection, and the configuration.            *)

Begins(r) ==
    /\ engine[r].at = "serving" /\ ~engine[r].cancelled
    /\ engine[r].opening + engine[r].live < Workers
    /\ engine' = [engine EXCEPT ![r].opening = @ + 1]
    /\ UNCHANGED <<host, statics, bridge, past>>

Fails(r) ==
    /\ engine[r].opening > 0
    /\ engine' = [engine EXCEPT ![r].opening = @ - 1]
    /\ UNCHANGED <<host, statics, bridge, past>>

(* ActiveConnection::new; a cancellation may come just before it.          *)
Readies(r) ==
    /\ engine[r].opening > 0
    /\ engine' = [engine EXCEPT ![r].opening = @ - 1, ![r].live = @ + 1]
    /\ statics' = [statics EXCEPT !.active = @ + 1]
    /\ UNCHANGED <<host, bridge, past>>

(* Mutant: a session that ends in a cancelled run is not counted down.     *)
Mut_PathEnds(r) ==
    /\ engine[r].live > 0
    /\ engine' = [engine EXCEPT ![r].live = @ - 1]
    /\ statics' = [statics EXCEPT !.active = IF engine[r].cancelled THEN @ ELSE @ - 1]
    /\ UNCHANGED <<host, bridge, past>>

(* Its drop, on whatever way the session ends.                             *)
PathEnds(r) ==
    /\ engine[r].live > 0
    /\ engine' = [engine EXCEPT ![r].live = @ - 1]
    /\ statics' = [statics EXCEPT !.active = @ - 1]
    /\ UNCHANGED <<host, bridge, past>>

(* TUNCONF in the answer to a handshake, or pushed by the server; one that *)
(* config_task would skip as the last is left out.                         *)
Hears(r, a) ==
    /\ engine[r].opening + engine[r].live > 0
    /\ engine[r].mail = None /\ engine[r].last # a
    /\ engine' = [engine EXCEPT ![r].mail = a]
    /\ UNCHANGED <<host, statics, bridge, past>>

(* config_task; it lives until the run is over.                            *)
TakesConfig(r) ==
    /\ engine[r].mail # None
    /\ engine' = [engine EXCEPT ![r].mail = None, ![r].last = engine[r].mail]
    /\ statics' = [statics EXCEPT !.ip = engine[r].mail, !.by = r]
    /\ UNCHANGED <<host, bridge, past>>

Drains(r) == engine[r].cancelled /\ (Fails(r) \/ PathEnds(r))

-----------------------------------------------------------------------------
(* Mutant: the writer waits for packets only.                              *)
Mut_WriterEnds(r) ==
    /\ engine[r].writer = "clearing"
    /\ engine' = [engine EXCEPT ![r].writer = "done"]
    /\ bridge' = [bridge EXCEPT !.slot = None]
    /\ UNCHANGED <<host, statics, past>>

(* The writer's loop ends, and it clears the bridge, whoever's that is.    *)
WriterEnds(r) ==
    /\ \/ /\ engine[r].writer = "running" /\ engine[r].cancelled
          /\ engine' = [engine EXCEPT ![r].writer = "clearing"]
          /\ bridge' = [bridge EXCEPT !.ready = FALSE]
       \/ /\ engine[r].writer = "clearing"
          /\ engine' = [engine EXCEPT ![r].writer = "done"]
          /\ bridge' = [bridge EXCEPT !.slot = None]
    /\ UNCHANGED <<host, statics, past>>

-----------------------------------------------------------------------------
(* Nothing to do but wait for traffic or for the network, or at all.       *)
Rests == host.at \in {"serving", "down", "exited"} /\ UNCHANGED vars

Next ==
    \/ Up /\ (HostSteps \/ WaitEnds \/ Recycle)
    \/ \E r \in Runs :
         Up /\ ( \/ Startup(r) \/ CancelsItself(r) \/ LeavesLoop(r) \/ WindsDown(r)
                 \/ Begins(r) \/ Fails(r) \/ Readies(r) \/ PathEnds(r)
                 \/ (\E a \in Addresses : Hears(r, a)) \/ TakesConfig(r)
                 \/ WriterEnds(r) )
    \/ Rests

Spec == Init /\ [][Next]_vars

(* Threads run; a path ends once its run is cancelled (every await of it   *)
(* looks at the token, and await_session_task aborts what does not).       *)
Fairness ==
    /\ WF_vars(Up /\ HostSteps)
    /\ \A r \in Runs :
         /\ WF_vars(Up /\ Startup(r))
         /\ WF_vars(Up /\ engine[r].cancelled /\ LeavesLoop(r))
         /\ WF_vars(Up /\ WindsDown(r))
         /\ WF_vars(Up /\ Drains(r))
         /\ WF_vars(Up /\ WriterEnds(r))

FairSpec == Spec /\ Fairness

-----------------------------------------------------------------------------
TypeOK ==
    /\ host \in [at : HostAt, run : Runs \cup {0}, ip : Addresses \cup {None}]
    /\ statics \in [cancel : Runs \cup {None}, pause : Runs \cup {None},
                    ip : Addresses \cup {None}, by : Runs \cup {None}, active : Int]
    /\ bridge \in [slot : Runs \cup {None}, ready : BOOLEAN]
    /\ engine \in [Runs -> [at : At, cancelled : BOOLEAN,
                            opening : 0 .. Workers, live : 0 .. Workers,
                            mail : Addresses \cup {None}, last : Addresses \cup {None},
                            writer : {"none", "running", "clearing", "done"}]]
    /\ past \in [quiet : BOOLEAN, alone : BOOLEAN]

-----------------------------------------------------------------------------
(* ACTIVE_PATHS never claims a path no session has, and once no older run  *)
(* is left when an engine is spawned, it is exactly that engine's sessions *)
(* from the time the helper serves: waitForPath and the stall monitor read *)
(* nothing else.  Every drop of an ActiveConnection is counted, whatever   *)
(* way the session ends.  TypeOK is checked with it.                       *)
PathsAreCounted ==
    /\ TypeOK
    /\ statics.active <= Live(Runs)
    /\ past.alone /\ host.at = "serving" => statics.active = engine[host.run].live

(* A helper that serves has the statics of the engine it started: the stop *)
(* reaches it, the pause reaches it, packets go into its queues, and the   *)
(* netstack's address is one it was given.  That the winding down of an    *)
(* older run does not interfere is what dataPathEngineSettle is for: the   *)
(* antecedents say how far that run must have come.                        *)
ServingIsWired ==
    LET r == host.run IN
    host.at = "serving" =>
      /\ past.quiet /\ ~engine[r].cancelled =>
           /\ statics.cancel = r /\ statics.pause = r
           /\ bridge = [slot |-> r, ready |-> TRUE]
      /\ past.alone => statics.by = r /\ host.ip # None

(* A run told to stop ends, with every task it started: run returns, and   *)
(* its thread.                                                             *)
CancelledEnds ==
    \A r \in Runs : engine[r].cancelled ~> engine[r].at = "over" \/ ~Up

-----------------------------------------------------------------------------
(* Stated, and refuted: see the README.                                    *)

(* stats.rs:14: "Process-wide mirror of Stats::active_connections".        *)
ActiveIsMirror == statics.active = Live(Runs)

(* csqtt_engine_stop stops the engine: when the helper starts another one, *)
(* every older one has been told to stop, or has ended.                    *)
StopReachesEngine ==
    host.at = "start" =>
      \A r \in Runs : engine[r].at = "unborn" \/ engine[r].at = "over" \/ engine[r].cancelled

(* The netstack follows the address the server gave last.                  *)
AddressIsFollowed ==
    host.at = "serving" /\ past.alone => host.ip = statics.ip

=============================================================================
