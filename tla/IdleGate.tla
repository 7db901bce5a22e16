------------------------------ MODULE IdleGate ------------------------------
(***************************************************************************)
(* Idle scale-down of the rust engine (idle.rs).  The state is a set of    *)
(* process-global atomics; every one of them is read and written by a      *)
(* step of its own, so the monitor task and the threads that inject uplink *)
(* packets interleave between any two stores.                              *)
(*                                                                         *)
(* tokio's Notify is always used here as "register, then check": a         *)
(* registered waiter cannot miss a notify_waiters that follows its check.  *)
(* Waiting for a condition is therefore a guard on the condition.          *)
(***************************************************************************)
EXTENDS Naturals

CONSTANTS
  Total,        \* TOTAL_WORKERS: worker ids are 1..Total
  Keep,         \* IdleConfig.keep, the number of keepers
  Injectors,    \* threads that call packet_bridge::inject_packet
  ExitPackets,  \* EXIT_PACKETS
  ExitSyns,     \* EXIT_SYNS
  MaxEnters     \* bound: how many times idle mode is entered

ASSUME IdleAssumption ==
  /\ Total \in Nat \ {0}
  /\ Keep \in Nat
  /\ ExitPackets \in Nat \ {0}
  /\ ExitSyns \in Nat \ {0}
  /\ MaxEnters \in Nat

VARIABLES
  active,     \* ACTIVE
  limit,      \* LIMIT
  declared,   \* DECLARED
  genOffset,  \* GEN_OFFSET
  announce,   \* ANNOUNCE
  packets,    \* PACKET_WINDOW_COUNT
  syns,       \* SYN_WINDOW_COUNT
  mon,        \* next step of the monitor task
  inj,        \* next step of every injecting thread
  enters,     \* number of enters so far (for the bound)
  overlap     \* history: an enter and an exit have overlapped

counters == <<packets, syns>>
idleVars == <<active, limit, declared, genOffset, announce, packets, syns,
              mon, inj, enters, overlap>>

Workers == 1..Total

(* LIMIT = usize::MAX: every id is allowed. *)
Unlimited == Total + 1

MonStep == {"poll", "limit", "declared", "gen", "announce", "windows"}
InjStep == {"run", "swap", "limit", "declared", "announce"}

IdleTypeOK ==
  /\ active \in BOOLEAN
  /\ limit \in {Keep, Unlimited}
  /\ declared \in {Keep, Total}
  /\ genOffset \in Nat
  /\ announce \in Nat
  /\ packets \in 0..ExitPackets
  /\ syns \in 0..ExitSyns
  /\ mon \in MonStep
  /\ inj \in [Injectors -> InjStep]
  /\ enters \in 0..MaxEnters
  /\ overlap \in BOOLEAN

(* reset: the engine starts with every worker unparked. *)
IdleInit ==
  /\ active = FALSE
  /\ limit = Unlimited
  /\ declared = Total
  /\ genOffset = 0
  /\ announce = 0
  /\ packets = 0
  /\ syns = 0
  /\ mon = "poll"
  /\ inj = [i \in Injectors |-> "run"]
  /\ enters = 0
  /\ overlap = FALSE

(* Keepers are the lowest ids. *)
Allows(w) == w <= limit

Entering == mon # "poll"
Exiting == \E i \in Injectors : inj[i] \in {"limit", "declared", "announce"}
Settled == ~Entering /\ ~Exiting

-----------------------------------------------------------------------------
(* enter(keep), called by the monitor after a long silence.  should_enter  *)
(* and the swap of ACTIVE are one step: only this task sets ACTIVE.        *)

EnterSwap ==
  /\ mon = "poll"
  /\ ~active
  /\ 0 < Keep /\ Keep < Total
  /\ enters < MaxEnters
  /\ active' = TRUE
  /\ mon' = "limit"
  /\ enters' = enters + 1
  /\ overlap' = (overlap \/ Exiting)
  /\ UNCHANGED <<limit, declared, genOffset, announce, counters, inj>>

(* Mutant: worker ids are taken to be 0-based. *)
Mut_EnterLimit ==
  /\ mon = "limit"
  /\ limit' = Keep - 1
  /\ mon' = "declared"
  /\ UNCHANGED <<active, declared, genOffset, announce, counters, inj, enters, overlap>>

EnterLimit ==
  /\ mon = "limit"
  /\ limit' = Keep
  /\ mon' = "declared"
  /\ UNCHANGED <<active, declared, genOffset, announce, counters, inj, enters, overlap>>

EnterDeclared ==
  /\ mon = "declared"
  /\ declared' = Keep
  /\ mon' = "gen"
  /\ UNCHANGED <<active, limit, genOffset, announce, counters, inj, enters, overlap>>

EnterGen ==
  /\ mon = "gen"
  /\ genOffset' = genOffset + 1
  /\ mon' = "announce"
  /\ UNCHANGED <<active, limit, declared, announce, counters, inj, enters, overlap>>

EnterAnnounce ==
  /\ mon = "announce"
  /\ announce' = announce + 1
  /\ mon' = "windows"
  /\ UNCHANGED <<active, limit, declared, genOffset, counters, inj, enters, overlap>>

EnterWindows ==
  /\ mon = "windows"
  /\ packets' = 0
  /\ syns' = 0
  /\ mon' = "poll"
  /\ UNCHANGED <<active, limit, declared, genOffset, announce, inj, enters, overlap>>

Monitor ==
  \/ EnterSwap
  \/ EnterLimit
  \/ EnterDeclared
  \/ EnterGen
  \/ EnterAnnounce
  \/ EnterWindows

-----------------------------------------------------------------------------
(* The two sliding windows.  Whether the window has run out is up to the   *)
(* clock; a count above the limit behaves like the limit.                  *)

WindowCount(count, expired, max) ==
  IF expired THEN 1 ELSE IF count < max THEN count + 1 ELSE max

(* The SYN window is consulted for SYNs only, and the packet window only   *)
(* when the SYN window did not already trigger the exit.                   *)
NoteUplink(i) ==
  /\ inj[i] = "run"
  /\ active
  /\ \E syn, synExpired, expired \in BOOLEAN :
       LET s == IF syn THEN WindowCount(syns, synExpired, ExitSyns) ELSE syns
           p == WindowCount(packets, expired, ExitPackets)
           synHit == syn /\ s >= ExitSyns
       IN /\ syns' = s
          /\ packets' = IF synHit THEN packets ELSE p
          /\ inj' = [inj EXCEPT ![i] =
                       IF synHit \/ p >= ExitPackets THEN "swap" ELSE "run"]
  /\ UNCHANGED <<active, limit, declared, genOffset, announce, mon, enters, overlap>>

(* exit(reason): only the thread whose swap finds ACTIVE set goes on. *)
ExitSwap(i) ==
  /\ inj[i] = "swap"
  /\ active' = FALSE
  /\ inj' = [inj EXCEPT ![i] = IF active THEN "limit" ELSE "run"]
  /\ overlap' = (overlap \/ (active /\ (Entering \/ Exiting)))
  /\ UNCHANGED <<limit, declared, genOffset, announce, counters, mon, enters>>

(* Mutant: exit restores LIMIT and forgets DECLARED. *)
Mut_ExitLimit(i) ==
  /\ inj[i] = "limit"
  /\ limit' = Unlimited
  /\ inj' = [inj EXCEPT ![i] = "announce"]
  /\ UNCHANGED <<active, declared, genOffset, announce, counters, mon, enters, overlap>>

ExitLimit(i) ==
  /\ inj[i] = "limit"
  /\ limit' = Unlimited
  /\ inj' = [inj EXCEPT ![i] = "declared"]
  /\ UNCHANGED <<active, declared, genOffset, announce, counters, mon, enters, overlap>>

ExitDeclared(i) ==
  /\ inj[i] = "declared"
  /\ declared' = Total
  /\ inj' = [inj EXCEPT ![i] = "announce"]
  /\ UNCHANGED <<active, limit, genOffset, announce, counters, mon, enters, overlap>>

ExitAnnounce(i) ==
  /\ inj[i] = "announce"
  /\ announce' = announce + 1
  /\ inj' = [inj EXCEPT ![i] = "run"]
  /\ UNCHANGED <<active, limit, declared, genOffset, counters, mon, enters, overlap>>

Injector(i) ==
  \/ NoteUplink(i)
  \/ ExitSwap(i)
  \/ ExitLimit(i)
  \/ ExitDeclared(i)
  \/ ExitAnnounce(i)

IdleNext == Monitor \/ \E i \in Injectors : Injector(i)

IdleSpec == IdleInit /\ [][IdleNext]_idleVars

-----------------------------------------------------------------------------
(* idle.rs (module comment, "Exit: ..."): leaving idle mode brings the     *)
(* full worker set back, entering it leaves the keepers.  Once no enter    *)
(* and no exit is under way, ACTIVE, LIMIT and DECLARED tell one story.    *)
ModeAgrees ==
  Settled =>
    IF active THEN limit = Keep /\ declared = Keep
              ELSE limit = Unlimited /\ declared = Total

(* The same, for runs in which no enter and exit have overlapped: the      *)
(* sequential protocol is right, for any number of injecting threads whose *)
(* exits compete for the swap of ACTIVE.                                   *)
ModeAgreesSequentially == ~overlap => ModeAgrees
=============================================================================
