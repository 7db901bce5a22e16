---------------------------- MODULE PathSession ----------------------------
(***************************************************************************)
(* The life of a TURN path: worker_loop's gate (worker.rs), run_session    *)
(* and run_allocated_session (session.rs), and the process-global epochs   *)
(* they watch: idle.rs (composed by EXTENDS) and rebind.rs.                *)
(*                                                                         *)
(* A registration (GETCONF) carries the server epoch and the number of     *)
(* workers, each read from its own atomic; the reads, the send, and the    *)
(* bookkeeping that follows are separate steps.  The branches of select!   *)
(* are taken in any order: "biased" orders the polls of one task, other    *)
(* threads still move the epochs between two polls.                        *)
(***************************************************************************)
EXTENDS IdleGate

CONSTANTS
  Attempts,    \* length of CONFIG_RESPONSE_TIMEOUT_MS
  MaxGen,      \* bound on GEN_OFFSET for epochs opened by lost paths
  MaxRebinds,  \* bound on rebind::request
  MaxPauses    \* bound on PauseGate::set_paused

ASSUME SessionAssumption ==
  /\ Attempts \in Nat \ {0}
  /\ MaxGen \in Nat
  /\ MaxRebinds \in Nat
  /\ MaxPauses \in Nat

VARIABLES
  paused,      \* PauseGate.paused
  pauses,      \* number of set_paused calls that changed it
  rebindEpoch, \* rebind::EPOCH
  pc,          \* next step of every worker
  inLoop,      \* the payload being built is a re-announcement
  attempt,     \* GETCONF attempts used by the handshake
  pgen,        \* generation offset baked into the payload
  poff,        \* offset returned next to the payload
  pcount,      \* desired_count baked into the payload
  cur,         \* GEN_OFFSET as loaded by note_path_lost
  joined,      \* JOINED[w]: 0 or offset + 1
  advert,      \* the last registration handed to the writer
  relisted,    \* advert was sent by the announce branch of the loop
  seen,        \* announce_seen
  rseen,       \* rebind_epoch of the surrounding function
  sock         \* rebind epoch at which the path's sockets were opened

sessionVars == <<paused, pauses, rebindEpoch, pc, inLoop, attempt, pgen, poff,
                 pcount, cur, joined, advert, relisted, seen, rseen, sock>>
vars == <<idleVars, sessionVars>>

payload == <<pgen, poff, pcount>>

Step == {"gate", "epoch", "dial", "connect", "channel", "gen", "off", "count",
         "send", "await", "rebind", "seen", "loop", "lost", "load", "cas", "bump"}

(* No registration has been sent yet. *)
NoAdvert == [gen |-> 0, count |-> 0]

TypeOK ==
  /\ IdleTypeOK
  /\ paused \in BOOLEAN
  /\ pauses \in 0..MaxPauses
  /\ rebindEpoch \in 0..MaxRebinds
  /\ pc \in [Workers -> Step]
  /\ inLoop \in [Workers -> BOOLEAN]
  /\ attempt \in [Workers -> 0..Attempts]
  /\ pgen \in [Workers -> Nat]
  /\ poff \in [Workers -> Nat]
  /\ pcount \in [Workers -> Nat]
  /\ cur \in [Workers -> Nat]
  /\ joined \in [Workers -> Nat]
  /\ advert \in [Workers -> [gen : Nat, count : Nat]]
  /\ relisted \in [Workers -> BOOLEAN]
  /\ seen \in [Workers -> Nat]
  /\ rseen \in [Workers -> 0..MaxRebinds]
  /\ sock \in [Workers -> 0..MaxRebinds]

Init ==
  /\ IdleInit
  /\ paused = FALSE
  /\ pauses = 0
  /\ rebindEpoch = 0
  /\ pc = [w \in Workers |-> "gate"]
  /\ inLoop = [w \in Workers |-> FALSE]
  /\ attempt = [w \in Workers |-> 0]
  /\ pgen = [w \in Workers |-> 0]
  /\ poff = [w \in Workers |-> 0]
  /\ pcount = [w \in Workers |-> 0]
  /\ cur = [w \in Workers |-> 0]
  /\ joined = [w \in Workers |-> 0]
  /\ advert = [w \in Workers |-> NoAdvert]
  /\ relisted = [w \in Workers |-> FALSE]
  /\ seen = [w \in Workers |-> 0]
  /\ rseen = [w \in Workers |-> 0]
  /\ sock = [w \in Workers |-> 0]

Goto(w, from, to) ==
  /\ pc[w] = from
  /\ pc' = [pc EXCEPT ![w] = to]

(* The payload's locals die once it has been sent and accounted for. *)
DropPayload(w) ==
  /\ pgen' = [pgen EXCEPT ![w] = 0]
  /\ poff' = [poff EXCEPT ![w] = 0]
  /\ pcount' = [pcount EXCEPT ![w] = 0]
  /\ attempt' = [attempt EXCEPT ![w] = 0]

(* The session ends; its locals die with it. *)
End(w) ==
  /\ pc' = [pc EXCEPT ![w] = "gate"]
  /\ inLoop' = [inLoop EXCEPT ![w] = FALSE]
  /\ DropPayload(w)
  /\ cur' = [cur EXCEPT ![w] = 0]
  /\ advert' = [advert EXCEPT ![w] = NoAdvert]
  /\ relisted' = [relisted EXCEPT ![w] = FALSE]
  /\ seen' = [seen EXCEPT ![w] = 0]
  /\ rseen' = [rseen EXCEPT ![w] = 0]
  /\ sock' = [sock EXCEPT ![w] = 0]

-----------------------------------------------------------------------------
(* The host: netlost/netback and a network change. *)

SetPaused ==
  /\ pauses < MaxPauses
  /\ paused' = ~paused
  /\ pauses' = pauses + 1
  /\ UNCHANGED <<idleVars, rebindEpoch, pc, inLoop, attempt, payload, cur,
                 joined, advert, relisted, seen, rseen, sock>>

RebindRequest ==
  /\ rebindEpoch < MaxRebinds
  /\ rebindEpoch' = rebindEpoch + 1
  /\ UNCHANGED <<idleVars, paused, pauses, pc, inLoop, attempt, payload, cur,
                 joined, advert, relisted, seen, rseen, sock>>

-----------------------------------------------------------------------------
(* worker_loop: netlost and idle parking both hold the worker back. *)
Start(w) ==
  /\ Goto(w, "gate", "epoch")
  /\ ~paused
  /\ Allows(w)
  /\ UNCHANGED <<idleVars, paused, pauses, rebindEpoch, inLoop, attempt, payload,
                 cur, joined, advert, relisted, seen, rseen, sock>>

(* run_session reads the rebind epoch; the connect future opens its       *)
(* sockets later, when it is first polled.                                *)
ReadEpoch(w) ==
  /\ Goto(w, "epoch", "dial")
  /\ rseen' = [rseen EXCEPT ![w] = rebindEpoch]
  /\ UNCHANGED <<idleVars, paused, pauses, rebindEpoch, inLoop, attempt, payload,
                 cur, joined, advert, relisted, seen, sock>>

(* Mutant: the sockets are opened first, then the epoch is read. *)
Mut_Dial(w) ==
  /\ Goto(w, "dial", "connect")
  /\ sock' = [sock EXCEPT ![w] = rseen[w]]
  /\ rseen' = [rseen EXCEPT ![w] = rebindEpoch]
  /\ UNCHANGED <<idleVars, paused, pauses, rebindEpoch, inLoop, attempt, payload,
                 cur, joined, advert, relisted, seen>>

Dial(w) ==
  /\ Goto(w, "dial", "connect")
  /\ sock' = [sock EXCEPT ![w] = rebindEpoch]
  /\ UNCHANGED <<idleVars, paused, pauses, rebindEpoch, inLoop, attempt, payload,
                 cur, joined, advert, relisted, seen, rseen>>

Connected(w) ==
  /\ Goto(w, "connect", "channel")
  /\ UNCHANGED <<idleVars, paused, pauses, rebindEpoch, inLoop, attempt, payload,
                 cur, joined, advert, relisted, seen, rseen, sock>>

(* Allocate fails, or the network changed under a half-built allocation,   *)
(* or ChannelBind fails.                                                   *)
ConnectFails(w) ==
  /\ pc[w] \in {"connect", "channel"}
  /\ End(w)
  /\ UNCHANGED <<idleVars, paused, pauses, rebindEpoch, joined>>

RebindWhileConnecting(w) ==
  /\ pc[w] = "connect"
  /\ rebindEpoch # rseen[w]
  /\ End(w)
  /\ UNCHANGED <<idleVars, paused, pauses, rebindEpoch, joined>>

ChannelBound(w) ==
  /\ Goto(w, "channel", "gen")
  /\ UNCHANGED <<idleVars, paused, pauses, rebindEpoch, inLoop, attempt, payload,
                 cur, joined, advert, relisted, seen, rseen, sock>>

-----------------------------------------------------------------------------
(* build_registration_payload: three loads. *)

ReadGeneration(w) ==
  /\ Goto(w, "gen", "off")
  /\ pgen' = [pgen EXCEPT ![w] = genOffset]
  /\ UNCHANGED <<idleVars, paused, pauses, rebindEpoch, inLoop, attempt, poff, pcount,
                 cur, joined, advert, relisted, seen, rseen, sock>>

ReadOffset(w) ==
  /\ Goto(w, "off", "count")
  /\ poff' = [poff EXCEPT ![w] = genOffset]
  /\ UNCHANGED <<idleVars, paused, pauses, rebindEpoch, inLoop, attempt, pgen, pcount,
                 cur, joined, advert, relisted, seen, rseen, sock>>

ReadDeclared(w) ==
  /\ Goto(w, "count", "send")
  /\ pcount' = [pcount EXCEPT ![w] = declared]
  /\ UNCHANGED <<idleVars, paused, pauses, rebindEpoch, inLoop, attempt, pgen, poff,
                 cur, joined, advert, relisted, seen, rseen, sock>>

Payload(w) == [gen |-> pgen[w], count |-> pcount[w]]

-----------------------------------------------------------------------------
(* request_configuration: send, wait, and resend a freshly built request   *)
(* after each timeout.                                                     *)

SendGetConf(w) ==
  /\ ~inLoop[w]
  /\ Goto(w, "send", "await")
  /\ advert' = [advert EXCEPT ![w] = Payload(w)]
  /\ attempt' = [attempt EXCEPT ![w] = @ + 1]
  /\ UNCHANGED <<idleVars, paused, pauses, rebindEpoch, inLoop, payload, cur, joined,
                 relisted, seen, rseen, sock>>

(* Mutant: one attempt too many. *)
Mut_GetConfTimeout(w) ==
  /\ attempt[w] <= Attempts
  /\ Goto(w, "await", "gen")
  /\ UNCHANGED <<idleVars, paused, pauses, rebindEpoch, inLoop, attempt, payload,
                 cur, joined, advert, relisted, seen, rseen, sock>>

GetConfTimeout(w) ==
  /\ attempt[w] < Attempts
  /\ Goto(w, "await", "gen")
  /\ UNCHANGED <<idleVars, paused, pauses, rebindEpoch, inLoop, attempt, payload,
                 cur, joined, advert, relisted, seen, rseen, sock>>

(* Sending fails, the receiver dies, the server denies or stays silent. *)
HandshakeFails(w) ==
  /\ \/ pc[w] = "await"
     \/ pc[w] = "send" /\ ~inLoop[w]
  /\ End(w)
  /\ UNCHANGED <<idleVars, paused, pauses, rebindEpoch, joined>>

TunConf(w) ==
  /\ Goto(w, "await", "rebind")
  /\ joined' = [joined EXCEPT ![w] = poff[w] + 1]
  /\ DropPayload(w)
  /\ UNCHANGED <<idleVars, paused, pauses, rebindEpoch, inLoop, cur,
                 advert, relisted, seen, rseen, sock>>

(* ConfigResponse::NoConfig: the session goes on without joining. *)
NoConfig(w) ==
  /\ Goto(w, "await", "rebind")
  /\ DropPayload(w)
  /\ UNCHANGED <<idleVars, paused, pauses, rebindEpoch, inLoop, cur,
                 joined, advert, relisted, seen, rseen, sock>>

-----------------------------------------------------------------------------
(* run_allocated_session: registered and READY; the epochs the loop will   *)
(* watch are read only now.                                                *)

ReadLoopEpoch(w) ==
  /\ Goto(w, "rebind", "seen")
  /\ rseen' = [rseen EXCEPT ![w] = rebindEpoch]
  /\ UNCHANGED <<idleVars, paused, pauses, rebindEpoch, inLoop, attempt, payload, cur,
                 joined, advert, relisted, seen, sock>>

ReadAnnounce(w) ==
  /\ Goto(w, "seen", "loop")
  /\ seen' = [seen EXCEPT ![w] = announce]
  /\ UNCHANGED <<idleVars, paused, pauses, rebindEpoch, inLoop, attempt, payload, cur,
                 joined, advert, relisted, rseen, sock>>

(* The branches of the loop that end the session without a path loss:      *)
(* NET_REBIND, IDLE_PARK.                                                  *)
LoopRebind(w) ==
  /\ pc[w] = "loop"
  /\ rebindEpoch # rseen[w]
  /\ End(w)
  /\ UNCHANGED <<idleVars, paused, pauses, rebindEpoch, joined>>

LoopParked(w) ==
  /\ pc[w] = "loop"
  /\ ~Allows(w)
  /\ End(w)
  /\ UNCHANGED <<idleVars, paused, pauses, rebindEpoch, joined>>

(* TARGET_REPAIR, and errors that are allocation mismatches: the session   *)
(* ends and should_note_path_lost is false.                                *)
LoopEndsQuietly(w) ==
  /\ pc[w] = "loop"
  /\ End(w)
  /\ UNCHANGED <<idleVars, paused, pauses, rebindEpoch, joined>>

(* announce_changed: note the epoch first, then register again. *)
LoopAnnounce(w) ==
  /\ announce # seen[w]
  /\ Goto(w, "loop", "gen")
  /\ inLoop' = [inLoop EXCEPT ![w] = TRUE]
  /\ seen' = [seen EXCEPT ![w] = announce]
  /\ UNCHANGED <<idleVars, paused, pauses, rebindEpoch, attempt, payload, cur,
                 joined, advert, relisted, rseen, sock>>

(* Mutant: announce_seen is refreshed after the send. *)
Mut_Reannounced(w) ==
  /\ inLoop[w]
  /\ Goto(w, "send", "loop")
  /\ inLoop' = [inLoop EXCEPT ![w] = FALSE]
  /\ advert' = [advert EXCEPT ![w] = Payload(w)]
  /\ relisted' = [relisted EXCEPT ![w] = TRUE]
  /\ joined' = [joined EXCEPT ![w] = poff[w] + 1]
  /\ seen' = [seen EXCEPT ![w] = announce]
  /\ DropPayload(w)
  /\ UNCHANGED <<idleVars, paused, pauses, rebindEpoch, cur,
                 rseen, sock>>

(* The writer task took the command and sent it; nothing acknowledges it. *)
Reannounced(w) ==
  /\ inLoop[w]
  /\ Goto(w, "send", "loop")
  /\ inLoop' = [inLoop EXCEPT ![w] = FALSE]
  /\ advert' = [advert EXCEPT ![w] = Payload(w)]
  /\ relisted' = [relisted EXCEPT ![w] = TRUE]
  /\ joined' = [joined EXCEPT ![w] = poff[w] + 1]
  /\ DropPayload(w)
  /\ UNCHANGED <<idleVars, paused, pauses, rebindEpoch, cur, seen,
                 rseen, sock>>

(* The command queue is full or the packet pool is empty: the error is     *)
(* dropped, announce_seen is already advanced, nothing is retried.         *)
ReannounceFails(w) ==
  /\ inLoop[w]
  /\ Goto(w, "send", "loop")
  /\ inLoop' = [inLoop EXCEPT ![w] = FALSE]
  /\ relisted' = [relisted EXCEPT ![w] = FALSE]
  /\ DropPayload(w)
  /\ UNCHANGED <<idleVars, paused, pauses, rebindEpoch, cur,
                 joined, advert, seen, rseen, sock>>

-----------------------------------------------------------------------------
(* The writer or the reader task failed: note_path_lost. *)

PathLost(w) ==
  /\ Goto(w, "loop", "lost")
  /\ UNCHANGED <<idleVars, paused, pauses, rebindEpoch, inLoop, attempt, payload, cur,
                 joined, advert, relisted, seen, rseen, sock>>

LostIgnored(w) ==
  /\ \/ pc[w] = "lost" /\ (~Allows(w) \/ joined[w] = 0)
     \/ pc[w] = "load" /\ joined[w] - 1 # genOffset
     \/ pc[w] = "cas" /\ genOffset # cur[w]
  /\ End(w)
  /\ UNCHANGED <<idleVars, paused, pauses, rebindEpoch, joined>>

LostJoined(w) ==
  /\ Goto(w, "lost", "load")
  /\ Allows(w)
  /\ joined[w] # 0
  /\ UNCHANGED <<idleVars, paused, pauses, rebindEpoch, inLoop, attempt, payload, cur,
                 joined, advert, relisted, seen, rseen, sock>>

LostLoad(w) ==
  /\ Goto(w, "load", "cas")
  /\ joined[w] - 1 = genOffset
  /\ genOffset < MaxGen
  /\ cur' = [cur EXCEPT ![w] = genOffset]
  /\ UNCHANGED <<idleVars, paused, pauses, rebindEpoch, inLoop, attempt, payload,
                 joined, advert, relisted, seen, rseen, sock>>

(* Mutant: fetch_add in place of the compare_exchange. *)
Mut_LostExchange(w) ==
  /\ Goto(w, "cas", "bump")
  /\ genOffset' = genOffset + 1
  /\ joined' = [joined EXCEPT ![w] = 0]
  /\ UNCHANGED <<active, limit, declared, announce, counters, mon, inj, enters, overlap,
                 paused, pauses, rebindEpoch, inLoop, attempt, payload, cur, advert,
                 relisted, seen, rseen, sock>>

LostExchange(w) ==
  /\ Goto(w, "cas", "bump")
  /\ genOffset = cur[w]
  /\ genOffset' = genOffset + 1
  /\ joined' = [joined EXCEPT ![w] = 0]
  /\ UNCHANGED <<active, limit, declared, announce, counters, mon, inj, enters, overlap,
                 paused, pauses, rebindEpoch, inLoop, attempt, payload, cur, advert,
                 relisted, seen, rseen, sock>>

LostAnnounce(w) ==
  /\ pc[w] = "bump"
  /\ announce' = announce + 1
  /\ End(w)
  /\ UNCHANGED <<active, limit, declared, genOffset, counters, mon, inj, enters, overlap,
                 paused, pauses, rebindEpoch, joined>>

-----------------------------------------------------------------------------
Connect(w) ==
  \/ Start(w) \/ ReadEpoch(w) \/ Dial(w) \/ Connected(w) \/ ConnectFails(w)
  \/ RebindWhileConnecting(w) \/ ChannelBound(w)

Register(w) ==
  \/ ReadGeneration(w) \/ ReadOffset(w) \/ ReadDeclared(w)
  \/ SendGetConf(w) \/ GetConfTimeout(w) \/ HandshakeFails(w)
  \/ TunConf(w) \/ NoConfig(w) \/ ReadLoopEpoch(w) \/ ReadAnnounce(w)

Loop(w) ==
  \/ LoopRebind(w) \/ LoopParked(w) \/ LoopEndsQuietly(w)
  \/ LoopAnnounce(w) \/ Reannounced(w) \/ ReannounceFails(w)

Lost(w) ==
  \/ PathLost(w) \/ LostIgnored(w) \/ LostJoined(w) \/ LostLoad(w)
  \/ LostExchange(w) \/ LostAnnounce(w)

Next ==
  \/ IdleNext /\ UNCHANGED sessionVars
  \/ SetPaused
  \/ RebindRequest
  \/ \E w \in Workers : Connect(w) \/ Register(w) \/ Loop(w) \/ Lost(w)

Spec == Init /\ [][Next]_vars

-----------------------------------------------------------------------------
(* No epoch change is between its first store and its announcement. *)
Quiet == Settled /\ \A w \in Workers : pc[w] # "bump"

UpToDate(w) == advert[w] = [gen |-> genOffset, count |-> declared]

(* A live path that registered again from the loop is registered with the  *)
(* current epoch and worker count, or is about to register once more: the  *)
(* loop notes ANNOUNCE before it loads what it sends, and every writer     *)
(* bumps ANNOUNCE after its stores (idle.rs enter, exit, note_path_lost).  *)
ReannounceCatchesUp ==
  \A w \in Workers :
    pc[w] = "loop" /\ relisted[w] /\ Quiet => UpToDate(w) \/ announce # seen[w]

(* The same for every live path, the ones whose last registration is the   *)
(* handshake's included (idle.rs note_path_lost: a lost path opens a new   *)
(* epoch and the live paths register again together).                      *)
LivePathCatchesUp ==
  \A w \in Workers :
    pc[w] = "loop" /\ Quiet => advert[w].gen = genOffset \/ announce # seen[w]

(* note_path_joined: the remembered offset is the one baked into the       *)
(* GETCONF that was acknowledged or handed to the writer.                  *)
JoinedIsBaked ==
  \A w \in Workers :
    pc[w] = "loop" /\ joined[w] # 0 => joined[w] - 1 <= advert[w].gen

(* note_path_lost: a worker's death closes only the epoch this worker had  *)
(* joined, however many workers die and enter() bumps the epoch meanwhile. *)
LossClosesOwnEpoch ==
  [][\A w \in Workers :
       pc[w] = "cas" /\ pc'[w] = "bump" => genOffset + 1 = joined[w]]_vars

(* rebind.rs: a half-built allocation whose sockets are on the old network *)
(* is always told (session.rs, NET_REBIND branch of the connect select).   *)
ConnectSeesRebind ==
  \A w \in Workers :
    pc[w] = "connect" => sock[w] = rebindEpoch \/ rseen[w] # rebindEpoch

(* rebind.rs: "every session ends with NET_REBIND": so is a live session.  *)
SessionSeesRebind ==
  \A w \in Workers :
    pc[w] = "loop" => sock[w] = rebindEpoch \/ rseen[w] # rebindEpoch
=============================================================================
