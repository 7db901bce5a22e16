---------------------------- MODULE ReplayWindow ----------------------------
(***************************************************************************)
(* Replay protection of the inbound transport (session.rs, ReplayWindow).  *)
(* The peer numbers its packets; only the low bits of the number travel    *)
(* (the RTP sequence).  accept_rtp extends the sequence to a counter next  *)
(* to the highest one seen, accept keeps a ring of bits for the counters   *)
(* behind the highest.                                                     *)
(*                                                                         *)
(* The network between the two reorders, duplicates and loses packets.     *)
(***************************************************************************)
EXTENDS Integers, FiniteSets

CONSTANTS
  Window,   \* 16384: bits of the ring
  Half,     \* 1 << 15
  First,    \* number of the first packet the peer sends
  Last,     \* bound: number of its last packet
  Reorder,  \* bound: how far behind the newest packet a packet may arrive
  Burst     \* bound: how far a packet may jump ahead of the newest (losses)

SeqMod == 2 * Half

ASSUME WindowAssumption ==
  /\ Window \in Nat \ {0}
  /\ Half \in Nat \ {0}
  /\ First \in 0..(SeqMod - 1)      \* the peer's initial sequence is random
  /\ Last \in Nat
  /\ Reorder \in 0..(Half - 1)
  /\ Burst \in 1..(Half - 1)

NoCounter == -1

VARIABLES
  highest,   \* highest (NoCounter: None)
  seen,      \* seen: the ring of bits
  start,     \* history: first packet that arrived
  newest,    \* history: newest packet that has arrived
  accepted,  \* history: packets accepted so far
  repeated,  \* history: packets accepted more than once
  refused    \* history: packets refused on their first arrival

vars == <<highest, seen, start, newest, accepted, repeated, refused>>

Slot(c) == c % Window
Packets == First..Last

TypeOK ==
  /\ highest \in Nat \cup {NoCounter}
  /\ seen \in [0..(Window - 1) -> BOOLEAN]
  /\ start \in Packets \cup {NoCounter}
  /\ newest \in Packets \cup {NoCounter}
  /\ accepted \in SUBSET Packets
  /\ repeated \in SUBSET Packets
  /\ refused \in SUBSET Packets

(* Mutant: the ring has one bit too many. *)
Mut_Init ==
  /\ highest = NoCounter
  /\ seen = [s \in 0..Window |-> FALSE]
  /\ start = NoCounter
  /\ newest = NoCounter
  /\ accepted = {}
  /\ repeated = {}
  /\ refused = {}

Init ==
  /\ highest = NoCounter
  /\ seen = [s \in 0..(Window - 1) |-> FALSE]
  /\ start = NoCounter
  /\ newest = NoCounter
  /\ accepted = {}
  /\ repeated = {}
  /\ refused = {}

-----------------------------------------------------------------------------
(* Mutant: the sequence is taken to be of the same cycle as highest. *)
Mut_Extend(sequence) ==
  LET base == highest - (highest % SeqMod)
  IN IF highest = NoCounter THEN sequence ELSE base + sequence

(* accept_rtp: the counter nearest to highest with these low bits.         *)
(* saturating_add never saturates: counters stay far below 2^64.           *)
Extend(sequence) ==
  LET base == highest - (highest % SeqMod)
      extended == base + sequence
  IN IF highest = NoCounter THEN sequence
     ELSE IF extended + Half < highest THEN extended + SeqMod
     ELSE IF extended > highest + Half /\ extended >= SeqMod THEN extended - SeqMod
     ELSE extended

(* Mutant: any gap refills the ring. *)
Mut_Passed(c) ==
  IF highest = NoCounter THEN {}
  ELSE IF c - highest > 1 THEN 0..(Window - 1)
  ELSE {Slot(h) : h \in (highest + 1)..c}

(* The slots whose bits the ring forgets when highest advances to c. *)
Passed(c) ==
  IF highest = NoCounter THEN {}
  ELSE IF c - highest >= Window THEN 0..(Window - 1)
  ELSE {Slot(h) : h \in (highest + 1)..c}

(* Mutant: the ring forgets the old counters of a small step only. *)
Mut_Advance(c) ==
  /\ highest' = c
  /\ seen' = [s \in 0..(Window - 1) |->
                s = Slot(c) \/ (seen[s] /\ (s \notin Passed(c) \/ c - highest >= Window))]

(* accept: c is above everything seen; the ring forgets what it passes. *)
Advance(c) ==
  /\ highest' = c
  /\ seen' = [s \in 0..(Window - 1) |-> s = Slot(c) \/ (seen[s] /\ s \notin Passed(c))]

(* accept: c is behind highest, inside the window and not yet seen. *)
Late(c) ==
  /\ highest - c < Window
  /\ ~seen[Slot(c)]
  /\ seen' = [seen EXCEPT ![Slot(c)] = TRUE]
  /\ UNCHANGED highest

Fresh(c) == c > highest
Refuses(c) == ~Fresh(c) /\ (highest - c >= Window \/ seen[Slot(c)])

-----------------------------------------------------------------------------
(* Packet n arrives (again). *)
Arrives(n) ==
  /\ \/ newest = NoCounter
     \/ newest - Reorder <= n /\ n <= newest + Burst
  /\ newest' = IF n > newest THEN n ELSE newest
  /\ start' = IF start = NoCounter THEN n ELSE start

Accept(n) ==
  /\ Arrives(n)
  /\ LET c == Extend(n % SeqMod) IN
       IF Fresh(c) THEN Advance(c) ELSE Late(c)
  /\ accepted' = accepted \cup {n}
  /\ repeated' = IF n \in accepted THEN repeated \cup {n} ELSE repeated
  /\ UNCHANGED refused

Refuse(n) ==
  /\ Arrives(n)
  /\ Refuses(Extend(n % SeqMod))
  /\ refused' = IF n \notin accepted THEN refused \cup {n} ELSE refused
  /\ UNCHANGED <<highest, seen, accepted, repeated>>

Next == \E n \in Packets : Accept(n) \/ Refuse(n)

Spec == Init /\ [][Next]_vars

-----------------------------------------------------------------------------
(* No packet from before the first wrap can follow a packet from after it. *)
CleanStart == start = NoCounter \/ start % SeqMod >= Reorder

(* replay_window_accepts_reordering_once_and_rejects_duplicates: whatever  *)
(* the order and the duplicates, a packet reaches the dispatcher once.     *)
AcceptedOnce == repeated = {}

(* The same, when the first packets do not straddle a wrap.  (TypeOK is    *)
(* checked with it.)                                                       *)
AcceptedOnceIfClean == TypeOK /\ (CleanStart => AcceptedOnce)

(* The window only refuses what it saw or can no longer tell: a packet     *)
(* that is not older than the window is accepted when it first arrives.    *)
FreshIsAccepted ==
  [][CleanStart' => \A n \in refused' \ refused : newest - n >= Window]_vars

=============================================================================
