----------------------------- MODULE FlowFrame -----------------------------
(***************************************************************************)
(* The per-flow sequence numbers of shared/flow_frame.rs.  The packets of  *)
(* a TCP flow are spread over many paths, so FlowSequencer numbers them    *)
(* before they are dispatched (read_bridge, read_tun, read_udp) and        *)
(* FlowReassembler puts them back in order behind the return queues        *)
(* (ReturnReorder in dispatcher.rs).  A module for one direction: the      *)
(* sender is a FlowSequencer, the receiver a FlowReassembler, and between  *)
(* them paths that lose, reorder and repeat frames.                        *)
(*                                                                         *)
(* Abstracted: a packet is the number under which it was framed, a flow a  *)
(* model value, mix64 a counter of senders.  GAP_RELEASE_AFTER_MS is not   *)
(* counted: a gap is young until Age makes it old.  Packets that carry no  *)
(* frame (UDP, bare ACKs) pass ReturnReorder at once and are left out.     *)
(***************************************************************************)
EXTENDS Integers, FiniteSets, Sequences, Functions

CONSTANTS
    Flows,          \* tcp_flow_id
    LongFlows,      \* the flows that may already be near the wrap at the start
    SequenceSpace,  \* 2^32
    MaxTracked,     \* MAX_TRACKED_FLOWS, of the sequencer and of the reassembler
    MaxPerFlow,     \* MAX_PENDING_PER_FLOW
    MaxTotal,       \* MAX_PENDING_TOTAL
    MaxSenders,     \* bound: sender ids the sequencer goes through
    MaxFrames       \* bound: packets framed

ASSUME FlowFrameAssumption ==
    /\ IsFiniteSet(Flows) /\ LongFlows \subseteq Flows
    /\ {SequenceSpace, MaxTracked, MaxPerFlow, MaxTotal, MaxSenders, MaxFrames}
         \subseteq Nat \ {0}
    /\ SequenceSpace % 2 = 0
    /\ MaxFrames < SequenceSpace \div 2

VARIABLES
    sequencer,   \* FlowSequencer: sender_id, and the next sequence of each tracked flow
    frames,      \* every frame handed to the paths
    flows,       \* FlowReassembler::flows
    total,       \* FlowReassembler::pending_total
    ready,       \* ReturnReorder::ready: what the last push released, in order
    delivered    \* history: the last packet released since the flow was entered, 0 if none

flowVars == <<sequencer, frames, flows, total, ready, delivered>>

Half == SequenceSpace \div 2
Sequences == 0 .. SequenceSpace - 1
Keys == (1 .. MaxSenders) \X Flows
Frame == [key : Keys, sequence : Sequences, packet : 1 .. MaxFrames]
FlowState == [expected : Sequences, gap : {"none", "young", "old"}, pending : SUBSET Frame]

Empty == [k \in {} |-> 0]
Fresh == [expected |-> 0, gap |-> "none", pending |-> {}]
NothingDelivered == [k \in Keys |-> 0]

(***************************************************************************)
(* A flow whose frames have all arrived so far may be close to 2^32.       *)
(***************************************************************************)
NearWrap == SequenceSpace - 2

FlowInit ==
    /\ \E long \in SUBSET LongFlows :
         /\ sequencer = [sender |-> 1, sequences |-> [f \in long |-> NearWrap]]
         /\ flows = [k \in {1} \X long |-> [Fresh EXCEPT !.expected = NearWrap]]
    /\ frames = {}
    /\ total = 0
    /\ ready = <<>>
    /\ delivered = NothingDelivered

-----------------------------------------------------------------------------
(* The sender.                                                             *)

(* A plausible slip: the successor without the wrap. *)
Mut_Advance(sequence) == sequence + 1

Advance(sequence) == (sequence + 1) % SequenceSpace

(***************************************************************************)
(* A full table forgets every flow, and a new sender id keeps the numbers  *)
(* that start again apart from the old ones.                               *)
(***************************************************************************)
(* A plausible slip: the table is emptied under the old sender id. *)
Mut_Room(s, f) ==
    IF Cardinality(DOMAIN s.sequences) = MaxTracked /\ f \notin DOMAIN s.sequences
    THEN [s EXCEPT !.sequences = Empty]
    ELSE s

Room(s, f) ==
    IF Cardinality(DOMAIN s.sequences) = MaxTracked /\ f \notin DOMAIN s.sequences
    THEN [sender |-> s.sender + 1, sequences |-> Empty]
    ELSE s

NextSequence(f) ==
    LET s == Room(sequencer, f)
        sequence == IF f \in DOMAIN s.sequences THEN s.sequences[f] ELSE 0
        frame == [key |-> <<s.sender, f>>, sequence |-> sequence,
                  packet |-> Cardinality(frames) + 1]
    IN /\ Cardinality(frames) < MaxFrames
       /\ s.sender <= MaxSenders
       /\ frames' = frames \cup {frame}
       /\ sequencer' = [s EXCEPT !.sequences =
            [g \in DOMAIN @ \cup {f} |-> IF g = f THEN Advance(sequence) ELSE @[g]]]
       /\ ready' = <<>>
       /\ UNCHANGED <<flows, total, delivered>>

(* A reader that starts over (another TUN descriptor) has a sequencer of its own. *)
NewSequencer ==
    /\ sequencer.sender < MaxSenders
    /\ sequencer' = [sender |-> sequencer.sender + 1, sequences |-> Empty]
    /\ ready' = <<>>
    /\ UNCHANGED <<frames, flows, total, delivered>>

-----------------------------------------------------------------------------
(* The receiver: push_at works on the state of one flow, on pending_total  *)
(* and on its output.                                                      *)

(* A plausible slip: every other number counts as ahead. *)
Mut_IsForward(sequence, expected) == sequence # expected

IsForward(sequence, expected) ==
    /\ sequence # expected
    /\ (sequence - expected) % SequenceSpace < Half

HeldAs(s, sequence) == {p \in s.pending : p.sequence = sequence}

(* How many of the held frames follow on from expected without a hole. *)
Contiguous(s) ==
    CHOOSE n \in 0 .. Cardinality(s.pending) :
      /\ HeldAs(s, (s.expected + n) % SequenceSpace) = {}
      /\ \A i \in 0 .. n - 1 : HeldAs(s, (s.expected + i) % SequenceSpace) # {}

Drained(s, run) ==
    [s EXCEPT !.pending = @ \ {run[i] : i \in DOMAIN run},
              !.expected = (@ + Len(run)) % SequenceSpace,
              !.out = @ \o run]

DrainContiguous(s) ==
    Drained(s, [i \in 1 .. Contiguous(s) |->
                  CHOOSE p \in HeldAs(s, (s.expected + i - 1) % SequenceSpace) : TRUE])

Ahead(s) == {p \in s.pending : IsForward(p.sequence, s.expected)}

Lowest(s) ==
    CHOOSE p \in Ahead(s) : \A q \in Ahead(s) :
      (p.sequence - s.expected) % SequenceSpace <= (q.sequence - s.expected) % SequenceSpace

Passed(s, frame) ==
    DrainContiguous([s EXCEPT !.gap = "none", !.expected = Advance(frame.sequence),
                              !.out = Append(@, frame)])

Released(s, frame) == Passed([s EXCEPT !.pending = @ \ {frame}], frame)

Reclocked(s) == [s EXCEPT !.gap = IF s.pending = {} THEN "none" ELSE "young"]

ReleaseLowest(s) ==
    IF Ahead(s) = {} THEN [s EXCEPT !.gap = "none"] ELSE Reclocked(Released(s, Lowest(s)))

(* pending_total follows each release: saturating_sub(before - after). *)
Subtract(t, released) == [t EXCEPT !.total = IF @ > released THEN @ - released ELSE 0]
CountedTotal(s, t) == Subtract(t, Cardinality(s.pending) - Cardinality(t.pending))

ReleaseExpired(s) == IF s.gap = "old" THEN CountedTotal(s, ReleaseLowest(s)) ELSE s

(***************************************************************************)
(* A frame that runs ahead of its flow is put with the held ones, after    *)
(* each limit that is reached has released the lowest of them.             *)
(***************************************************************************)
RoomInFlow(s) ==
    IF Cardinality(s.pending) = MaxPerFlow THEN CountedTotal(s, ReleaseLowest(s)) ELSE s
RoomInTotal(s) == IF s.total = MaxTotal THEN CountedTotal(s, ReleaseLowest(s)) ELSE s
BackInTotal(s) == IF s.total > MaxTotal THEN CountedTotal(s, ReleaseLowest(s)) ELSE s
Clocked(s) == IF s.gap = "none" THEN [s EXCEPT !.gap = "young"] ELSE s
Insert(s, frame) == [s EXCEPT !.pending = @ \cup {frame}, !.total = @ + 1]

Hold(s, frame) ==
    IF s.total = MaxTotal /\ s.pending = {}
    THEN [s EXCEPT !.out = Append(@, frame), !.expected = Advance(frame.sequence),
                   !.gap = "none"]
    ELSE ReleaseExpired(Clocked(BackInTotal(Insert(RoomInTotal(s), frame))))

Handled(s, frame) ==
    IF frame.sequence = s.expected
    THEN CountedTotal(s, Passed(s, frame))
    ELSE IF IsForward(frame.sequence, s.expected) /\ HeldAs(s, frame.sequence) = {}
    THEN Hold(RoomInFlow(s), frame)
    ELSE s

(* A plausible slip: the held frames go, their number stays. *)
Mut_Table(key) ==
    IF Cardinality(DOMAIN flows) = MaxTracked /\ key \notin DOMAIN flows
    THEN [flows |-> Empty, total |-> total, delivered |-> NothingDelivered]
    ELSE [flows |-> flows, total |-> total, delivered |-> delivered]

(* A full table forgets every flow, with all it holds. *)
Table(key) ==
    IF Cardinality(DOMAIN flows) = MaxTracked /\ key \notin DOMAIN flows
    THEN [flows |-> Empty, total |-> 0, delivered |-> NothingDelivered]
    ELSE [flows |-> flows, total |-> total, delivered |-> delivered]

Entry(table, key) ==
    LET entry == IF key \in DOMAIN table.flows THEN table.flows[key] ELSE Fresh
    IN [expected |-> entry.expected, gap |-> entry.gap, pending |-> entry.pending,
        total |-> table.total, out |-> <<>>]

Store(table, key, s) ==
    /\ flows' = [k \in DOMAIN table.flows \cup {key} |->
                   IF k = key
                   THEN [expected |-> s.expected, gap |-> s.gap, pending |-> s.pending]
                   ELSE table.flows[k]]
    /\ total' = s.total
    /\ ready' = s.out
    /\ delivered' = [table.delivered EXCEPT ![key] =
                       IF s.out = <<>> THEN @ ELSE s.out[Len(s.out)].packet]

PushInto(table, frame) ==
    Store(table, frame.key, Handled(ReleaseExpired(Entry(table, frame.key)), frame))

Push(frame) ==
    /\ PushInto(Table(frame.key), frame)
    /\ UNCHANGED <<sequencer, frames>>

(* Twelve milliseconds pass since the gap of a flow was noticed. *)
Age(key) ==
    /\ key \in DOMAIN flows
    /\ flows[key].gap = "young"
    /\ flows' = [flows EXCEPT ![key].gap = "old"]
    /\ ready' = <<>>
    /\ UNCHANGED <<sequencer, frames, total, delivered>>

(* write_tun starts over with an empty ReturnReorder when its descriptor is replaced. *)
NewReassembler ==
    /\ flows' = Empty
    /\ total' = 0
    /\ ready' = <<>>
    /\ delivered' = NothingDelivered
    /\ UNCHANGED <<sequencer, frames>>

FlowNext ==
    \/ \E f \in Flows : NextSequence(f)
    \/ NewSequencer
    \/ \E frame \in frames : Push(frame)
    \/ \E key \in Keys : Age(key)
    \/ NewReassembler

FlowSpec == FlowInit /\ [][FlowNext]_flowVars

-----------------------------------------------------------------------------
(* Properties.                                                             *)

(* Every variable keeps its shape; sequence numbers stay within 32 bits. *)
FlowTypeOK ==
    /\ sequencer.sender \in 1 .. MaxSenders
    /\ DOMAIN sequencer.sequences \subseteq Flows
    /\ \A f \in DOMAIN sequencer.sequences : sequencer.sequences[f] \in Sequences
    /\ frames \subseteq Frame
    /\ DOMAIN flows \subseteq Keys
    /\ \A k \in DOMAIN flows : flows[k] \in FlowState
    /\ total \in Nat
    /\ \A i \in DOMAIN ready : ready[i] \in Frame
    /\ delivered \in [Keys -> 0 .. MaxFrames]

(* The global limit compares pending_total, which each branch of push_at   *)
(* corrects by itself: it is always the number of frames really held.      *)
(* (FlowTypeOK is checked with it.)                                        *)
AccountingMatches ==
    /\ FlowTypeOK
    /\ total = SumFunction([k \in DOMAIN flows |-> Cardinality(flows[k].pending)])

(* Whatever the paths do, and whichever limit forces a release, a flow     *)
(* comes out in the order it went in and no packet comes out twice, as     *)
(* long as the reassembler has not forgotten the flow.                     *)
OutputInOrder ==
    [][\A i \in DOMAIN ready' :
         ready'[i].packet > IF i = 1 THEN delivered[ready'[i].key] ELSE ready'[i - 1].packet]_flowVars

(* A frame that is newer than all its flow has released or holds is not    *)
(* taken for a late one: it is released or held.  Excepted is a flow that  *)
(* was forgotten after 2^31 frames: expected starts again from 0 there,    *)
(* and every frame up to the wrap looks late.                              *)
NewFrameIsKept ==
    [][\A frame \in frames :
         LET key == frame.key
             entry == IF key \in DOMAIN flows THEN flows[key] ELSE Fresh
         IN /\ Push(frame)
            /\ frame.packet > delivered[key]
            /\ \A p \in entry.pending : frame.packet > p.packet
            /\ entry.expected = 0 /\ delivered[key] = 0 => frame.sequence < Half
            => \/ \E i \in DOMAIN ready' : ready'[i] = frame
               \/ frame \in flows'[key].pending]_flowVars

(* What one flow holds stays within MAX_PENDING_PER_FLOW.  It does not: a  *)
(* release that makes room for a frame can move expected up to that frame  *)
(* or past it, and what is then held below expected is never released.     *)
HeldIsBounded == \A k \in DOMAIN flows : Cardinality(flows[k].pending) <= MaxPerFlow

(* The frame a flow waits for is not one that it holds already. *)
ExpectedIsNotHeld == \A k \in DOMAIN flows : HeldAs(flows[k], flows[k].expected) = {}

(* While a flow holds a frame that is still to come out, the clock that    *)
(* releases it runs.                                                       *)
HeldHasClock ==
    \A k \in DOMAIN flows :
      (\E p \in flows[k].pending : IsForward(p.sequence, flows[k].expected))
        => flows[k].gap # "none"

=============================================================================
