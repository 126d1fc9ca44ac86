---------------------------- MODULE TcpConnection ----------------------------
(***************************************************************************)
(* The TCP control block of src/tcp_connection.zig and the operations on   *)
(* it.  An operation returns what the code's Transition and the updated    *)
(* block say: whether the segment was accepted, the new control block, and *)
(* the segment to send (none or one).  Why a segment is rejected, the tick *)
(* values behind the retransmission timer and the statistics are left out; *)
(* whether a deadline has passed is the caller's choice.                   *)
(***************************************************************************)
EXTENDS Integers

CONSTANTS SeqModulus,      \* 2^32 in the code
          ReceiveWindow,   \* control.receive_window, never changed
          MaxRetries       \* RetransmissionPolicy.maximum_retries

ASSUME ConnectionAssumption ==
    /\ SeqModulus \in Nat /\ SeqModulus > 1
    /\ ReceiveWindow \in Nat \ {0}
    /\ MaxRetries \in Nat \ {0}

SeqNumbers == 0 .. SeqModulus - 1
Plus(n, k) == (n + k) % SeqModulus       \* Zig's +%

(* "psh" stands for the header bits no handler tests on their own.         *)
Flags  == {"syn", "ack", "fin", "rst", "psh"}
States == {"closed", "syn_sent", "syn_received", "established", "fin_wait_1",
           "fin_wait_2", "close_wait", "last_ack", "time_wait", "reset",
           "timed_out"}

(* ControlBlock: initial_send_sequence, send_unacknowledged, send_next,    *)
(* receive_next, send_window, retransmission_active, retransmissions.      *)
ControlBlock(Windows) ==
    [state : States, iss : SeqNumbers, una : SeqNumbers, nxt : SeqNumbers,
     rcv : SeqNumbers, wnd : Windows, timer : BOOLEAN, retries : 0 .. MaxRetries]

InitBlock == [state |-> "closed", iss |-> 0, una |-> 0, nxt |-> 0, rcv |-> 0,
              wnd |-> 0, timer |-> FALSE, retries |-> 0]

Segment(seq, ack, flags) ==
    [seq |-> seq, ack |-> ack, flags |-> flags, wnd |-> ReceiveWindow, len |-> 0]
MakeSyn(c)    == Segment(c.iss, 0, {"syn"})
MakeSynAck(c) == Segment(c.iss, c.rcv, {"syn", "ack"})
MakeAck(c)    == Segment(c.nxt, c.rcv, {"ack"})

Accepted(c, out) == [accepted |-> TRUE, control |-> c, outbound |-> out]
Reject(c) == [accepted |-> FALSE, control |-> c, outbound |-> {}]
AcknowledgeRejection(c) ==
    [accepted |-> FALSE, control |-> c, outbound |-> {MakeAck(c)}]

-----------------------------------------------------------------------------
(* Opening, sending and closing.                                           *)

BeginActiveOpenAt(iss) ==
    LET c == [InitBlock EXCEPT !.state = "syn_sent", !.iss = iss, !.una = iss,
                               !.nxt = Plus(iss, 1), !.timer = TRUE]
    IN Accepted(c, {MakeSyn(c)})

(* A passive open takes a bare SYN only.                                   *)
IsSyn(seg) == seg.flags = {"syn"} /\ seg.len = 0

BeginPassiveOpenAt(iss, seg) ==
    LET c == [InitBlock EXCEPT !.state = "syn_received", !.iss = iss, !.una = iss,
                               !.nxt = Plus(iss, 1), !.rcv = Plus(seg.seq, 1),
                               !.wnd = seg.wnd, !.timer = TRUE]
    IN IF IsSyn(seg) THEN Accepted(c, {MakeSynAck(c)}) ELSE Reject(InitBlock)

ApplicationSendReady(c) ==
    c.state = "established" /\ c.una = c.nxt /\ c.wnd # 0

BeginApplicationSend(c, length) ==
    IF length # 0 /\ ApplicationSendReady(c) /\ length <= c.wnd
    THEN Accepted([c EXCEPT !.nxt = Plus(@, length)],
                  {[Segment(c.nxt, c.rcv, {"psh", "ack"}) EXCEPT !.len = length]})
    ELSE Reject(c)

BeginClose(c) ==
    LET after == [established |-> "fin_wait_1", close_wait |-> "last_ack"]
    IN IF c.state \in DOMAIN after
       THEN Accepted([c EXCEPT !.state = after[@], !.nxt = Plus(@, 1)],
                     {Segment(c.nxt, c.rcv, {"fin", "ack"})})
       ELSE Reject(c)

ExpireTimeWait(c) ==
    IF c.state = "time_wait" THEN Accepted([c EXCEPT !.state = "closed"], {})
                             ELSE Reject(c)

(* onTimer() at or after the deadline.                                     *)
TimerArmed(c) == c.state \in {"syn_sent", "syn_received"} /\ c.timer

(* Mutant: retransmissions are not counted.                              *)
OnTimerForever(c) ==
    Accepted(c, {IF c.state = "syn_sent" THEN MakeSyn(c) ELSE MakeSynAck(c)})

OnTimer(c) ==
    IF c.retries >= MaxRetries
    THEN Accepted([c EXCEPT !.state = "timed_out", !.timer = FALSE], {})
    ELSE Accepted([c EXCEPT !.retries = @ + 1],
                  {IF c.state = "syn_sent" THEN MakeSyn(c) ELSE MakeSynAck(c)})

-----------------------------------------------------------------------------
(* handleSegment(), one operator per state.                                *)

Has(seg, flag) == flag \in seg.flags

HandleSynchronizedReset(c, seg) ==
    IF ~Has(seg, "syn") /\ seg.len = 0 /\ seg.seq = c.rcv
    THEN Accepted([c EXCEPT !.state = "reset", !.timer = FALSE], {})
    ELSE Reject(c)

(* What every synchronized state asks first of a segment that is no reset: *)
(* no SYN, an ACK, and of exactly everything sent.                         *)
AcksAll(c, seg) == ~Has(seg, "syn") /\ Has(seg, "ack") /\ seg.ack = c.nxt

(* The acknowledgement and the window of an in-order segment, and what it  *)
(* occupies of the sequence space.                                         *)
Consume(c, seg, length) ==
    [c EXCEPT !.una = seg.ack, !.wnd = seg.wnd, !.rcv = Plus(@, length)]

HandleSynSent(c, seg) ==
    IF seg.len # 0 \/ ~Has(seg, "ack") \/ seg.ack # c.nxt THEN Reject(c)
    ELSE CASE Has(seg, "rst") /\ ~Has(seg, "syn") ->
                Accepted([c EXCEPT !.una = seg.ack, !.state = "reset", !.timer = FALSE], {})
           [] Has(seg, "syn") /\ ~Has(seg, "rst") /\ ~Has(seg, "fin") ->
                LET e == [c EXCEPT !.una = seg.ack, !.rcv = Plus(seg.seq, 1), !.wnd = seg.wnd,
                                   !.state = "established", !.timer = FALSE]
                IN Accepted(e, {MakeAck(e)})
           [] OTHER -> Reject(c)

(* Mutant: a duplicate SYN restarts the retransmission count.            *)
HandleSynReceivedRestarting(c, seg) ==
    CASE IsSyn(seg) -> IF Plus(seg.seq, 1) = c.rcv
                       THEN Accepted([c EXCEPT !.retries = 0], {MakeSynAck(c)})
                       ELSE Reject(c)
      [] Has(seg, "rst") -> HandleSynchronizedReset(c, seg)
      [] seg.flags = {"ack"} /\ seg.len = 0 /\ seg.seq = c.rcv /\ seg.ack = c.nxt ->
           Accepted([Consume(c, seg, 0) EXCEPT !.state = "established", !.timer = FALSE], {})
      [] OTHER -> Reject(c)

(* Mutant: any acknowledgement number completes the handshake.           *)
HandleSynReceivedAnyAck(c, seg) ==
    CASE Has(seg, "rst") -> HandleSynchronizedReset(c, seg)
      [] seg.flags = {"ack"} /\ seg.len = 0 /\ seg.seq = c.rcv ->
           Accepted([Consume(c, seg, 0) EXCEPT !.state = "established", !.timer = FALSE], {})
      [] OTHER -> Reject(c)

HandleSynReceived(c, seg) ==
    CASE IsSyn(seg) -> IF Plus(seg.seq, 1) = c.rcv THEN Accepted(c, {MakeSynAck(c)})
                                                   ELSE Reject(c)
      [] Has(seg, "rst") -> HandleSynchronizedReset(c, seg)
      [] seg.flags = {"ack"} /\ seg.len = 0 /\ seg.seq = c.rcv /\ seg.ack = c.nxt ->
           Accepted([Consume(c, seg, 0) EXCEPT !.state = "established", !.timer = FALSE], {})
      [] OTHER -> Reject(c)

(* Mutant: the sequence number is not checked.                           *)
HandleEstablishedAnySequence(c, seg) ==
    IF ~AcksAll(c, seg) \/ seg.len > ReceiveWindow THEN Reject(c)
    ELSE LET e == Consume(c, seg, seg.len)
         IN Accepted(e, IF seg.len # 0 THEN {MakeAck(e)} ELSE {})

HandleEstablished(c, seg) ==
    CASE Has(seg, "rst") -> HandleSynchronizedReset(c, seg)
      [] ~Has(seg, "rst") /\ (~AcksAll(c, seg) \/ seg.len > ReceiveWindow) -> Reject(c)
      [] OTHER ->
           LET fin == Has(seg, "fin")
               d == Consume(c, seg, seg.len + (IF fin THEN 1 ELSE 0))
               e == IF fin THEN [d EXCEPT !.state = "close_wait"] ELSE d
           IN IF seg.seq # c.rcv THEN AcknowledgeRejection(c)
              ELSE Accepted(e, IF fin \/ seg.len # 0 THEN {MakeAck(e)} ELSE {})

(* FIN_WAIT_1 moves on with any ACK, FIN_WAIT_2 with a FIN; neither takes  *)
(* payload.                                                                *)
HandleFinWait(c, seg, onAck) ==
    CASE Has(seg, "rst") -> HandleSynchronizedReset(c, seg)
      [] ~Has(seg, "rst") /\ (~AcksAll(c, seg) \/ seg.len # 0) -> Reject(c)
      [] OTHER ->
           LET e == [Consume(c, seg, 1) EXCEPT !.state = "time_wait"]
           IN IF seg.seq # c.rcv THEN AcknowledgeRejection(c)
              ELSE IF Has(seg, "fin") THEN Accepted(e, {MakeAck(e)})
              ELSE Accepted([Consume(c, seg, 0) EXCEPT !.state = onAck], {})

HandleCloseWait(c, seg) ==
    IF Has(seg, "rst") THEN HandleSynchronizedReset(c, seg) ELSE Reject(c)

HandleLastAck(c, seg) ==
    CASE Has(seg, "rst") -> HandleSynchronizedReset(c, seg)
      [] ~Has(seg, "rst") /\ (~AcksAll(c, seg) \/ Has(seg, "fin") \/ seg.len # 0) -> Reject(c)
      [] OTHER -> IF seg.seq # c.rcv THEN AcknowledgeRejection(c)
                  ELSE Accepted([Consume(c, seg, 0) EXCEPT !.state = "closed"], {})

(* The peer's FIN again: its acknowledgement was lost.                     *)
HandleTimeWait(c, seg) ==
    CASE Has(seg, "rst") -> HandleSynchronizedReset(c, seg)
      [] ~Has(seg, "rst") /\ {"fin", "ack"} \subseteq seg.flags /\ seg.len = 0
           /\ Plus(seg.seq, 1) = c.rcv /\ seg.ack = c.nxt -> AcknowledgeRejection(c)
      [] OTHER -> Reject(c)

HandleSegment(c, seg) ==
    CASE c.state = "syn_sent"     -> HandleSynSent(c, seg)
      [] c.state = "syn_received" -> HandleSynReceived(c, seg)
      [] c.state = "established"  -> HandleEstablished(c, seg)
      [] c.state = "fin_wait_1"   -> HandleFinWait(c, seg, "fin_wait_2")
      [] c.state = "fin_wait_2"   -> HandleFinWait(c, seg, "fin_wait_2")
      [] c.state = "close_wait"   -> HandleCloseWait(c, seg)
      [] c.state = "last_ack"     -> HandleLastAck(c, seg)
      [] c.state = "time_wait"    -> HandleTimeWait(c, seg)
      [] OTHER -> Reject(c)
=============================================================================
