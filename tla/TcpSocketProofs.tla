--------------------------- MODULE TcpSocketProofs ---------------------------
(***************************************************************************)
(* Proofs about module TcpSocket, for any numbers of processes, slots,     *)
(* backlog entries, ports and peers, any segments and any width of the     *)
(* sequence numbers: nobody sleeps through a wakeup, a segment and a port  *)
(* have one owner, and payload or FIN is never taken by a connected socket.*)
(***************************************************************************)
EXTENDS TcpSocket, NaturalsInduction, WellFoundedInduction, TLAPS

(* What holds of one slot, whatever the others are.                        *)
LiveConn(r) == r.conn # None /\ r.conn.status \in {"connecting", "established"}

RecordSound(r) ==
    /\ r \in SlotType
    /\ ~r.used => r.bound = None /\ r.backlog = 0 /\ r.conn = None
    /\ r.used => r.gen # 0
    /\ r.backlog = 0 => \A j \in Entries : r.pending[j] = None
    /\ r.backlog # 0 => r.conn = None /\ r.bound # None
    /\ r.conn # None =>
          /\ r.bound # None
          /\ r.conn.status = "connecting" =>
                r.conn.control.state = "syn_sent" /\ r.conn.control.timer
          /\ r.conn.status = "established" =>
                r.conn.control.state \in {"established", "fin_wait_1"}

(* The slot r still owes the wait w its wakeup.                            *)
Serves(r, w) ==
    /\ r.used /\ r.gen = w.gen
    /\ w.call = "connect" => r.conn # None /\ r.conn.status = "connecting"
    /\ w.call = "accept" => r.backlog # 0 /\ EstablishedEntries(r) = {}

(* Ports and peers of the table f: only a listener and connections that    *)
(* got through their handshake share a port, and no two live connections,  *)
(* accepted or in a backlog, have the same port and peer.                  *)
Shares(r) == \/ r.backlog # 0
             \/ r.conn # None /\ r.conn.status \in {"established", "refused"}
Queued(r, j) == j \in 1 .. r.backlog /\ r.pending[j] # None

PortsApart(f) ==
    \A s, t \in Slots : s # t /\ f[s].bound # None /\ f[s].bound = f[t].bound =>
        Shares(f[s]) /\ Shares(f[t]) /\ (f[s].backlog = 0 \/ f[t].backlog = 0)

PeersApart(f) ==
    /\ \A s, t \in Slots :
          /\ LiveConn(f[s]) /\ LiveConn(f[t]) /\ f[s].bound = f[t].bound
          /\ f[s].conn.peer = f[t].conn.peer
          => s = t
    /\ \A s, t \in Slots : \A j \in Entries :
          LiveConn(f[s]) /\ Queued(f[t], j) /\ f[s].bound = f[t].bound =>
             f[t].pending[j].peer # f[s].conn.peer
    /\ \A t \in Slots : \A j, k \in Entries :
          /\ Queued(f[t], j) /\ Queued(f[t], k)
          /\ f[t].pending[j].peer = f[t].pending[k].peer
          => j = k

Apart(f) == PortsApart(f) /\ PeersApart(f)

(* The inductive invariant.                                                *)
Descriptors ==
    /\ held \in [Procs -> SUBSET Slots]
    /\ \A p \in Procs : \A s \in held[p] : sock[s].used

Sleepers ==
    /\ wait \in [Procs -> Waiting \union {None}]
    /\ \A p \in Procs : wait[p] # None =>
          wait[p].slot \in held[p] /\ Serves(sock[wait[p].slot], wait[p])

SocketInv ==
    /\ sock \in [Slots -> SlotType]
    /\ \A s \in Slots : RecordSound(sock[s])
    /\ Descriptors /\ Sleepers
    /\ Apart(sock)

(* What a step may do to a connected socket: see IngressDeferred.          *)
Defers(r, q) ==
    r.conn # None /\ r.conn.status = "established" /\ q.used =>
        /\ q.conn.control.rcv = r.conn.control.rcv
        /\ q.conn.control.state # r.conn.control.state =>
             \/ q.conn.control.state = "reset"
             \/ q.conn.writeShutdown /\ q.conn.control.state = "fin_wait_1"

Deferred == \A s \in Slots : Defers(sock[s], sock'[s])

-----------------------------------------------------------------------------
(* Control blocks.                                                         *)

Blocks == ControlBlock(Windows)
Arriving(seg) == /\ seg.seq \in SeqNumbers /\ seg.ack \in SeqNumbers
                 /\ seg.wnd \in Windows /\ seg.len \in Nat

(* Sequence numbers stay below the modulus.                                *)
LEMMA PlusType ==
    ASSUME NEW n \in Nat, NEW k \in Nat
    PROVE  Plus(n, k) \in SeqNumbers
  BY ConnectionAssumption DEF Plus, SeqNumbers

(* Adding nothing changes nothing.                                         *)
LEMMA PlusZero ==
    ASSUME NEW n \in SeqNumbers
    PROVE  Plus(n, 0) = n
  BY ConnectionAssumption DEF Plus, SeqNumbers

(* A control block, field by field.                                        *)
LEMMA BlockFields ==
    ASSUME NEW c \in Blocks
    PROVE  /\ c.state \in States /\ c.iss \in SeqNumbers /\ c.una \in SeqNumbers
           /\ c.nxt \in SeqNumbers /\ c.nxt \in Nat /\ c.rcv \in SeqNumbers
           /\ c.rcv \in Nat /\ c.wnd \in Windows /\ c.timer \in BOOLEAN
           /\ c.retries \in 0 .. MaxRetries
  BY ConnectionAssumption DEF Blocks, ControlBlock, SeqNumbers

(* The segments that peers send.                                           *)
LEMMA InboundFields ==
    ASSUME NEW seg \in Inbound
    PROVE  Arriving(seg)
  BY SocketAssumption DEF Arriving, Windows

ToState(c, st, tm) == [c EXCEPT !.state = st, !.timer = tm]
(* A control block with another state and timer.                           *)
LEMMA ToStateFields ==
    ASSUME NEW c \in Blocks, NEW st \in States, NEW tm \in BOOLEAN
    PROVE  LET d == ToState(c, st, tm)
           IN d \in Blocks /\ d.state = st /\ d.timer = tm /\ d.rcv = c.rcv
  BY DEF ToState, Blocks, ControlBlock

(* Consume() keeps the state and moves receive_next by what the segment    *)
(* occupies.                                                               *)
LEMMA ConsumeFields ==
    ASSUME NEW c \in Blocks, NEW seg, Arriving(seg), NEW k \in Nat
    PROVE  LET d == Consume(c, seg, k)
           IN /\ d \in Blocks /\ d.state = c.state /\ d.timer = c.timer
              /\ d.rcv = Plus(c.rcv, k)
  <1>1. Plus(c.rcv, k) \in SeqNumbers
    BY BlockFields, PlusType
  <1> HIDE DEF SeqNumbers
  <1> QED BY <1>1 DEF Consume, Blocks, ControlBlock, Arriving

(* A reset in a synchronized state.                                        *)
LEMMA ResetFacts ==
    ASSUME NEW c \in Blocks, NEW seg
    PROVE  LET o == HandleSynchronizedReset(c, seg)
           IN /\ o.control \in Blocks /\ o.control.rcv = c.rcv
              /\ o.accepted => o.control.state = "reset" /\ o.outbound = {}
  <1> DEFINE d == ToState(c, "reset", FALSE)
  <1>1. d \in Blocks /\ d.rcv = c.rcv /\ d.state = "reset"
    <2>1. "reset" \in States /\ FALSE \in BOOLEAN
      BY DEF States
    <2> QED BY <2>1, ToStateFields
  <1>2. HandleSynchronizedReset(c, seg) =
           IF ~Has(seg, "syn") /\ seg.len = 0 /\ seg.seq = c.rcv
           THEN Accepted(d, {}) ELSE Reject(c)
    BY DEF HandleSynchronizedReset, ToState
  <1> HIDE DEF d
  <1> QED BY <1>1, <1>2 DEF Accepted, Reject

(* SYN_SENT: what is accepted ends the handshake, one way or the other.    *)
LEMMA SynSentFacts ==
    ASSUME NEW c \in Blocks, NEW seg, Arriving(seg)
    PROVE  LET o == HandleSynSent(c, seg)
           IN /\ o.control \in Blocks
              /\ o.accepted => o.control.state \in {"reset", "established"}
  <1> DEFINE a == [c EXCEPT !.una = seg.ack, !.state = "reset", !.timer = FALSE]
             e == [c EXCEPT !.una = seg.ack, !.rcv = Plus(seg.seq, 1), !.wnd = seg.wnd,
                            !.state = "established", !.timer = FALSE]
  <1>1. a \in Blocks /\ a.state = "reset"
    BY DEF Blocks, ControlBlock, Arriving, States
  <1>2. e \in Blocks /\ e.state = "established"
    <2>1. Plus(seg.seq, 1) \in SeqNumbers
      <3>1. seg.seq \in Nat /\ 1 \in Nat
        BY ConnectionAssumption DEF Arriving, SeqNumbers
      <3> QED BY <3>1, PlusType
    <2> HIDE DEF SeqNumbers
    <2> QED BY <2>1 DEF Blocks, ControlBlock, Arriving, States
  <1>3. \/ HandleSynSent(c, seg) = Reject(c)
        \/ HandleSynSent(c, seg) = Accepted(a, {})
        \/ HandleSynSent(c, seg) = Accepted(e, {MakeAck(e)})
    BY DEF HandleSynSent
  <1> HIDE DEF a, e
  <1> QED BY <1>1, <1>2, <1>3 DEF Accepted, Reject

(* SYN_RECEIVED and the synchronized states keep the type of the block.    *)
LEMMA SynReceivedFacts ==
    ASSUME NEW c \in Blocks, NEW seg, Arriving(seg)
    PROVE  HandleSynReceived(c, seg).control \in Blocks
  <1> DEFINE e == ToState(Consume(c, seg, 0), "established", FALSE)
  <1>1. e \in Blocks
    <2>1. "established" \in States /\ FALSE \in BOOLEAN /\ 0 \in Nat
      BY DEF States
    <2> QED BY <2>1, ConsumeFields, ToStateFields
  <1>2. \/ HandleSynReceived(c, seg) \in {Reject(c), Accepted(c, {MakeSynAck(c)})}
        \/ HandleSynReceived(c, seg) = HandleSynchronizedReset(c, seg)
        \/ HandleSynReceived(c, seg) = Accepted(e, {})
    BY DEF HandleSynReceived, ToState
  <1> HIDE DEF e
  <1> QED BY <1>1, <1>2, ResetFacts DEF Accepted, Reject

(* ESTABLISHED: a segment without payload and FIN leaves receive_next, and *)
(* the state unless it is a reset.                                         *)
LEMMA EstablishedFacts ==
    ASSUME NEW c \in Blocks, NEW seg, Arriving(seg)
    PROVE  LET o == HandleEstablished(c, seg)
           IN /\ o.control \in Blocks
              /\ c.state = "established" /\ seg.len = 0 /\ ~Has(seg, "fin") =>
                    /\ o.control.rcv = c.rcv
                    /\ o.control.state \in {"established", "reset"}
  <1> DEFINE fin == Has(seg, "fin")
             k == seg.len + (IF fin THEN 1 ELSE 0)
             d == Consume(c, seg, k)
             e == IF fin THEN [d EXCEPT !.state = "close_wait"] ELSE d
             o == HandleEstablished(c, seg)
             out == IF fin \/ seg.len # 0 THEN {MakeAck(e)} ELSE {}
  <1>1. k \in Nat /\ (seg.len = 0 /\ ~fin => k = 0)
    BY DEF Arriving
  <1> HIDE DEF k
  <1>2. d \in Blocks /\ d.state = c.state /\ d.rcv = Plus(c.rcv, k)
    BY <1>1, ConsumeFields
  <1> HIDE DEF d
  <1>3. e \in Blocks /\ (~fin => e.state = c.state /\ e.rcv = Plus(c.rcv, k))
    BY <1>2 DEF Blocks, ControlBlock, States
  <1>4. k = 0 => Plus(c.rcv, k) = c.rcv
    BY BlockFields, PlusZero
  <1>5. \/ o = HandleSynchronizedReset(c, seg) \/ o = Reject(c)
        \/ o = AcknowledgeRejection(c) \/ o = Accepted(e, out)
    BY DEF HandleEstablished, d, k
  <1> HIDE DEF e, o, out, fin
  <1>6. CASE o = HandleSynchronizedReset(c, seg)
    <2>1. o.accepted \/ o = Reject(c)
      BY <1>6 DEF HandleSynchronizedReset, Accepted
    <2> QED BY <1>6, <2>1, ResetFacts DEF o, Reject
  <1>7. CASE o = Reject(c) \/ o = AcknowledgeRejection(c)
    <2>1. o.control = c
      BY <1>7 DEF Reject, AcknowledgeRejection
    <2> QED BY <2>1 DEF o
  <1>8. CASE o = Accepted(e, out)
    <2>1. o.control = e
      BY <1>8 DEF Accepted
    <2> QED BY <1>1, <1>3, <1>4, <2>1 DEF o, fin
  <1> QED BY <1>5, <1>6, <1>7, <1>8

(* The states after a FIN keep the type of the block.                      *)
LEMMA ClosingFacts ==
    ASSUME NEW c \in Blocks, NEW seg, Arriving(seg)
    PROVE  /\ HandleFinWait(c, seg, "fin_wait_2").control \in Blocks
           /\ HandleCloseWait(c, seg).control \in Blocks
           /\ HandleLastAck(c, seg).control \in Blocks
           /\ HandleTimeWait(c, seg).control \in Blocks
  <1> DEFINE r == HandleSynchronizedReset(c, seg)
             e == [Consume(c, seg, 1) EXCEPT !.state = "time_wait"]
             f == [Consume(c, seg, 0) EXCEPT !.state = "fin_wait_2"]
             g == [Consume(c, seg, 0) EXCEPT !.state = "closed"]
  <1>1. r.control \in Blocks
    BY ResetFacts
  <1>2. Consume(c, seg, 1) \in Blocks /\ Consume(c, seg, 0) \in Blocks
    BY ConsumeFields
  <1>3. e \in Blocks /\ f \in Blocks /\ g \in Blocks
    BY <1>2 DEF Blocks, ControlBlock, States
  <1>4. \/ HandleFinWait(c, seg, "fin_wait_2") \in
              {r, Reject(c), AcknowledgeRejection(c), Accepted(e, {MakeAck(e)})}
        \/ HandleFinWait(c, seg, "fin_wait_2") = Accepted(f, {})
    BY DEF HandleFinWait
  <1>5. HandleCloseWait(c, seg) \in {r, Reject(c)}
    BY DEF HandleCloseWait
  <1>6. HandleLastAck(c, seg) \in {r, Reject(c), AcknowledgeRejection(c), Accepted(g, {})}
    BY DEF HandleLastAck
  <1>7. HandleTimeWait(c, seg) \in {r, Reject(c), AcknowledgeRejection(c)}
    BY DEF HandleTimeWait
  <1> HIDE DEF r, e, f, g
  <1>8. /\ Reject(c).control \in Blocks /\ AcknowledgeRejection(c).control \in Blocks
        /\ Accepted(e, {MakeAck(e)}).control \in Blocks
        /\ Accepted(f, {}).control \in Blocks /\ Accepted(g, {}).control \in Blocks
    BY <1>3 DEF Reject, AcknowledgeRejection, Accepted
  <1> QED BY <1>1, <1>4, <1>5, <1>6, <1>7, <1>8

(* handleSegment() in any state.                                           *)
LEMMA HandleSegmentFacts ==
    ASSUME NEW c \in Blocks, NEW seg, Arriving(seg)
    PROVE  LET o == HandleSegment(c, seg)
           IN /\ o.control \in Blocks
              /\ c.state = "syn_sent" /\ o.accepted =>
                    o.control.state \in {"reset", "established"}
              /\ c.state = "established" /\ seg.len = 0 /\ ~Has(seg, "fin") =>
                    /\ o.control.rcv = c.rcv
                    /\ o.control.state \in {"established", "reset"}
  <1> DEFINE o == HandleSegment(c, seg)
  <1>1. CASE c.state = "syn_sent"
    <2>1. o = HandleSynSent(c, seg)
      BY <1>1 DEF HandleSegment
    <2> QED BY <1>1, <2>1, SynSentFacts
  <1>2. CASE c.state = "syn_received"
    <2>1. o = HandleSynReceived(c, seg)
      BY <1>2 DEF HandleSegment
    <2> QED BY <1>2, <2>1, SynReceivedFacts
  <1>3. CASE c.state = "established"
    <2>1. o = HandleEstablished(c, seg)
      BY <1>3 DEF HandleSegment
    <2> QED BY <1>3, <2>1, EstablishedFacts
  <1>4. CASE c.state \notin {"syn_sent", "syn_received", "established"}
    <2>1. o.control \in Blocks
      <3>1. \/ o = Reject(c) \/ o = HandleFinWait(c, seg, "fin_wait_2")
            \/ o = HandleCloseWait(c, seg) \/ o = HandleLastAck(c, seg)
            \/ o = HandleTimeWait(c, seg)
        BY <1>4 DEF HandleSegment
      <3>2. Reject(c).control \in Blocks
        BY DEF Reject
      <3> QED BY <3>1, <3>2, ClosingFacts
    <2> QED BY <1>4, <2>1
  <1> QED BY <1>1, <1>2, <1>3, <1>4

(* onTimer() retransmits or gives up.                                      *)
LEMMA OnTimerFacts ==
    ASSUME NEW c \in Blocks, TimerArmed(c)
    PROVE  LET o == OnTimer(c)
           IN /\ o.control \in Blocks
              /\ \/ o.control.state = "timed_out"
                 \/ o.control.state = c.state /\ o.control.timer
  <1> DEFINE a == ToState(c, "timed_out", FALSE)
             b == [c EXCEPT !.retries = @ + 1]
  <1>1. a \in Blocks /\ a.state = "timed_out"
    <2>1. "timed_out" \in States /\ FALSE \in BOOLEAN
      BY DEF States
    <2> QED BY <2>1, ToStateFields
  <1>2. ASSUME ~(c.retries >= MaxRetries)
        PROVE  b \in Blocks /\ b.state = c.state /\ b.timer
    <2>1. c.retries + 1 \in 0 .. MaxRetries
      BY <1>2, BlockFields, ConnectionAssumption
    <2> QED BY <2>1 DEF Blocks, ControlBlock, TimerArmed
  <1>3. OnTimer(c) = IF c.retries >= MaxRetries THEN Accepted(a, {})
                     ELSE Accepted(b, {IF c.state = "syn_sent" THEN MakeSyn(c)
                                       ELSE MakeSynAck(c)})
    BY DEF OnTimer, ToState
  <1> HIDE DEF a, b
  <1> QED BY <1>1, <1>2, <1>3 DEF Accepted

(* Opening, sending and closing.                                           *)
LEMMA OpenFacts ==
    ASSUME NEW iss \in InitialSequences
    PROVE  /\ BeginActiveOpenAt(iss).control \in Blocks
           /\ BeginActiveOpenAt(iss).control.state = "syn_sent"
           /\ BeginActiveOpenAt(iss).control.timer
           /\ \A seg : Arriving(seg) => BeginPassiveOpenAt(iss, seg).control \in Blocks
  <1>1. /\ iss \in SeqNumbers /\ Plus(iss, 1) \in SeqNumbers /\ 0 \in SeqNumbers
        /\ 0 \in 0 .. MaxRetries /\ 0 \in Windows
    <2>1. iss \in SeqNumbers /\ iss \in Nat /\ 1 \in Nat
      BY SocketAssumption, ConnectionAssumption DEF SeqNumbers
    <2>2. 0 \in SeqNumbers /\ 0 \in 0 .. MaxRetries
      BY ConnectionAssumption DEF SeqNumbers
    <2> QED BY <2>1, <2>2, PlusType DEF Windows
  <1> HIDE DEF SeqNumbers, Windows
  <1>2. InitBlock \in Blocks
    BY <1>1 DEF InitBlock, Blocks, ControlBlock, States
  <1> DEFINE a == [InitBlock EXCEPT !.state = "syn_sent", !.iss = iss, !.una = iss,
                                    !.nxt = Plus(iss, 1), !.timer = TRUE]
  <1>3. a \in Blocks /\ a.state = "syn_sent" /\ a.timer
    BY <1>1 DEF InitBlock, Blocks, ControlBlock, States
  <1>4. BeginActiveOpenAt(iss).control = a
    BY DEF BeginActiveOpenAt, Accepted
  <1>5. ASSUME NEW seg, Arriving(seg)
        PROVE  BeginPassiveOpenAt(iss, seg).control \in Blocks
    <2> DEFINE b == [InitBlock EXCEPT !.state = "syn_received", !.iss = iss, !.una = iss,
                               !.nxt = Plus(iss, 1), !.rcv = Plus(seg.seq, 1),
                               !.wnd = seg.wnd, !.timer = TRUE]
    <2>1. Plus(seg.seq, 1) \in SeqNumbers
      <3>1. seg.seq \in Nat /\ 1 \in Nat
        BY <1>5, ConnectionAssumption DEF Arriving, SeqNumbers
      <3> QED BY <3>1, PlusType
    <2>2. b \in Blocks
      BY <1>1, <1>5, <2>1 DEF InitBlock, Blocks, ControlBlock, States, Arriving
    <2>3. BeginPassiveOpenAt(iss, seg) = IF IsSyn(seg) THEN Accepted(b, {MakeSynAck(b)})
                                                       ELSE Reject(InitBlock)
      BY DEF BeginPassiveOpenAt
    <2> HIDE DEF b
    <2> QED BY <1>2, <2>2, <2>3 DEF Accepted, Reject
  <1> QED BY <1>3, <1>4, <1>5

(* Application data moves send_next only.                                  *)
LEMMA SendFacts ==
    ASSUME NEW c \in Blocks, NEW length \in Nat
    PROVE  LET d == BeginApplicationSend(c, length).control
           IN d \in Blocks /\ d.state = c.state /\ d.rcv = c.rcv /\ d.timer = c.timer
  <1> DEFINE a == [c EXCEPT !.nxt = Plus(@, length)]
  <1>1. Plus(c.nxt, length) \in SeqNumbers
    BY BlockFields, PlusType
  <1> HIDE DEF SeqNumbers
  <1>2. a \in Blocks /\ a.state = c.state /\ a.rcv = c.rcv /\ a.timer = c.timer
    BY <1>1 DEF Blocks, ControlBlock
  <1>3. BeginApplicationSend(c, length).control \in {a, c}
    BY DEF BeginApplicationSend, Accepted, Reject
  <1> QED BY <1>2, <1>3

(* Closing a connected block sends the FIN and waits for its ACK.          *)
LEMMA CloseFacts ==
    ASSUME NEW c \in Blocks, c.state \in {"established", "fin_wait_1"},
           BeginClose(c).accepted
    PROVE  LET d == BeginClose(c).control
           IN d \in Blocks /\ d.state = "fin_wait_1" /\ d.rcv = c.rcv
  <1> DEFINE after == [established |-> "fin_wait_1", close_wait |-> "last_ack"]
             a == [c EXCEPT !.state = after[@], !.nxt = Plus(@, 1)]
  <1>1. DOMAIN after = {"established", "close_wait"}
    OBVIOUS
  <1>2. c.state = "established" /\ BeginClose(c).control = a
    BY <1>1 DEF BeginClose, Accepted, Reject
  <1>3. a = [c EXCEPT !.state = "fin_wait_1", !.nxt = Plus(@, 1)]
    BY <1>2
  <1> HIDE DEF after, a
  <1>4. Plus(c.nxt, 1) \in SeqNumbers
    BY BlockFields, PlusType
  <1> HIDE DEF SeqNumbers
  <1>5. a \in Blocks /\ a.state = "fin_wait_1" /\ a.rcv = c.rcv
    BY <1>3, <1>4 DEF Blocks, ControlBlock, States
  <1> QED BY <1>2, <1>5

-----------------------------------------------------------------------------
(* Slots, entries and the least of a set of them.                          *)

(* A nonempty set of numbers has a least one, the one that First() picks.  *)
LEMMA FirstIn ==
    ASSUME NEW S \in SUBSET Nat, S # {}
    PROVE  First(S) \in S
  <1>1. IsWellFoundedOn(OpToRel(<, Nat), Nat)
    BY NatLessThanWellFounded
  <1>2. PICK x \in S : \A y \in S : ~ (<<y, x>> \in OpToRel(<, Nat))
    BY <1>1, WFMin, Zenon
  <1>3. \A y \in S : ~ (y < x)
    BY <1>2 DEF OpToRel
  <1>4. \A y \in S : x <= y
    BY <1>3
  <1> QED BY <1>4 DEF First

(* The searches of the code return one of the slots or entries they look   *)
(* for.                                                                    *)
LEMMA FirstFacts ==
    /\ FreeSlots # {} => First(FreeSlots) \in FreeSlots
    /\ \A port, peer : ConnectionFor(port, peer) # {} =>
          First(ConnectionFor(port, peer)) \in ConnectionFor(port, peer)
    /\ \A port : ListenersFor(port) # {} =>
          First(ListenersFor(port)) \in ListenersFor(port)
    /\ \A r \in SlotType : EstablishedEntries(r) # {} =>
          First(EstablishedEntries(r)) \in EstablishedEntries(r)
    /\ \A s, peer : EntriesOf(s, peer) # {} => First(EntriesOf(s, peer)) \in EntriesOf(s, peer)
    /\ \A s : FreeEntries(s) # {} => First(FreeEntries(s)) \in FreeEntries(s)
  <1>1. /\ FreeSlots \subseteq Nat
        /\ \A port, peer : ConnectionFor(port, peer) \subseteq Nat
        /\ \A port : ListenersFor(port) \subseteq Nat
    BY DEF FreeSlots, ConnectionFor, ListenersFor, Slots
  <1>2. /\ \A r \in SlotType : EstablishedEntries(r) \subseteq Nat
        /\ \A s, peer : EntriesOf(s, peer) \subseteq Nat
        /\ \A s : FreeEntries(s) \subseteq Nat
    BY DEF EstablishedEntries, EntriesOf, FreeEntries, Limit
  <1> QED BY <1>1, <1>2, FirstIn

(* A slot, field by field, and the entries of its backlog.                 *)
LEMMA SlotFields ==
    ASSUME NEW r \in SlotType
    PROVE  /\ r.used \in BOOLEAN /\ r.gen \in 0 .. MaxGeneration
           /\ r.bound \in Ports \union {None} /\ r.backlog \in 0 .. MaxBacklog
           /\ r.backlog \in Nat
           /\ r.pending \in [Entries -> Pending \union {None}]
           /\ r.conn \in Connection \union {None}
           /\ \A j \in 1 .. r.backlog : j \in Entries
           /\ \A j \in Entries : r.pending[j] # None =>
                 r.pending[j].peer \in Peers /\ r.pending[j].control \in Blocks
           /\ r.conn # None =>
                 /\ r.conn.peer \in Peers /\ r.conn.control \in Blocks
                 /\ r.conn.writeShutdown \in BOOLEAN
  <1> HIDE DEF Pending, Connection, Entries
  <1>1. /\ r.used \in BOOLEAN /\ r.gen \in 0 .. MaxGeneration
        /\ r.bound \in Ports \union {None} /\ r.backlog \in 0 .. MaxBacklog
        /\ r.pending \in [Entries -> Pending \union {None}]
        /\ r.conn \in Connection \union {None}
    BY DEF SlotType
  <1>2. r.backlog \in Nat /\ \A j \in 1 .. r.backlog : j \in Entries
    BY <1>1, SocketAssumption DEF Entries
  <1>3. \A j \in Entries : r.pending[j] # None => r.pending[j] \in Pending
    BY <1>1
  <1>4. \A x \in Pending : x.peer \in Peers /\ x.control \in Blocks
    BY DEF Pending, Blocks
  <1>5. \A x \in Connection : /\ x.peer \in Peers /\ x.control \in Blocks
                              /\ x.writeShutdown \in BOOLEAN
    BY DEF Connection, Blocks
  <1> QED BY <1>1, <1>2, <1>3, <1>4, <1>5

(* What the handlers write into a slot.                                    *)
AtPort(r, b) == [r EXCEPT !.bound = b]
Listening(r, n) == [r EXCEPT !.backlog = n]
WithConn(r, c) == [r EXCEPT !.conn = c]
Opened(r, b, c) == [r EXCEPT !.bound = b, !.conn = c]
WithEntry(r, j, e) == [r EXCEPT !.pending[j] = e]
Installed(r, gen) == [r EXCEPT !.used = TRUE, !.gen = gen]

(* A slot that is bound to a port.                                         *)
LEMMA AtPortFields ==
    ASSUME NEW r \in SlotType, NEW b \in Ports
    PROVE  LET q == AtPort(r, b)
           IN /\ q \in SlotType /\ q.used = r.used /\ q.gen = r.gen /\ q.bound = b
              /\ q.backlog = r.backlog /\ q.pending = r.pending /\ q.conn = r.conn
  <1> HIDE DEF Pending, Connection, Entries
  <1> QED BY DEF AtPort, SlotType

(* A socket that starts to listen.                                         *)
LEMMA ListeningFields ==
    ASSUME NEW r \in SlotType, NEW n \in Entries
    PROVE  LET q == Listening(r, n)
           IN /\ q \in SlotType /\ q.used = r.used /\ q.gen = r.gen /\ q.bound = r.bound
              /\ q.backlog = n /\ q.backlog # 0 /\ q.pending = r.pending
              /\ q.conn = r.conn
  <1>1. n \in 0 .. MaxBacklog /\ n # 0
    BY SocketAssumption DEF Entries
  <1> HIDE DEF Pending, Connection, Entries
  <1> QED BY <1>1 DEF Listening, SlotType

(* A slot with another connection.                                         *)
LEMMA WithConnFields ==
    ASSUME NEW r \in SlotType, NEW c \in Connection
    PROVE  LET q == WithConn(r, c)
           IN /\ q \in SlotType /\ q.used = r.used /\ q.gen = r.gen /\ q.bound = r.bound
              /\ q.backlog = r.backlog /\ q.pending = r.pending /\ q.conn = c /\ c # None
  <1>1. c # None
    BY NoneAssumption
  <1> HIDE DEF Pending, Connection, Entries
  <1> QED BY <1>1 DEF WithConn, SlotType

(* A slot with a port and a connection.                                    *)
LEMMA OpenedFields ==
    ASSUME NEW r \in SlotType, NEW b \in Ports, NEW c \in Connection
    PROVE  LET q == Opened(r, b, c)
           IN /\ q \in SlotType /\ q.used = r.used /\ q.gen = r.gen /\ q.bound = b
              /\ q.backlog = r.backlog /\ q.pending = r.pending /\ q.conn = c /\ c # None
  <1>1. c # None
    BY NoneAssumption
  <1> HIDE DEF Pending, Connection, Entries
  <1> QED BY <1>1 DEF Opened, SlotType

(* A slot with another backlog entry.                                      *)
LEMMA WithEntryFields ==
    ASSUME NEW r \in SlotType, NEW j \in Entries, NEW x \in Pending \union {None}
    PROVE  LET q == WithEntry(r, j, x)
           IN /\ q \in SlotType /\ q.used = r.used /\ q.gen = r.gen /\ q.bound = r.bound
              /\ q.backlog = r.backlog /\ q.conn = r.conn /\ q.pending[j] = x
              /\ \A k \in Entries : k # j => q.pending[k] = r.pending[k]
  <1> HIDE DEF Pending, Connection, Entries
  <1> QED BY DEF WithEntry, SlotType

(* A slot with one backlog entry cleared.                                  *)
LEMMA ClearedFields ==
    ASSUME NEW r \in SlotType, NEW j \in Entries
    PROVE  LET q == WithEntry(r, j, None)
           IN /\ q \in SlotType /\ q.used = r.used /\ q.gen = r.gen /\ q.bound = r.bound
              /\ q.backlog = r.backlog /\ q.conn = r.conn /\ q.pending[j] = None
              /\ \A k \in Entries : k # j => q.pending[k] = r.pending[k]
  <1>1. None \in Pending \union {None}
    OBVIOUS
  <1> QED BY <1>1, WithEntryFields

(* A slot in use under its new generation.                                 *)
LEMMA InstalledFields ==
    ASSUME NEW r \in SlotType, NEW gen \in 0 .. MaxGeneration
    PROVE  LET q == Installed(r, gen)
           IN /\ q \in SlotType /\ q.used /\ q.gen = gen /\ q.bound = r.bound
              /\ q.backlog = r.backlog /\ q.pending = r.pending /\ q.conn = r.conn
  <1> HIDE DEF Pending, Connection, Entries
  <1> QED BY DEF Installed, SlotType

(* An empty slot.                                                          *)
LEMMA FreeSlotFields ==
    ASSUME NEW gen \in 0 .. MaxGeneration
    PROVE  LET q == FreeSlot(gen)
           IN /\ q \in SlotType /\ ~q.used /\ q.gen = gen /\ q.bound = None
              /\ q.backlog = 0 /\ q.conn = None
              /\ \A j \in Entries : q.pending[j] = None
  <1>1. 0 \in 0 .. MaxBacklog
    BY SocketAssumption
  <1> HIDE DEF Pending, Connection, Entries
  <1> QED BY <1>1 DEF FreeSlot, SlotType

(* An empty slot is sound, also once it is installed.                      *)
LEMMA FreeSlotSound ==
    ASSUME NEW gen \in 0 .. MaxGeneration
    PROVE  /\ RecordSound(FreeSlot(gen))
           /\ gen # 0 => RecordSound(Installed(FreeSlot(0), gen))
  <1>1. 0 \in 0 .. MaxGeneration
    BY SocketAssumption
  <1>2. RecordSound(FreeSlot(gen))
    BY FreeSlotFields DEF RecordSound
  <1>3. ASSUME gen # 0 PROVE RecordSound(Installed(FreeSlot(0), gen))
    <2> DEFINE f == FreeSlot(0)
               q == Installed(f, gen)
    <2>1. /\ f \in SlotType /\ f.bound = None /\ f.backlog = 0 /\ f.conn = None
          /\ \A j \in Entries : f.pending[j] = None
      BY <1>1, FreeSlotFields
    <2> HIDE DEF f
    <2>2. /\ q \in SlotType /\ q.used /\ q.gen = gen /\ q.bound = f.bound
          /\ q.backlog = f.backlog /\ q.pending = f.pending /\ q.conn = f.conn
      BY <2>1, InstalledFields
    <2> HIDE DEF q
    <2>3. RecordSound(q)
      BY <1>3, <2>1, <2>2 DEF RecordSound
    <2> QED BY <2>3 DEF q, f
  <1> QED BY <1>2, <1>3

-----------------------------------------------------------------------------
(* Ports and peers stay apart.                                             *)

(* The slot r becomes q and takes no port, peer or connection it did not   *)
(* have.                                                                   *)
Narrows(r, q) ==
    \/ q.bound = None /\ q.backlog = 0 /\ q.conn = None
    \/ /\ q.bound = r.bound /\ q.backlog = r.backlog
       /\ Shares(r) => Shares(q)
       /\ LiveConn(q) => LiveConn(r) /\ q.conn.peer = r.conn.peer
       /\ \A j \in Entries : Queued(q, j) =>
             Queued(r, j) /\ q.pending[j].peer = r.pending[j].peer

(* A slot that does not change narrows; so does any slot that is released. *)
LEMMA NarrowsSelf ==
    ASSUME NEW r
    PROVE  Narrows(r, r)
  BY DEF Narrows

(* Slots that only give up ports, peers and connections stay apart.        *)
LEMMA NarrowsApart ==
    ASSUME NEW f, NEW g, Apart(f), \A s \in Slots : Narrows(f[s], g[s])
    PROVE  Apart(g)
  <1> HIDE DEF Slots, Entries
  <1>1. \A s \in Slots : g[s].bound # None =>
           /\ g[s].bound = f[s].bound /\ g[s].backlog = f[s].backlog
           /\ Shares(f[s]) => Shares(g[s])
    BY DEF Narrows
  <1>2. \A s \in Slots : LiveConn(g[s]) =>
           g[s].bound = f[s].bound /\ LiveConn(f[s]) /\ g[s].conn.peer = f[s].conn.peer
    BY DEF Narrows, LiveConn
  <1>3. \A s \in Slots : \A j \in Entries : Queued(g[s], j) =>
           /\ g[s].bound = f[s].bound /\ Queued(f[s], j)
           /\ g[s].pending[j].peer = f[s].pending[j].peer
    <2>1. \A s \in Slots : \A j \in Entries : Queued(g[s], j) => g[s].backlog # 0
      BY DEF Queued
    <2> QED BY <2>1 DEF Narrows
  <1>4. PortsApart(g)
    BY <1>1 DEF PortsApart, Apart
  <1>5. PeersApart(g)
    BY <1>2, <1>3 DEF PeersApart, Apart
  <1> QED BY <1>4, <1>5 DEF Apart

(* One slot takes a port that no other slot has, with nothing queued.      *)
LEMMA SoloApart ==
    ASSUME NEW f, NEW g, Apart(f), NEW s \in Slots,
           \A t \in Slots : t # s => g[t] = f[t] /\ f[t].bound # g[s].bound,
           \A j \in Entries : ~Queued(g[s], j)
    PROVE  Apart(g)
  <1> HIDE DEF Slots, Entries
  <1>1. PortsApart(g)
    BY DEF PortsApart, Apart
  <1>2. PeersApart(g)
    BY DEF PeersApart, Apart
  <1> QED BY <1>1, <1>2 DEF Apart

(* accept() moves the queued connection j of the listener s to the slot t. *)
LEMMA AcceptApart ==
    ASSUME NEW f, NEW g, Apart(f), NEW s \in Slots, NEW t \in Slots, s # t,
           NEW j \in Entries, Queued(f[s], j), f[s].bound # None, f[s].backlog # 0,
           \A u \in Slots : u # s /\ u # t => g[u] = f[u],
           g[s].bound = f[s].bound, g[s].backlog = f[s].backlog, g[s].conn = None,
           \A k \in Entries : Queued(g[s], k) =>
              k # j /\ Queued(f[s], k) /\ g[s].pending[k] = f[s].pending[k],
           g[t].bound = f[s].bound, g[t].backlog = 0, g[t].conn # None,
           g[t].conn.status = "established", g[t].conn.peer = f[s].pending[j].peer
    PROVE  Apart(g)
  <1> HIDE DEF Slots, Entries
  <1>1. Shares(g[t]) /\ Shares(g[s]) /\ LiveConn(g[t]) /\ ~LiveConn(g[s])
    BY DEF Shares, LiveConn
  <1>2. \A k \in Entries : ~Queued(g[t], k)
    BY DEF Queued
  <1>3. \A u \in Slots : u # s /\ f[u].bound = f[s].bound => f[u].backlog = 0 /\ Shares(f[u])
    BY DEF Apart, PortsApart
  <1>4. \A u \in Slots : \A k \in Entries : Queued(f[u], k) => f[u].backlog # 0
    BY DEF Queued
  <1>5. PortsApart(g)
    BY <1>1, <1>3 DEF Apart, PortsApart
  <1>6. \A u \in Slots : u # t /\ LiveConn(g[u]) =>
           u # s /\ g[u] = f[u] /\ LiveConn(f[u])
    BY <1>1
  <1>7. \A u \in Slots : \A k \in Entries : Queued(g[u], k) =>
           u # t /\ g[u].bound = f[u].bound /\ Queued(f[u], k)
           /\ g[u].pending[k] = f[u].pending[k]
           /\ (u = s => k # j)
           /\ (g[u].bound = f[s].bound => u = s)
    <2> SUFFICES ASSUME NEW u \in Slots, NEW k \in Entries, Queued(g[u], k)
                 PROVE  /\ u # t /\ g[u].bound = f[u].bound /\ Queued(f[u], k)
                        /\ g[u].pending[k] = f[u].pending[k]
                        /\ (u = s => k # j)
                        /\ (g[u].bound = f[s].bound => u = s)
      OBVIOUS
    <2>1. u # t
      BY <1>2
    <2>2. CASE u = s
      BY <2>1, <2>2
    <2>3. CASE u # s
      BY <2>1, <2>3, <1>3, <1>4
    <2> QED BY <2>2, <2>3
  <1>8. ASSUME NEW u \in Slots, NEW v \in Slots, LiveConn(g[u]), LiveConn(g[v]),
               g[u].bound = g[v].bound, g[u].conn.peer = g[v].conn.peer
        PROVE  u = v
    <2>1. CASE u # t /\ v # t
      BY <1>6, <1>8, <2>1 DEF Apart, PeersApart
    <2>2. ASSUME NEW x \in Slots, x # t, LiveConn(g[x]), g[x].bound = g[t].bound
          PROVE  g[x].conn.peer # g[t].conn.peer
      BY <1>6, <2>2 DEF Apart, PeersApart
    <2> QED BY <1>8, <2>1, <2>2
  <1>9. ASSUME NEW u \in Slots, NEW v \in Slots, NEW k \in Entries,
               LiveConn(g[u]), Queued(g[v], k), g[u].bound = g[v].bound
        PROVE  g[v].pending[k].peer # g[u].conn.peer
    <2>1. CASE u = t
      <3>1. v = s /\ k # j /\ Queued(f[s], k) /\ g[v].pending[k] = f[s].pending[k]
        BY <1>7, <1>9, <2>1
      <3>2. f[s].pending[k].peer # f[s].pending[j].peer
        BY <3>1 DEF Apart, PeersApart
      <3> QED BY <2>1, <3>1, <3>2
    <2>2. CASE u # t
      <3>1. g[u] = f[u] /\ LiveConn(f[u])
        BY <1>6, <1>9, <2>2
      <3>2. Queued(f[v], k) /\ g[v].bound = f[v].bound /\ g[v].pending[k] = f[v].pending[k]
        BY <1>7, <1>9
      <3>3. f[v].pending[k].peer # f[u].conn.peer
        BY <1>9, <3>1, <3>2 DEF Apart, PeersApart
      <3> QED BY <3>1, <3>2, <3>3
    <2> QED BY <2>1, <2>2
  <1>10. ASSUME NEW v \in Slots, NEW k \in Entries, NEW l \in Entries,
                Queued(g[v], k), Queued(g[v], l),
                g[v].pending[k].peer = g[v].pending[l].peer
         PROVE  k = l
    BY <1>7, <1>10 DEF Apart, PeersApart
  <1>11. PeersApart(g)
    BY <1>8, <1>9, <1>10 DEF PeersApart
  <1> QED BY <1>5, <1>11 DEF Apart

(* The listener s queues a peer that has no connection on its port.        *)
LEMMA SynApart ==
    ASSUME NEW f, NEW g, Apart(f), NEW s \in Slots, NEW j \in Entries, NEW peer \in Peers,
           f[s].bound # None, f[s].backlog # 0,
           \A u \in Slots : u # s => g[u] = f[u],
           g[s].bound = f[s].bound, g[s].backlog = f[s].backlog, g[s].conn = f[s].conn,
           \A k \in Entries : Queued(g[s], k) =>
              \/ k = j /\ g[s].pending[k].peer = peer
              \/ k # j /\ Queued(f[s], k) /\ g[s].pending[k] = f[s].pending[k],
           \A u \in Slots : LiveConn(f[u]) /\ f[u].bound = f[s].bound =>
              f[u].conn.peer # peer,
           \A k \in Entries : Queued(f[s], k) => f[s].pending[k].peer # peer
    PROVE  Apart(g)
  <1> HIDE DEF Slots, Entries
  <1>1. \A u \in Slots : /\ g[u].bound = f[u].bound /\ g[u].backlog = f[u].backlog
                         /\ g[u].conn = f[u].conn
    OBVIOUS
  <1>2. \A u \in Slots : Shares(g[u]) = Shares(f[u]) /\ LiveConn(g[u]) = LiveConn(f[u])
    BY <1>1 DEF Shares, LiveConn
  <1>3. PortsApart(g)
    BY <1>1, <1>2 DEF Apart, PortsApart
  <1>4. ASSUME NEW u \in Slots, NEW v \in Slots, LiveConn(g[u]), LiveConn(g[v]),
               g[u].bound = g[v].bound, g[u].conn.peer = g[v].conn.peer
        PROVE  u = v
    BY <1>1, <1>2, <1>4 DEF Apart, PeersApart
  <1>5. ASSUME NEW u \in Slots, NEW v \in Slots, NEW k \in Entries,
               LiveConn(g[u]), Queued(g[v], k), g[u].bound = g[v].bound
        PROVE  g[v].pending[k].peer # g[u].conn.peer
    <2>1. LiveConn(f[u]) /\ f[u].bound = f[v].bound
      BY <1>1, <1>2, <1>5
    <2>2. CASE v = s /\ k = j
      BY <1>1, <1>5, <2>1, <2>2
    <2>3. CASE ~(v = s /\ k = j)
      <3>1. Queued(f[v], k) /\ g[v].pending[k] = f[v].pending[k]
        BY <1>5, <2>3
      <3> QED BY <1>1, <2>1, <3>1 DEF Apart, PeersApart
    <2> QED BY <2>2, <2>3
  <1>6. ASSUME NEW v \in Slots, NEW k \in Entries, NEW l \in Entries,
               Queued(g[v], k), Queued(g[v], l),
               g[v].pending[k].peer = g[v].pending[l].peer
        PROVE  k = l
    <2>1. CASE v # s
      BY <1>6, <2>1 DEF Apart, PeersApart
    <2>2. CASE v = s
      <3>1. CASE k # j /\ l # j
        BY <1>6, <2>2, <3>1 DEF Apart, PeersApart
      <3> QED BY <1>6, <2>2, <3>1
    <2> QED BY <2>1, <2>2
  <1>7. PeersApart(g)
    BY <1>4, <1>5, <1>6 DEF PeersApart
  <1> QED BY <1>3, <1>7 DEF Apart

-----------------------------------------------------------------------------
(* Steps that change one slot.                                             *)

(* The step makes q of the slot s, soundly and for the same holders.       *)
Revises(s, q) ==
    /\ sock' = [sock EXCEPT ![s] = q]
    /\ RecordSound(q) /\ q.used = sock[s].used /\ q.gen = sock[s].gen
    /\ Apart(sock')
    /\ Defers(sock[s], q)
    /\ held' = held

(* The slots a descriptor or a wait may name.                              *)
LEMMA HolderFacts ==
    ASSUME SocketInv
    PROVE  /\ \A p \in Procs : held[p] \in SUBSET Slots
           /\ \A p \in Procs : \A s \in held[p] : s \in Slots /\ sock[s].used
           /\ \A s \in Slots : RecordSound(sock[s]) /\ sock[s] \in SlotType
           /\ \A p \in Procs : wait[p] # None =>
                 /\ wait[p] \in Waiting /\ wait[p].slot \in Slots
                 /\ wait[p].slot \in held[p] /\ Serves(sock[wait[p].slot], wait[p])
  <1> HIDE DEF Slots, SlotType, Waiting
  <1>1. \A p \in Procs : held[p] \in SUBSET Slots
    BY DEF SocketInv, Descriptors
  <1>2. \A p \in Procs : \A s \in held[p] : sock[s].used
    BY DEF SocketInv, Descriptors
  <1>3. \A s \in Slots : RecordSound(sock[s]) /\ sock[s] \in SlotType
    BY DEF SocketInv
  <1>4. \A p \in Procs : wait[p] # None =>
           /\ wait[p] \in Waiting
           /\ wait[p].slot \in held[p] /\ Serves(sock[wait[p].slot], wait[p])
    BY DEF SocketInv, Sleepers
  <1> QED BY <1>1, <1>2, <1>3, <1>4

(* Such a step keeps the invariant if each wait afterwards is an old one   *)
(* that the slot still serves, or a new one on s.                          *)
LEMMA ReviseStep ==
    ASSUME SocketInv, NEW s \in Slots, NEW q, Revises(s, q),
           wait' \in [Procs -> Waiting \union {None}],
           \A p \in Procs : wait'[p] # None =>
              \/ wait'[p] = wait[p] /\ (wait[p].slot = s => Serves(q, wait[p]))
              \/ wait'[p].slot = s /\ s \in held[p] /\ Serves(q, wait'[p])
    PROVE  SocketInv' /\ Deferred
  <1> HIDE DEF Slots, SlotType, Waiting
  <1>1. /\ sock' = [sock EXCEPT ![s] = q] /\ held' = held /\ Apart(sock')
        /\ RecordSound(q) /\ q.used = sock[s].used /\ Defers(sock[s], q)
    BY DEF Revises
  <1>2. sock \in [Slots -> SlotType] /\ q \in SlotType
    BY <1>1 DEF SocketInv, RecordSound
  <1>3. sock'[s] = q /\ \A t \in Slots : t # s => sock'[t] = sock[t]
    BY <1>1, <1>2
  <1>4. sock' \in [Slots -> SlotType]
    BY <1>1, <1>2
  <1>5. \A t \in Slots : RecordSound(sock'[t])
    BY <1>1, <1>3, HolderFacts
  <1>6. Descriptors'
    <2>1. held' \in [Procs -> SUBSET Slots]
      BY <1>1 DEF SocketInv, Descriptors
    <2>2. \A p \in Procs : \A t \in held'[p] : sock'[t].used
      BY <1>1, <1>3, HolderFacts
    <2> QED BY <2>1, <2>2 DEF Descriptors
  <1>7. Sleepers'
    <2>1. ASSUME NEW p \in Procs, wait'[p] # None
          PROVE  wait'[p].slot \in held'[p] /\ Serves(sock'[wait'[p].slot], wait'[p])
      <3>1. CASE wait'[p] = wait[p] /\ (wait[p].slot = s => Serves(q, wait[p]))
        <4>1. /\ wait[p].slot \in Slots /\ wait[p].slot \in held[p]
              /\ Serves(sock[wait[p].slot], wait[p])
          BY <2>1, <3>1, HolderFacts
        <4>2. Serves(sock'[wait[p].slot], wait[p])
          BY <1>3, <3>1, <4>1
        <4> QED BY <1>1, <3>1, <4>1, <4>2
      <3>2. CASE wait'[p].slot = s /\ s \in held[p] /\ Serves(q, wait'[p])
        BY <1>1, <1>3, <3>2
      <3> QED BY <2>1, <3>1, <3>2
    <2> QED BY <2>1 DEF Sleepers
  <1>8. SocketInv'
    BY <1>1, <1>4, <1>5, <1>6, <1>7 DEF SocketInv
  <1>9. Deferred
    <2>1. \A r : Defers(r, r)
      BY DEF Defers
    <2> QED BY <1>1, <1>3, <2>1 DEF Deferred
  <1> QED BY <1>8, <1>9

(* Nobody is woken: every wait on s must still be served.                  *)
LEMMA QuietStep ==
    ASSUME SocketInv, NEW s \in Slots, NEW q, Revises(s, q), wait' = wait,
           \A w \in Waiting : Serves(sock[s], w) => Serves(q, w)
    PROVE  SocketInv' /\ Deferred
  <1> HIDE DEF Slots, Waiting
  <1>1. wait' \in [Procs -> Waiting \union {None}]
    BY DEF SocketInv, Sleepers
  <1>2. \A p \in Procs : wait'[p] # None =>
           wait'[p] = wait[p] /\ (wait[p].slot = s => Serves(q, wait[p]))
    BY HolderFacts
  <1> QED BY <1>1, <1>2, ReviseStep

(* The calls of a set are woken: the waits for the others must be served.  *)
LEMMA WakeStep ==
    ASSUME SocketInv, NEW s \in Slots, NEW q, Revises(s, q), NEW calls, Wake(calls, s),
           \A w \in Waiting : Serves(sock[s], w) /\ w.call \notin calls => Serves(q, w)
    PROVE  SocketInv' /\ Deferred
  <1> HIDE DEF Slots, Waiting
  <1>1. wait' \in [Procs -> Waiting \union {None}]
    BY DEF SocketInv, Sleepers, Wake
  <1>2. ASSUME NEW p \in Procs, wait'[p] # None
        PROVE  wait'[p] = wait[p] /\ (wait[p].slot = s => Serves(q, wait[p]))
    <2>1. /\ wait'[p] = wait[p] /\ wait[p] # None
          /\ ~ (wait[p].call \in calls /\ wait[p].slot = s /\ wait[p].gen = sock[s].gen)
      BY <1>2 DEF Wake
    <2>2. wait[p] \in Waiting /\ Serves(sock[wait[p].slot], wait[p])
      BY <2>1, HolderFacts
    <2>3. wait[p].slot = s => wait[p].gen = sock[s].gen
      BY <2>2 DEF Serves
    <2> QED BY <2>1, <2>2, <2>3
  <1> QED BY <1>1, <1>2, ReviseStep

(* The caller goes to sleep on s.                                          *)
LEMMA BlockStep ==
    ASSUME SocketInv, NEW p \in Procs, NEW s \in held[p], NEW q, Revises(s, q),
           NEW call \in Readers \union Writers, Block(p, s, call),
           \A w \in Waiting : Serves(sock[s], w) => Serves(q, w),
           Serves(q, [call |-> call, slot |-> s, gen |-> sock[s].gen])
    PROVE  SocketInv' /\ Deferred
  <1> DEFINE w == [call |-> call, slot |-> s, gen |-> sock[s].gen]
  <1>1. s \in Slots /\ sock[s].used /\ sock[s] \in SlotType /\ RecordSound(sock[s])
    BY HolderFacts
  <1>2. sock[s].gen \in 1 .. MaxGeneration
    <2>1. sock[s].gen # 0 /\ sock[s].gen \in 0 .. MaxGeneration
      BY <1>1, SlotFields DEF RecordSound
    <2> QED BY <2>1, SocketAssumption
  <1>3. w \in Waiting /\ w.slot = s
    BY <1>1, <1>2 DEF Waiting
  <1>4. wait' = [wait EXCEPT ![p] = w] /\ Serves(q, w)
    BY DEF Block
  <1> HIDE DEF Slots, Waiting, w
  <1>5. wait' \in [Procs -> Waiting \union {None}]
    BY <1>3, <1>4 DEF SocketInv, Sleepers
  <1>6. ASSUME NEW o \in Procs, wait'[o] # None
        PROVE  \/ wait'[o] = wait[o] /\ (wait[o].slot = s => Serves(q, wait[o]))
               \/ wait'[o].slot = s /\ s \in held[o] /\ Serves(q, wait'[o])
    <2>1. CASE o = p
      BY <1>3, <1>4, <2>1 DEF SocketInv, Sleepers
    <2>2. CASE o # p
      <3>1. wait'[o] = wait[o]
        BY <1>4, <2>2 DEF SocketInv, Sleepers
      <3> QED BY <1>6, <3>1, HolderFacts
    <2> QED BY <2>1, <2>2
  <1> QED BY <1>1, <1>5, <1>6, ReviseStep

(* A step that changes no slot.                                            *)
LEMMA SleepStep ==
    ASSUME SocketInv, NEW p \in Procs, NEW s \in held[p],
           NEW call \in Readers \union Writers, Block(p, s, call),
           sock' = sock, held' = held,
           Serves(sock[s], [call |-> call, slot |-> s, gen |-> sock[s].gen])
    PROVE  SocketInv' /\ Deferred
  <1>1. s \in Slots /\ RecordSound(sock[s])
    BY HolderFacts
  <1>2. sock' = [sock EXCEPT ![s] = sock[s]]
    <2> HIDE DEF Slots, SlotType
    <2> QED BY <1>1 DEF SocketInv
  <1>3. Defers(sock[s], sock[s])
    BY DEF Defers
  <1>4. Revises(s, sock[s])
    BY <1>1, <1>2, <1>3 DEF Revises, SocketInv
  <1> QED BY <1>4, BlockStep

(* A slot that narrows, the others unchanged.                              *)
LEMMA NarrowRevises ==
    ASSUME SocketInv, NEW s \in Slots, NEW q, sock' = [sock EXCEPT ![s] = q],
           RecordSound(q), q.used = sock[s].used, q.gen = sock[s].gen,
           Narrows(sock[s], q), Defers(sock[s], q), held' = held
    PROVE  Revises(s, q)
  <1> HIDE DEF Slots, SlotType
  <1>1. \A t \in Slots : Narrows(sock[t], sock'[t])
    <2>1. \A t \in Slots : t # s => sock'[t] = sock[t]
      BY DEF SocketInv
    <2>2. sock'[s] = q
      BY DEF SocketInv
    <2> QED BY <2>1, <2>2, NarrowsSelf
  <1>2. Apart(sock')
    BY <1>1, NarrowsApart DEF SocketInv
  <1> QED BY <1>2 DEF Revises

(* A slot with nothing queued that takes a port of its own.                *)
LEMMA SoloRevises ==
    ASSUME SocketInv, NEW s \in Slots, NEW q, sock' = [sock EXCEPT ![s] = q],
           RecordSound(q), q.used = sock[s].used, q.gen = sock[s].gen,
           \A j \in Entries : q.pending[j] = None,
           \A t \in Slots : t # s => sock[t].bound # q.bound,
           Defers(sock[s], q), held' = held
    PROVE  Revises(s, q)
  <1> HIDE DEF Slots, SlotType, Entries
  <1>1. sock'[s] = q /\ \A t \in Slots : t # s => sock'[t] = sock[t]
    BY DEF SocketInv
  <1>2. \A j \in Entries : ~Queued(q, j)
    BY DEF Queued
  <1>3. Apart(sock')
    BY <1>1, <1>2, SoloApart DEF SocketInv
  <1> QED BY <1>3 DEF Revises

(* A slot whose generation, backlog and running handshake stay serves the  *)
(* same waits.                                                             *)
LEMMA ServesKept ==
    ASSUME NEW r, NEW q, q.used = r.used, q.gen = r.gen, q.backlog = r.backlog,
           q.pending = r.pending, NEW w, Serves(r, w),
           w.call = "connect" /\ r.conn # None /\ r.conn.status = "connecting" =>
              q.conn # None /\ q.conn.status = "connecting"
    PROVE  Serves(q, w)
  <1>1. EstablishedEntries(q) = EstablishedEntries(r)
    BY DEF EstablishedEntries
  <1> QED BY <1>1 DEF Serves

(* A socket without connection and listener owns its port alone, and has   *)
(* nothing queued.                                                         *)
LEMMA IdleFacts ==
    ASSUME SocketInv, NEW s \in Slots, ~HasConn(s), ~IsListener(s)
    PROVE  /\ sock[s].conn = None /\ sock[s].backlog = 0
           /\ \A j \in Entries : sock[s].pending[j] = None
           /\ sock[s].bound # None =>
                 \A t \in Slots : t # s => sock[t].bound # sock[s].bound
           /\ \A port \in Ports : ~TcpPortInUse(port) =>
                 \A t \in Slots : sock[t].bound # port
  <1>1. sock[s].conn = None /\ sock[s].backlog = 0
    BY DEF HasConn, IsListener
  <1>2. \A j \in Entries : sock[s].pending[j] = None
    BY <1>1, HolderFacts DEF RecordSound
  <1>3. ASSUME sock[s].bound # None, NEW t \in Slots, t # s
        PROVE  sock[t].bound # sock[s].bound
    BY <1>1, <1>3 DEF SocketInv, Apart, PortsApart, Shares
  <1>4. ASSUME NEW port \in Ports, ~TcpPortInUse(port), NEW t \in Slots
        PROVE  sock[t].bound # port
    <2>1. RecordSound(sock[t]) /\ port # None
      BY HolderFacts, NoneAssumption
    <2> QED BY <1>4, <2>1 DEF TcpPortInUse, RecordSound
  <1> QED BY <1>1, <1>2, <1>3, <1>4

-----------------------------------------------------------------------------
(* System calls.                                                           *)

(* bind().                                                                 *)
LEMMA BindStep ==
    ASSUME SocketInv, NEW p \in Procs, NEW s \in held[p], NEW port \in Ports,
           SyscallBind(p, s, port)
    PROVE  SocketInv' /\ Deferred
  <1> DEFINE r == sock[s]
             q == AtPort(r, port)
  <1>1. s \in Slots /\ r.used /\ r \in SlotType /\ RecordSound(r)
    BY HolderFacts
  <1>2. /\ r.conn = None /\ r.backlog = 0 /\ \A j \in Entries : r.pending[j] = None
        /\ \A t \in Slots : sock[t].bound # port
    BY <1>1, IdleFacts DEF SyscallBind
  <1>3. /\ q \in SlotType /\ q.used = r.used /\ q.gen = r.gen /\ q.bound = port
        /\ q.backlog = r.backlog /\ q.pending = r.pending /\ q.conn = r.conn
    BY <1>1, AtPortFields
  <1>4. sock' = [sock EXCEPT ![s] = q] /\ held' = held /\ wait' = wait
    BY DEF SyscallBind, AtPort
  <1> HIDE DEF q
  <1>5. RecordSound(q)
    BY <1>1, <1>2, <1>3 DEF RecordSound
  <1>6. Defers(r, q)
    BY <1>2 DEF Defers
  <1>7. Revises(s, q)
    BY <1>1, <1>2, <1>3, <1>4, <1>5, <1>6, SoloRevises
  <1>8. \A w \in Waiting : Serves(r, w) => Serves(q, w)
    BY <1>3, ServesKept
  <1> QED BY <1>1, <1>4, <1>7, <1>8, QuietStep

(* listen().                                                               *)
LEMMA ListenStep ==
    ASSUME SocketInv, NEW p \in Procs, NEW s \in held[p], NEW backlog \in Entries,
           SyscallListen(p, s, backlog)
    PROVE  SocketInv' /\ Deferred
  <1> DEFINE r == sock[s]
             q == Listening(r, backlog)
  <1>1. s \in Slots /\ r.used /\ r \in SlotType /\ RecordSound(r)
    BY HolderFacts
  <1>2. /\ r.conn = None /\ r.backlog = 0 /\ \A j \in Entries : r.pending[j] = None
        /\ r.bound # None /\ \A t \in Slots : t # s => sock[t].bound # r.bound
    BY <1>1, IdleFacts DEF SyscallListen
  <1>3. /\ q \in SlotType /\ q.used = r.used /\ q.gen = r.gen /\ q.bound = r.bound
        /\ q.backlog # 0 /\ q.pending = r.pending /\ q.conn = r.conn
    BY <1>1, ListeningFields
  <1>4. sock' = [sock EXCEPT ![s] = q] /\ held' = held /\ wait' = wait
    BY DEF SyscallListen, Listening
  <1> HIDE DEF q
  <1>5. RecordSound(q)
    BY <1>1, <1>2, <1>3 DEF RecordSound
  <1>6. Defers(r, q)
    BY <1>2 DEF Defers
  <1>7. Revises(s, q)
    BY <1>1, <1>2, <1>3, <1>4, <1>5, <1>6, SoloRevises
  <1>8. \A w \in Waiting : Serves(r, w) => Serves(q, w)
    BY <1>2, <1>3 DEF Serves
  <1> QED BY <1>1, <1>4, <1>7, <1>8, QuietStep

(* A call that blocks has checked what it waits for.                       *)
LEMMA BlockingSteps ==
    ASSUME SocketInv, NEW p \in Procs, NEW s \in held[p],
           \/ SyscallAcceptBlocks(p, s) \/ SyscallConnectBlocks(p, s)
           \/ SyscallSendBlocks(p, s)
    PROVE  SocketInv' /\ Deferred
  <1>1. s \in Slots /\ sock[s].used
    BY HolderFacts
  <1>2. CASE SyscallAcceptBlocks(p, s)
    <2>1. Serves(sock[s], [call |-> "accept", slot |-> s, gen |-> sock[s].gen])
      BY <1>1, <1>2 DEF SyscallAcceptBlocks, IsListener, Serves
    <2>2. /\ Block(p, s, "accept") /\ sock' = sock /\ held' = held
          /\ "accept" \in Readers \union Writers
      BY <1>2 DEF SyscallAcceptBlocks, Readers
    <2> QED BY <2>1, <2>2, SleepStep
  <1>3. CASE SyscallConnectBlocks(p, s)
    <2>1. Serves(sock[s], [call |-> "connect", slot |-> s, gen |-> sock[s].gen])
      BY <1>1, <1>3 DEF SyscallConnectBlocks, Status, HasConn, Serves
    <2>2. /\ Block(p, s, "connect") /\ sock' = sock /\ held' = held
          /\ "connect" \in Readers \union Writers
      BY <1>3 DEF SyscallConnectBlocks, Writers
    <2> QED BY <2>1, <2>2, SleepStep
  <1>4. CASE SyscallSendBlocks(p, s)
    <2>1. Serves(sock[s], [call |-> "send", slot |-> s, gen |-> sock[s].gen])
      BY <1>1 DEF Serves
    <2>2. /\ Block(p, s, "send") /\ sock' = sock /\ held' = held
          /\ "send" \in Readers \union Writers
      BY <1>4 DEF SyscallSendBlocks, Writers
    <2> QED BY <2>1, <2>2, SleepStep
  <1> QED BY <1>2, <1>3, <1>4

(* A connection with another control block, status or write half.          *)
Steered(conn, c) == [conn EXCEPT !.control = c]
Halved(conn, c) == [conn EXCEPT !.control = c, !.writeShutdown = TRUE]
Statuses == {"connecting", "established", "refused", "timed_out", "io_failed"}

(* A connection after each kind of update, field by field.                 *)
LEMMA ConnFields ==
    ASSUME NEW conn \in Connection, NEW c \in Blocks, NEW st \in Statuses
    PROVE  /\ LET d == Steered(conn, c)
              IN /\ d \in Connection /\ d.peer = conn.peer /\ d.control = c
                 /\ d.status = conn.status /\ d.writeShutdown = conn.writeShutdown
           /\ LET d == Halved(conn, c)
              IN /\ d \in Connection /\ d.peer = conn.peer /\ d.control = c
                 /\ d.status = conn.status /\ d.writeShutdown
           /\ LET d == Moved(conn, c, st)
              IN /\ d \in Connection /\ d.peer = conn.peer /\ d.control = c
                 /\ d.status = st /\ d.writeShutdown = conn.writeShutdown
  <1>1. conn \in [peer : Peers, control : Blocks, status : Statuses,
                  writeShutdown : BOOLEAN]
    BY DEF Connection, Blocks, Statuses
  <1>2. Connection = [peer : Peers, control : Blocks, status : Statuses,
                      writeShutdown : BOOLEAN]
    BY DEF Connection, Blocks, Statuses
  <1> HIDE DEF Connection, Blocks, Statuses
  <1> QED BY <1>1, <1>2 DEF Steered, Halved, Moved

(* A new connection.                                                       *)
LEMMA NewConnFields ==
    ASSUME NEW peer \in Peers, NEW c \in Blocks, NEW st \in Statuses
    PROVE  LET d == NewConn(peer, c, st)
           IN d \in Connection /\ d.peer = peer /\ d.control = c /\ d.status = st
  BY DEF NewConn, Connection, Blocks, Statuses

(* connect() sends the first SYN and blocks, returns or fails.             *)
LEMMA ConnectStep ==
    ASSUME SocketInv, NEW p \in Procs, NEW s \in held[p], NEW peer \in Peers,
           SyscallConnect(p, s, peer)
    PROVE  SocketInv' /\ Deferred
  <1> DEFINE r == sock[s]
  <1>1. s \in Slots /\ r.used /\ r \in SlotType /\ RecordSound(r)
    BY HolderFacts
  <1>2. /\ r.conn = None /\ r.backlog = 0 /\ \A j \in Entries : r.pending[j] = None
        /\ r.bound # None => \A t \in Slots : t # s => sock[t].bound # r.bound
        /\ \A port \in Ports : ~TcpPortInUse(port) => \A t \in Slots : sock[t].bound # port
    BY <1>1, IdleFacts DEF SyscallConnect
  <1>3. PICK port \in Ports, iss \in InitialSequences, st \in {"connecting", "io_failed"} :
          /\ IF r.bound = None THEN ~TcpPortInUse(port) ELSE port = r.bound
          /\ sock' = [sock EXCEPT ![s] =
                        Opened(@, port, NewConn(peer, BeginActiveOpenAt(iss).control, st))]
          /\ \/ st = "connecting" /\ Block(p, s, "connect")
             \/ wait' = wait
    BY DEF SyscallConnect, Opened
  <1> DEFINE c == BeginActiveOpenAt(iss).control
             d == NewConn(peer, c, st)
             q == Opened(r, port, d)
  <1>4. c \in Blocks /\ c.state = "syn_sent" /\ c.timer
    BY OpenFacts
  <1>5. held' = held
    BY DEF SyscallConnect
  <1>6. sock' = [sock EXCEPT ![s] = q]
    BY <1>3
  <1> HIDE DEF c
  <1>7. d \in Connection /\ d.control = c /\ d.status = st
    BY <1>4, NewConnFields DEF Statuses
  <1> HIDE DEF d
  <1>8. /\ q \in SlotType /\ q.used = r.used /\ q.gen = r.gen /\ q.bound = port
        /\ q.backlog = r.backlog /\ q.pending = r.pending /\ q.conn = d /\ d # None
    BY <1>1, <1>7, OpenedFields
  <1> HIDE DEF q
  <1>9. RecordSound(q)
    <2>1. port # None
      BY NoneAssumption
    <2> QED BY <1>1, <1>2, <1>4, <1>7, <1>8, <2>1 DEF RecordSound
  <1>10. \A t \in Slots : t # s => sock[t].bound # q.bound
    BY <1>2, <1>3, <1>8
  <1>11. Defers(r, q)
    BY <1>2 DEF Defers
  <1>12. Revises(s, q)
    BY <1>1, <1>2, <1>5, <1>6, <1>8, <1>9, <1>10, <1>11, SoloRevises
  <1>13. \A w \in Waiting : Serves(r, w) => Serves(q, w)
    BY <1>2, <1>8, ServesKept
  <1>14. CASE wait' = wait
    BY <1>1, <1>12, <1>13, <1>14, QuietStep
  <1>15. CASE st = "connecting" /\ Block(p, s, "connect")
    <2>1. Serves(q, [call |-> "connect", slot |-> s, gen |-> r.gen])
      BY <1>1, <1>7, <1>8, <1>15 DEF Serves
    <2>2. "connect" \in Readers \union Writers
      BY DEF Writers
    <2> QED BY <1>12, <1>13, <1>15, <2>1, <2>2, BlockStep
  <1> QED BY <1>3, <1>14, <1>15

(* The connection of a slot becomes d, for the same peer.                  *)
LEMMA ConnRevises ==
    ASSUME SocketInv, NEW s \in Slots, sock[s].conn # None, NEW d \in Connection,
           sock' = [sock EXCEPT ![s] = WithConn(@, d)], held' = held,
           d.peer = sock[s].conn.peer,
           d.status = "connecting" =>
              /\ sock[s].conn.status = "connecting"
              /\ d.control.state = "syn_sent" /\ d.control.timer,
           d.status = "established" =>
              /\ sock[s].conn.status \in {"connecting", "established"}
              /\ d.control.state \in {"established", "fin_wait_1"},
           sock[s].conn.status \in {"established", "refused"} =>
              d.status \in {"established", "refused"},
           sock[s].conn.status = "established" =>
              /\ d.control.rcv = sock[s].conn.control.rcv
              /\ d.control.state # sock[s].conn.control.state =>
                    \/ d.control.state = "reset"
                    \/ d.writeShutdown /\ d.control.state = "fin_wait_1"
    PROVE  /\ Revises(s, WithConn(sock[s], d))
           /\ \A w \in Waiting :
                 /\ Serves(sock[s], w)
                 /\ \/ w.call # "connect" \/ d.status = "connecting"
                    \/ sock[s].conn.status # "connecting"
                 => Serves(WithConn(sock[s], d), w)
  <1> DEFINE r == sock[s]
             q == WithConn(r, d)
  <1>1. r \in SlotType /\ RecordSound(r)
    BY HolderFacts
  <1>2. /\ q \in SlotType /\ q.used = r.used /\ q.gen = r.gen /\ q.bound = r.bound
        /\ q.backlog = r.backlog /\ q.pending = r.pending /\ q.conn = d /\ d # None
    BY <1>1, WithConnFields
  <1>3. sock' = [sock EXCEPT ![s] = q]
    OBVIOUS
  <1> HIDE DEF q
  <1>4. RecordSound(q)
    BY <1>1, <1>2 DEF RecordSound
  <1>5. Narrows(r, q)
    <2>1. Shares(r) => Shares(q)
      BY <1>2 DEF Shares
    <2>2. LiveConn(q) => LiveConn(r) /\ q.conn.peer = r.conn.peer
      BY <1>2 DEF LiveConn
    <2>3. \A j \in Entries : Queued(q, j) =>
             Queued(r, j) /\ q.pending[j].peer = r.pending[j].peer
      BY <1>2 DEF Queued
    <2> QED BY <1>2, <2>1, <2>2, <2>3 DEF Narrows
  <1>6. Defers(r, q)
    BY <1>2 DEF Defers
  <1>7. Revises(s, q)
    BY <1>2, <1>3, <1>4, <1>5, <1>6, NarrowRevises
  <1>8. \A w \in Waiting :
           /\ Serves(r, w)
           /\ w.call # "connect" \/ d.status = "connecting" \/ r.conn.status # "connecting"
           => Serves(q, w)
    BY <1>2, ServesKept
  <1> QED BY <1>7, <1>8 DEF q

(* The connection of a sound slot.                                         *)
LEMMA ConnFacts ==
    ASSUME SocketInv, NEW s \in Slots, sock[s].conn # None
    PROVE  /\ sock[s].conn \in Connection /\ sock[s].conn.control \in Blocks
           /\ sock[s].conn.status \in Statuses
           /\ sock[s].conn.status = "connecting" =>
                 sock[s].conn.control.state = "syn_sent" /\ sock[s].conn.control.timer
           /\ sock[s].conn.status = "established" =>
                 sock[s].conn.control.state \in {"established", "fin_wait_1"}
  <1>1. sock[s] \in SlotType /\ RecordSound(sock[s])
    BY HolderFacts
  <1>2. sock[s].conn \in Connection /\ sock[s].conn.control \in Blocks
    BY <1>1, SlotFields
  <1>3. sock[s].conn.status \in Statuses
    BY <1>2 DEF Connection, Statuses
  <1> QED BY <1>1, <1>2, <1>3 DEF RecordSound

(* send() moves send_next only.                                            *)
LEMMA SendStep ==
    ASSUME SocketInv, NEW p \in Procs, NEW s \in held[p], SyscallSend(p, s)
    PROVE  SocketInv' /\ Deferred
  <1> DEFINE r == sock[s]
  <1>1. s \in Slots /\ r.conn # None /\ r.conn.status = "established"
    BY HolderFacts DEF SyscallSend, Status, HasConn
  <1>2. /\ r.conn \in Connection /\ r.conn.control \in Blocks /\ r.conn.status \in Statuses
        /\ r.conn.control.state \in {"established", "fin_wait_1"}
    BY <1>1, ConnFacts
  <1>3. PICK length \in 1 .. r.conn.control.wnd :
          sock' = [sock EXCEPT ![s].conn.control = BeginApplicationSend(@, length).control]
    BY DEF SyscallSend
  <1> DEFINE c == BeginApplicationSend(r.conn.control, length).control
             d == Steered(r.conn, c)
  <1>4. length \in Nat
    <2>1. r.conn.control.wnd \in Nat
      BY <1>2, BlockFields, SocketAssumption DEF Windows
    <2> QED BY <2>1
  <1>5. c \in Blocks /\ c.state = r.conn.control.state /\ c.rcv = r.conn.control.rcv
    BY <1>2, <1>4, SendFacts
  <1>6. sock' = [sock EXCEPT ![s] = WithConn(@, d)] /\ held' = held /\ wait' = wait
    BY <1>3 DEF SyscallSend, WithConn, Steered
  <1> HIDE DEF c
  <1>7. /\ d \in Connection /\ d.peer = r.conn.peer /\ d.control = c
        /\ d.status = r.conn.status
    BY <1>2, <1>5, ConnFields
  <1> HIDE DEF d
  <1>8. /\ Revises(s, WithConn(r, d))
        /\ \A w \in Waiting : Serves(r, w) => Serves(WithConn(r, d), w)
    BY <1>1, <1>2, <1>5, <1>6, <1>7, ConnRevises
  <1> QED BY <1>1, <1>6, <1>8, QuietStep

(* shutdown() of the write half.                                           *)
LEMMA ShutdownStep ==
    ASSUME SocketInv, NEW p \in Procs, NEW s \in held[p], SyscallShutdown(p, s)
    PROVE  SocketInv' /\ Deferred
  <1> DEFINE r == sock[s]
             c == BeginClose(r.conn.control).control
             d == Halved(r.conn, c)
  <1>1. s \in Slots /\ r.conn # None /\ r.conn.status = "established"
    BY HolderFacts DEF SyscallShutdown, Status, HasConn
  <1>2. /\ r.conn \in Connection /\ r.conn.control \in Blocks /\ r.conn.status \in Statuses
        /\ r.conn.control.state \in {"established", "fin_wait_1"}
    BY <1>1, ConnFacts
  <1>3. c \in Blocks /\ c.state = "fin_wait_1" /\ c.rcv = r.conn.control.rcv
    BY <1>2, CloseFacts DEF SyscallShutdown
  <1>4. sock' = [sock EXCEPT ![s] = WithConn(@, d)] /\ held' = held /\ wait' = wait
    BY DEF SyscallShutdown, WithConn, Halved
  <1> HIDE DEF c
  <1>5. /\ d \in Connection /\ d.peer = r.conn.peer /\ d.control = c
        /\ d.status = r.conn.status /\ d.writeShutdown
    BY <1>2, <1>3, ConnFields
  <1> HIDE DEF d
  <1>6. /\ Revises(s, WithConn(r, d))
        /\ \A w \in Waiting : Serves(r, w) => Serves(WithConn(r, d), w)
    BY <1>1, <1>2, <1>3, <1>4, <1>5, ConnRevises
  <1> QED BY <1>1, <1>4, <1>6, QuietStep

-----------------------------------------------------------------------------
(* Calls that give and take slots.                                         *)

(* A step that may change the table and the holders, and wakes or ends     *)
(* some waits: the other waits stay served.                                *)
LEMMA TableStep ==
    ASSUME SocketInv, sock' \in [Slots -> SlotType],
           \A t \in Slots : RecordSound(sock'[t]) /\ Defers(sock[t], sock'[t]),
           Apart(sock'),
           held' \in [Procs -> SUBSET Slots],
           \A p \in Procs : \A t \in held'[p] : sock'[t].used,
           wait' \in [Procs -> Waiting \union {None}],
           \A p \in Procs : wait'[p] # None =>
              /\ wait'[p] = wait[p] /\ wait[p].slot \in held'[p]
              /\ Serves(sock[wait[p].slot], wait[p]) =>
                    Serves(sock'[wait[p].slot], wait[p])
    PROVE  SocketInv' /\ Deferred
  <1> HIDE DEF Slots, SlotType, Waiting
  <1>1. Sleepers'
    BY HolderFacts DEF Sleepers
  <1>2. Descriptors'
    BY DEF Descriptors
  <1>3. SocketInv'
    BY <1>1, <1>2 DEF SocketInv
  <1>4. Deferred
    BY DEF Deferred
  <1> QED BY <1>3, <1>4

(* The slot that an installation takes, and its next generation.           *)
LEMMA FreshFacts ==
    ASSUME SocketInv, FreeSlots # {}
    PROVE  LET t == First(FreeSlots)
               gen == NextGeneration(sock[t].gen)
           IN /\ t \in Slots /\ ~sock[t].used /\ sock[t].conn = None
              /\ sock[t].bound = None /\ gen \in 0 .. MaxGeneration /\ gen # 0
              /\ \A w \in Waiting : ~Serves(sock[t], w)
              /\ \A q : Defers(sock[t], q)
  <1> DEFINE t == First(FreeSlots)
             gen == NextGeneration(sock[t].gen)
  <1>1. t \in Slots /\ ~sock[t].used
    BY FirstFacts DEF FreeSlots
  <1>2. RecordSound(sock[t]) /\ sock[t].gen \in 0 .. MaxGeneration
    BY <1>1, HolderFacts, SlotFields
  <1>3. gen \in 0 .. MaxGeneration /\ gen # 0
    BY <1>2, SocketAssumption DEF NextGeneration
  <1>4. \A w \in Waiting : ~Serves(sock[t], w)
    BY <1>1 DEF Serves
  <1>5. sock[t].conn = None /\ sock[t].bound = None
    BY <1>1, <1>2 DEF RecordSound
  <1>6. \A q : Defers(sock[t], q)
    BY <1>5 DEF Defers
  <1> QED BY <1>1, <1>3, <1>4, <1>5, <1>6

(* No descriptor was to be had: the slot is given back.                    *)
LEMMA InstallFails ==
    ASSUME SocketInv, FreeSlots # {}, wait' = wait, held' = held,
           sock' = [sock EXCEPT ![First(FreeSlots)] =
                      FreeSlot(NextGeneration(sock[First(FreeSlots)].gen))]
    PROVE  SocketInv' /\ Deferred
  <1> DEFINE t == First(FreeSlots)
             gen == NextGeneration(sock[t].gen)
             q == FreeSlot(gen)
  <1>1. /\ t \in Slots /\ ~sock[t].used /\ gen \in 0 .. MaxGeneration
        /\ \A w \in Waiting : ~Serves(sock[t], w)
        /\ \A x : Defers(sock[t], x)
    BY FreshFacts
  <1>2. /\ q \in SlotType /\ q.bound = None /\ q.backlog = 0 /\ q.conn = None
        /\ RecordSound(q)
    BY <1>1, FreeSlotFields, FreeSlotSound
  <1>3. sock' = [sock EXCEPT ![t] = q]
    OBVIOUS
  <1> HIDE DEF t, gen, q, Slots, SlotType, Waiting
  <1>4. sock \in [Slots -> SlotType]
    BY DEF SocketInv
  <1>5. sock'[t] = q /\ \A u \in Slots : u # t => sock'[u] = sock[u]
    BY <1>1, <1>3, <1>4
  <1>6. Apart(sock')
    <2>1. \A u \in Slots : Narrows(sock[u], sock'[u])
      BY <1>2, <1>5, NarrowsSelf DEF Narrows
    <2> QED BY <2>1, NarrowsApart DEF SocketInv
  <1>7. \A u \in Slots : RecordSound(sock'[u]) /\ Defers(sock[u], sock'[u])
    <2>1. \A r : Defers(r, r)
      BY DEF Defers
    <2> QED BY <1>1, <1>2, <1>5, <2>1, HolderFacts
  <1>8. \A p \in Procs : \A u \in held'[p] : sock'[u].used
    BY <1>1, <1>5, HolderFacts
  <1>9. \A p \in Procs : wait'[p] # None =>
           /\ wait'[p] = wait[p] /\ wait[p].slot \in held'[p]
           /\ Serves(sock[wait[p].slot], wait[p]) =>
                 Serves(sock'[wait[p].slot], wait[p])
    BY <1>1, <1>5, HolderFacts
  <1>10. /\ sock' \in [Slots -> SlotType] /\ held' \in [Procs -> SUBSET Slots]
         /\ wait' \in [Procs -> Waiting \union {None}]
    BY <1>2, <1>3, <1>4 DEF SocketInv, Descriptors, Sleepers
  <1> QED BY <1>6, <1>7, <1>8, <1>9, <1>10, TableStep

(* socket().                                                               *)
LEMMA SocketStep ==
    ASSUME SocketInv, NEW p \in Procs, SyscallSocket(p)
    PROVE  SocketInv' /\ Deferred
  <1> DEFINE t == First(FreeSlots)
             gen == NextGeneration(sock[t].gen)
             q == Installed(FreeSlot(0), gen)
  <1>1. FreeSlots # {} /\ wait' = wait
    BY DEF SyscallSocket
  <1>2. \/ sock' = [sock EXCEPT ![t] = q] /\ held' = [held EXCEPT ![p] = @ \union {t}]
        \/ sock' = [sock EXCEPT ![t] = FreeSlot(gen)] /\ held' = held
    BY DEF SyscallSocket, Install, Installed
  <1>3. CASE sock' = [sock EXCEPT ![t] = FreeSlot(gen)] /\ held' = held
    BY <1>1, <1>3, InstallFails
  <1>4. CASE sock' = [sock EXCEPT ![t] = q] /\ held' = [held EXCEPT ![p] = @ \union {t}]
    <2>1. /\ t \in Slots /\ ~sock[t].used /\ gen \in 0 .. MaxGeneration /\ gen # 0
          /\ \A w \in Waiting : ~Serves(sock[t], w)
          /\ \A x : Defers(sock[t], x)
      BY <1>1, FreshFacts
    <2>2. RecordSound(q)
      BY <2>1, FreeSlotSound
    <2>3. q \in SlotType /\ q.used /\ q.bound = None /\ q.backlog = 0 /\ q.conn = None
      <3>1. 0 \in 0 .. MaxGeneration
        BY SocketAssumption
      <3> QED BY <2>1, <3>1, FreeSlotFields, InstalledFields
    <2> HIDE DEF t, gen, q, Slots, SlotType, Waiting
    <2>4. sock \in [Slots -> SlotType] /\ held \in [Procs -> SUBSET Slots]
      BY DEF SocketInv, Descriptors
    <2>5. sock'[t] = q /\ \A u \in Slots : u # t => sock'[u] = sock[u]
      BY <1>4, <2>1, <2>4
    <2>6. \A o \in Procs : held[o] \subseteq held'[o] /\ held'[o] \subseteq held[o] \union {t}
      BY <1>4, <2>4
    <2>7. Apart(sock')
      <3>1. \A u \in Slots : Narrows(sock[u], sock'[u])
        BY <2>3, <2>5, NarrowsSelf DEF Narrows
      <3> QED BY <3>1, NarrowsApart DEF SocketInv
    <2>8. \A u \in Slots : RecordSound(sock'[u]) /\ Defers(sock[u], sock'[u])
      <3>1. \A r : Defers(r, r)
        BY DEF Defers
      <3> QED BY <2>1, <2>2, <2>5, <3>1, HolderFacts
    <2>9. \A o \in Procs : \A u \in held'[o] : sock'[u].used
      BY <2>3, <2>5, <2>6, HolderFacts
    <2>10. \A o \in Procs : wait'[o] # None =>
             /\ wait'[o] = wait[o] /\ wait[o].slot \in held'[o]
             /\ Serves(sock[wait[o].slot], wait[o]) =>
                   Serves(sock'[wait[o].slot], wait[o])
      BY <1>1, <2>1, <2>5, <2>6, HolderFacts
    <2>11. /\ sock' \in [Slots -> SlotType] /\ held' \in [Procs -> SUBSET Slots]
           /\ wait' \in [Procs -> Waiting \union {None}]
      <3>1. sock' \in [Slots -> SlotType]
        BY <1>4, <2>3, <2>4
      <3>2. held' \in [Procs -> SUBSET Slots]
        BY <1>4, <2>1, <2>4
      <3> QED BY <1>1, <3>1, <3>2 DEF SocketInv, Sleepers
    <2> QED BY <2>7, <2>8, <2>9, <2>10, <2>11, TableStep
  <1> QED BY <1>2, <1>3, <1>4

(* The slot of an accepted connection.                                     *)
LEMMA AcceptedSlot ==
    ASSUME NEW b \in Ports, NEW d \in Connection, NEW gen \in 0 .. MaxGeneration, gen # 0,
           d.status = "established", d.control.state = "established"
    PROVE  LET q == Installed(Opened(FreeSlot(0), b, d), gen)
           IN /\ q \in SlotType /\ RecordSound(q) /\ q.used /\ q.bound = b
              /\ q.backlog = 0 /\ q.conn = d /\ d # None
  <1> DEFINE f == FreeSlot(0)
             e == Opened(f, b, d)
             q == Installed(e, gen)
  <1>1. 0 \in 0 .. MaxGeneration /\ b # None
    BY SocketAssumption, NoneAssumption
  <1>2. f \in SlotType /\ f.backlog = 0 /\ \A j \in Entries : f.pending[j] = None
    BY <1>1, FreeSlotFields
  <1> HIDE DEF f
  <1>3. /\ e \in SlotType /\ e.bound = b /\ e.backlog = f.backlog
        /\ e.pending = f.pending /\ e.conn = d /\ d # None
    BY <1>2, OpenedFields
  <1> HIDE DEF e
  <1>4. /\ q \in SlotType /\ q.used /\ q.gen = gen /\ q.bound = b
        /\ q.backlog = 0 /\ q.pending = f.pending /\ q.conn = d
    BY <1>2, <1>3, InstalledFields
  <1> HIDE DEF q
  <1>5. RecordSound(q)
    BY <1>1, <1>2, <1>3, <1>4 DEF RecordSound
  <1>6. /\ q \in SlotType /\ RecordSound(q) /\ q.used /\ q.bound = b
        /\ q.backlog = 0 /\ q.conn = d /\ d # None
    BY <1>3, <1>4, <1>5
  <1> QED BY <1>6 DEF q, e, f

(* accept() moves a queued connection to a slot of its own.                *)
LEMMA AcceptStep ==
    ASSUME SocketInv, NEW p \in Procs, NEW s \in held[p], SyscallAccept(p, s)
    PROVE  SocketInv' /\ Deferred
  <1> DEFINE r == sock[s]
             j == First(EstablishedEntries(r))
             x == r.pending[j]
             d == NewConn(x.peer, x.control, "established")
             t == First(FreeSlots)
             gen == NextGeneration(sock[t].gen)
             h == WithEntry(r, j, None)
             q == Installed(Opened(FreeSlot(0), r.bound, d), gen)
  <1>1. FreeSlots # {} /\ wait' = wait /\ EstablishedEntries(r) # {}
    BY DEF SyscallAccept
  <1>2. \/ /\ sock' = [[sock EXCEPT ![s] = h] EXCEPT ![t] = q]
           /\ held' = [held EXCEPT ![p] = @ \union {t}]
        \/ sock' = [sock EXCEPT ![t] = FreeSlot(gen)] /\ held' = held
    BY DEF SyscallAccept, Install, Installed, Opened, WithEntry
  <1>3. CASE sock' = [sock EXCEPT ![t] = FreeSlot(gen)] /\ held' = held
    BY <1>1, <1>3, InstallFails
  <1>4. CASE /\ sock' = [[sock EXCEPT ![s] = h] EXCEPT ![t] = q]
             /\ held' = [held EXCEPT ![p] = @ \union {t}]
    <2>1. /\ t \in Slots /\ ~sock[t].used /\ gen \in 0 .. MaxGeneration /\ gen # 0
          /\ \A w \in Waiting : ~Serves(sock[t], w)
          /\ \A y : Defers(sock[t], y)
      BY <1>1, FreshFacts
    <2>2. s \in Slots /\ r.used /\ r \in SlotType /\ RecordSound(r)
      BY HolderFacts
    <2>3. /\ j \in 1 .. r.backlog /\ x # None /\ x.control.state = "established"
          /\ j \in Entries /\ x.peer \in Peers /\ x.control \in Blocks
      <3>1. j \in EstablishedEntries(r)
        BY <1>1, <2>2, FirstFacts
      <3>2. j \in 1 .. r.backlog /\ x # None /\ x.control.state = "established"
        BY <3>1 DEF EstablishedEntries
      <3> HIDE DEF j
      <3> QED BY <2>2, <3>2, SlotFields
    <2>4. r.backlog # 0 /\ r.conn = None /\ r.bound # None /\ r.bound \in Ports
      BY <2>2, <2>3, SlotFields DEF RecordSound
    <2> HIDE DEF t, gen, j
    <2>5. /\ d \in Connection /\ d.peer = x.peer /\ d.control = x.control
          /\ d.status = "established"
      BY <2>3, NewConnFields DEF Statuses
    <2> HIDE DEF d
    <2>6. /\ q \in SlotType /\ RecordSound(q) /\ q.used /\ q.bound = r.bound
          /\ q.backlog = 0 /\ q.conn = d /\ d # None
      BY <2>1, <2>3, <2>4, <2>5, AcceptedSlot
    <2> HIDE DEF q
    <2>7. /\ h \in SlotType /\ h.used = r.used /\ h.gen = r.gen /\ h.bound = r.bound
          /\ h.backlog = r.backlog /\ h.conn = r.conn /\ h.pending[j] = None
          /\ \A k \in Entries : k # j => h.pending[k] = r.pending[k]
      BY <2>2, <2>3, ClearedFields
    <2> HIDE DEF h
    <2>8. RecordSound(h)
      BY <2>2, <2>4, <2>7 DEF RecordSound
    <2>9. s # t
      BY <2>1, <2>2
    <2>10. /\ sock \in [Slots -> SlotType] /\ held \in [Procs -> SUBSET Slots]
           /\ wait \in [Procs -> Waiting \union {None}]
      BY DEF SocketInv, Descriptors, Sleepers
    <2> HIDE DEF Slots, SlotType, Waiting
    <2>11. /\ sock'[t] = q /\ sock'[s] = h
           /\ \A u \in Slots : u # s /\ u # t => sock'[u] = sock[u]
      BY <1>4, <2>1, <2>2, <2>9, <2>10
    <2>12. \A o \in Procs : held[o] \subseteq held'[o] /\ held'[o] \subseteq held[o] \union {t}
      BY <1>4, <2>10
    <2>13. Apart(sock')
      <3>1. Queued(r, j)
        BY <2>3 DEF Queued
      <3>2. \A k \in Entries : Queued(h, k) =>
               k # j /\ Queued(r, k) /\ h.pending[k] = r.pending[k]
        BY <2>7 DEF Queued
      <3>3. Apart(sock) /\ h.conn = None
        BY <2>4, <2>7 DEF SocketInv
      <3> QED BY <2>1, <2>2, <2>3, <2>4, <2>5, <2>6, <2>7, <2>9, <2>11, <3>1, <3>2, <3>3,
                 AcceptApart
    <2>14. \A u \in Slots : RecordSound(sock'[u]) /\ Defers(sock[u], sock'[u])
      <3>1. (\A y : Defers(y, y)) /\ Defers(r, h)
        BY <2>4 DEF Defers
      <3> QED BY <2>1, <2>6, <2>8, <2>11, <3>1, HolderFacts
    <2>15. \A o \in Procs : \A u \in held'[o] : sock'[u].used
      BY <2>2, <2>6, <2>7, <2>11, <2>12, HolderFacts
    <2>16. \A w : Serves(r, w) => Serves(h, w)
      BY <1>1, <2>7 DEF Serves
    <2>17. \A o \in Procs : wait'[o] # None =>
             /\ wait'[o] = wait[o] /\ wait[o].slot \in held'[o]
             /\ Serves(sock[wait[o].slot], wait[o]) =>
                   Serves(sock'[wait[o].slot], wait[o])
      BY <1>1, <2>1, <2>11, <2>12, <2>16, HolderFacts
    <2>18. sock' \in [Slots -> SlotType] /\ held' \in [Procs -> SUBSET Slots]
      <3>1. sock' \in [Slots -> SlotType]
        BY <1>4, <2>6, <2>7, <2>10
      <3>2. held' \in [Procs -> SUBSET Slots]
        BY <1>4, <2>1, <2>10
      <3> QED BY <3>1, <3>2
    <2> QED BY <1>1, <2>10, <2>13, <2>14, <2>15, <2>17, <2>18, TableStep
  <1> QED BY <1>2, <1>3, <1>4

(* The last close of a slot releases it; p keeps the slots of H.           *)
LEMMA ReleaseStep ==
    ASSUME SocketInv, NEW p \in Procs, NEW H \in SUBSET held[p], NEW S,
           held' = [held EXCEPT ![p] = H], ReleaseUnheld(S),
           wait' \in [Procs -> Waiting \union {None}],
           \A o \in Procs : wait'[o] # None => o # p /\ wait'[o] = wait[o]
    PROVE  SocketInv' /\ Deferred
  <1>1. \A u \in Slots : LET q == FreeSlot(sock[u].gen)
                         IN /\ q \in SlotType /\ RecordSound(q) /\ ~q.used
                            /\ q.bound = None /\ q.backlog = 0 /\ q.conn = None
    <2>1. \A u \in Slots : sock[u].gen \in 0 .. MaxGeneration
      BY HolderFacts, SlotFields
    <2> QED BY <2>1, FreeSlotFields, FreeSlotSound
  <1> HIDE DEF Slots, SlotType, Waiting
  <1>2. sock \in [Slots -> SlotType] /\ held \in [Procs -> SUBSET Slots]
    BY DEF SocketInv, Descriptors
  <1>3. /\ held'[p] = H /\ \A o \in Procs : o # p => held'[o] = held[o]
        /\ \A o \in Procs : held'[o] \subseteq held[o]
    BY <1>2
  <1>4. held' \in [Procs -> SUBSET Slots]
    BY <1>2, <1>3
  <1>5. \A u \in Slots : sock'[u] = sock[u] \/ sock'[u] = FreeSlot(sock[u].gen)
    BY DEF ReleaseUnheld
  <1>6. \A o \in Procs : \A u \in held'[o] : sock'[u] = sock[u]
    BY <1>4 DEF ReleaseUnheld
  <1>7. sock' \in [Slots -> SlotType]
    BY <1>1, <1>2 DEF ReleaseUnheld
  <1>8. Apart(sock')
    <2>1. \A u \in Slots : Narrows(sock[u], sock'[u])
      BY <1>1, <1>5, NarrowsSelf DEF Narrows
    <2> QED BY <2>1, NarrowsApart DEF SocketInv
  <1>9. \A u \in Slots : RecordSound(sock'[u]) /\ Defers(sock[u], sock'[u])
    <2>1. \A y : Defers(y, y)
      BY DEF Defers
    <2>2. \A u \in Slots : Defers(sock[u], FreeSlot(sock[u].gen))
      BY <1>1 DEF Defers
    <2> QED BY <1>1, <1>5, <2>1, <2>2, HolderFacts
  <1>10. \A o \in Procs : \A u \in held'[o] : sock'[u].used
    BY <1>3, <1>6, HolderFacts
  <1>11. \A o \in Procs : wait'[o] # None =>
           /\ wait'[o] = wait[o] /\ wait[o].slot \in held'[o]
           /\ Serves(sock[wait[o].slot], wait[o]) =>
                 Serves(sock'[wait[o].slot], wait[o])
    BY <1>3, <1>6, HolderFacts
  <1> QED BY <1>4, <1>7, <1>8, <1>9, <1>10, <1>11, TableStep

(* close() gives up one descriptor.                                        *)
LEMMA CloseStep ==
    ASSUME SocketInv, NEW p \in Procs, NEW s \in held[p], SyscallClose(p, s)
    PROVE  SocketInv' /\ Deferred
  <1>1. /\ held' = [held EXCEPT ![p] = held[p] \ {s}] /\ ReleaseUnheld({s})
        /\ wait' = wait /\ wait[p] = None
    BY DEF SyscallClose, Calls
  <1>2. wait \in [Procs -> Waiting \union {None}]
    BY DEF SocketInv, Sleepers
  <1>3. held[p] \ {s} \in SUBSET held[p]
    OBVIOUS
  <1> QED BY <1>1, <1>2, <1>3, ReleaseStep

(* The end of a process releases its sockets and its wait.                 *)
LEMMA ExitStep ==
    ASSUME SocketInv, NEW p \in Procs, Exit(p)
    PROVE  SocketInv' /\ Deferred
  <1>1. /\ held' = [held EXCEPT ![p] = {}] /\ ReleaseUnheld(held[p])
        /\ wait' = [wait EXCEPT ![p] = None]
    BY DEF Exit
  <1> HIDE DEF Waiting
  <1>2. wait \in [Procs -> Waiting \union {None}]
    BY DEF SocketInv, Sleepers
  <1>3. /\ wait' \in [Procs -> Waiting \union {None}]
        /\ \A o \in Procs : wait'[o] # None => o # p /\ wait'[o] = wait[o]
    BY <1>1, <1>2
  <1>4. {} \in SUBSET held[p]
    OBVIOUS
  <1> QED BY <1>1, <1>3, <1>4, ReleaseStep

(* spawn() hands descriptors on.                                           *)
LEMMA SpawnStep ==
    ASSUME SocketInv, NEW p \in Procs, NEW q \in Procs, Spawn(p, q)
    PROVE  SocketInv' /\ Deferred
  <1>1. PICK S \in SUBSET held[p] : held' = [held EXCEPT ![q] = S]
    BY DEF Spawn
  <1>2. sock' = sock /\ wait' = wait /\ wait[q] = None
    BY DEF Spawn
  <1> HIDE DEF Slots, SlotType, Waiting
  <1>3. /\ sock \in [Slots -> SlotType] /\ held \in [Procs -> SUBSET Slots]
        /\ wait \in [Procs -> Waiting \union {None}] /\ Apart(sock)
    BY DEF SocketInv, Descriptors, Sleepers
  <1>4. held'[q] = S /\ \A o \in Procs : o # q => held'[o] = held[o]
    BY <1>1, <1>3
  <1>5. held' \in [Procs -> SUBSET Slots]
    BY <1>1, <1>3
  <1>6. \A u \in Slots : RecordSound(sock'[u]) /\ Defers(sock[u], sock'[u])
    BY <1>2, HolderFacts DEF Defers
  <1>7. \A o \in Procs : \A u \in held'[o] : sock'[u].used
    BY <1>2, <1>4, HolderFacts
  <1>8. \A o \in Procs : wait'[o] # None =>
           /\ wait'[o] = wait[o] /\ wait[o].slot \in held'[o]
           /\ Serves(sock[wait[o].slot], wait[o]) =>
                 Serves(sock'[wait[o].slot], wait[o])
    BY <1>2, <1>4, HolderFacts
  <1> QED BY <1>2, <1>3, <1>5, <1>6, <1>7, <1>8, TableStep

-----------------------------------------------------------------------------
(* Segments and timers.                                                    *)

(* The slot that a segment for a connection goes to.                       *)
LEMMA TargetFacts ==
    ASSUME SocketInv, NEW port, NEW peer, ConnectionFor(port, peer) # {}
    PROVE  LET s == First(ConnectionFor(port, peer))
           IN s \in Slots /\ sock[s].conn # None
  <1>1. First(ConnectionFor(port, peer)) \in ConnectionFor(port, peer)
    BY FirstFacts
  <1> QED BY <1>1 DEF ConnectionFor, HasConn

(* The connection status that goes with a control block.                   *)
LEMMA StatusAfterFacts ==
    ASSUME NEW c, NEW sent \in BOOLEAN
    PROVE  LET st == StatusAfter(c, sent)
           IN /\ st \in Statuses
              /\ st = "established" => c.state = "established"
              /\ st = "connecting" =>
                    c.state \notin {"established", "reset", "timed_out"}
  BY DEF StatusAfter, Statuses

(* A handshake that moves to the block c and the status st, which wakes    *)
(* the writers unless the handshake goes on.                               *)
LEMMA HandshakeStep ==
    ASSUME SocketInv, NEW s \in Slots, Status(s, "connecting"), NEW c \in Blocks,
           NEW sent \in BOOLEAN, held' = held,
           sock' = [sock EXCEPT ![s].conn = Moved(@, c, StatusAfter(c, sent))],
           WakeIf(StatusAfter(c, sent) # "connecting", Writers, s),
           \/ c.state \in {"established", "reset", "timed_out"}
           \/ c.state = "syn_sent" /\ c.timer
    PROVE  SocketInv' /\ Deferred
  <1> DEFINE r == sock[s]
             st == StatusAfter(c, sent)
             d == Moved(r.conn, c, st)
  <1>1. r.conn # None /\ r.conn.status = "connecting" /\ r.conn \in Connection
    BY ConnFacts DEF Status, HasConn
  <1>2. /\ st \in Statuses /\ (st = "established" => c.state = "established")
        /\ (st = "connecting" => c.state = "syn_sent" /\ c.timer)
    BY StatusAfterFacts
  <1>3. sock' = [sock EXCEPT ![s] = WithConn(@, d)]
    BY DEF WithConn
  <1>4. IF st # "connecting" THEN Wake(Writers, s) ELSE wait' = wait
    BY DEF WakeIf
  <1> HIDE DEF st
  <1>5. d \in Connection /\ d.peer = r.conn.peer /\ d.control = c /\ d.status = st
    BY <1>1, <1>2, ConnFields
  <1> HIDE DEF d
  <1>6. /\ Revises(s, WithConn(r, d))
        /\ \A w \in Waiting : Serves(r, w) /\ (w.call # "connect" \/ st = "connecting")
              => Serves(WithConn(r, d), w)
    BY <1>1, <1>2, <1>3, <1>5, ConnRevises
  <1>7. CASE st = "connecting"
    BY <1>4, <1>6, <1>7, QuietStep
  <1>8. CASE st # "connecting"
    <2>1. \A w \in Waiting : Serves(r, w) /\ w.call \notin Writers =>
             Serves(WithConn(r, d), w)
      BY <1>6 DEF Writers
    <2> QED BY <1>4, <1>6, <1>8, <2>1, WakeStep
  <1> QED BY <1>7, <1>8

(* A segment for a handshake.                                              *)
LEMMA ConnectingStep ==
    ASSUME SocketInv, NEW port, NEW peer, NEW seg \in Inbound,
           SegmentWhileConnecting(port, peer, seg)
    PROVE  SocketInv' /\ Deferred
  <1> DEFINE s == First(ConnectionFor(port, peer))
             o == HandleSegment(sock[s].conn.control, seg)
  <1>1. s \in Slots /\ sock[s].conn # None
    BY TargetFacts DEF SegmentWhileConnecting
  <1>2. Status(s, "connecting") /\ o.accepted /\ held' = held
    BY DEF SegmentWhileConnecting
  <1>3. sock[s].conn.control \in Blocks /\ sock[s].conn.control.state = "syn_sent"
    BY <1>1, <1>2, ConnFacts DEF Status
  <1>4. o.control \in Blocks /\ o.control.state \in {"reset", "established"}
    BY <1>2, <1>3, InboundFields, HandleSegmentFacts
  <1>5. PICK sent \in SendResults(o.outbound) :
          /\ sock' = [sock EXCEPT ![s].conn =
                        Moved(@, o.control, StatusAfter(o.control, sent))]
          /\ WakeIf(StatusAfter(o.control, sent) # "connecting", Writers, s)
    BY DEF SegmentWhileConnecting
  <1>6. sent \in BOOLEAN
    BY DEF SendResults
  <1>7. o.control.state \in {"established", "reset", "timed_out"}
    BY <1>4
  <1> HIDE DEF s, o
  <1> QED BY <1>1, <1>2, <1>4, <1>5, <1>6, <1>7, HandshakeStep

(* The timer of a handshake: another SYN, or the end of it.                *)
LEMMA ConnectTimerStep ==
    ASSUME SocketInv, NEW s \in Slots, ConnectTimer(s)
    PROVE  SocketInv' /\ Deferred
  <1> DEFINE o == OnTimer(sock[s].conn.control)
  <1>1. /\ Status(s, "connecting") /\ held' = held /\ TimerArmed(sock[s].conn.control)
        /\ sock[s].conn # None
    BY DEF ConnectTimer, Status, HasConn
  <1>2. sock[s].conn.control \in Blocks /\ sock[s].conn.control.state = "syn_sent"
    BY <1>1, ConnFacts DEF Status
  <1>3. /\ o.control \in Blocks
        /\ \/ o.control.state = "timed_out"
           \/ o.control.state = "syn_sent" /\ o.control.timer
    BY <1>1, <1>2, OnTimerFacts
  <1>4. PICK sent \in SendResults(o.outbound) :
          /\ sock' = [sock EXCEPT ![s].conn =
                        Moved(@, o.control, StatusAfter(o.control, sent))]
          /\ WakeIf(StatusAfter(o.control, sent) # "connecting", Writers, s)
    BY DEF ConnectTimer
  <1>5. sent \in BOOLEAN
    BY DEF SendResults
  <1> HIDE DEF o
  <1> QED BY <1>1, <1>3, <1>4, <1>5, HandshakeStep

(* What is left of a segment for a connected socket has no payload and no  *)
(* FIN.                                                                    *)
LEMMA RetainedFacts ==
    ASSUME NEW seg \in Inbound
    PROVE  /\ Arriving(Retained(seg)) /\ Retained(seg).len = 0
           /\ ~Has(Retained(seg), "fin")
  <1>1. Arriving(seg)
    BY InboundFields
  <1>2. seg \in [seq : SeqNumbers, ack : SeqNumbers, flags : SUBSET Flags, wnd : Nat, len : Nat]
    BY SocketAssumption
  <1> HIDE DEF SeqNumbers, Windows
  <1>3. CASE seg.len # 0 \/ Has(seg, "fin")
    <2> DEFINE x == [seg EXCEPT !.flags = {"ack"}, !.len = 0]
    <2>1. /\ x.seq = seg.seq /\ x.ack = seg.ack /\ x.wnd = seg.wnd /\ x.len = 0
          /\ x.flags = {"ack"}
      BY <1>2
    <2>2. Retained(seg) = x
      BY <1>3 DEF Retained
    <2> HIDE DEF x
    <2> QED BY <1>1, <2>1, <2>2 DEF Arriving, Has
  <1>4. CASE ~(seg.len # 0 \/ Has(seg, "fin"))
    <2>1. Retained(seg) = seg
      BY <1>4 DEF Retained
    <2> QED BY <1>1, <1>4, <2>1
  <1> QED BY <1>3, <1>4

(* A segment for a connected socket.                                       *)
LEMMA EstablishedStep ==
    ASSUME SocketInv, NEW port, NEW peer, NEW seg \in Inbound,
           SegmentWhenEstablished(port, peer, seg)
    PROVE  SocketInv' /\ Deferred
  <1> DEFINE s == First(ConnectionFor(port, peer))
             r == sock[s]
             c == HandleSegment(r.conn.control, Retained(seg)).control
             st == IF c.state = "reset" THEN "refused" ELSE r.conn.status
             d == Moved(r.conn, c, st)
  <1>1. s \in Slots /\ r.conn # None
    BY TargetFacts DEF SegmentWhenEstablished
  <1>2. /\ r.conn.status = "established" /\ r.conn.control.state = "established"
        /\ held' = held
    BY DEF SegmentWhenEstablished, Status
  <1>3. r.conn.control \in Blocks /\ r.conn \in Connection
    BY <1>1, ConnFacts
  <1>4. c \in Blocks /\ c.rcv = r.conn.control.rcv /\ c.state \in {"established", "reset"}
    BY <1>2, <1>3, RetainedFacts, HandleSegmentFacts
  <1>5. sock' = [sock EXCEPT ![s] = WithConn(@, d)]
    BY DEF SegmentWhenEstablished, WithConn
  <1>6. Wake(Writers, s) \/ wait' = wait
    BY DEF SegmentWhenEstablished, WakeIf
  <1> HIDE DEF c, s
  <1>7. /\ st \in Statuses
        /\ st = "refused" \/ (st = "established" /\ c.state = "established")
    BY <1>2, <1>4 DEF Statuses
  <1> HIDE DEF st
  <1>8. d \in Connection /\ d.peer = r.conn.peer /\ d.control = c /\ d.status = st
    <2>1. r.conn \in Connection /\ c \in Blocks /\ st \in Statuses
      BY <1>3, <1>4, <1>7
    <2> QED BY <2>1, ConnFields
  <1> HIDE DEF d
  <1>9. /\ Revises(s, WithConn(r, d))
        /\ \A w \in Waiting : Serves(r, w) => Serves(WithConn(r, d), w)
    BY <1>1, <1>2, <1>4, <1>5, <1>7, <1>8, ConnRevises
  <1> QED BY <1>1, <1>6, <1>9, QuietStep, WakeStep

(* What the service leaves in a backlog entry.                             *)
LEMMA EntryFacts ==
    ASSUME NEW peer \in Peers, NEW c \in Blocks, NEW sent
    PROVE  LET x == EntryAfter(peer, c, sent)
           IN /\ x \in Pending \union {None}
              /\ x # None => x.peer = peer /\ x.control = c /\ c.state # "timed_out"
  BY DEF EntryAfter, Pending, Blocks

(* An entry of a listener changes: the slot stays sound.                   *)
LEMMA EntrySound ==
    ASSUME NEW r, RecordSound(r), r.backlog # 0, NEW j \in Entries,
           NEW x \in Pending \union {None}
    PROVE  LET q == WithEntry(r, j, x)
           IN /\ RecordSound(q) /\ q.used = r.used /\ q.gen = r.gen /\ q.bound = r.bound
              /\ q.backlog = r.backlog /\ q.conn = r.conn /\ q.pending[j] = x
              /\ \A k \in Entries : k # j => q.pending[k] = r.pending[k]
              /\ Defers(r, q)
  <1> DEFINE q == WithEntry(r, j, x)
  <1>1. r \in SlotType
    BY DEF RecordSound
  <1>2. /\ q \in SlotType /\ q.used = r.used /\ q.gen = r.gen /\ q.bound = r.bound
        /\ q.backlog = r.backlog /\ q.conn = r.conn /\ q.pending[j] = x
        /\ \A k \in Entries : k # j => q.pending[k] = r.pending[k]
    BY <1>1, WithEntryFields
  <1> HIDE DEF q
  <1>3. RecordSound(q)
    BY <1>2 DEF RecordSound
  <1>4. Defers(r, q)
    BY <1>2 DEF Defers, RecordSound
  <1>5. /\ RecordSound(q) /\ q.used = r.used /\ q.gen = r.gen /\ q.bound = r.bound
        /\ q.backlog = r.backlog /\ q.conn = r.conn /\ q.pending[j] = x
        /\ \A k \in Entries : k # j => q.pending[k] = r.pending[k]
        /\ Defers(r, q)
    BY <1>2, <1>3, <1>4
  <1> QED BY <1>5 DEF q

(* The readers are woken as soon as a peer is ready.                       *)
LEMMA ListenerStep ==
    ASSUME SocketInv, NEW s \in Slots, sock[s].backlog # 0, NEW j \in Entries,
           NEW x \in Pending \union {None}, ListenerUpdate(s, j, x), Apart(sock')
    PROVE  SocketInv' /\ Deferred
  <1> DEFINE r == sock[s]
             q == WithEntry(r, j, x)
  <1>1. RecordSound(r)
    BY HolderFacts
  <1>2. /\ RecordSound(q) /\ q.used = r.used /\ q.gen = r.gen /\ q.backlog = r.backlog
        /\ q.conn = r.conn /\ Defers(r, q)
    BY <1>1, EntrySound
  <1>3. sock' = [sock EXCEPT ![s] = q] /\ held' = held
    BY DEF ListenerUpdate, WithEntry
  <1> HIDE DEF q
  <1>4. sock'[s] = q
    <2> HIDE DEF Slots, SlotType
    <2> QED BY <1>3 DEF SocketInv
  <1>5. IF EstablishedEntries(q) # {} THEN Wake(Readers, s) ELSE wait' = wait
    BY <1>4 DEF ListenerUpdate, WakeIf
  <1>6. Revises(s, q)
    BY <1>2, <1>3 DEF Revises
  <1>7. CASE EstablishedEntries(q) # {}
    <2>1. \A w \in Waiting : Serves(r, w) /\ w.call \notin Readers => Serves(q, w)
      BY <1>2 DEF Serves, Readers
    <2> QED BY <1>5, <1>6, <1>7, <2>1, WakeStep
  <1>8. CASE EstablishedEntries(q) = {}
    <2>1. \A w \in Waiting : Serves(r, w) => Serves(q, w)
      BY <1>2, <1>8 DEF Serves
    <2> QED BY <1>5, <1>6, <1>8, <2>1, QuietStep
  <1> QED BY <1>7, <1>8

(* An entry that keeps its peer, or is cleared, keeps the slots apart.     *)
LEMMA SamePeerApart ==
    ASSUME SocketInv, NEW s \in Slots, sock[s].backlog # 0, NEW j \in Limit(s),
           sock[s].pending[j] # None, NEW x \in Pending \union {None},
           x # None => x.peer = sock[s].pending[j].peer,
           sock' = [sock EXCEPT ![s] = WithEntry(@, j, x)]
    PROVE  Apart(sock') /\ Narrows(sock[s], WithEntry(sock[s], j, x))
  <1> DEFINE r == sock[s]
             q == WithEntry(r, j, x)
  <1>1. RecordSound(r) /\ r \in SlotType /\ j \in 1 .. r.backlog
    BY HolderFacts DEF Limit
  <1>2. j \in Entries
    BY <1>1, SlotFields
  <1>3. /\ q.bound = r.bound /\ q.backlog = r.backlog /\ q.conn = r.conn
        /\ q.pending[j] = x /\ \A k \in Entries : k # j => q.pending[k] = r.pending[k]
    BY <1>1, <1>2, EntrySound
  <1> HIDE DEF q
  <1>4. Narrows(r, q)
    <2>1. Shares(r) = Shares(q) /\ (LiveConn(q) => LiveConn(r) /\ q.conn.peer = r.conn.peer)
      BY <1>3 DEF Shares, LiveConn
    <2>2. \A k \in Entries : Queued(q, k) =>
             Queued(r, k) /\ q.pending[k].peer = r.pending[k].peer
      BY <1>3 DEF Queued
    <2> QED BY <1>3, <2>1, <2>2 DEF Narrows
  <1>5. Apart(sock')
    <2> HIDE DEF Slots, SlotType
    <2>1. sock'[s] = q /\ \A u \in Slots : u # s => sock'[u] = sock[u]
      BY DEF SocketInv, q
    <2>2. \A u \in Slots : Narrows(sock[u], sock'[u])
      BY <1>4, <2>1, NarrowsSelf
    <2> QED BY <2>2, NarrowsApart DEF SocketInv
  <1> QED BY <1>4, <1>5 DEF q

(* The listener of a port.                                                 *)
LEMMA ListenerFacts ==
    ASSUME SocketInv, NEW port, ListenersFor(port) # {}
    PROVE  LET s == First(ListenersFor(port))
           IN /\ s \in Slots /\ sock[s].used /\ sock[s].backlog # 0
              /\ sock[s].bound = port /\ port # None
  <1>1. LET s == First(ListenersFor(port))
        IN s \in Slots /\ sock[s].used /\ sock[s].backlog # 0 /\ sock[s].bound = port
    BY FirstFacts DEF ListenersFor, IsListener
  <1> QED BY <1>1, HolderFacts DEF RecordSound

(* A segment for a queued peer.                                            *)
LEMMA ListenerSegmentStep ==
    ASSUME SocketInv, NEW port, NEW peer \in Peers, NEW seg \in Inbound,
           ListenerSegment(port, peer, seg)
    PROVE  SocketInv' /\ Deferred
  <1> DEFINE s == First(ListenersFor(port))
             j == First(EntriesOf(s, peer))
             o == HandleSegment(sock[s].pending[j].control, seg)
  <1>1. s \in Slots /\ sock[s].backlog # 0 /\ sock[s] \in SlotType
    BY ListenerFacts, HolderFacts DEF ListenerSegment
  <1>2. EntriesOf(s, peer) # {}
    BY DEF ListenerSegment
  <1>3. PICK sent \in SendResults(o.outbound) :
           ListenerUpdate(s, j, EntryAfter(peer, o.control, sent))
    BY DEF ListenerSegment
  <1> DEFINE x == EntryAfter(peer, o.control, sent)
  <1> HIDE DEF s
  <1>4. j \in EntriesOf(s, peer)
    BY <1>2, FirstFacts
  <1> HIDE DEF j
  <1>5. j \in Limit(s) /\ sock[s].pending[j] # None /\ sock[s].pending[j].peer = peer
    BY <1>4 DEF EntriesOf
  <1>6. j \in Entries /\ sock[s].pending[j].control \in Blocks
    BY <1>1, <1>5, SlotFields DEF Limit
  <1>7. o.control \in Blocks
    BY <1>6, InboundFields, HandleSegmentFacts
  <1> HIDE DEF o
  <1>8. x \in Pending \union {None} /\ (x # None => x.peer = peer)
    BY <1>7, EntryFacts
  <1>9. sock' = [sock EXCEPT ![s] = WithEntry(@, j, x)]
    BY <1>3 DEF ListenerUpdate, WithEntry
  <1> HIDE DEF x
  <1>10. Apart(sock')
    BY <1>1, <1>5, <1>8, <1>9, SamePeerApart
  <1>11. ListenerUpdate(s, j, x)
    BY <1>3 DEF x
  <1> QED BY <1>1, <1>6, <1>8, <1>10, <1>11, ListenerStep

(* A SYN from a peer that has no connection on the port.                   *)
LEMMA ListenerSynStep ==
    ASSUME SocketInv, NEW port \in Ports, NEW peer \in Peers, NEW seg \in Inbound,
           ListenerSyn(port, peer, seg)
    PROVE  SocketInv' /\ Deferred
  <1> DEFINE s == First(ListenersFor(port))
             j == First(FreeEntries(s))
             r == sock[s]
  <1>1. /\ s \in Slots /\ r.used /\ r.backlog # 0 /\ r.bound = port /\ port # None
        /\ r \in SlotType /\ RecordSound(r)
    BY ListenerFacts, HolderFacts DEF ListenerSyn
  <1>2. EntriesOf(s, peer) = {} /\ FreeEntries(s) # {} /\ ConnectionFor(port, peer) = {}
    BY DEF ListenerSyn
  <1>3. PICK iss \in InitialSequences, sent \in BOOLEAN :
           ListenerUpdate(s, j, EntryAfter(peer, BeginPassiveOpenAt(iss, seg).control, sent))
    BY DEF ListenerSyn
  <1> DEFINE c == BeginPassiveOpenAt(iss, seg).control
             x == EntryAfter(peer, c, sent)
             q == WithEntry(r, j, x)
  <1> HIDE DEF s
  <1>4. j \in Limit(s)
    BY <1>2, FirstFacts DEF FreeEntries
  <1> HIDE DEF j
  <1>5. j \in Entries
    BY <1>1, <1>4, SlotFields DEF Limit
  <1>6. c \in Blocks
    BY InboundFields, OpenFacts
  <1> HIDE DEF c
  <1>7. x \in Pending \union {None} /\ (x # None => x.peer = peer)
    BY <1>6, EntryFacts
  <1>8. sock' = [sock EXCEPT ![s] = q] /\ ListenerUpdate(s, j, x)
    BY <1>3 DEF ListenerUpdate, WithEntry, c
  <1> HIDE DEF x
  <1>9. /\ q.bound = r.bound /\ q.backlog = r.backlog /\ q.conn = r.conn
        /\ q.pending[j] = x /\ \A k \in Entries : k # j => q.pending[k] = r.pending[k]
    BY <1>1, <1>5, <1>7, EntrySound
  <1> HIDE DEF q
  <1>10. \A k \in Entries : Queued(q, k) =>
            \/ k = j /\ q.pending[k].peer = peer
            \/ k # j /\ Queued(r, k) /\ q.pending[k] = r.pending[k]
    BY <1>7, <1>9 DEF Queued
  <1>11. \A u \in Slots : LiveConn(sock[u]) /\ sock[u].bound = r.bound =>
            sock[u].conn.peer # peer
    <2>1. \A u \in Slots : LiveConn(sock[u]) => sock[u].used
      BY HolderFacts DEF LiveConn, RecordSound
    <2> QED BY <1>1, <1>2, <2>1 DEF ConnectionFor, LiveConn, HasConn
  <1>12. \A k \in Entries : Queued(r, k) => r.pending[k].peer # peer
    BY <1>2 DEF EntriesOf, Limit, Queued
  <1>13. sock'[s] = q /\ \A u \in Slots : u # s => sock'[u] = sock[u]
    <2> HIDE DEF Slots, SlotType
    <2> QED BY <1>1, <1>8 DEF SocketInv
  <1>14. Apart(sock')
    <2>1. Apart(sock)
      BY DEF SocketInv
    <2>2. /\ sock'[s].bound = sock[s].bound /\ sock'[s].backlog = sock[s].backlog
          /\ sock'[s].conn = sock[s].conn
          /\ \A k \in Entries : Queued(sock'[s], k) =>
                \/ k = j /\ sock'[s].pending[k].peer = peer
                \/ k # j /\ Queued(sock[s], k) /\ sock'[s].pending[k] = sock[s].pending[k]
      BY <1>9, <1>10, <1>13
    <2> HIDE DEF Slots, Entries
    <2>3. sock[s].bound # None /\ sock[s].backlog # 0 /\ s \in Slots
      BY <1>1
    <2>4. \A u \in Slots : u # s => sock'[u] = sock[u]
      BY <1>13
    <2> QED BY <1>5, <1>11, <1>12, <2>1, <2>2, <2>3, <2>4, SynApart
  <1> QED BY <1>1, <1>5, <1>7, <1>8, <1>14, ListenerStep

(* The timer of a half-open entry.                                         *)
LEMMA PendingTimerStep ==
    ASSUME SocketInv, NEW s \in Slots, NEW j \in Entries, PendingTimer(s, j)
    PROVE  SocketInv' /\ Deferred
  <1> DEFINE r == sock[s]
             c == r.pending[j].control
             o == OnTimer(c)
  <1>1. /\ j \in Limit(s) /\ r.pending[j] # None /\ c.state = "syn_received"
        /\ TimerArmed(c) /\ held' = held /\ wait' = wait
    BY DEF PendingTimer
  <1>2. PICK sent \in SendResults(o.outbound) :
           sock' = [sock EXCEPT ![s].pending[j] = EntryAfter(@.peer, o.control, sent)]
    BY DEF PendingTimer
  <1>3. r \in SlotType /\ RecordSound(r)
    BY HolderFacts
  <1>4. c \in Blocks /\ r.pending[j].peer \in Peers /\ r.backlog # 0
    BY <1>1, <1>3, SlotFields DEF Limit
  <1>5. /\ o.control \in Blocks
        /\ o.control.state = "timed_out" \/ o.control.state = "syn_received"
    BY <1>1, <1>4, OnTimerFacts
  <1> DEFINE x == EntryAfter(r.pending[j].peer, o.control, sent)
             q == WithEntry(r, j, x)
  <1>6. sock' = [sock EXCEPT ![s] = q]
    BY <1>2 DEF WithEntry
  <1> HIDE DEF o
  <1>7. /\ x \in Pending \union {None}
        /\ x # None => x.peer = r.pending[j].peer /\ x.control.state = "syn_received"
    BY <1>4, <1>5, EntryFacts
  <1> HIDE DEF x
  <1>8. Apart(sock')
    BY <1>1, <1>4, <1>6, <1>7, SamePeerApart
  <1>9. /\ RecordSound(q) /\ q.used = r.used /\ q.gen = r.gen /\ q.bound = r.bound
        /\ q.backlog = r.backlog /\ q.conn = r.conn /\ q.pending[j] = x
        /\ \A k \in Entries : k # j => q.pending[k] = r.pending[k]
        /\ Defers(r, q)
    BY <1>3, <1>4, <1>7, EntrySound
  <1> HIDE DEF q
  <1>10. Revises(s, q)
    BY <1>1, <1>6, <1>8, <1>9 DEF Revises
  <1>11. EstablishedEntries(q) \subseteq EstablishedEntries(r)
    <2>1. \A k \in 1 .. r.backlog : k \in Entries
      BY <1>3, SlotFields
    <2>2. ASSUME NEW k \in EstablishedEntries(q) PROVE k \in EstablishedEntries(r)
      <3>1. k \in 1 .. r.backlog /\ q.pending[k] # None
            /\ q.pending[k].control.state = "established"
        BY <1>9 DEF EstablishedEntries
      <3>2. k # j
        BY <1>7, <1>9, <3>1
      <3> QED BY <1>9, <2>1, <3>1, <3>2 DEF EstablishedEntries
    <2> QED BY <2>2
  <1>12. \A w \in Waiting : Serves(r, w) => Serves(q, w)
    BY <1>9, <1>11 DEF Serves
  <1> QED BY <1>1, <1>10, <1>12, QuietStep

-----------------------------------------------------------------------------
(* The theorems.                                                           *)

(* All slots are free at the start.                                        *)
LEMMA InitInv == Init => SocketInv
  <1> SUFFICES ASSUME Init PROVE SocketInv
    OBVIOUS
  <1> DEFINE q == FreeSlot(0)
  <1>1. /\ q \in SlotType /\ ~q.used /\ q.bound = None /\ q.backlog = 0 /\ q.conn = None
        /\ RecordSound(q)
    <2>1. 0 \in 0 .. MaxGeneration
      BY SocketAssumption
    <2> QED BY <2>1, FreeSlotFields, FreeSlotSound
  <1>2. sock = [s \in Slots |-> q] /\ held = [p \in Procs |-> {}] /\ wait = [p \in Procs |-> None]
    BY DEF Init
  <1> HIDE DEF q, Slots, SlotType, Waiting
  <1>3. \A s \in Slots : sock[s] = q
    BY <1>2
  <1>4. PortsApart(sock)
    BY <1>1, <1>3 DEF PortsApart
  <1>5. PeersApart(sock)
    <2>1. ~LiveConn(q) /\ \A j \in Entries : ~Queued(q, j)
      BY <1>1 DEF LiveConn, Queued
    <2> QED BY <1>3, <2>1 DEF PeersApart
  <1>6. Descriptors
    BY <1>2 DEF Descriptors
  <1>7. Sleepers
    BY <1>2 DEF Sleepers
  <1> QED BY <1>1, <1>2, <1>4, <1>5, <1>6, <1>7 DEF SocketInv, Apart

(* Every step keeps the invariant and defers the ingress.                  *)
LEMMA NextInv == SocketInv /\ [Next]_vars => SocketInv' /\ (Deferred \/ UNCHANGED vars)
  <1> SUFFICES ASSUME SocketInv, [Next]_vars
               PROVE  SocketInv' /\ (Deferred \/ UNCHANGED vars)
    OBVIOUS
  <1>1. CASE UNCHANGED vars
    BY <1>1 DEF vars, SocketInv, Descriptors, Sleepers, Apart, PortsApart, PeersApart
  <1>2. ASSUME NEW p \in Procs, Syscall(p) PROVE SocketInv' /\ Deferred
    <2>1. CASE SyscallSocket(p)
      BY <2>1, SocketStep
    <2>2. CASE Exit(p)
      BY <2>2, ExitStep
    <2>3. ASSUME NEW q \in Procs \ {p}, Spawn(p, q) PROVE SocketInv' /\ Deferred
      BY <2>3, SpawnStep
    <2>4. ASSUME NEW s \in held[p],
                 \/ \E port \in Ports : SyscallBind(p, s, port)
                 \/ \E backlog \in Entries : SyscallListen(p, s, backlog)
                 \/ \E peer \in Peers : SyscallConnect(p, s, peer)
                 \/ SyscallAccept(p, s) \/ SyscallAcceptBlocks(p, s)
                 \/ SyscallConnectBlocks(p, s) \/ SyscallSend(p, s)
                 \/ SyscallSendBlocks(p, s) \/ SyscallShutdown(p, s)
                 \/ SyscallClose(p, s)
          PROVE  SocketInv' /\ Deferred
      BY <2>4, BindStep, ListenStep, ConnectStep, AcceptStep, BlockingSteps, SendStep,
         ShutdownStep, CloseStep
    <2> QED BY <1>2, <2>1, <2>2, <2>3, <2>4 DEF Syscall
  <1>3. CASE Service
    <2>1. ASSUME NEW port \in Ports, NEW peer \in Peers, NEW seg \in Inbound,
                 \/ SegmentWhileConnecting(port, peer, seg)
                 \/ SegmentWhenEstablished(port, peer, seg)
                 \/ ListenerSegment(port, peer, seg)
                 \/ ListenerSyn(port, peer, seg)
          PROVE  SocketInv' /\ Deferred
      BY <2>1, ConnectingStep, EstablishedStep, ListenerSegmentStep, ListenerSynStep
    <2>2. ASSUME NEW s \in Slots, ConnectTimer(s) \/ \E j \in Entries : PendingTimer(s, j)
          PROVE  SocketInv' /\ Deferred
      BY <2>2, ConnectTimerStep, PendingTimerStep
    <2> QED BY <1>3, <2>1, <2>2 DEF Service
  <1> QED BY <1>1, <1>2, <1>3 DEF Next

(* SocketInv is an invariant of every behaviour: the slot records are      *)
(* sound, a descriptor names a slot in use, a sleeper holds the slot it    *)
(* sleeps on and that slot owes it a wakeup, and ports and peers are apart. *)
THEOREM SocketInvariant == Spec => []SocketInv
  BY InitInv, NextInv, PTL DEF Spec

(* Nobody sleeps through a wakeup, whatever the holders of a shared socket *)
(* do in between: wakeMatching() by (slot, generation), the last close     *)
(* alone releasing a slot, every end of a handshake waking its writers and  *)
(* every completed handshake its readers.                                  *)
THEOREM Sleeping == Spec => []SleepersServed
  <1>1. SocketInv => SleepersServed
    <2> SUFFICES ASSUME SocketInv PROVE SleepersServed
      OBVIOUS
    <2>1. ASSUME NEW p \in Procs, wait[p] # None
          PROVE  /\ sock[wait[p].slot].used /\ sock[wait[p].slot].gen = wait[p].gen
                 /\ wait[p].call = "connect" =>
                       /\ Status(wait[p].slot, "connecting")
                       /\ TimerArmed(sock[wait[p].slot].conn.control)
                 /\ wait[p].call = "accept" => EstablishedEntries(sock[wait[p].slot]) = {}
      <3>1. wait[p].slot \in Slots /\ Serves(sock[wait[p].slot], wait[p])
        BY <2>1, HolderFacts
      <3>2. wait[p].call = "connect" =>
               Status(wait[p].slot, "connecting") /\ sock[wait[p].slot].conn # None
        BY <3>1 DEF Serves, Status, HasConn
      <3>3. Status(wait[p].slot, "connecting") => TimerArmed(sock[wait[p].slot].conn.control)
        BY <3>1, ConnFacts DEF Status, HasConn, TimerArmed
      <3> QED BY <3>1, <3>2, <3>3 DEF Serves
    <2> QED BY <2>1 DEF SleepersServed, WaitKeyLive, ConnectNotStranded,
                        AcceptNotStranded, Blocked
  <1> QED BY <1>1, SocketInvariant, PTL

(* A segment has one owner and a port has one owner: accept() moves a      *)
(* connection, a SYN is not queued twice, bind() and connect() never take  *)
(* a port in use, and the tables keep their types.                         *)
THEOREM Ownership == Spec => []OneOwner
  <1>1. SocketInv => OneOwner
    <2> SUFFICES ASSUME SocketInv PROVE OneOwner
      OBVIOUS
    <2>1. TypeOK
      BY DEF SocketInv, Descriptors, Sleepers, TypeOK
    <2>2. Apart(sock)
      BY DEF SocketInv
    <2>3. TupleUnique
      <3> SUFFICES ASSUME NEW port \in Ports, NEW peer \in Peers,
                          NEW x \in Connections(port, peer), NEW y \in Connections(port, peer)
                   PROVE  x = y
        BY DEF TupleUnique
      <3> DEFINE C == ConnectionFor(port, peer)
                 L == ListenersFor(port)
      <3>1. \A s \in C : /\ s \in Slots /\ LiveConn(sock[s]) /\ sock[s].bound = port
                         /\ sock[s].conn.peer = peer
        BY DEF ConnectionFor, LiveConn, HasConn
      <3>2. \A s \in L : s \in Slots /\ sock[s].bound = port /\ sock[s].backlog # 0
        BY DEF ListenersFor, IsListener
      <3>3. \A s \in L : \A j \in Entries : j \in EntriesOf(s, peer) =>
               Queued(sock[s], j) /\ sock[s].pending[j].peer = peer
        BY DEF EntriesOf, Queued, Limit
      <3>4. \A s, t \in C : s = t
        BY <2>2, <3>1 DEF Apart, PeersApart
      <3>5. \A s, t \in L : s = t
        <4>1. port # None
          BY NoneAssumption
        <4> QED BY <2>2, <3>2, <4>1 DEF Apart, PortsApart
      <3>6. \A s \in C : \A t \in L : \A j \in Entries : j \notin EntriesOf(t, peer)
        BY <2>2, <3>1, <3>2, <3>3 DEF Apart, PeersApart
      <3>7. \A s \in L : \A j, k \in Entries :
               j \in EntriesOf(s, peer) /\ k \in EntriesOf(s, peer) => j = k
        BY <2>2, <3>2, <3>3 DEF Apart, PeersApart
      <3>8. ASSUME NEW z \in Connections(port, peer)
            PROVE  \/ \E s \in C : z = <<s, 0>>
                   \/ \E t \in L, j \in Entries : z = <<t, j>> /\ j \in EntriesOf(t, peer)
        BY DEF Connections
      <3> HIDE DEF C, L, Entries
      <3>9. CASE \E s \in C : x = <<s, 0>>
        BY <3>4, <3>6, <3>8, <3>9
      <3>10. CASE \E t \in L, j \in Entries : x = <<t, j>> /\ j \in EntriesOf(t, peer)
        BY <3>5, <3>6, <3>7, <3>8, <3>10
      <3> QED BY <3>8, <3>9, <3>10
    <2>4. PortOwner
      <3>1. \A s \in Slots : Shares(sock[s]) => MaySharePort(s)
        BY DEF Shares, MaySharePort, IsListener, Status, HasConn
      <3> QED BY <2>2, <3>1 DEF PortOwner, Apart, PortsApart, IsListener
    <2> QED BY <2>1, <2>3, <2>4 DEF OneOwner
  <1> QED BY <1>1, SocketInvariant, PTL

(* No step takes payload or FIN on a connected socket: receive_next stays, *)
(* and only a reset or the local shutdown leaves "established".            *)
THEOREM Deferral == Spec => IngressDeferred
  <1>1. SocketInv /\ [Next]_vars =>
          [\A s \in Slots :
             Status(s, "established") /\ sock'[s].used =>
               LET before == sock[s].conn.control
                   after == sock'[s].conn.control
               IN /\ after.rcv = before.rcv
                  /\ after.state # before.state =>
                       \/ after.state = "reset"
                       \/ sock'[s].conn.writeShutdown /\ after.state = "fin_wait_1"]_vars
    BY NextInv DEF Deferred, Defers, Status, HasConn
  <1> QED BY <1>1, SocketInvariant, PTL DEF Spec, IngressDeferred
=============================================================================
