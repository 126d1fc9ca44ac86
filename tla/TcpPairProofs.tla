---------------------------- MODULE TcpPairProofs ----------------------------
(***************************************************************************)
(* Proofs about module TcpPair: the two ends agree on the sequence numbers *)
(* and on the handshake, for every modulus, every number of incarnations   *)
(* and every bound on how far a connection runs, over a network that       *)
(* loses, repeats and reorders.                                            *)
(***************************************************************************)
EXTENDS TcpPair, TLAPS

(* How far a sequence number is from the start of an incarnation, and how  *)
(* far it can be: the bound of the sends and the FIN.                      *)
Off(a, n) == (n - a) % SeqModulus
Reach == MaxSpan + 1

(* The first sequence numbers of an end's incarnations so far.             *)
Used(e) == {InitialSequences[e][i] : i \in 1 .. opens[e]}

(* What a segment occupies of the sequence space, the SYN apart.           *)
SegLen(s) == s.len + (IF "fin" \in s.flags THEN 1 ELSE 0)

Live(e) == block[e].state \notin Dead

(* A segment that end e has sent, now or in the past: it carries numbers   *)
(* of an incarnation of each end, and a SYN the first one.                 *)
SegmentSound(e, s) ==
    /\ s.seq \in SeqNumbers /\ s.ack \in SeqNumbers
    /\ s.wnd = ReceiveWindow /\ s.len \in {0, 1}
    /\ s.flags \in SUBSET (Flags \ {"rst"})
    /\ "syn" \in s.flags => s.seq \in Used(e)
    /\ \E a \in Used(e) : Off(a, s.seq) + SegLen(s) <= Reach
    /\ "ack" \in s.flags => \E b \in Used(Peer(e)) : Off(b, s.ack) <= Reach

(* A segment of the present incarnation: nothing beyond send_next, and     *)
(* nothing acknowledged beyond receive_next.                               *)
SegmentOf(e, s) ==
    Live(e) /\ Off(block[e].iss, s.seq) <= Reach =>
        /\ Off(block[e].iss, s.seq) + SegLen(s) <= Off(block[e].iss, block[e].nxt)
        /\ "ack" \in s.flags =>
              irs[e] # NoSeq /\ Off(irs[e], s.ack) <= Off(irs[e], block[e].rcv)

NetSound == \A m \in net : /\ m[1] \in Ends
                           /\ SegmentSound(Peer(m[1]), m[2])
                           /\ SegmentOf(Peer(m[1]), m[2])

(* A control block in use: of the latest incarnation, within reach of its  *)
(* start, and of an incarnation of the peer that was opened.               *)
BlockSound(e) ==
    Live(e) =>
        /\ opens[e] > 0 /\ block[e].iss = InitialSequences[e][opens[e]]
        /\ Off(block[e].iss, block[e].nxt) \in 1 .. Reach
        /\ block[e].state \in {"established", "close_wait"} =>
              Off(block[e].iss, block[e].nxt) <= MaxSpan
        /\ block[e].state = "syn_sent" =>
              e = "client" /\ irs[e] = NoSeq /\ Off(block[e].iss, block[e].nxt) = 1
        /\ block[e].state = "syn_received" =>
              /\ e = "server" /\ block[e].una = block[e].iss
              /\ Off(block[e].iss, block[e].nxt) = 1
        /\ block[e].state # "syn_sent" =>
              irs[e] \in Used(Peer(e)) /\ Off(irs[e], block[e].rcv) \in 1 .. Reach

(* What end e has of the peer's present incarnation.                       *)
Agree(e) ==
    Live(e) /\ Live(Peer(e)) /\ irs[e] = block[Peer(e)].iss =>
        /\ Off(block[Peer(e)].iss, block[e].rcv) <= Off(block[Peer(e)].iss, block[Peer(e)].nxt)
        /\ irs[Peer(e)] = block[e].iss =>
              Off(block[e].iss, block[e].una) <= Off(block[e].iss, block[Peer(e)].rcv)

PairInv ==
    /\ TypeOK /\ NetSound
    /\ \A e \in Ends : opens[e] <= Len(InitialSequences[e]) /\ BlockSound(e) /\ Agree(e)
    /\ HandshakeAgrees

-----------------------------------------------------------------------------
(* Arithmetic of sequence numbers                                          *)

(* The distance, without the remainder.                                    *)
LEMMA OffCases ==
    ASSUME NEW a \in SeqNumbers, NEW n \in SeqNumbers
    PROVE  Off(a, n) = IF n >= a THEN n - a ELSE n - a + SeqModulus
  <1>1. SeqModulus \in Nat /\ SeqModulus > 1 /\ a \in Int /\ n \in Int /\ 0 <= a /\ 0 <= n
        /\ a < SeqModulus /\ n < SeqModulus
    BY ConnectionAssumption DEF SeqNumbers
  <1>2. \A k \in Nat, q \in Nat : k < q => k % q = k
    OBVIOUS
  <1>3. \A k \in Int, q \in Nat : k < 0 /\ k + q >= 0 => k % q = k + q
    OBVIOUS
  <1> QED BY <1>1, <1>2, <1>3 DEF Off

(* The sum, without the remainder.                                         *)
LEMMA PlusCases ==
    ASSUME NEW n \in SeqNumbers, NEW k \in 0 .. SeqModulus - 1
    PROVE  Plus(n, k) = IF n + k < SeqModulus THEN n + k ELSE n + k - SeqModulus
  <1>1. SeqModulus \in Nat /\ SeqModulus > 1 /\ k \in Int /\ n \in Int /\ 0 <= k /\ 0 <= n
        /\ k < SeqModulus /\ n < SeqModulus
    BY ConnectionAssumption DEF SeqNumbers
  <1>2. \A j \in Nat, q \in Nat : j < q => j % q = j
    OBVIOUS
  <1>3. \A j \in Nat, q \in Nat : j >= q /\ j < q + q => j % q = j - q
    OBVIOUS
  <1> DEFINE j == n + k
  <1>4. j \in Nat /\ j < SeqModulus + SeqModulus
    BY <1>1
  <1> HIDE DEF j
  <1>5. CASE j < SeqModulus
    <2>1. j % SeqModulus = j
      BY <1>1, <1>2, <1>4, <1>5
    <2> QED BY <1>1, <1>5, <2>1 DEF Plus, j
  <1>6. CASE j >= SeqModulus
    <2>1. j % SeqModulus = j - SeqModulus
      BY <1>1, <1>3, <1>4, <1>6
    <2> QED BY <1>1, <1>6, <2>1 DEF Plus, j
  <1> QED BY <1>1, <1>4, <1>5, <1>6

(* The constants.                                                          *)
LEMMA Reaches ==
    /\ SeqModulus \in Nat /\ SeqModulus > 1 /\ MaxSpan \in Nat /\ MaxSpan >= 1
    /\ Reach \in Nat /\ Reach >= 2 /\ Reach < SeqModulus /\ Reach = MaxSpan + 1
    /\ \A n \in SeqNumbers : n \in Int /\ 0 <= n /\ n < SeqModulus
    /\ \A n \in Int : 0 <= n /\ n < SeqModulus => n \in SeqNumbers
    /\ NoSeq \notin SeqNumbers
  <1>1. SeqModulus \in Nat /\ SeqModulus > 1 /\ MaxSpan \in 1 .. SeqModulus - 2
    BY ConnectionAssumption, PairAssumption
  <1> QED BY <1>1 DEF Reach, SeqNumbers, NoSeq

(* A distance is below the modulus, and none is none.                      *)
LEMMA OffType ==
    ASSUME NEW a \in SeqNumbers, NEW n \in SeqNumbers
    PROVE  Off(a, n) \in Nat /\ Off(a, n) < SeqModulus /\ Off(a, a) = 0
  <1> HIDE DEF Off
  <1> QED BY OffCases, Reaches

(* Going on by k puts the distance up by k, while it stays within reach.   *)
LEMMA OffPlus ==
    ASSUME NEW a \in SeqNumbers, NEW n \in SeqNumbers, NEW k \in Nat, Off(a, n) + k <= Reach
    PROVE  Plus(n, k) \in SeqNumbers /\ Off(a, Plus(n, k)) = Off(a, n) + k
  <1> HIDE DEF Off, Plus, Reach
  <1>1. Off(a, n) \in Nat
    BY OffType
  <1>2. k \in 0 .. SeqModulus - 1
    BY <1>1, Reaches
  <1>3. Plus(n, k) = IF n + k < SeqModulus THEN n + k ELSE n + k - SeqModulus
    BY <1>2, PlusCases
  <1>4. Plus(n, k) \in SeqNumbers
    BY <1>2, <1>3, Reaches
  <1>5. /\ Off(a, n) = IF n >= a THEN n - a ELSE n - a + SeqModulus
        /\ Off(a, Plus(n, k)) = IF Plus(n, k) >= a THEN Plus(n, k) - a
                                ELSE Plus(n, k) - a + SeqModulus
    BY <1>4, OffCases
  <1> QED BY <1>2, <1>3, <1>4, <1>5, Reaches

(* A sum is a sequence number.                                             *)
LEMMA PlusType ==
    ASSUME NEW n \in SeqNumbers, NEW k \in Nat, k <= Reach
    PROVE  Plus(n, k) \in SeqNumbers
  BY OffType, OffPlus

(* The number after another.                                               *)
LEMMA OffNext ==
    ASSUME NEW a \in SeqNumbers
    PROVE  Plus(a, 1) \in SeqNumbers /\ Off(a, Plus(a, 1)) = 1
  <1>1. Off(a, a) + 1 <= Reach /\ Off(a, a) = 0
    BY OffType, Reaches
  <1> HIDE DEF Off, Plus, Reach
  <1> QED BY <1>1, OffPlus

(* Two starts that reach the same number are within reach of each other.   *)
LEMMA OffMeet ==
    ASSUME NEW a \in SeqNumbers, NEW b \in SeqNumbers, NEW n \in SeqNumbers,
           Off(a, n) <= Reach, Off(b, n) <= Reach
    PROVE  Off(a, b) <= Reach \/ Off(b, a) <= Reach
  <1> HIDE DEF Off, Reach
  <1>1. /\ Off(a, n) = IF n >= a THEN n - a ELSE n - a + SeqModulus
        /\ Off(b, n) = IF n >= b THEN n - b ELSE n - b + SeqModulus
        /\ Off(a, b) = IF b >= a THEN b - a ELSE b - a + SeqModulus
        /\ Off(b, a) = IF a >= b THEN a - b ELSE a - b + SeqModulus
    BY OffCases
  <1>2. /\ a \in Int /\ b \in Int /\ n \in Int /\ 0 <= a /\ 0 <= b /\ 0 <= n
        /\ a < SeqModulus /\ b < SeqModulus /\ n < SeqModulus
        /\ SeqModulus \in Nat /\ Reach \in Nat
    BY Reaches
  <1> QED BY <1>1, <1>2

(* No incarnation reaches another's numbers.                               *)
LEMMA Incarnations ==
    ASSUME NEW e \in Ends,
           NEW i \in DOMAIN InitialSequences[e], NEW j \in DOMAIN InitialSequences[e],
           NEW n \in SeqNumbers,
           Off(InitialSequences[e][i], n) <= Reach, Off(InitialSequences[e][j], n) <= Reach
    PROVE  i = j
  <1>1. InitialSequences[e] \in Seq(SeqNumbers)
    BY PairAssumption
  <1>2. InitialSequences[e][i] \in SeqNumbers /\ InitialSequences[e][j] \in SeqNumbers
    BY <1>1
  <1>3. \/ Off(InitialSequences[e][i], InitialSequences[e][j]) <= Reach
        \/ Off(InitialSequences[e][j], InitialSequences[e][i]) <= Reach
    BY <1>2, OffMeet
  <1>4. i # j => /\ Off(InitialSequences[e][i], InitialSequences[e][j]) > Reach
                 /\ Off(InitialSequences[e][j], InitialSequences[e][i]) > Reach
    BY PairAssumption DEF Off, Reach
  <1>5. /\ Off(InitialSequences[e][i], InitialSequences[e][j]) \in Nat
        /\ Off(InitialSequences[e][j], InitialSequences[e][i]) \in Nat
    BY <1>2, OffType
  <1> HIDE DEF Off, Reach
  <1> QED BY <1>3, <1>4, <1>5, Reaches

(* The incarnations so far, and the next.                                  *)
LEMMA UsedFacts ==
    ASSUME NEW e \in Ends, opens[e] \in Nat, opens[e] <= Len(InitialSequences[e])
    PROVE  /\ \A a \in Used(e) : a \in SeqNumbers
           /\ \A a, b \in Used(e), n \in SeqNumbers :
                 Off(a, n) <= Reach /\ Off(b, n) <= Reach => a = b
           /\ opens[e] > 0 => InitialSequences[e][opens[e]] \in Used(e)
           /\ opens[e] < Len(InitialSequences[e]) =>
                 /\ NextIss(e) \in SeqNumbers
                 /\ \A a \in Used(e), n \in SeqNumbers :
                       ~(Off(a, n) <= Reach /\ Off(NextIss(e), n) <= Reach)
  <1>1. InitialSequences[e] \in Seq(SeqNumbers)
    BY PairAssumption
  <1>2. Len(InitialSequences[e]) \in Nat /\ DOMAIN InitialSequences[e] = 1 .. Len(InitialSequences[e])
    BY <1>1
  <1>3. \A i \in DOMAIN InitialSequences[e] : InitialSequences[e][i] \in SeqNumbers
    BY <1>1
  <1>4. \A i \in 1 .. opens[e] : i \in DOMAIN InitialSequences[e]
    BY <1>2
  <1>5. \A a \in Used(e) : \E i \in DOMAIN InitialSequences[e] :
            a = InitialSequences[e][i] /\ i <= opens[e]
    BY <1>4 DEF Used
  <1>6. \A a \in Used(e) : a \in SeqNumbers
    BY <1>3, <1>5
  <1>7. ASSUME NEW a \in Used(e), NEW b \in Used(e), NEW n \in SeqNumbers,
               Off(a, n) <= Reach, Off(b, n) <= Reach
        PROVE  a = b
    BY <1>5, <1>7, Incarnations
  <1>8. opens[e] > 0 => InitialSequences[e][opens[e]] \in Used(e)
    BY DEF Used
  <1>9. ASSUME opens[e] < Len(InitialSequences[e])
        PROVE  /\ NextIss(e) \in SeqNumbers
               /\ \A a \in Used(e), n \in SeqNumbers :
                     ~(Off(a, n) <= Reach /\ Off(NextIss(e), n) <= Reach)
    <2>1. opens[e] + 1 \in DOMAIN InitialSequences[e]
      BY <1>2, <1>9
    <2>2. NextIss(e) \in SeqNumbers
      BY <1>3, <2>1 DEF NextIss
    <2>3. ASSUME NEW a \in Used(e), NEW n \in SeqNumbers,
                 Off(a, n) <= Reach, Off(NextIss(e), n) <= Reach
          PROVE  FALSE
      <3>1. PICK i \in DOMAIN InitialSequences[e] : a = InitialSequences[e][i] /\ i <= opens[e]
        BY <1>5
      <3>2. i = opens[e] + 1
        BY <2>1, <2>3, <3>1, Incarnations DEF NextIss
      <3> QED BY <1>2, <3>1, <3>2
    <2> QED BY <2>2, <2>3
  <1> HIDE DEF Used, Off, Reach
  <1> QED BY <1>6, <1>7, <1>8, <1>9

(* The two ends.                                                           *)
LEMMA Two ==
    ASSUME NEW e \in Ends
    PROVE  /\ Peer(e) \in Ends /\ Peer(e) # e /\ Peer(Peer(e)) = e
           /\ \A x \in Ends : x = e \/ x = Peer(e)
           /\ e = "client" <=> Peer(e) = "server"
           /\ e = "server" <=> Peer(e) = "client"
  BY DEF Ends, Peer

-----------------------------------------------------------------------------
(* Control blocks                                                          *)

Blocks == ControlBlock({0, ReceiveWindow})
Incoming(s) == /\ s.seq \in SeqNumbers /\ s.ack \in SeqNumbers
               /\ s.wnd = ReceiveWindow /\ s.len \in {0, 1}
               /\ s.flags \in SUBSET (Flags \ {"rst"})

(* A handler's result that keeps the block: what it may answer.            *)
Keeps(c, o) ==
    /\ o.control = c
    /\ o.outbound \subseteq (CASE c.state = "syn_sent" -> {}
                               [] c.state = "syn_received" -> {MakeSynAck(c)}
                               [] OTHER -> {MakeAck(c)})

(* The SYN-ACK that an active open waits for.                              *)
Opens(c, s, o) ==
    /\ c.state = "syn_sent" /\ {"syn", "ack"} \subseteq s.flags /\ s.ack = c.nxt
    /\ o.control.state = "established" /\ o.control.iss = c.iss
    /\ o.control.una = c.nxt /\ o.control.nxt = c.nxt /\ o.control.rcv = Plus(s.seq, 1)
    /\ o.outbound = {MakeAck(o.control)}

(* A segment in order that acknowledges all that was sent.                 *)
Takes(c, s, o) ==
    /\ c.state # "syn_sent" /\ "ack" \in s.flags /\ s.ack = c.nxt /\ s.seq = c.rcv
    /\ o.control.state \notin {"syn_sent", "syn_received"} /\ o.control.iss = c.iss
    /\ o.control.una = c.nxt /\ o.control.nxt = c.nxt
    /\ o.control.rcv = Plus(c.rcv, SegLen(s))
    /\ o.control.state \in {"established", "close_wait"} =>
          c.state \in {"syn_received", "established", "close_wait"}
    /\ o.outbound \subseteq {MakeAck(o.control)}

(* The length of a segment.                                                *)
LEMMA SegLenType ==
    ASSUME NEW s, Incoming(s)
    PROVE  /\ SegLen(s) \in Nat /\ SegLen(s) <= 2
           /\ SegLen(s) = s.len + (IF Has(s, "fin") THEN 1 ELSE 0)
           /\ ~Has(s, "fin") /\ s.len = 0 => SegLen(s) = 0
           /\ Has(s, "fin") /\ s.len = 0 => SegLen(s) = 1
           /\ ~Has(s, "rst")
  BY DEF Incoming, SegLen, Has

(* Consume(), field by field.                                              *)
LEMMA ConsumeFields ==
    ASSUME NEW c \in Blocks, NEW s, Incoming(s), NEW k \in Nat, k <= 2
    PROVE  LET d == Consume(c, s, k)
           IN /\ d \in Blocks /\ d.state = c.state /\ d.iss = c.iss /\ d.una = s.ack
              /\ d.nxt = c.nxt /\ d.rcv = Plus(c.rcv, k)
  <1>1. c.rcv \in SeqNumbers
    BY DEF Blocks, ControlBlock
  <1>2. Plus(c.rcv, k) \in SeqNumbers
    BY <1>1, PlusType, Reaches
  <1> HIDE DEF SeqNumbers
  <1> QED BY <1>2 DEF Consume, Blocks, ControlBlock, Incoming

(* A block with another state and timer, or another state.                 *)
ToState(c, st, tm) == [c EXCEPT !.state = st, !.timer = tm]
InState(c, st) == [c EXCEPT !.state = st]

(* Only those fields change.                                               *)
LEMMA ToStateFields ==
    ASSUME NEW c \in Blocks, NEW st \in States, NEW tm \in BOOLEAN
    PROVE  /\ LET d == ToState(c, st, tm)
              IN /\ d \in Blocks /\ d.state = st /\ d.iss = c.iss /\ d.una = c.una
                 /\ d.nxt = c.nxt /\ d.rcv = c.rcv
           /\ LET d == InState(c, st)
              IN /\ d \in Blocks /\ d.state = st /\ d.iss = c.iss /\ d.una = c.una
                 /\ d.nxt = c.nxt /\ d.rcv = c.rcv
  BY DEF ToState, InState, Blocks, ControlBlock

(* What a rejection leaves.                                                *)
LEMMA Rejections ==
    ASSUME NEW c \in Blocks
    PROVE  /\ Keeps(c, Reject(c))
           /\ c.state \notin {"syn_sent", "syn_received"} => Keeps(c, AcknowledgeRejection(c))
           /\ c.state = "syn_received" => Keeps(c, Accepted(c, {MakeSynAck(c)}))
  BY DEF Keeps, Reject, AcknowledgeRejection, Accepted

(* Results that take a segment.                                            *)
LEMMA Taking ==
    ASSUME NEW c \in Blocks, NEW s, Incoming(s), NEW d \in Blocks, NEW out,
           c.state # "syn_sent", "ack" \in s.flags, s.ack = c.nxt, s.seq = c.rcv,
           d.state \notin {"syn_sent", "syn_received"}, d.iss = c.iss,
           d.una = s.ack, d.nxt = c.nxt, d.rcv = Plus(c.rcv, SegLen(s)),
           d.state \in {"established", "close_wait"} =>
               c.state \in {"syn_received", "established", "close_wait"},
           out \subseteq {MakeAck(d)}
    PROVE  Accepted(d, out).control \in Blocks /\ Takes(c, s, Accepted(d, out))
  <1> DEFINE o == Accepted(d, out)
  <1>1. o.control = d /\ o.outbound = out
    BY DEF Accepted
  <1> HIDE DEF o
  <1>2. o.control \in Blocks /\ Takes(c, s, o)
    BY <1>1 DEF Takes
  <1> QED BY <1>2 DEF o

(* SYN_SENT.                                                               *)
LEMMA SynSentShape ==
    ASSUME NEW c \in Blocks, NEW s, Incoming(s), c.state = "syn_sent"
    PROVE  LET o == HandleSynSent(c, s)
           IN o.control \in Blocks /\ (Keeps(c, o) \/ Opens(c, s, o))
  <1> DEFINE e == [c EXCEPT !.una = s.ack, !.rcv = Plus(s.seq, 1), !.wnd = s.wnd,
                            !.state = "established", !.timer = FALSE]
             o == HandleSynSent(c, s)
  <1>1. /\ e \in Blocks /\ e.state = "established" /\ e.iss = c.iss /\ e.una = s.ack
        /\ e.nxt = c.nxt /\ e.rcv = Plus(s.seq, 1)
    <2>1. Plus(s.seq, 1) \in SeqNumbers
      BY OffNext DEF Incoming
    <2> HIDE DEF SeqNumbers
    <2> QED BY <2>1 DEF Blocks, ControlBlock, Incoming, States
  <1>2. \/ o = Reject(c)
        \/ /\ o = Accepted(e, {MakeAck(e)})
           /\ Has(s, "ack") /\ s.ack = c.nxt /\ Has(s, "syn")
    <2>1. ~Has(s, "rst")
      BY SegLenType
    <2>2. CASE s.len # 0 \/ ~Has(s, "ack") \/ s.ack # c.nxt
      BY <2>1, <2>2 DEF HandleSynSent
    <2>3. CASE ~(s.len # 0 \/ ~Has(s, "ack") \/ s.ack # c.nxt)
      <3>1. CASE Has(s, "syn") /\ ~Has(s, "fin")
        BY <2>1, <2>3, <3>1 DEF HandleSynSent
      <3>2. CASE ~(Has(s, "syn") /\ ~Has(s, "fin"))
        BY <2>1, <2>3, <3>2 DEF HandleSynSent
      <3> QED BY <3>1, <3>2
    <2> QED BY <2>2, <2>3
  <1> HIDE DEF e
  <1>3. CASE o = Reject(c)
    <2>1. o.control = c
      BY <1>3 DEF Reject
    <2> QED BY <1>3, <2>1, Rejections
  <1>4. CASE /\ o = Accepted(e, {MakeAck(e)})
             /\ Has(s, "ack") /\ s.ack = c.nxt /\ Has(s, "syn")
    <2>1. o.control = e /\ o.outbound = {MakeAck(e)}
      BY <1>4 DEF Accepted
    <2> HIDE DEF o
    <2> QED BY <1>1, <1>4, <2>1 DEF Opens, Has, o
  <1> QED BY <1>2, <1>3, <1>4

(* SYN_RECEIVED.                                                           *)
LEMMA SynReceivedShape ==
    ASSUME NEW c \in Blocks, NEW s, Incoming(s), c.state = "syn_received"
    PROVE  LET o == HandleSynReceived(c, s)
           IN o.control \in Blocks /\ (Keeps(c, o) \/ Takes(c, s, o))
  <1> DEFINE d == Consume(c, s, 0)
             e == ToState(d, "established", FALSE)
             o == HandleSynReceived(c, s)
  <1>1. /\ d \in Blocks /\ d.state = c.state /\ d.iss = c.iss /\ d.una = s.ack
        /\ d.nxt = c.nxt /\ d.rcv = Plus(c.rcv, 0)
    BY ConsumeFields
  <1> HIDE DEF d
  <1>2. /\ e \in Blocks /\ e.state = "established" /\ e.iss = c.iss /\ e.una = s.ack
        /\ e.nxt = c.nxt /\ e.rcv = Plus(c.rcv, 0)
    <2>1. "established" \in States /\ FALSE \in BOOLEAN
      BY DEF States
    <2> QED BY <1>1, <2>1, ToStateFields
  <1>3. \/ o = Reject(c) \/ o = Accepted(c, {MakeSynAck(c)})
        \/ /\ o = Accepted(e, {})
           /\ s.flags = {"ack"} /\ s.len = 0 /\ s.seq = c.rcv /\ s.ack = c.nxt
    BY SegLenType DEF HandleSynReceived, ToState, d
  <1> HIDE DEF e
  <1>4. CASE o = Reject(c) \/ o = Accepted(c, {MakeSynAck(c)})
    <2>1. o.control = c
      BY <1>4 DEF Reject, Accepted
    <2> QED BY <1>4, <2>1, Rejections
  <1>5. CASE /\ o = Accepted(e, {})
             /\ s.flags = {"ack"} /\ s.len = 0 /\ s.seq = c.rcv /\ s.ack = c.nxt
    <2>1. SegLen(s) = 0 /\ "ack" \in s.flags
      BY <1>5, SegLenType DEF Has
    <2>2. Accepted(e, {}).control \in Blocks /\ Takes(c, s, Accepted(e, {}))
      BY <1>2, <1>5, <2>1, Taking
    <2> QED BY <1>5, <2>2
  <1> QED BY <1>3, <1>4, <1>5

(* ESTABLISHED.                                                            *)
LEMMA EstablishedShape ==
    ASSUME NEW c \in Blocks, NEW s, Incoming(s), c.state = "established"
    PROVE  LET o == HandleEstablished(c, s)
           IN o.control \in Blocks /\ (Keeps(c, o) \/ Takes(c, s, o))
  <1> DEFINE fin == Has(s, "fin")
             k == s.len + (IF fin THEN 1 ELSE 0)
             d == Consume(c, s, k)
             e == IF fin THEN InState(d, "close_wait") ELSE d
             out == IF fin \/ s.len # 0 THEN {MakeAck(e)} ELSE {}
             o == HandleEstablished(c, s)
  <1>1. k \in Nat /\ k <= 2 /\ k = SegLen(s)
    BY SegLenType
  <1> HIDE DEF k
  <1>2. /\ d \in Blocks /\ d.state = c.state /\ d.iss = c.iss /\ d.una = s.ack
        /\ d.nxt = c.nxt /\ d.rcv = Plus(c.rcv, k)
    BY <1>1, ConsumeFields
  <1> HIDE DEF d
  <1>3. /\ e \in Blocks /\ e.state \in {"established", "close_wait"} /\ e.iss = c.iss
        /\ e.una = s.ack /\ e.nxt = c.nxt /\ e.rcv = Plus(c.rcv, k)
    <2>1. "close_wait" \in States
      BY DEF States
    <2> QED BY <1>2, <2>1, ToStateFields
  <1>4. \/ o = Reject(c) \/ o = AcknowledgeRejection(c)
        \/ /\ o = Accepted(e, out)
           /\ Has(s, "ack") /\ s.seq = c.rcv /\ s.ack = c.nxt
    BY SegLenType DEF HandleEstablished, AcksAll, InState, d, k
  <1> HIDE DEF e, fin
  <1>5. CASE o = Reject(c) \/ o = AcknowledgeRejection(c)
    <2>1. o.control = c
      BY <1>5 DEF Reject, AcknowledgeRejection
    <2> QED BY <1>5, <2>1, Rejections
  <1>6. CASE o = Accepted(e, out) /\ Has(s, "ack") /\ s.seq = c.rcv /\ s.ack = c.nxt
    <2>1. out \subseteq {MakeAck(e)} /\ "ack" \in s.flags
      BY <1>6 DEF Has
    <2> HIDE DEF out
    <2>2. Accepted(e, out).control \in Blocks /\ Takes(c, s, Accepted(e, out))
      BY <1>1, <1>3, <1>6, <2>1, Taking
    <2> QED BY <1>6, <2>2
  <1> QED BY <1>4, <1>5, <1>6

(* The states after a FIN.                                                 *)
LEMMA FinWaitShape ==
    ASSUME NEW c \in Blocks, NEW s, Incoming(s), c.state \in {"fin_wait_1", "fin_wait_2"}
    PROVE  LET o == HandleFinWait(c, s, "fin_wait_2")
           IN o.control \in Blocks /\ (Keeps(c, o) \/ Takes(c, s, o))
  <1> DEFINE d1 == Consume(c, s, 1)
             d0 == Consume(c, s, 0)
             e == InState(d1, "time_wait")
             f == InState(d0, "fin_wait_2")
             o == HandleFinWait(c, s, "fin_wait_2")
  <1>1. /\ d1 \in Blocks /\ d1.iss = c.iss /\ d1.una = s.ack
        /\ d1.nxt = c.nxt /\ d1.rcv = Plus(c.rcv, 1)
        /\ d0 \in Blocks /\ d0.iss = c.iss /\ d0.una = s.ack
        /\ d0.nxt = c.nxt /\ d0.rcv = Plus(c.rcv, 0)
    BY ConsumeFields
  <1> HIDE DEF d1, d0
  <1>2. /\ e \in Blocks /\ e.iss = c.iss /\ e.una = s.ack /\ e.state = "time_wait"
        /\ e.nxt = c.nxt /\ e.rcv = Plus(c.rcv, 1)
        /\ f \in Blocks /\ f.iss = c.iss /\ f.una = s.ack /\ f.state = "fin_wait_2"
        /\ f.nxt = c.nxt /\ f.rcv = Plus(c.rcv, 0)
    <2>1. "time_wait" \in States /\ "fin_wait_2" \in States /\ TRUE \in BOOLEAN
      BY DEF States
    <2> QED BY <1>1, <2>1, ToStateFields
  <1>3. \/ o = Reject(c) \/ o = AcknowledgeRejection(c)
        \/ /\ \/ o = Accepted(e, {MakeAck(e)}) /\ Has(s, "fin")
              \/ o = Accepted(f, {}) /\ ~Has(s, "fin")
           /\ Has(s, "ack") /\ s.seq = c.rcv /\ s.ack = c.nxt /\ s.len = 0
    BY SegLenType DEF HandleFinWait, AcksAll, InState, d1, d0
  <1> HIDE DEF e, f
  <1>4. CASE o = Reject(c) \/ o = AcknowledgeRejection(c)
    <2>1. o.control = c
      BY <1>4 DEF Reject, AcknowledgeRejection
    <2> QED BY <1>4, <2>1, Rejections
  <1>5. CASE /\ o = Accepted(e, {MakeAck(e)}) /\ Has(s, "fin")
             /\ Has(s, "ack") /\ s.seq = c.rcv /\ s.ack = c.nxt /\ s.len = 0
    <2>1. SegLen(s) = 1 /\ "ack" \in s.flags
      BY <1>5, SegLenType DEF Has
    <2>2. LET x == Accepted(e, {MakeAck(e)}) IN x.control \in Blocks /\ Takes(c, s, x)
      BY <1>2, <1>5, <2>1, Taking
    <2> QED BY <1>5, <2>2
  <1>6. CASE /\ o = Accepted(f, {}) /\ ~Has(s, "fin")
             /\ Has(s, "ack") /\ s.seq = c.rcv /\ s.ack = c.nxt /\ s.len = 0
    <2>1. SegLen(s) = 0 /\ "ack" \in s.flags
      BY <1>6, SegLenType DEF Has
    <2>2. Accepted(f, {}).control \in Blocks /\ Takes(c, s, Accepted(f, {}))
      BY <1>2, <1>6, <2>1, Taking
    <2> QED BY <1>6, <2>2
  <1> QED BY <1>3, <1>4, <1>5, <1>6

(* The states of a passive close, and the quiet one.                       *)
LEMMA LastShape ==
    ASSUME NEW c \in Blocks, NEW s, Incoming(s)
    PROVE  /\ c.state = "close_wait" => Keeps(c, HandleCloseWait(c, s))
           /\ c.state = "time_wait" => Keeps(c, HandleTimeWait(c, s))
           /\ c.state = "last_ack" => LET o == HandleLastAck(c, s)
                                      IN o.control \in Blocks /\ (Keeps(c, o) \/ Takes(c, s, o))
  <1>1. HandleCloseWait(c, s) = Reject(c)
    BY SegLenType DEF HandleCloseWait
  <1>2. HandleTimeWait(c, s) \in {Reject(c), AcknowledgeRejection(c)}
    BY SegLenType DEF HandleTimeWait
  <1>3. ASSUME c.state = "last_ack"
        PROVE  LET o == HandleLastAck(c, s)
               IN o.control \in Blocks /\ (Keeps(c, o) \/ Takes(c, s, o))
    <2> DEFINE d == Consume(c, s, 0)
               g == InState(d, "closed")
               o == HandleLastAck(c, s)
    <2>1. d \in Blocks /\ d.iss = c.iss /\ d.una = s.ack /\ d.nxt = c.nxt /\ d.rcv = Plus(c.rcv, 0)
      BY ConsumeFields
    <2> HIDE DEF d
    <2>2. /\ g \in Blocks /\ g.iss = c.iss /\ g.una = s.ack /\ g.state = "closed"
          /\ g.nxt = c.nxt /\ g.rcv = Plus(c.rcv, 0)
      <3>1. "closed" \in States /\ TRUE \in BOOLEAN
        BY DEF States
      <3> QED BY <2>1, <3>1, ToStateFields
    <2>3. \/ o = Reject(c) \/ o = AcknowledgeRejection(c)
          \/ /\ o = Accepted(g, {}) /\ ~Has(s, "fin")
             /\ Has(s, "ack") /\ s.seq = c.rcv /\ s.ack = c.nxt /\ s.len = 0
      BY SegLenType DEF HandleLastAck, AcksAll, InState, d
    <2> HIDE DEF g
    <2>4. CASE o = Reject(c) \/ o = AcknowledgeRejection(c)
      <3>1. o.control = c
        BY <2>4 DEF Reject, AcknowledgeRejection
      <3> QED BY <1>3, <2>4, <3>1, Rejections
    <2>5. CASE /\ o = Accepted(g, {}) /\ ~Has(s, "fin")
               /\ Has(s, "ack") /\ s.seq = c.rcv /\ s.ack = c.nxt /\ s.len = 0
      <3>1. SegLen(s) = 0 /\ "ack" \in s.flags
        BY <2>5, SegLenType DEF Has
      <3>2. Accepted(g, {}).control \in Blocks /\ Takes(c, s, Accepted(g, {}))
        BY <1>3, <2>2, <2>5, <3>1, Taking
      <3> QED BY <2>5, <3>2
    <2> QED BY <2>3, <2>4, <2>5
  <1> QED BY <1>1, <1>2, <1>3, Rejections

(* handleSegment() of a block in use: it keeps the block, opens it, or     *)
(* takes the segment.                                                      *)
LEMMA HandleShape ==
    ASSUME NEW c \in Blocks, NEW s, Incoming(s), c.state \notin Dead
    PROVE  LET o == HandleSegment(c, s)
           IN o.control \in Blocks /\ (Keeps(c, o) \/ Opens(c, s, o) \/ Takes(c, s, o))
  <1> DEFINE o == HandleSegment(c, s)
  <1>1. c.state \in States
    BY DEF Blocks, ControlBlock
  <1>2. CASE c.state = "syn_sent"
    BY <1>2, SynSentShape DEF HandleSegment
  <1>3. CASE c.state = "syn_received"
    BY <1>3, SynReceivedShape DEF HandleSegment
  <1>4. CASE c.state = "established"
    BY <1>4, EstablishedShape DEF HandleSegment
  <1>5. CASE c.state \in {"fin_wait_1", "fin_wait_2"}
    BY <1>5, FinWaitShape DEF HandleSegment
  <1>6. CASE c.state = "last_ack"
    BY <1>6, LastShape DEF HandleSegment
  <1>7. CASE c.state \in {"close_wait", "time_wait"}
    <2>1. Keeps(c, o)
      BY <1>7, LastShape DEF HandleSegment
    <2> QED BY <2>1 DEF Keeps
  <1> QED BY <1>1, <1>2, <1>3, <1>4, <1>5, <1>6, <1>7 DEF States, Dead

-----------------------------------------------------------------------------
(* Segments                                                                *)

(* What an end with block k, connected to the peer's incarnation r, may    *)
(* send.                                                                   *)
Carries(s, k, r) ==
    /\ Incoming(s)
    /\ Off(k.iss, s.seq) + SegLen(s) <= Off(k.iss, k.nxt)
    /\ "syn" \in s.flags => s.seq = k.iss
    /\ "ack" \in s.flags => r # NoSeq /\ s.ack = k.rcv

(* The segments of the code carry what they should.                        *)
LEMMA Made ==
    ASSUME NEW k \in Blocks, NEW r
    PROVE  /\ Carries(MakeSyn(k), k, r)
           /\ r # NoSeq => Carries(MakeSynAck(k), k, r) /\ Carries(MakeAck(k), k, r)
  <1> DEFINE a == MakeSyn(k)
             b == MakeSynAck(k)
             d == MakeAck(k)
  <1>1. k.iss \in SeqNumbers /\ k.nxt \in SeqNumbers /\ k.rcv \in SeqNumbers /\ 0 \in SeqNumbers
    BY Reaches DEF Blocks, ControlBlock
  <1>2. Off(k.iss, k.iss) = 0 /\ Off(k.iss, k.nxt) \in Nat
    BY <1>1, OffType
  <1> HIDE DEF SeqNumbers, Off
  <1>3. /\ a.seq = k.iss /\ a.ack = 0 /\ a.flags = {"syn"} /\ a.wnd = ReceiveWindow /\ a.len = 0
        /\ b.seq = k.iss /\ b.ack = k.rcv /\ b.flags = {"syn", "ack"} /\ b.wnd = ReceiveWindow
        /\ b.len = 0
        /\ d.seq = k.nxt /\ d.ack = k.rcv /\ d.flags = {"ack"} /\ d.wnd = ReceiveWindow
        /\ d.len = 0
    BY DEF MakeSyn, MakeSynAck, MakeAck, Segment
  <1> HIDE DEF a, b, d
  <1>4. Incoming(a) /\ Incoming(b) /\ Incoming(d)
    BY <1>1, <1>3 DEF Incoming, Flags
  <1>5. SegLen(a) = 0 /\ SegLen(b) = 0 /\ SegLen(d) = 0
    BY <1>3 DEF SegLen
  <1>6. Carries(a, k, r) /\ (r # NoSeq => Carries(b, k, r) /\ Carries(d, k, r))
    BY <1>2, <1>3, <1>4, <1>5 DEF Carries
  <1> QED BY <1>6 DEF a, b, d

(* Application data and the FIN.                                           *)
LEMMA Pushed ==
    ASSUME NEW c \in Blocks, NEW k \in Blocks, NEW r, NEW s, r # NoSeq,
           k.iss = c.iss, k.rcv = c.rcv, Off(k.iss, k.nxt) = Off(c.iss, c.nxt) + 1,
           s.seq = c.nxt, s.ack = c.rcv, s.wnd = ReceiveWindow,
           \/ s.flags = {"psh", "ack"} /\ s.len = 1
           \/ s.flags = {"fin", "ack"} /\ s.len = 0
    PROVE  Carries(s, k, r)
  <1>1. c.iss \in SeqNumbers /\ c.nxt \in SeqNumbers /\ c.rcv \in SeqNumbers
    BY DEF Blocks, ControlBlock
  <1>2. Incoming(s)
    BY <1>1 DEF Incoming, Flags
  <1>3. SegLen(s) = 1
    BY DEF SegLen
  <1>4. Off(c.iss, c.nxt) \in Nat
    BY <1>1, OffType
  <1> HIDE DEF Off
  <1> QED BY <1>2, <1>3, <1>4 DEF Carries

(* Such a segment is sound when its sender's block and its peer's          *)
(* incarnation are.                                                        *)
LEMMA CarriedSound ==
    ASSUME NEW e \in Ends, NEW k \in Blocks, NEW r, NEW s, Carries(s, k, r),
           k.iss \in Used(e), Off(k.iss, k.nxt) <= Reach,
           r # NoSeq => r \in Used(Peer(e)) /\ Off(r, k.rcv) <= Reach
    PROVE  SegmentSound(e, s)
  <1>1. /\ Incoming(s) /\ Off(k.iss, s.seq) + SegLen(s) <= Off(k.iss, k.nxt)
        /\ "syn" \in s.flags => s.seq = k.iss
        /\ "ack" \in s.flags => r # NoSeq /\ s.ack = k.rcv
    BY DEF Carries
  <1>2. /\ Off(k.iss, s.seq) \in Nat /\ Off(k.iss, k.nxt) \in Nat /\ SegLen(s) \in Nat
        /\ Reach \in Nat
    <2>1. k.iss \in SeqNumbers /\ k.nxt \in SeqNumbers /\ s.seq \in SeqNumbers
      BY <1>1 DEF Blocks, ControlBlock, Incoming
    <2> QED BY <1>1, <2>1, OffType, SegLenType, Reaches
  <1> HIDE DEF Off, Reach, Used, SegLen
  <1>3. Off(k.iss, s.seq) + SegLen(s) <= Reach
    BY <1>1, <1>2
  <1>4. "ack" \in s.flags => \E b \in Used(Peer(e)) : Off(b, s.ack) <= Reach
    BY <1>1
  <1> QED BY <1>1, <1>3, <1>4 DEF SegmentSound, Incoming

-----------------------------------------------------------------------------
(* The operations of an end                                                *)

(* beginActiveOpen() and beginPassiveOpen().                               *)
LEMMA OpenFacts ==
    ASSUME NEW iss \in SeqNumbers, NEW s, Incoming(s)
    PROVE  /\ LET o == BeginActiveOpenAt(iss)
              IN /\ o.control \in Blocks /\ o.control.state = "syn_sent" /\ o.control.iss = iss
                 /\ o.control.una = iss /\ o.control.nxt = Plus(iss, 1)
                 /\ o.outbound = {MakeSyn(o.control)}
           /\ IsSyn(s) =>
              LET o == BeginPassiveOpenAt(iss, s)
              IN /\ o.control \in Blocks /\ o.control.state = "syn_received"
                 /\ o.control.iss = iss /\ o.control.una = iss /\ o.control.nxt = Plus(iss, 1)
                 /\ o.control.rcv = Plus(s.seq, 1) /\ o.outbound = {MakeSynAck(o.control)}
  <1> DEFINE a == [InitBlock EXCEPT !.state = "syn_sent", !.iss = iss, !.una = iss,
                                    !.nxt = Plus(iss, 1), !.timer = TRUE]
             b == [InitBlock EXCEPT !.state = "syn_received", !.iss = iss, !.una = iss,
                                    !.nxt = Plus(iss, 1), !.rcv = Plus(s.seq, 1),
                                    !.wnd = s.wnd, !.timer = TRUE]
  <1>1. /\ Plus(iss, 1) \in SeqNumbers /\ Plus(s.seq, 1) \in SeqNumbers
        /\ 0 \in SeqNumbers /\ 0 \in 0 .. MaxRetries /\ s.wnd \in {0, ReceiveWindow}
    BY OffNext, Reaches, ConnectionAssumption DEF Incoming
  <1> HIDE DEF SeqNumbers
  <1>2. /\ a \in Blocks /\ a.state = "syn_sent" /\ a.iss = iss /\ a.una = iss
        /\ a.nxt = Plus(iss, 1)
    BY <1>1 DEF InitBlock, Blocks, ControlBlock, States
  <1>3. /\ b \in Blocks /\ b.state = "syn_received" /\ b.iss = iss /\ b.una = iss
        /\ b.nxt = Plus(iss, 1) /\ b.rcv = Plus(s.seq, 1)
    BY <1>1 DEF InitBlock, Blocks, ControlBlock, States
  <1>4. BeginActiveOpenAt(iss) = Accepted(a, {MakeSyn(a)})
    BY DEF BeginActiveOpenAt
  <1>5. IsSyn(s) => BeginPassiveOpenAt(iss, s) = Accepted(b, {MakeSynAck(b)})
    BY DEF BeginPassiveOpenAt
  <1> HIDE DEF a, b
  <1> QED BY <1>2, <1>3, <1>4, <1>5 DEF Accepted

(* beginApplicationSend() of a byte.                                       *)
LEMMA SendFacts ==
    ASSUME NEW c \in Blocks, ApplicationSendReady(c), Off(c.iss, c.nxt) < MaxSpan
    PROVE  LET o == BeginApplicationSend(c, 1)
               k == o.control
           IN /\ k \in Blocks /\ k.state = "established" /\ k.iss = c.iss /\ k.una = c.una
              /\ k.rcv = c.rcv /\ Off(k.iss, k.nxt) = Off(c.iss, c.nxt) + 1
              /\ \A s \in o.outbound :
                    /\ s.seq = c.nxt /\ s.ack = c.rcv /\ s.wnd = ReceiveWindow
                    /\ s.flags = {"psh", "ack"} /\ s.len = 1
  <1> DEFINE k == [c EXCEPT !.nxt = Plus(@, 1)]
             s == [Segment(c.nxt, c.rcv, {"psh", "ack"}) EXCEPT !.len = 1]
             o == BeginApplicationSend(c, 1)
  <1>1. c.iss \in SeqNumbers /\ c.nxt \in SeqNumbers /\ c.wnd \in {0, ReceiveWindow}
    BY DEF Blocks, ControlBlock
  <1>2. Off(c.iss, c.nxt) + 1 <= Reach
    <2>1. Off(c.iss, c.nxt) \in Nat
      BY <1>1, OffType
    <2> HIDE DEF Off, Reach
    <2> QED BY <2>1, Reaches
  <1>3. /\ Plus(c.nxt, 1) \in SeqNumbers
        /\ Off(c.iss, Plus(c.nxt, 1)) = Off(c.iss, c.nxt) + 1
    BY <1>1, <1>2, OffPlus
  <1> HIDE DEF SeqNumbers, Off, Plus
  <1>4. /\ k \in Blocks /\ k.state = "established" /\ k.iss = c.iss /\ k.una = c.una
        /\ k.rcv = c.rcv /\ k.nxt = Plus(c.nxt, 1)
    BY <1>3 DEF Blocks, ControlBlock, ApplicationSendReady
  <1>5. o = Accepted(k, {s})
    <2>1. 1 <= c.wnd
      BY <1>1, ConnectionAssumption DEF ApplicationSendReady
    <2> QED BY <2>1 DEF BeginApplicationSend
  <1>6. /\ s.seq = c.nxt /\ s.ack = c.rcv /\ s.wnd = ReceiveWindow
        /\ s.flags = {"psh", "ack"} /\ s.len = 1
    BY DEF Segment
  <1> HIDE DEF k, s
  <1>7. o.control = k /\ o.outbound = {s}
    BY <1>5 DEF Accepted
  <1> QED BY <1>3, <1>4, <1>6, <1>7

(* beginClose().                                                           *)
LEMMA CloseFacts ==
    ASSUME NEW c \in Blocks, BeginClose(c).accepted
    PROVE  /\ c.state \in {"established", "close_wait"}
           /\ Off(c.iss, c.nxt) <= MaxSpan =>
                LET o == BeginClose(c)
                    k == o.control
                IN /\ k \in Blocks /\ k.state \in {"fin_wait_1", "last_ack"} /\ k.iss = c.iss
                   /\ k.una = c.una /\ k.rcv = c.rcv
                   /\ Off(k.iss, k.nxt) = Off(c.iss, c.nxt) + 1
                   /\ \A s \in o.outbound :
                         /\ s.seq = c.nxt /\ s.ack = c.rcv /\ s.wnd = ReceiveWindow
                         /\ s.flags = {"fin", "ack"} /\ s.len = 0
  <1> DEFINE after == [established |-> "fin_wait_1", close_wait |-> "last_ack"]
             st == after[c.state]
             k == [c EXCEPT !.state = st, !.nxt = Plus(@, 1)]
             s == Segment(c.nxt, c.rcv, {"fin", "ack"})
             o == BeginClose(c)
  <1>1. DOMAIN after = {"established", "close_wait"}
    OBVIOUS
  <1>2. c.state \in DOMAIN after
    BY DEF BeginClose, Reject
  <1>3. st \in {"fin_wait_1", "last_ack"}
    BY <1>1, <1>2
  <1>4. o = Accepted(k, {s})
    BY <1>2 DEF BeginClose
  <1>5. SUFFICES ASSUME Off(c.iss, c.nxt) <= MaxSpan
                 PROVE  /\ o.control \in Blocks /\ o.control.state \in {"fin_wait_1", "last_ack"}
                        /\ o.control.iss = c.iss /\ o.control.una = c.una
                        /\ o.control.rcv = c.rcv
                        /\ Off(o.control.iss, o.control.nxt) = Off(c.iss, c.nxt) + 1
                        /\ \A x \in o.outbound :
                              /\ x.seq = c.nxt /\ x.ack = c.rcv /\ x.wnd = ReceiveWindow
                              /\ x.flags = {"fin", "ack"} /\ x.len = 0
    BY <1>1, <1>2
  <1>6. c.iss \in SeqNumbers /\ c.nxt \in SeqNumbers
    BY DEF Blocks, ControlBlock
  <1>7. Off(c.iss, c.nxt) + 1 <= Reach
    <2>1. Off(c.iss, c.nxt) \in Nat
      BY <1>6, OffType
    <2> HIDE DEF Off, Reach
    <2> QED BY <1>5, <2>1, Reaches
  <1>8. Plus(c.nxt, 1) \in SeqNumbers /\ Off(c.iss, Plus(c.nxt, 1)) = Off(c.iss, c.nxt) + 1
    BY <1>6, <1>7, OffPlus
  <1> HIDE DEF SeqNumbers, Off, Plus, st
  <1>9. /\ k \in Blocks /\ k.state = st /\ k.iss = c.iss /\ k.una = c.una
        /\ k.rcv = c.rcv /\ k.nxt = Plus(c.nxt, 1)
    BY <1>3, <1>8 DEF Blocks, ControlBlock, States
  <1>10. /\ s.seq = c.nxt /\ s.ack = c.rcv /\ s.wnd = ReceiveWindow
         /\ s.flags = {"fin", "ack"} /\ s.len = 0
    BY DEF Segment
  <1> HIDE DEF k, s
  <1>11. o.control = k /\ o.outbound = {s}
    BY <1>4 DEF Accepted
  <1> QED BY <1>3, <1>8, <1>9, <1>10, <1>11

(* onTimer(): the SYN or the SYN-ACK again, or the end of the attempt.     *)
LEMMA TimerFacts ==
    ASSUME NEW c \in Blocks, TimerArmed(c)
    PROVE  LET o == OnTimer(c)
               k == o.control
           IN /\ k \in Blocks
              /\ \/ k.state = "timed_out" /\ o.outbound = {}
                 \/ /\ k.state = c.state /\ k.iss = c.iss /\ k.una = c.una /\ k.nxt = c.nxt
                    /\ k.rcv = c.rcv
                    /\ c.state = "syn_sent" => o.outbound = {MakeSyn(k)}
                    /\ c.state # "syn_sent" => o.outbound = {MakeSynAck(k)}
  <1> DEFINE a == ToState(c, "timed_out", FALSE)
             b == [c EXCEPT !.retries = @ + 1]
  <1>1. a \in Blocks /\ a.state = "timed_out"
    <2>1. "timed_out" \in States /\ FALSE \in BOOLEAN
      BY DEF States
    <2> QED BY <2>1, ToStateFields
  <1>2. ASSUME ~(c.retries >= MaxRetries)
        PROVE  /\ b \in Blocks /\ b.state = c.state /\ b.iss = c.iss /\ b.una = c.una
               /\ b.nxt = c.nxt /\ b.rcv = c.rcv
    <2>1. c.retries + 1 \in 0 .. MaxRetries
      BY <1>2, ConnectionAssumption DEF Blocks, ControlBlock
    <2> QED BY <2>1 DEF Blocks, ControlBlock
  <1>3. OnTimer(c) = IF c.retries >= MaxRetries THEN Accepted(a, {})
                     ELSE Accepted(b, {IF c.state = "syn_sent" THEN MakeSyn(c)
                                       ELSE MakeSynAck(c)})
    BY DEF OnTimer, ToState
  <1> HIDE DEF a, b
  <1>4. CASE c.retries >= MaxRetries
    BY <1>1, <1>3, <1>4 DEF Accepted
  <1>5. CASE ~(c.retries >= MaxRetries)
    <2>1. MakeSyn(b) = MakeSyn(c) /\ MakeSynAck(b) = MakeSynAck(c)
      BY <1>2, <1>5 DEF MakeSyn, MakeSynAck
    <2>2. /\ OnTimer(c).control = b
          /\ OnTimer(c).outbound = {IF c.state = "syn_sent" THEN MakeSyn(b) ELSE MakeSynAck(b)}
      BY <1>3, <1>5, <2>1 DEF Accepted
    <2> QED BY <1>2, <1>5, <2>2
  <1> QED BY <1>4, <1>5

-----------------------------------------------------------------------------
(* Steps                                                                   *)

(* What the invariant says of one end.                                     *)
LEMMA EndFacts ==
    ASSUME PairInv, NEW e \in Ends
    PROVE  /\ block[e] \in Blocks /\ opens[e] \in Nat /\ opens[e] <= Len(InitialSequences[e])
           /\ irs[e] \in SeqNumbers \union {NoSeq}
           /\ block[e].iss \in SeqNumbers /\ block[e].una \in SeqNumbers
           /\ block[e].nxt \in SeqNumbers /\ block[e].rcv \in SeqNumbers
           /\ BlockSound(e) /\ Agree(e)
           /\ Live(e) => block[e].iss \in Used(e)
  <1>1. /\ block[e] \in Blocks /\ opens[e] \in Nat /\ opens[e] <= Len(InitialSequences[e])
        /\ irs[e] \in SeqNumbers \union {NoSeq} /\ BlockSound(e) /\ Agree(e)
    BY DEF PairInv, TypeOK, Blocks
  <1>2. /\ block[e].iss \in SeqNumbers /\ block[e].una \in SeqNumbers
        /\ block[e].nxt \in SeqNumbers /\ block[e].rcv \in SeqNumbers
    BY <1>1 DEF Blocks, ControlBlock
  <1>3. Live(e) => block[e].iss \in Used(e)
    BY <1>1, UsedFacts DEF BlockSound
  <1> QED BY <1>1, <1>2, <1>3

(* A segment in the network, by its sender.                                *)
LEMMA NetFacts ==
    ASSUME PairInv, NEW e \in Ends, NEW s, <<e, s>> \in net
    PROVE  Incoming(s) /\ SegmentSound(Peer(e), s) /\ SegmentOf(Peer(e), s)
  <1> DEFINE m == <<e, s>>
  <1>1. m \in net /\ m[1] = e /\ m[2] = s
    OBVIOUS
  <1> HIDE DEF m
  <1>2. SegmentSound(Peer(e), s) /\ SegmentOf(Peer(e), s)
    BY <1>1 DEF PairInv, NetSound
  <1> QED BY <1>2 DEF SegmentSound, Incoming

(* New opens leave the old segments sound.                                 *)
LEMMA SoundKept ==
    ASSUME NEW e \in Ends, NEW s, SegmentSound(e, s), \A x \in Ends : Used(x) \subseteq Used(x)'
    PROVE  SegmentSound(e, s)'
  <1>1. Used(e) \subseteq Used(e)' /\ Used(Peer(e)) \subseteq Used(Peer(e))'
    BY Two
  <1> HIDE DEF Used, Off, Reach, SegLen
  <1> QED BY <1>1 DEF SegmentSound

(* An end that does not move.                                              *)
LEMMA Unmoved ==
    ASSUME NEW e \in Ends, block'[e] = block[e], irs'[e] = irs[e], NEW s
    PROVE  SegmentOf(e, s)' <=> SegmentOf(e, s)
  BY DEF SegmentOf, Live

(* The network after a step of end e: the old segments and the new ones.   *)
LEMMA NetStep ==
    ASSUME NetSound, NEW e \in Ends, NEW out,
           net' = net \union {<<Peer(e), s>> : s \in out},
           \A x \in Ends : Used(x) \subseteq Used(x)',
           block'[Peer(e)] = block[Peer(e)], irs'[Peer(e)] = irs[Peer(e)],
           \A s : SegmentSound(e, s) /\ SegmentOf(e, s) => SegmentOf(e, s)',
           \A s \in out : SegmentSound(e, s)' /\ SegmentOf(e, s)'
    PROVE  NetSound'
  <1> SUFFICES ASSUME NEW m \in net'
               PROVE  /\ m[1] \in Ends
                      /\ SegmentSound(Peer(m[1]), m[2])' /\ SegmentOf(Peer(m[1]), m[2])'
    BY DEF NetSound
  <1>1. CASE m \in net
    <2>1. m[1] \in Ends /\ SegmentSound(Peer(m[1]), m[2]) /\ SegmentOf(Peer(m[1]), m[2])
      BY <1>1 DEF NetSound
    <2>2. Peer(m[1]) \in Ends /\ (Peer(m[1]) = e \/ Peer(m[1]) = Peer(e))
      BY <2>1, Two
    <2>3. SegmentSound(Peer(m[1]), m[2])'
      BY <2>1, <2>2, SoundKept
    <2>4. CASE Peer(m[1]) = e
      BY <2>1, <2>3, <2>4
    <2>5. CASE Peer(m[1]) = Peer(e)
      <3>1. SegmentOf(Peer(e), m[2])' <=> SegmentOf(Peer(e), m[2])
        BY Unmoved, Two
      <3> QED BY <2>1, <2>3, <2>5, <3>1
    <2> QED BY <2>2, <2>4, <2>5
  <1>2. CASE m \notin net
    <2>1. PICK s \in out : m = <<Peer(e), s>>
      BY <1>2
    <2>2. m[1] = Peer(e) /\ m[2] = s
      BY <2>1
    <2>3. Peer(e) \in Ends /\ Peer(Peer(e)) = e
      BY Two
    <2> QED BY <2>2, <2>3
  <1> QED BY <1>1, <1>2

(* The invariant from its parts.                                           *)
LEMMA Parts ==
    ASSUME PairInv, NEW e \in Ends, NEW k \in Blocks, NEW r \in SeqNumbers \union {NoSeq}, NEW out,
           block' = [block EXCEPT ![e] = k], irs' = [irs EXCEPT ![e] = r],
           net' = net \union {<<Peer(e), s>> : s \in out}, \A s \in out : Incoming(s),
           opens' \in [Ends -> Nat], opens'[Peer(e)] = opens[Peer(e)],
           Used(e) \subseteq Used(e)', opens'[e] <= Len(InitialSequences[e]),
           NetSound', BlockSound(e)', Agree(e)', Agree(Peer(e))', HandshakeAgrees'
    PROVE  PairInv'
  <1>1. TypeOK'
    <2>1. block' \in [Ends -> Blocks] /\ irs' \in [Ends -> SeqNumbers \union {NoSeq}]
      BY DEF PairInv, TypeOK, Blocks
    <2>2. \A m \in net' : m[1] \in Ends /\ m[2].flags \subseteq Flags
      <3> TAKE m \in net'
      <3>1. CASE m \in net
        BY <3>1 DEF PairInv, TypeOK
      <3>2. CASE m \notin net
        <4>1. PICK s \in out : m = <<Peer(e), s>>
          BY <3>2
        <4>2. m[1] = Peer(e) /\ m[2] = s /\ s.flags \subseteq Flags
          BY <4>1 DEF Incoming
        <4> QED BY <4>2, Two
      <3> QED BY <3>1, <3>2
    <2> QED BY <2>1, <2>2 DEF TypeOK, Blocks
  <1>2. BlockSound(Peer(e))'
    <2>1. BlockSound(Peer(e)) /\ Peer(e) \in Ends /\ Peer(e) # e /\ Peer(Peer(e)) = e
      BY EndFacts, Two
    <2>2. /\ block'[Peer(e)] = block[Peer(e)] /\ irs'[Peer(e)] = irs[Peer(e)]
      BY <2>1 DEF PairInv, TypeOK
    <2> HIDE DEF Used, Off, Reach
    <2> QED BY <2>1, <2>2 DEF BlockSound, Live
  <1>3. opens'[Peer(e)] <= Len(InitialSequences[Peer(e)])
    BY EndFacts, Two
  <1>4. ASSUME NEW x \in Ends
        PROVE  opens'[x] <= Len(InitialSequences[x]) /\ BlockSound(x)' /\ Agree(x)'
    <2>1. x = e \/ x = Peer(e)
      BY Two
    <2>2. CASE x = e
      BY <2>2
    <2>3. CASE x = Peer(e)
      BY <1>2, <1>3, <2>3
    <2> QED BY <2>1, <2>2, <2>3
  <1> QED BY <1>1, <1>4 DEF PairInv

(* An end whose block goes out of use: nothing is said of it any more.     *)
LEMMA DeadStep ==
    ASSUME PairInv, NEW e \in Ends, NEW k \in Blocks, NEW r \in SeqNumbers \union {NoSeq}, NEW out,
           k.state \in Dead,
           block' = [block EXCEPT ![e] = k], irs' = [irs EXCEPT ![e] = r],
           net' = net \union {<<Peer(e), s>> : s \in out},
           \A s \in out : SegmentSound(e, s), opens' = opens
    PROVE  PairInv'
  <1> DEFINE p == Peer(e)
  <1>1. p \in Ends /\ p # e /\ Peer(p) = e
    BY Two
  <1>2. /\ block'[p] = block[p] /\ irs'[p] = irs[p] /\ block'[e] = k
        /\ opens' \in [Ends -> Nat] /\ NetSound
    BY <1>1 DEF PairInv, TypeOK
  <1>3. ~Live(e)'
    BY <1>2 DEF Live
  <1>4. \A x \in Ends : Used(x)' = Used(x)
    BY DEF Used
  <1>5. NetSound'
    <2>1. \A s : SegmentOf(e, s)'
      BY <1>3 DEF SegmentOf
    <2>2. \A s \in out : SegmentSound(e, s)'
      BY <1>4, SoundKept
    <2> QED BY <1>2, <1>4, <2>1, <2>2, NetStep
  <1>6. BlockSound(e)' /\ Agree(e)' /\ Agree(p)'
    BY <1>1, <1>3 DEF BlockSound, Agree
  <1>7. HandshakeAgrees'
    <2>1. CASE e = "client"
      BY <1>3, <2>1 DEF HandshakeAgrees, Live
    <2>2. CASE e = "server"
      BY <1>2, <2>2 DEF HandshakeAgrees, Dead, Synchronized
    <2> QED BY <2>1, <2>2 DEF Ends
  <1>8. \A s \in out : Incoming(s)
    BY DEF SegmentSound, Incoming
  <1>9. opens'[e] <= Len(InitialSequences[e])
    BY EndFacts
  <1> HIDE DEF p
  <1> QED BY <1>2, <1>4, <1>5, <1>6, <1>7, <1>8, <1>9, Parts DEF p

(* An end that goes on with its incarnation: send_next and receive_next    *)
(* only advance, and the peer's first number, once known, stays.           *)
LEMMA ReviseStep ==
    ASSUME PairInv, NEW e \in Ends, NEW k \in Blocks, NEW r \in SeqNumbers \union {NoSeq}, NEW out,
           Live(e), k.state \notin Dead, k.iss = block[e].iss,
           block' = [block EXCEPT ![e] = k], irs' = [irs EXCEPT ![e] = r],
           net' = net \union {<<Peer(e), s>> : s \in out}, opens' = opens,
           \A s \in out : Carries(s, k, r),
           Off(k.iss, block[e].nxt) <= Off(k.iss, k.nxt),
           \/ irs[e] = NoSeq
           \/ r = irs[e] /\ Off(r, block[e].rcv) <= Off(r, k.rcv),
           BlockSound(e)', Agree(e)',
           (/\ e = "server" /\ block[e].state \notin Synchronized /\ k.state \in Synchronized
            /\ Live(Peer(e)) /\ irs[e] = block[Peer(e)].iss)
               => r = irs[e] /\ irs[Peer(e)] = block[e].iss
    PROVE  PairInv'
  <1> DEFINE p == Peer(e)
             c == block[e]
             d == block[p]
  <1>1. p \in Ends /\ p # e /\ Peer(p) = e
    BY Two
  <1>2. /\ block'[p] = d /\ irs'[p] = irs[p] /\ block'[e] = k /\ irs'[e] = r
        /\ opens' \in [Ends -> Nat] /\ NetSound /\ HandshakeAgrees
    BY <1>1 DEF PairInv, TypeOK
  <1>3. \A x \in Ends : Used(x)' = Used(x)
    BY DEF Used
  <1>4. /\ c.iss \in SeqNumbers /\ c.nxt \in SeqNumbers /\ c.rcv \in SeqNumbers
        /\ k.iss \in SeqNumbers /\ k.nxt \in SeqNumbers /\ k.rcv \in SeqNumbers
        /\ d.iss \in SeqNumbers /\ d.una \in SeqNumbers /\ d.rcv \in SeqNumbers
        /\ BlockSound(e) /\ Agree(p) /\ BlockSound(p) /\ c.iss \in Used(e)
        /\ irs[p] \in SeqNumbers \union {NoSeq}
    BY <1>1, EndFacts DEF Blocks, ControlBlock
  <1>5. Live(e)' /\ (Live(p)' <=> Live(p))
    BY <1>2 DEF Live
  <1>6. NetSound'
    <2>1. ASSUME NEW s, SegmentSound(e, s), SegmentOf(e, s) PROVE SegmentOf(e, s)'
      <3> SUFFICES ASSUME Off(c.iss, s.seq) <= Reach
                   PROVE  /\ Off(c.iss, s.seq) + SegLen(s) <= Off(c.iss, k.nxt)
                          /\ "ack" \in s.flags => r # NoSeq /\ Off(r, s.ack) <= Off(r, k.rcv)
        BY <1>2 DEF SegmentOf
      <3>1. /\ Off(c.iss, s.seq) + SegLen(s) <= Off(c.iss, c.nxt)
            /\ "ack" \in s.flags => irs[e] # NoSeq /\ Off(irs[e], s.ack) <= Off(irs[e], c.rcv)
        BY <2>1 DEF SegmentOf
      <3>2. s.seq \in SeqNumbers /\ s.ack \in SeqNumbers /\ SegLen(s) \in Nat
        BY <2>1, SegLenType DEF SegmentSound, Incoming
      <3>3. /\ Off(c.iss, s.seq) \in Nat /\ Off(c.iss, c.nxt) \in Nat /\ Off(c.iss, k.nxt) \in Nat
        BY <1>4, <3>2, OffType
      <3>4. r # NoSeq => Off(r, s.ack) \in Nat /\ Off(r, c.rcv) \in Nat /\ Off(r, k.rcv) \in Nat
        BY <1>4, <3>2, OffType
      <3> HIDE DEF Off, Reach, SegLen
      <3> QED BY <3>1, <3>2, <3>3, <3>4
    <2>2. ASSUME NEW s \in out PROVE SegmentSound(e, s)' /\ SegmentOf(e, s)'
      <3>1. Carries(s, k, r)
        OBVIOUS
      <3>2. /\ Off(k.iss, k.nxt) <= Reach
            /\ r # NoSeq => r \in Used(Peer(e)) /\ Off(r, k.rcv) <= Reach
        <4>1. /\ Off(k.iss, k.nxt) \in 1 .. Reach
              /\ k.state = "syn_sent" => r = NoSeq
              /\ k.state # "syn_sent" => r \in Used(p) /\ Off(r, k.rcv) \in 1 .. Reach
          <5> HIDE DEF Off, Reach, Used, p
          <5> QED BY <1>1, <1>2, <1>3, <1>5 DEF BlockSound, p
        <4> HIDE DEF Off, Reach
        <4> QED BY <4>1, Reaches
      <3>3. SegmentSound(e, s)
        BY <1>4, <3>1, <3>2, CarriedSound
      <3>4. SegmentOf(e, s)'
        <4>1. /\ Off(k.iss, s.seq) + SegLen(s) <= Off(k.iss, k.nxt)
              /\ "ack" \in s.flags => r # NoSeq /\ s.ack = k.rcv
          BY <3>1 DEF Carries
        <4>2. r # NoSeq => Off(r, k.rcv) \in Nat
          BY <1>4, OffType
        <4> HIDE DEF Off, Reach, SegLen
        <4> QED BY <1>2, <4>1, <4>2 DEF SegmentOf
      <3> QED BY <1>3, <3>3, <3>4, SoundKept
    <2> QED BY <1>2, <1>3, <2>1, <2>2, NetStep
  <1>7. Agree(p)'
    <2> SUFFICES ASSUME Live(p), irs[p] = c.iss
                 PROVE  /\ Off(c.iss, d.rcv) <= Off(c.iss, k.nxt)
                        /\ r = d.iss => Off(d.iss, d.una) <= Off(d.iss, k.rcv)
      BY <1>1, <1>2, <1>5 DEF Agree
    <2>1. /\ Off(c.iss, d.rcv) <= Off(c.iss, c.nxt)
          /\ irs[e] = d.iss => Off(d.iss, d.una) <= Off(d.iss, c.rcv)
      BY <1>1, <1>4 DEF Agree
    <2>2. /\ Off(c.iss, d.rcv) \in Nat /\ Off(c.iss, c.nxt) \in Nat /\ Off(c.iss, k.nxt) \in Nat
          /\ Off(d.iss, d.una) \in Nat /\ Off(d.iss, c.rcv) \in Nat /\ Off(d.iss, k.rcv) \in Nat
          /\ Off(d.iss, d.iss) = 0
      BY <1>4, OffType
    <2>3. ASSUME irs[e] = NoSeq, r = d.iss PROVE Off(d.iss, d.una) = 0
      <3>1. c.state = "syn_sent" /\ e = "client" /\ p = "server"
        <4>1. c.state = "syn_sent"
          <5>1. c.state # "syn_sent" => irs[e] \in SeqNumbers
            <6>1. c.state # "syn_sent" => irs[e] \in Used(p)
              BY <1>4 DEF BlockSound
            <6>2. \A a \in Used(p) : a \in SeqNumbers
              BY <1>1, EndFacts, UsedFacts
            <6> QED BY <6>1, <6>2
          <5> QED BY <2>3, <5>1, Reaches
        <4> QED BY <1>4, <4>1, Two DEF BlockSound
      <3>2. d.state \notin Synchronized
        <4>1. d.state \in Synchronized => irs["client"] = d.iss
          BY <1>2, <3>1 DEF HandshakeAgrees, Live
        <4> QED BY <1>4, <2>3, <3>1, <4>1, Reaches
      <3>3. d.state = "syn_received"
        <4>1. d.state \in States
          BY <1>1, EndFacts DEF Blocks, ControlBlock
        <4>2. d.state # "syn_sent"
          <5>1. d.state = "syn_sent" => p = "client"
            BY <1>4 DEF BlockSound
          <5> QED BY <3>1, <5>1
        <4> QED BY <3>2, <4>1, <4>2 DEF Live, States, Dead, Synchronized
      <3>4. d.una = d.iss
        BY <1>4, <3>3 DEF BlockSound
      <3> QED BY <2>2, <3>4
    <2> HIDE DEF Off
    <2> QED BY <2>1, <2>2, <2>3
  <1>8. HandshakeAgrees'
    <2>1. CASE e = "client"
      <3>1. p = "server"
        BY <2>1, Two
      <3> SUFFICES ASSUME d.state \in Synchronized, c.iss = irs[p]
                   PROVE  r = d.iss
        BY <1>2, <2>1, <3>1 DEF HandshakeAgrees
      <3>2. irs[e] = d.iss
        BY <1>2, <2>1, <3>1 DEF HandshakeAgrees, Live
      <3> QED BY <1>4, <3>2, Reaches
    <2>2. CASE e = "server"
      <3>1. p = "client"
        BY <2>2, Two
      <3> SUFFICES ASSUME k.state \in Synchronized, Live(p), d.iss = r
                   PROVE  irs[p] = c.iss
        BY <1>2, <2>2, <3>1 DEF HandshakeAgrees, Live
      <3>2. c.state # "syn_sent" /\ irs[e] # NoSeq
        <4>1. c.state # "syn_sent"
          <5>1. c.state = "syn_sent" => e = "client"
            BY <1>4 DEF BlockSound
          <5> QED BY <2>2, <5>1
        <4>2. irs[e] \in Used(p)
          BY <1>4, <4>1 DEF BlockSound
        <4>3. \A a \in Used(p) : a \in SeqNumbers
          BY <1>1, EndFacts, UsedFacts
        <4> QED BY <4>1, <4>2, <4>3, Reaches
      <3>3. CASE c.state \in Synchronized
        BY <1>2, <2>2, <3>1, <3>2, <3>3 DEF HandshakeAgrees, Live
      <3>4. CASE c.state \notin Synchronized
        BY <2>2, <3>1, <3>2, <3>4
      <3> QED BY <3>3, <3>4
    <2> QED BY <2>1, <2>2 DEF Ends
  <1>9. \A s \in out : Incoming(s)
    BY DEF Carries
  <1>10. opens'[e] <= Len(InitialSequences[e]) /\ opens'[p] = opens[p] /\ Used(e) \subseteq Used(e)'
    BY <1>3, EndFacts
  <1> HIDE DEF p, c, d
  <1> QED BY <1>2, <1>6, <1>7, <1>8, <1>9, <1>10, Parts DEF p

(* A new incarnation: no segment and no peer knows its numbers yet.        *)
LEMMA OpenStep ==
    ASSUME PairInv, NEW e \in Ends, NEW k \in Blocks, NEW r \in SeqNumbers \union {NoSeq}, NEW out,
           CanOpen(e), k.iss = NextIss(e), k.una = k.iss, k.nxt = Plus(k.iss, 1),
           \/ e = "client" /\ k.state = "syn_sent" /\ r = NoSeq
           \/ /\ e = "server" /\ k.state = "syn_received" /\ r \in Used(Peer(e))
              /\ k.rcv = Plus(r, 1),
           block' = [block EXCEPT ![e] = k], irs' = [irs EXCEPT ![e] = r],
           net' = net \union {<<Peer(e), s>> : s \in out},
           opens' = [opens EXCEPT ![e] = @ + 1],
           \A s \in out : Carries(s, k, r)
    PROVE  PairInv'
  <1> DEFINE p == Peer(e)
             d == block[p]
             n == opens[e]
  <1>1. p \in Ends /\ p # e /\ Peer(p) = e
    BY Two
  <1>2. n \in Nat /\ n < Len(InitialSequences[e])
    BY EndFacts DEF CanOpen
  <1>3. /\ block'[p] = d /\ irs'[p] = irs[p] /\ block'[e] = k /\ irs'[e] = r
        /\ opens' \in [Ends -> Nat] /\ opens'[e] = n + 1 /\ opens'[p] = opens[p]
        /\ NetSound /\ HandshakeAgrees
    BY <1>1, <1>2 DEF PairInv, TypeOK
  <1>4. /\ k.iss \in SeqNumbers /\ k.nxt \in SeqNumbers /\ k.rcv \in SeqNumbers
        /\ d.iss \in SeqNumbers /\ d.rcv \in SeqNumbers /\ d.nxt \in SeqNumbers
        /\ BlockSound(p) /\ irs[p] \in SeqNumbers \union {NoSeq}
    BY <1>1, EndFacts DEF Blocks, ControlBlock
  <1>5. /\ \A a \in Used(e) : a \in SeqNumbers
        /\ \A a \in Used(e), x \in SeqNumbers : ~(Off(a, x) <= Reach /\ Off(k.iss, x) <= Reach)
    BY <1>2, EndFacts, UsedFacts
  <1>6. /\ \A a \in Used(p) : a \in SeqNumbers
    BY <1>1, EndFacts, UsedFacts
  <1>7. Used(e) \subseteq Used(e)' /\ Used(p)' = Used(p) /\ k.iss \in Used(e)'
    <2>1. Used(e)' = {InitialSequences[e][i] : i \in 1 .. n + 1}
      BY <1>3 DEF Used
    <2>2. 1 .. n \subseteq 1 .. n + 1 /\ n + 1 \in 1 .. n + 1
      BY <1>2
    <2> QED BY <1>3, <2>1, <2>2 DEF Used, NextIss
  <1>8. Off(k.iss, k.nxt) = 1 /\ Off(k.iss, k.iss) = 0
    BY <1>4, OffNext, OffType
  <1>9. k.state = "syn_received" => Off(r, k.rcv) = 1 /\ r \in SeqNumbers /\ r # NoSeq
    BY <1>6, OffNext, Reaches
  <1>10. Live(e)' /\ (Live(p)' <=> Live(p))
    BY <1>3 DEF Live, Dead
  <1>11. Live(p) => irs[p] # k.iss
    <2>1. Live(p) /\ d.state # "syn_sent" => irs[p] \in Used(e)
      BY <1>1, <1>4 DEF BlockSound
    <2>2. Live(p) /\ d.state = "syn_sent" => irs[p] = NoSeq
      BY <1>4 DEF BlockSound
    <2>3. k.iss \notin Used(e)
      <3>1. Off(k.iss, k.iss) <= Reach
        BY <1>8, Reaches
      <3> QED BY <1>4, <1>5, <3>1
    <2> QED BY <1>4, <2>1, <2>2, <2>3, Reaches
  <1>12. BlockSound(e)'
    <2>1. k.iss = InitialSequences[e][n + 1]
      BY DEF NextIss
    <2>2. 1 \in 1 .. Reach /\ n + 1 > 0
      BY <1>2, Reaches
    <2> HIDE DEF Off, Reach, Used, n, p
    <2> QED BY <1>3, <1>7, <1>8, <1>9, <2>1, <2>2 DEF BlockSound, p
  <1>13. NetSound'
    <2>1. ASSUME NEW s, SegmentSound(e, s), SegmentOf(e, s) PROVE SegmentOf(e, s)'
      <3>1. PICK a \in Used(e) : Off(a, s.seq) + SegLen(s) <= Reach
        BY <2>1 DEF SegmentSound
      <3>2. s.seq \in SeqNumbers /\ SegLen(s) \in Nat
        BY <2>1, SegLenType DEF SegmentSound, Incoming
      <3>3. Off(a, s.seq) \in Nat
        BY <1>5, <3>2, OffType
      <3> HIDE DEF Off, Reach, SegLen, Used
      <3>4. Off(a, s.seq) <= Reach
        BY <3>1, <3>2, <3>3, Reaches
      <3>5. ~(Off(k.iss, s.seq) <= Reach)
        BY <1>5, <3>2, <3>4
      <3> QED BY <1>3, <3>5 DEF SegmentOf
    <2>2. ASSUME NEW s \in out PROVE SegmentSound(e, s)' /\ SegmentOf(e, s)'
      <3>1. /\ Incoming(s) /\ Off(k.iss, s.seq) + SegLen(s) <= 1
            /\ "syn" \in s.flags => s.seq = k.iss
            /\ "ack" \in s.flags => r # NoSeq /\ s.ack = k.rcv
        BY <1>8 DEF Carries
      <3>2. r # NoSeq => r \in Used(p) /\ Off(r, k.rcv) = 1
        BY <1>9
      <3>3. Off(k.iss, s.seq) \in Nat /\ SegLen(s) \in Nat
        BY <1>4, <3>1, OffType, SegLenType DEF Incoming
      <3> HIDE DEF Off, Reach, SegLen, Used
      <3>4. Off(k.iss, s.seq) + SegLen(s) <= Reach
        BY <3>1, <3>3, Reaches
      <3>5. "ack" \in s.flags => \E b \in Used(p)' : Off(b, s.ack) <= Reach
        BY <1>7, <3>1, <3>2, Reaches
      <3>6. SegmentSound(e, s)'
        BY <1>7, <3>1, <3>4, <3>5 DEF SegmentSound, Incoming
      <3>7. SegmentOf(e, s)'
        BY <1>3, <1>8, <3>1, <3>2 DEF SegmentOf
      <3> QED BY <3>6, <3>7
    <2>3. \A x \in Ends : Used(x) \subseteq Used(x)'
      BY <1>7, Two
    <2> QED BY <1>3, <2>1, <2>2, <2>3, NetStep
  <1>14. Agree(e)'
    <2> SUFFICES ASSUME Live(p), r = d.iss
                 PROVE  Off(d.iss, k.rcv) <= Off(d.iss, d.nxt)
      BY <1>3, <1>10, <1>11 DEF Agree
    <2>1. k.state = "syn_received"
      BY <1>4, Reaches
    <2>2. Off(d.iss, k.rcv) = 1
      BY <1>9, <2>1
    <2>3. Off(d.iss, d.nxt) \in 1 .. Reach
      BY <1>4 DEF BlockSound
    <2> HIDE DEF Off, Reach
    <2> QED BY <2>2, <2>3, Reaches
  <1>15. Agree(p)'
    BY <1>1, <1>3, <1>10, <1>11 DEF Agree
  <1>16. HandshakeAgrees'
    <2>1. CASE e = "client"
      <3>1. p = "server"
        BY <2>1, Two
      <3>2. d.state \in Synchronized => Live(p)
        BY DEF Live, Synchronized, Dead
      <3> QED BY <1>3, <1>11, <2>1, <3>1, <3>2 DEF HandshakeAgrees
    <2>2. CASE e = "server"
      BY <1>3, <2>2 DEF HandshakeAgrees, Synchronized
    <2> QED BY <2>1, <2>2 DEF Ends
  <1>17. \A s \in out : Incoming(s)
    BY DEF Carries
  <1>18. opens'[e] <= Len(InitialSequences[e])
    <2>1. Len(InitialSequences[e]) \in Nat
      BY PairAssumption
    <2> QED BY <1>2, <1>3, <2>1
  <1> HIDE DEF p, d, n
  <1> QED BY <1>3, <1>7, <1>12, <1>13, <1>14, <1>15, <1>16, <1>17, <1>18, Parts DEF p

(* The result of an operation, applied.                                    *)
LEMMA Applied ==
    ASSUME PairInv, NEW e \in Ends, NEW o, Apply(e, o)
    PROVE  /\ block' = [block EXCEPT ![e] = o.control]
           /\ net' = net \union {<<Peer(e), s>> : s \in o.outbound}
           /\ irs = [irs EXCEPT ![e] = irs[e]]
  BY DEF Apply, PairInv, TypeOK

(* An active open: a fresh number, and no segment of it in the network.    *)
LEMMA ConnectStep == PairInv /\ Connect => PairInv'
  <1> SUFFICES ASSUME PairInv, Connect PROVE PairInv'
    OBVIOUS
  <1> DEFINE e == "client"
             o == BeginActiveOpenAt(NextIss(e))
  <1>1. e \in Ends /\ CanOpen(e) /\ Apply(e, o)
    BY DEF Ends, Connect
  <1>2. NextIss(e) \in SeqNumbers
    BY <1>1, EndFacts, UsedFacts DEF CanOpen
  <1>3. /\ o.control \in Blocks /\ o.control.state = "syn_sent" /\ o.control.iss = NextIss(e)
        /\ o.control.una = NextIss(e) /\ o.control.nxt = Plus(NextIss(e), 1)
        /\ o.outbound = {MakeSyn(o.control)}
    <2>1. Incoming(Segment(0, 0, {}))
      BY Reaches DEF Incoming, Segment
    <2> QED BY <1>2, <2>1, OpenFacts
  <1> HIDE DEF o
  <1>4. \A s \in o.outbound : Carries(s, o.control, NoSeq)
    BY <1>3, Made
  <1>5. /\ block' = [block EXCEPT ![e] = o.control]
        /\ net' = net \union {<<Peer(e), s>> : s \in o.outbound}
        /\ opens' = [opens EXCEPT ![e] = @ + 1] /\ irs' = [irs EXCEPT ![e] = NoSeq]
    BY <1>1, Applied DEF Connect
  <1> QED BY <1>1, <1>3, <1>4, <1>5, OpenStep

(* A passive open by any SYN that was ever sent, an old one included: the  *)
(* server is of a new incarnation and knows one of the client's.           *)
LEMMA PassiveOpenStep ==
    ASSUME PairInv, NEW seg, PassiveOpen(seg)
    PROVE  PairInv'
  <1> DEFINE e == "server"
             o == BeginPassiveOpenAt(NextIss(e), seg)
  <1>1. /\ e \in Ends /\ CanOpen(e) /\ Apply(e, o) /\ <<e, seg>> \in net /\ IsSyn(seg)
    BY DEF Ends, PassiveOpen
  <1>2. Incoming(seg) /\ seg.seq \in Used(Peer(e)) /\ seg.seq \in SeqNumbers /\ seg.seq # NoSeq
    BY <1>1, NetFacts, Reaches DEF SegmentSound, IsSyn
  <1>3. NextIss(e) \in SeqNumbers
    BY <1>1, EndFacts, UsedFacts DEF CanOpen
  <1>4. /\ o.control \in Blocks /\ o.control.state = "syn_received" /\ o.control.iss = NextIss(e)
        /\ o.control.una = NextIss(e) /\ o.control.nxt = Plus(NextIss(e), 1)
        /\ o.control.rcv = Plus(seg.seq, 1) /\ o.outbound = {MakeSynAck(o.control)}
    BY <1>1, <1>2, <1>3, OpenFacts
  <1> HIDE DEF o
  <1>5. \A s \in o.outbound : Carries(s, o.control, seg.seq)
    BY <1>2, <1>4, Made
  <1>6. /\ block' = [block EXCEPT ![e] = o.control]
        /\ net' = net \union {<<Peer(e), s>> : s \in o.outbound}
        /\ opens' = [opens EXCEPT ![e] = @ + 1] /\ irs' = [irs EXCEPT ![e] = seg.seq]
    BY <1>1, Applied DEF PassiveOpen
  <1> QED BY <1>1, <1>2, <1>4, <1>5, <1>6, OpenStep

(* A step that takes nothing from the peer: retransmission, an answer,     *)
(* data or a FIN.                                                          *)
LEMMA OwnStep ==
    ASSUME PairInv, NEW e \in Ends, NEW k \in Blocks, NEW out, Live(e), k.state \notin Dead,
           k.iss = block[e].iss, k.una = block[e].una, k.rcv = block[e].rcv,
           Off(k.iss, k.nxt) >= Off(k.iss, block[e].nxt), Off(k.iss, k.nxt) <= Reach,
           \/ k.state = block[e].state /\ k.nxt = block[e].nxt
           \/ /\ block[e].state \in {"established", "close_wait"}
              /\ \/ k.state = "established" /\ Off(k.iss, k.nxt) <= MaxSpan
                 \/ k.state \in {"fin_wait_1", "last_ack"},
           block' = [block EXCEPT ![e] = k],
           net' = net \union {<<Peer(e), s>> : s \in out},
           \A s \in out : Carries(s, k, irs[e]), irs' = irs, opens' = opens
    PROVE  PairInv'
  <1> DEFINE p == Peer(e)
             c == block[e]
             d == block[p]
  <1>1. p \in Ends /\ p # e /\ Peer(p) = e
    BY Two
  <1>2. /\ c \in Blocks /\ c.iss \in SeqNumbers /\ c.nxt \in SeqNumbers /\ c.rcv \in SeqNumbers
        /\ k.nxt \in SeqNumbers /\ irs[e] \in SeqNumbers \union {NoSeq}
        /\ BlockSound(e) /\ Agree(e)
    BY EndFacts DEF Blocks, ControlBlock
  <1>3. block'[p] = d /\ block'[e] = k /\ irs' = [irs EXCEPT ![e] = irs[e]]
    BY <1>1 DEF PairInv, TypeOK
  <1>4. Off(c.iss, c.nxt) \in Nat /\ Off(c.iss, k.nxt) \in Nat
    BY <1>2, OffType
  <1>5. Live(e)' /\ (Live(p)' <=> Live(p)) /\ \A x \in Ends : Used(x)' = Used(x)
    BY <1>3 DEF Live, Used
  <1>6. BlockSound(e)'
    <2>1. /\ opens[e] > 0 /\ c.iss = InitialSequences[e][opens[e]]
          /\ Off(c.iss, c.nxt) \in 1 .. Reach
          /\ c.state \in {"established", "close_wait"} => Off(c.iss, c.nxt) <= MaxSpan
          /\ c.state = "syn_sent" =>
                e = "client" /\ irs[e] = NoSeq /\ Off(c.iss, c.nxt) = 1
          /\ c.state = "syn_received" => e = "server" /\ c.una = c.iss /\ Off(c.iss, c.nxt) = 1
          /\ c.state # "syn_sent" => irs[e] \in Used(p) /\ Off(irs[e], c.rcv) \in 1 .. Reach
      BY <1>2 DEF BlockSound
    <2> HIDE DEF Off, Reach, Used
    <2>2. Off(c.iss, k.nxt) \in 1 .. Reach
      BY <1>4, <2>1, Reaches
    <2> HIDE DEF p
    <2>3. p \in Ends
      BY <1>1
    <2> QED BY <1>3, <1>5, <2>1, <2>2, <2>3 DEF BlockSound, p
  <1>7. Agree(e)'
    BY <1>2, <1>3, <1>5 DEF Agree
  <1>8. ~(c.state \notin Synchronized /\ k.state \in Synchronized)
    BY DEF Synchronized
  <1>9. irs[e] # NoSeq => Off(irs[e], c.rcv) \in Nat
    BY <1>2, OffType
  <1> HIDE DEF p, c, d
  <1>10. irs[e] = NoSeq \/ Off(irs[e], c.rcv) <= Off(irs[e], k.rcv)
    BY <1>9 DEF c
  <1>11. Off(k.iss, block[e].nxt) <= Off(k.iss, k.nxt)
    BY <1>4 DEF c
  <1> HIDE DEF Off
  <1> QED BY <1>2, <1>3, <1>6, <1>7, <1>8, <1>10, <1>11, ReviseStep DEF c

(* A send moves send_next by one and stays within the bound.               *)
LEMMA SendStep ==
    ASSUME PairInv, NEW e \in Ends, Send(e)
    PROVE  PairInv'
  <1> DEFINE c == block[e]
             o == BeginApplicationSend(c, 1)
             k == o.control
  <1>1. /\ c \in Blocks /\ c.iss \in SeqNumbers /\ c.nxt \in SeqNumbers /\ BlockSound(e)
        /\ irs[e] \in SeqNumbers \union {NoSeq}
    BY EndFacts
  <1>2. /\ Off(c.iss, c.nxt) < MaxSpan /\ ApplicationSendReady(c) /\ Apply(e, o)
        /\ opens' = opens /\ irs' = irs
    BY DEF Send, Span, Off
  <1>3. /\ k \in Blocks /\ k.state = "established" /\ k.iss = c.iss /\ k.una = c.una
        /\ k.rcv = c.rcv /\ Off(k.iss, k.nxt) = Off(c.iss, c.nxt) + 1
        /\ \A s \in o.outbound :
              /\ s.seq = c.nxt /\ s.ack = c.rcv /\ s.wnd = ReceiveWindow
              /\ s.flags = {"psh", "ack"} /\ s.len = 1
    BY <1>1, <1>2, SendFacts
  <1>4. block' = [block EXCEPT ![e] = k] /\ net' = net \union {<<Peer(e), s>> : s \in o.outbound}
    BY <1>2, Applied
  <1>5. c.state = "established" /\ Live(e) /\ k.state \notin Dead
    BY <1>2, <1>3 DEF ApplicationSendReady, Live, Dead
  <1>6. irs[e] # NoSeq
    <2>1. irs[e] \in Used(Peer(e))
      BY <1>1, <1>5 DEF BlockSound
    <2>2. \A a \in Used(Peer(e)) : a \in SeqNumbers
      BY EndFacts, Two, UsedFacts
    <2> QED BY <2>1, <2>2, Reaches
  <1> HIDE DEF k, o
  <1>7. \A s \in o.outbound : Carries(s, k, irs[e])
    BY <1>1, <1>3, <1>6, Pushed
  <1>8. Off(c.iss, c.nxt) \in Nat
    BY <1>1, OffType
  <1>9. /\ Off(k.iss, k.nxt) <= MaxSpan /\ Off(k.iss, k.nxt) <= Reach
        /\ Off(k.iss, k.nxt) >= Off(k.iss, c.nxt)
    <2> HIDE DEF Off, Reach
    <2> QED BY <1>2, <1>3, <1>8, Reaches
  <1> QED BY <1>2, <1>3, <1>4, <1>5, <1>7, <1>9, OwnStep

(* beginClose() sends the FIN behind everything sent.                      *)
LEMMA CloseStep ==
    ASSUME PairInv, NEW e \in Ends, Close(e)
    PROVE  PairInv'
  <1> DEFINE c == block[e]
             o == BeginClose(c)
             k == o.control
  <1>1. /\ c \in Blocks /\ c.iss \in SeqNumbers /\ c.nxt \in SeqNumbers /\ BlockSound(e)
        /\ irs[e] \in SeqNumbers \union {NoSeq}
    BY EndFacts
  <1>2. o.accepted /\ Apply(e, o) /\ opens' = opens /\ irs' = irs
    BY DEF Close
  <1>3. c.state \in {"established", "close_wait"}
    BY <1>1, <1>2, CloseFacts
  <1>4. Live(e)
    BY <1>3 DEF Live, Dead
  <1>5. Off(c.iss, c.nxt) <= MaxSpan /\ irs[e] \in Used(Peer(e))
    BY <1>1, <1>3, <1>4 DEF BlockSound
  <1>6. /\ k \in Blocks /\ k.state \in {"fin_wait_1", "last_ack"} /\ k.iss = c.iss
        /\ k.una = c.una /\ k.rcv = c.rcv /\ Off(k.iss, k.nxt) = Off(c.iss, c.nxt) + 1
        /\ \A s \in o.outbound :
              /\ s.seq = c.nxt /\ s.ack = c.rcv /\ s.wnd = ReceiveWindow
              /\ s.flags = {"fin", "ack"} /\ s.len = 0
    BY <1>1, <1>2, <1>5, CloseFacts
  <1>7. block' = [block EXCEPT ![e] = k] /\ net' = net \union {<<Peer(e), s>> : s \in o.outbound}
    BY <1>2, Applied
  <1>8. irs[e] # NoSeq
    <2>1. \A a \in Used(Peer(e)) : a \in SeqNumbers
      BY EndFacts, Two, UsedFacts
    <2> QED BY <1>5, <2>1, Reaches
  <1> HIDE DEF k, o
  <1>9. \A s \in o.outbound : Carries(s, k, irs[e])
    BY <1>1, <1>6, <1>8, Pushed
  <1>10. Off(c.iss, c.nxt) \in Nat
    BY <1>1, OffType
  <1>11. Off(k.iss, k.nxt) <= Reach /\ Off(k.iss, k.nxt) >= Off(k.iss, c.nxt)
    <2> HIDE DEF Off, Reach
    <2> QED BY <1>5, <1>6, <1>10, Reaches
  <1>12. k.state \notin Dead
    BY <1>6 DEF Dead
  <1> QED BY <1>2, <1>3, <1>4, <1>6, <1>7, <1>9, <1>11, <1>12, OwnStep

(* The distance of send_next is within reach and not below itself.         *)
LEMMA Within ==
    ASSUME PairInv, NEW e \in Ends, Live(e)
    PROVE  /\ Off(block[e].iss, block[e].nxt) <= Reach
           /\ Off(block[e].iss, block[e].nxt) >= Off(block[e].iss, block[e].nxt)
           /\ block[e].state # "syn_sent" => irs[e] # NoSeq
  <1>1. /\ Off(block[e].iss, block[e].nxt) \in 1 .. Reach
        /\ block[e].state # "syn_sent" => irs[e] \in Used(Peer(e))
    BY EndFacts DEF BlockSound
  <1>2. \A a \in Used(Peer(e)) : a \in SeqNumbers
    BY EndFacts, Two, UsedFacts
  <1> HIDE DEF Off, Reach, Used
  <1> QED BY <1>1, <1>2, Reaches

(* The timer repeats the SYN or the SYN-ACK, or gives up.                  *)
LEMMA TimerStep ==
    ASSUME PairInv, NEW e \in Ends, Timer(e)
    PROVE  PairInv'
  <1> DEFINE c == block[e]
             o == OnTimer(c)
             k == o.control
  <1>1. c \in Blocks /\ irs[e] \in SeqNumbers \union {NoSeq}
    BY EndFacts
  <1>2. TimerArmed(c) /\ Apply(e, o) /\ opens' = opens /\ irs' = irs
    BY DEF Timer
  <1>3. /\ k \in Blocks
        /\ \/ k.state = "timed_out" /\ o.outbound = {}
           \/ /\ k.state = c.state /\ k.iss = c.iss /\ k.una = c.una /\ k.nxt = c.nxt
              /\ k.rcv = c.rcv
              /\ c.state = "syn_sent" => o.outbound = {MakeSyn(k)}
              /\ c.state # "syn_sent" => o.outbound = {MakeSynAck(k)}
    BY <1>1, <1>2, TimerFacts
  <1>4. /\ block' = [block EXCEPT ![e] = k]
        /\ net' = net \union {<<Peer(e), s>> : s \in o.outbound}
        /\ irs' = [irs EXCEPT ![e] = irs[e]]
    BY <1>2, Applied
  <1>5. Live(e)
    BY <1>2 DEF TimerArmed, Live, Dead
  <1> HIDE DEF k, o
  <1>6. CASE k.state = "timed_out" /\ o.outbound = {}
    <2>1. k.state \in Dead
      BY <1>6 DEF Dead
    <2> QED BY <1>1, <1>2, <1>3, <1>4, <1>6, <2>1, DeadStep
  <1>7. CASE /\ k.state = c.state /\ k.iss = c.iss /\ k.una = c.una /\ k.nxt = c.nxt
             /\ k.rcv = c.rcv
             /\ c.state = "syn_sent" => o.outbound = {MakeSyn(k)}
             /\ c.state # "syn_sent" => o.outbound = {MakeSynAck(k)}
    <2>1. \A s \in o.outbound : Carries(s, k, irs[e])
      BY <1>3, <1>5, <1>7, Made, Within
    <2>2. k.state \notin Dead
      BY <1>5, <1>7 DEF Live
    <2> QED BY <1>2, <1>3, <1>4, <1>5, <1>7, <2>1, <2>2, Within, OwnStep
  <1> QED BY <1>3, <1>6, <1>7

(* The end of TIME-WAIT and a descriptor's close leave a dead block.       *)
LEMMA EndingSteps ==
    ASSUME PairInv, NEW e \in Ends, TimeWaitExpires(e) \/ Discard(e)
    PROVE  PairInv'
  <1> DEFINE none == {}
  <1>1. /\ block[e] \in Blocks /\ irs[e] \in SeqNumbers \union {NoSeq}
        /\ \A s \in none : SegmentSound(e, s)
    BY EndFacts
  <1>2. CASE TimeWaitExpires(e)
    <2> DEFINE k == InState(block[e], "closed")
    <2>1. k \in Blocks /\ k.state \in Dead
      <3>1. "closed" \in States /\ TRUE \in BOOLEAN
        BY DEF States
      <3> QED BY <1>1, <3>1, ToStateFields DEF Dead
    <2>2. ExpireTimeWait(block[e]) = Accepted(k, {}) /\ Apply(e, ExpireTimeWait(block[e]))
          /\ opens' = opens /\ irs' = irs
      BY <1>2 DEF TimeWaitExpires, ExpireTimeWait, InState
    <2> HIDE DEF k
    <2>3. ExpireTimeWait(block[e]).control = k /\ ExpireTimeWait(block[e]).outbound = {}
      BY <2>2 DEF Accepted
    <2>4. /\ block' = [block EXCEPT ![e] = k]
          /\ net' = net \union {<<Peer(e), s>> : s \in none}
          /\ irs' = [irs EXCEPT ![e] = irs[e]]
      BY <2>2, <2>3, Applied
    <2> HIDE DEF none
    <2> QED BY <1>1, <2>1, <2>2, <2>4, DeadStep
  <1>3. CASE Discard(e)
    <2>1. InitBlock \in Blocks /\ InitBlock.state \in Dead
      <3>1. 0 \in SeqNumbers /\ 0 \in 0 .. MaxRetries
        BY Reaches, ConnectionAssumption
      <3> HIDE DEF SeqNumbers
      <3> QED BY <3>1 DEF InitBlock, Blocks, ControlBlock, States, Dead
    <2>2. /\ block' = [block EXCEPT ![e] = InitBlock]
          /\ net' = net \union {<<Peer(e), s>> : s \in none}
          /\ irs' = [irs EXCEPT ![e] = NoSeq] /\ opens' = opens
      BY <1>3 DEF Discard
    <2> HIDE DEF InitBlock, none
    <2>3. NoSeq \in SeqNumbers \union {NoSeq}
      OBVIOUS
    <2> QED BY <1>1, <2>3, <2>1, <2>2, DeadStep
  <1> QED BY <1>2, <1>3

(* The SYN-ACK that the client waits for.                                  *)
LEMMA OpenedStep ==
    ASSUME PairInv, NEW e \in Ends, NEW seg, <<e, seg>> \in net, Live(e),
           NEW o, Opens(block[e], seg, o), o.control \in Blocks, Apply(e, o),
           opens' = opens, irs' = [irs EXCEPT ![e] = seg.seq]
    PROVE  PairInv'
  <1> DEFINE p == Peer(e)
             c == block[e]
             d == block[p]
             k == o.control
             r == seg.seq
  <1>1. p \in Ends /\ p # e /\ Peer(p) = e
    BY Two
  <1>2. /\ c.state = "syn_sent" /\ {"syn", "ack"} \subseteq seg.flags /\ seg.ack = c.nxt
        /\ k.state = "established" /\ k.iss = c.iss /\ k.una = c.nxt /\ k.nxt = c.nxt
        /\ k.rcv = Plus(r, 1) /\ o.outbound = {MakeAck(k)}
    BY DEF Opens
  <1>3. Incoming(seg) /\ r \in Used(p) /\ r \in SeqNumbers
    BY <1>2, NetFacts DEF SegmentSound
  <1>4. /\ c.iss \in SeqNumbers /\ c.nxt \in SeqNumbers /\ d.iss \in SeqNumbers
        /\ d.nxt \in SeqNumbers /\ d.rcv \in SeqNumbers /\ BlockSound(e) /\ BlockSound(p)
    BY <1>1, EndFacts
  <1>5. /\ opens[e] > 0 /\ c.iss = InitialSequences[e][opens[e]]
        /\ e = "client" /\ irs[e] = NoSeq /\ Off(c.iss, c.nxt) = 1
    BY <1>2, <1>4 DEF BlockSound
  <1>6. Off(r, k.rcv) = 1
    BY <1>2, <1>3, OffNext
  <1>7. /\ block' = [block EXCEPT ![e] = k] /\ block'[e] = k /\ block'[p] = d
        /\ net' = net \union {<<Peer(e), s>> : s \in o.outbound}
        /\ irs'[e] = r /\ irs'[p] = irs[p]
    <2>1. /\ block' = [block EXCEPT ![e] = o.control]
          /\ net' = net \union {<<Peer(e), s>> : s \in o.outbound}
      BY Applied
    <2>2. DOMAIN block = Ends /\ DOMAIN irs = Ends
      BY DEF PairInv, TypeOK
    <2> QED BY <1>1, <2>1, <2>2
  <1>8. Live(e)' /\ (Live(p)' <=> Live(p)) /\ k.state \notin Dead
    BY <1>2, <1>7 DEF Live, Dead
  <1>9. Used(p)' = Used(p)
    BY DEF Used
  <1>10. r # NoSeq
    BY <1>3, Reaches
  <1> HIDE DEF Off, Reach
  <1>11. BlockSound(e)'
    <2>1. 1 \in 1 .. Reach /\ 1 <= MaxSpan
      BY Reaches
    <2> HIDE DEF Used, c, p, r, k
    <2> QED BY <1>2, <1>3, <1>5, <1>6, <1>7, <1>9, <2>1 DEF BlockSound, p
  <1>12. Agree(e)'
    <2> SUFFICES ASSUME Live(p), r = d.iss
                 PROVE  /\ Off(d.iss, k.rcv) <= Off(d.iss, d.nxt)
                        /\ irs[p] = c.iss => Off(c.iss, k.una) <= Off(c.iss, d.rcv)
      BY <1>2, <1>7, <1>8 DEF Agree
    <2>1. /\ Off(d.iss, d.nxt) \in 1 .. Reach
          /\ d.state = "syn_sent" => irs[p] = NoSeq
          /\ d.state # "syn_sent" => Off(irs[p], d.rcv) \in 1 .. Reach
      BY <1>4 DEF BlockSound
    <2>2. irs[p] = c.iss => Off(c.iss, d.rcv) \in 1 .. Reach
      BY <1>4, <2>1, Reaches
    <2>3. Off(d.iss, k.rcv) <= Off(d.iss, d.nxt)
      BY <1>6, <2>1, Reaches
    <2>4. irs[p] = c.iss => Off(c.iss, k.una) <= Off(c.iss, d.rcv)
      BY <1>2, <1>5, <2>2, Reaches
    <2> QED BY <2>3, <2>4
  <1>13. \A s \in o.outbound : Carries(s, k, r)
    BY <1>2, <1>10, Made
  <1>14. Off(k.iss, c.nxt) <= Off(k.iss, k.nxt)
    BY <1>2, <1>5
  <1> HIDE DEF k, r
  <1> QED BY <1>2, <1>3, <1>5, <1>7, <1>8, <1>11, <1>12, <1>13, <1>14, ReviseStep DEF r, k

(* A segment in order.  Its sequence number is in the incarnation that the *)
(* receiver is connected to; if that is the peer's present one, the        *)
(* segment is of it, and what it acknowledges was received.                *)
LEMMA TakenStep ==
    ASSUME PairInv, NEW e \in Ends, NEW seg, <<e, seg>> \in net, Live(e),
           NEW o, Takes(block[e], seg, o), o.control \in Blocks, Apply(e, o),
           opens' = opens, irs' = irs
    PROVE  PairInv'
  <1> DEFINE p == Peer(e)
             c == block[e]
             d == block[p]
             k == o.control
             r == irs[e]
             n == SegLen(seg)
  <1>1. p \in Ends /\ p # e /\ Peer(p) = e
    BY Two
  <1>2. /\ c.state # "syn_sent" /\ "ack" \in seg.flags /\ seg.ack = c.nxt /\ seg.seq = c.rcv
        /\ k.state \notin {"syn_sent", "syn_received"} /\ k.iss = c.iss
        /\ k.una = c.nxt /\ k.nxt = c.nxt /\ k.rcv = Plus(c.rcv, n)
        /\ k.state \in {"established", "close_wait"} =>
              c.state \in {"syn_received", "established", "close_wait"}
        /\ o.outbound \subseteq {MakeAck(k)}
    BY DEF Takes
  <1>3. Incoming(seg) /\ SegmentSound(p, seg) /\ SegmentOf(p, seg) /\ n \in Nat
    BY NetFacts, SegLenType
  <1>4. /\ c.iss \in SeqNumbers /\ c.nxt \in SeqNumbers /\ c.rcv \in SeqNumbers
        /\ d.iss \in SeqNumbers /\ d.nxt \in SeqNumbers /\ d.rcv \in SeqNumbers
        /\ c.una \in SeqNumbers /\ BlockSound(e) /\ BlockSound(p) /\ c.iss \in Used(e)
        /\ opens[e] \in Nat /\ opens[e] <= Len(InitialSequences[e])
        /\ opens[p] \in Nat /\ opens[p] <= Len(InitialSequences[p])
    BY <1>1, EndFacts
  <1>5. /\ opens[e] > 0 /\ c.iss = InitialSequences[e][opens[e]]
        /\ Off(c.iss, c.nxt) \in 1 .. Reach
        /\ c.state \in {"established", "close_wait"} => Off(c.iss, c.nxt) <= MaxSpan
        /\ c.state = "syn_received" => Off(c.iss, c.nxt) = 1
        /\ r \in Used(p) /\ Off(r, c.rcv) \in 1 .. Reach
    BY <1>2, <1>4 DEF BlockSound
  <1>6. r \in SeqNumbers /\ r # NoSeq
    BY <1>1, <1>4, <1>5, UsedFacts, Reaches
  <1> HIDE DEF Off, Reach, Used, n
  <1>7. Off(r, c.rcv) \in Nat /\ Off(r, c.rcv) >= 1 /\ Off(r, c.rcv) <= Reach
    BY <1>5, Reaches
  <1>8. Off(r, c.rcv) + n <= Reach
    <2>1. PICK a \in Used(p) : Off(a, seg.seq) + n <= Reach
      BY <1>3 DEF SegmentSound, n
    <2>2. Off(a, c.rcv) \in Nat
      BY <1>1, <1>4, <2>1, UsedFacts, OffType
    <2>3. Off(a, c.rcv) <= Reach
      BY <1>2, <1>3, <2>1, <2>2, Reaches
    <2>4. a = r
      BY <1>1, <1>4, <1>5, <1>7, <2>3, UsedFacts
    <2> QED BY <1>2, <2>1, <2>4
  <1>9. Off(r, k.rcv) = Off(r, c.rcv) + n /\ k.rcv \in SeqNumbers
    BY <1>2, <1>3, <1>4, <1>6, <1>8, OffPlus
  <1>10. /\ block' = [block EXCEPT ![e] = k] /\ block'[e] = k /\ block'[p] = d
         /\ net' = net \union {<<Peer(e), s>> : s \in o.outbound}
         /\ irs' = [irs EXCEPT ![e] = r] /\ irs'[e] = r /\ irs'[p] = irs[p]
    <2>1. /\ block' = [block EXCEPT ![e] = o.control]
          /\ net' = net \union {<<Peer(e), s>> : s \in o.outbound}
          /\ irs = [irs EXCEPT ![e] = irs[e]]
      BY Applied
    <2>2. DOMAIN block = Ends
      BY DEF PairInv, TypeOK
    <2> QED BY <1>1, <2>1, <2>2
  <1>11. \A s \in o.outbound : Carries(s, k, r)
    BY <1>2, <1>6, Made
  <1>12. CASE k.state \in Dead
    <2>1. \A s \in o.outbound : SegmentSound(e, s)
      <3>1. Off(k.iss, k.nxt) <= Reach /\ Off(r, k.rcv) <= Reach /\ k.iss \in Used(e)
        BY <1>2, <1>4, <1>5, <1>8, <1>9, Reaches
      <3> QED BY <1>5, <1>11, <3>1, CarriedSound
    <2>2. k \in Blocks /\ r \in SeqNumbers \union {NoSeq}
      BY <1>6
    <2> HIDE DEF r, k
    <2> QED BY <1>10, <1>12, <2>1, <2>2, DeadStep
  <1>13. CASE k.state \notin Dead
    <2>1. Live(e)' /\ (Live(p)' <=> Live(p)) /\ Used(p)' = Used(p)
      BY <1>10, <1>13 DEF Live, Used
    <2>2. BlockSound(e)'
      <3>1. Off(r, k.rcv) \in 1 .. Reach
        BY <1>3, <1>7, <1>8, <1>9, Reaches
      <3>2. k.state \in {"established", "close_wait"} => Off(c.iss, c.nxt) <= MaxSpan
        BY <1>2, <1>5, Reaches
      <3> HIDE DEF c, p, r, k
      <3> QED BY <1>2, <1>5, <1>10, <2>1, <3>1, <3>2 DEF BlockSound, p
    <2>3. ASSUME Live(p), r = d.iss
          PROVE  /\ Off(d.iss, k.rcv) <= Off(d.iss, d.nxt)
                 /\ irs[p] # NoSeq /\ Off(irs[p], c.nxt) <= Off(irs[p], d.rcv)
      <3>1. /\ Off(d.iss, seg.seq) + n <= Off(d.iss, d.nxt)
            /\ irs[p] # NoSeq /\ Off(irs[p], seg.ack) <= Off(irs[p], d.rcv)
        BY <1>2, <1>3, <1>7, <2>3 DEF SegmentOf, n
      <3> QED BY <1>2, <1>9, <2>3, <3>1
    <2>4. Agree(e)'
      BY <1>2, <1>10, <2>1, <2>3 DEF Agree
    <2>5. ASSUME Live(p), r = d.iss PROVE irs[p] = c.iss
      <3>1. d.state # "syn_sent"
        BY <1>4, <2>3, <2>5 DEF BlockSound
      <3>2. irs[p] \in Used(e) /\ Off(irs[p], d.rcv) \in 1 .. Reach
        BY <1>1, <1>4, <2>5, <3>1 DEF BlockSound
      <3>3. Off(irs[p], c.nxt) \in Nat
        BY <1>4, <3>2, UsedFacts, OffType
      <3>4. Off(irs[p], c.nxt) <= Reach /\ Off(c.iss, c.nxt) <= Reach
        BY <1>5, <2>3, <2>5, <3>2, <3>3, Reaches
      <3> QED BY <1>4, <3>2, <3>4, UsedFacts
    <2>6. Off(r, c.rcv) <= Off(r, k.rcv)
      BY <1>3, <1>7, <1>9
    <2>7. Off(k.iss, c.nxt) <= Off(k.iss, k.nxt)
      BY <1>2, <1>5, Reaches
    <2>8. k \in Blocks /\ r \in SeqNumbers \union {NoSeq}
      BY <1>6
    <2> HIDE DEF k, r, c, d, p
    <2> QED BY <1>2, <1>10, <1>11, <1>13, <2>2, <2>4, <2>5, <2>6, <2>7, <2>8, ReviseStep
            DEF c, d, p, r
  <1> QED BY <1>12, <1>13

(* Any delivery.                                                           *)
LEMMA DeliverStep ==
    ASSUME PairInv, NEW e \in Ends, NEW seg, Deliver(e, seg)
    PROVE  PairInv'
  <1> DEFINE c == block[e]
             o == HandleSegment(c, seg)
  <1>1. /\ <<e, seg>> \in net /\ Live(e) /\ Apply(e, o) /\ opens' = opens
        /\ irs' = IF c.state = "syn_sent" /\ block'[e].state = "established"
                  THEN [irs EXCEPT ![e] = seg.seq] ELSE irs
    BY DEF Deliver, Live
  <1>2. c \in Blocks /\ Incoming(seg)
    BY <1>1, EndFacts, NetFacts
  <1>3. o.control \in Blocks /\ (Keeps(c, o) \/ Opens(c, seg, o) \/ Takes(c, seg, o))
    BY <1>1, <1>2, HandleShape DEF Live
  <1> HIDE DEF o
  <1>4. /\ block' = [block EXCEPT ![e] = o.control] /\ block'[e] = o.control
        /\ net' = net \union {<<Peer(e), s>> : s \in o.outbound}
    <2>1. /\ block' = [block EXCEPT ![e] = o.control]
          /\ net' = net \union {<<Peer(e), s>> : s \in o.outbound}
      BY <1>1, Applied
    <2>2. DOMAIN block = Ends
      BY DEF PairInv, TypeOK
    <2> QED BY <2>1, <2>2
  <1>5. CASE Keeps(c, o)
    <2>1. o.control = c /\ irs' = irs
      BY <1>1, <1>4, <1>5 DEF Keeps
    <2>2. \A s \in o.outbound : Carries(s, c, irs[e])
      <3>1. c.state = "syn_sent" => o.outbound = {}
        BY <1>5 DEF Keeps
      <3>2. c.state # "syn_sent" => o.outbound \subseteq {MakeSynAck(c), MakeAck(c)}
        BY <1>5 DEF Keeps
      <3> QED BY <1>1, <1>2, <3>1, <3>2, Made, Within
    <2>3. c.state \notin Dead
      BY <1>1 DEF Live
    <2> QED BY <1>1, <1>2, <1>4, <2>1, <2>2, <2>3, Within, OwnStep
  <1>6. CASE Opens(c, seg, o)
    <2>1. irs' = [irs EXCEPT ![e] = seg.seq]
      BY <1>1, <1>4, <1>6 DEF Opens
    <2> QED BY <1>1, <1>3, <1>6, <2>1, OpenedStep
  <1>7. CASE Takes(c, seg, o)
    <2>1. irs' = irs
      BY <1>1, <1>7 DEF Takes
    <2> QED BY <1>1, <1>3, <1>7, <2>1, TakenStep
  <1> QED BY <1>3, <1>5, <1>6, <1>7

-----------------------------------------------------------------------------
(* The theorems                                                            *)

(* Nothing is sent and nobody is open at first.                            *)
LEMMA PairInit == Init => PairInv
  <1> SUFFICES ASSUME Init PROVE PairInv
    OBVIOUS
  <1>1. InitBlock \in Blocks /\ InitBlock.state \in Dead
    <2>1. 0 \in SeqNumbers /\ 0 \in 0 .. MaxRetries
      BY Reaches, ConnectionAssumption
    <2> HIDE DEF SeqNumbers
    <2> QED BY <2>1 DEF InitBlock, Blocks, ControlBlock, States, Dead
  <1> HIDE DEF InitBlock
  <1>2. \A e \in Ends : ~Live(e)
    BY <1>1 DEF Init, Live
  <1>3. TypeOK /\ NetSound
    BY <1>1 DEF Init, TypeOK, NetSound, Blocks
  <1>4. \A e \in Ends : opens[e] <= Len(InitialSequences[e]) /\ BlockSound(e) /\ Agree(e)
    <2> TAKE e \in Ends
    <2>1. opens[e] = 0 /\ Len(InitialSequences[e]) \in Nat
      BY PairAssumption DEF Init
    <2>2. opens[e] <= Len(InitialSequences[e])
      BY <2>1
    <2> QED BY <1>2, <2>2 DEF BlockSound, Agree
  <1>5. HandshakeAgrees
    BY <1>2 DEF HandshakeAgrees, Live, Ends
  <1> QED BY <1>3, <1>4, <1>5 DEF PairInv

(* Every step keeps the invariant.                                         *)
LEMMA PairStep == PairInv /\ [Next]_vars => PairInv'
  <1> SUFFICES ASSUME PairInv, [Next]_vars PROVE PairInv'
    OBVIOUS
  <1>1. CASE Connect
    BY <1>1, ConnectStep
  <1>2. CASE \E m \in net : PassiveOpen(m[2])
    BY <1>2, PassiveOpenStep
  <1>3. ASSUME NEW e \in Ends, Step(e)
        PROVE  PairInv'
    <2>1. CASE \E m \in net : Deliver(e, m[2])
      BY <2>1, DeliverStep
    <2>2. CASE Send(e)
      BY <2>2, SendStep
    <2>3. CASE Close(e)
      BY <2>3, CloseStep
    <2>4. CASE Timer(e)
      BY <2>4, TimerStep
    <2>5. CASE TimeWaitExpires(e) \/ Discard(e)
      BY <2>5, EndingSteps
    <2> QED BY <1>3, <2>1, <2>2, <2>3, <2>4, <2>5 DEF Step
  <1>4. CASE UNCHANGED vars
    BY <1>4 DEF vars, PairInv, TypeOK, NetSound, SegmentSound, SegmentOf, BlockSound, Agree,
                HandshakeAgrees, Live, Used
  <1> QED BY <1>1, <1>2, <1>3, <1>4 DEF Next

(* The inductive invariant of two connected control blocks: every segment  *)
(* ever sent belongs to an incarnation of its sender, and an end that is   *)
(* connected to the peer's present incarnation has received only what that *)
(* sent and counts as acknowledged only what the peer received.            *)
THEOREM PairInvariant == Spec => []PairInv
  BY PairInit, PairStep, PTL DEF Spec

(* send_unacknowledged never passes the peer's receive_next, nor that      *)
(* send_next: the handlers take a segment only at receive_next and only    *)
(* with the acknowledgement send_next, so a lost, repeated, late or        *)
(* reordered segment of this or of an earlier incarnation moves nothing it *)
(* should not.                                                             *)
THEOREM SequencesAgree == Spec => []SequenceAgreement
  <1>1. PairInv => SequenceAgreement
    <2> SUFFICES ASSUME PairInv, Paired, NEW e \in Ends
                 PROVE  /\ Span(e, block[e].una) <= Span(e, block[Peer(e)].rcv)
                        /\ Span(e, block[Peer(e)].rcv) <= Span(e, block[e].nxt)
      BY DEF SequenceAgreement
    <2>1. Peer(e) \in Ends /\ Peer(Peer(e)) = e
      BY Two
    <2>2. /\ Live(e) /\ irs[e] = block[Peer(e)].iss
          /\ Live(Peer(e)) /\ irs[Peer(e)] = block[e].iss
      BY <2>1 DEF Paired, Live, Synchronized, Dead
    <2>3. Agree(e) /\ Agree(Peer(e))
      BY <2>1, EndFacts
    <2> QED BY <2>1, <2>2, <2>3 DEF Agree, Span, Off
  <1> QED BY <1>1, PairInvariant, PTL

(* A server that is synchronized with the client's present incarnation is  *)
(* the one that client accepted: handleSynReceived() wants an              *)
(* acknowledgement of its own SYN, which only a client that took its SYN-  *)
(* ACK has sent.                                                           *)
THEOREM HandshakesAgree == Spec => []HandshakeAgrees
  <1>1. PairInv => HandshakeAgrees
    BY DEF PairInv
  <1> QED BY <1>1, PairInvariant, PTL
=============================================================================
