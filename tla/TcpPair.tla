------------------------------- MODULE TcpPair -------------------------------
(***************************************************************************)
(* Two control blocks of src/tcp_connection.zig, one opened actively and   *)
(* one passively, over a network that loses, duplicates and reorders: a    *)
(* segment once sent may be delivered any number of times, at any time, to *)
(* any later incarnation of its target, or never.  A descriptor's close    *)
(* discards the block without a word to the peer (closeExternalSocket in   *)
(* src/runtime_user.zig), so either side may be half open.                 *)
(***************************************************************************)
EXTENDS TcpConnection, Sequences

(* The clock behind tcpInitialSequence() keeps the numbers of successive   *)
(* opens apart: PairAssumption says no incarnation reaches another's.      *)
CONSTANTS InitialSequences,  \* the numbers each end's successive opens use
          MaxSpan            \* bound: how far send_next may run from the start

Ends == {"client", "server"}
Peer(e) == IF e = "client" THEN "server" ELSE "client"
NoSeq == -1

ASSUME PairAssumption ==
    /\ InitialSequences \in [Ends -> Seq(SeqNumbers)]
    /\ MaxSpan \in 1 .. SeqModulus - 2
    /\ \A e \in Ends : \A i, j \in DOMAIN InitialSequences[e] :
          i # j => (InitialSequences[e][i] - InitialSequences[e][j]) % SeqModulus > MaxSpan + 1

VARIABLES block,   \* the control block of each end
          net,     \* every segment sent so far, with its target
          opens,   \* opens so far
          irs      \* history: the peer's first sequence number as each end took it

vars == <<block, net, opens, irs>>

Dead == {"closed", "reset", "timed_out"}
Synchronized == {"established", "fin_wait_1", "fin_wait_2", "close_wait",
                 "last_ack", "time_wait"}

Init ==
    /\ block = [e \in Ends |-> InitBlock]
    /\ net = {}
    /\ opens = [e \in Ends |-> 0]
    /\ irs = [e \in Ends |-> NoSeq]

(* The end keeps the result's block and sends its segment.                 *)
Apply(e, result) ==
    /\ block' = [block EXCEPT ![e] = result.control]
    /\ net' = net \union {<<Peer(e), seg>> : seg \in result.outbound}

CanOpen(e) == block[e].state \in Dead /\ opens[e] < Len(InitialSequences[e])
NextIss(e) == InitialSequences[e][opens[e] + 1]

Connect ==
    /\ CanOpen("client")
    /\ Apply("client", BeginActiveOpenAt(NextIss("client")))
    /\ opens' = [opens EXCEPT !["client"] = @ + 1]
    /\ irs' = [irs EXCEPT !["client"] = NoSeq]

PassiveOpen(seg) ==
    /\ <<"server", seg>> \in net
    /\ CanOpen("server")
    /\ IsSyn(seg)
    /\ Apply("server", BeginPassiveOpenAt(NextIss("server"), seg))
    /\ opens' = [opens EXCEPT !["server"] = @ + 1]
    /\ irs' = [irs EXCEPT !["server"] = seg.seq]

Deliver(e, seg) ==
    /\ <<e, seg>> \in net
    /\ block[e].state \notin Dead
    /\ Apply(e, HandleSegment(block[e], seg))
    /\ irs' = IF block[e].state = "syn_sent" /\ block'[e].state = "established"
              THEN [irs EXCEPT ![e] = seg.seq] ELSE irs
    /\ UNCHANGED opens

(* Distance from the first sequence number the end used.                   *)
Span(e, n) == (n - block[e].iss) % SeqModulus

Send(e) ==
    /\ Span(e, block[e].nxt) < MaxSpan
    /\ ApplicationSendReady(block[e])
    /\ Apply(e, BeginApplicationSend(block[e], 1))
    /\ UNCHANGED <<opens, irs>>

Close(e) ==
    /\ BeginClose(block[e]).accepted
    /\ Apply(e, BeginClose(block[e]))
    /\ UNCHANGED <<opens, irs>>

TimeWaitExpires(e) ==
    /\ block[e].state = "time_wait"
    /\ Apply(e, ExpireTimeWait(block[e]))
    /\ UNCHANGED <<opens, irs>>

Timer(e) ==
    /\ TimerArmed(block[e])
    /\ Apply(e, OnTimer(block[e]))
    /\ UNCHANGED <<opens, irs>>

(* The descriptor is closed: the block goes, the peer is not told.         *)
Discard(e) ==
    /\ block[e].state # "closed"
    /\ block' = [block EXCEPT ![e] = InitBlock]
    /\ irs' = [irs EXCEPT ![e] = NoSeq]
    /\ UNCHANGED <<net, opens>>

Step(e) ==
    \/ \E m \in net : Deliver(e, m[2])
    \/ Send(e)
    \/ Close(e)
    \/ TimeWaitExpires(e)
    \/ Timer(e)
    \/ Discard(e)

Next ==
    \/ Connect
    \/ \E m \in net : PassiveOpen(m[2])
    \/ \E e \in Ends : Step(e)

(* Every service pass calls onTimer() and ticks keep coming; nothing is    *)
(* assumed of the network or the applications.                             *)
Fairness == \A e \in Ends : WF_vars(Timer(e))
Spec == Init /\ [][Next]_vars
FairSpec == Spec /\ Fairness

-----------------------------------------------------------------------------
(* Properties.                                                             *)

TypeOK ==
    /\ block \in [Ends -> ControlBlock({0, ReceiveWindow})]
    /\ \A m \in net : m[1] \in Ends /\ m[2].flags \subseteq Flags
    /\ opens \in [Ends -> Nat]
    /\ irs \in [Ends -> SeqNumbers \union {NoSeq}]

(* Both ends are synchronized, and with each other's present incarnation.  *)
Paired ==
    \A e \in Ends : block[e].state \in Synchronized /\ irs[e] = block[Peer(e)].iss

(* What an end counts as acknowledged has been received, and nothing is    *)
(* received that was not sent: between two paired ends a lost, repeated or *)
(* late segment never makes send_unacknowledged pass the peer's            *)
(* receive_next, nor that pass send_next (the exact-sequence and exact-    *)
(* acknowledgement tests of the handlers).                                 *)
SequenceAgreement ==
    Paired => \A e \in Ends :
        /\ Span(e, block[e].una) <= Span(e, block[Peer(e)].rcv)
        /\ Span(e, block[Peer(e)].rcv) <= Span(e, block[e].nxt)

(* A server that considers the connection open has opened it with the      *)
(* client's SYN-ACK exchange of this very incarnation: an old duplicate    *)
(* SYN answered by handleSynReceived's timer never ends in "established"   *)
(* against a client that did not accept that SYN-ACK.                      *)
HandshakeAgrees ==
    (/\ block["server"].state \in Synchronized
     /\ block["client"].state \notin Dead
     /\ block["client"].iss = irs["server"])
        => irs["client"] = block["server"].iss

(* No end stays half open: retransmissions are bounded, so a SYN_SENT or   *)
(* SYN_RECEIVED block is established, reset or timed out, whatever the     *)
(* network does (onTimer).                                                 *)
HandshakeEnds ==
    \A e \in Ends : TimerArmed(block[e]) ~> ~TimerArmed(block[e])
=============================================================================
