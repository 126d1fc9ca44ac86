------------------------------ MODULE TcpSocket ------------------------------
(***************************************************************************)
(* TCP sockets of the user runtime (src/runtime_user.zig): the slot table, *)
(* the socket system calls and the service of segments and timers by       *)
(* serviceTcpConnects(), over the control blocks of TcpConnection.         *)
(*                                                                         *)
(* Descriptors are inherited by spawned processes, so processes share      *)
(* sockets; the last close releases the slot.  A blocked process sleeps on *)
(* the key (slot, generation); once woken it issues its call again, like   *)
(* any other call.  Peers send whatever they like.  A call that would      *)
(* block returns instead on a nonblocking socket or with MSG_DONTWAIT:     *)
(* nothing changes then.  A peer stands for MAC, address and port.         *)
(***************************************************************************)
EXTENDS TcpConnection, FiniteSets

CONSTANTS Procs,
          NumSlots,          \* maximum_socket_slots
          MaxBacklog,        \* maximum_tcp_backlog
          MaxGeneration,     \* bound: generations wrap after it, 2^32 - 1 in the code
          Ports,
          Peers,
          InitialSequences,  \* what tcpInitialSequence() may return
          Inbound,           \* the segments peers may send
          None               \* no port, connection, entry or wait

Slots == 1 .. NumSlots
Entries == 1 .. MaxBacklog
Readers == {"accept"}               \* blocked with WaitReason.socket_read
Writers == {"connect", "send"}      \* blocked with WaitReason.socket_write

(* The values of a backlog entry (TcpPendingConnection), of a connection   *)
(* (TcpConnection) and of the wait of a blocked process, None apart.       *)
Windows == {seg.wnd : seg \in Inbound} \union {0}
Pending == [peer : Peers, control : ControlBlock(Windows)]
Connection ==
    [peer : Peers, control : ControlBlock(Windows),
     status : {"connecting", "established", "refused", "timed_out", "io_failed"},
     writeShutdown : BOOLEAN]
Waiting == [call : Readers \union Writers, slot : Slots, gen : 1 .. MaxGeneration]

ASSUME SocketAssumption ==
    /\ {NumSlots, MaxBacklog, MaxGeneration} \subseteq Nat \ {0}
    /\ InitialSequences \subseteq SeqNumbers \ {0}
    /\ Inbound \subseteq [seq : SeqNumbers, ack : SeqNumbers, flags : SUBSET Flags,
                          wnd : Nat, len : Nat]
ASSUME NoneAssumption ==
    None \notin Ports /\ None \notin Pending /\ None \notin Connection /\ None \notin Waiting

VARIABLES sock,   \* socket_slots
          held,   \* the slots each process has a descriptor of
          wait    \* what each blocked process waits for

vars == <<sock, held, wait>>

(* SocketSlot: tcp_bound_port, listener (backlog 0 is none; its pending    *)
(* entries) and tcp, whose local_port is the slot's tcp_bound_port.        *)
FreeSlot(gen) == [used |-> FALSE, gen |-> gen, bound |-> None, backlog |-> 0,
                  pending |-> [j \in Entries |-> None], conn |-> None]
NewConn(peer, control, status) ==
    [peer |-> peer, control |-> control, status |-> status, writeShutdown |-> FALSE]
Moved(conn, control, status) == [conn EXCEPT !.control = control, !.status = status]

NextGeneration(gen) == IF gen = MaxGeneration THEN 1 ELSE gen + 1
FreeSlots == {s \in Slots : ~sock[s].used}
First(S) == CHOOSE s \in S : \A t \in S : s <= t

HasConn(s) == sock[s].conn # None
Status(s, status) == HasConn(s) /\ sock[s].conn.status = status
IsListener(s) == sock[s].backlog # 0
TcpPortInUse(port) == \E s \in Slots : sock[s].used /\ sock[s].bound = port

Init ==
    /\ sock = [s \in Slots |-> FreeSlot(0)]
    /\ held = [p \in Procs |-> {}]
    /\ wait = [p \in Procs |-> None]

-----------------------------------------------------------------------------
(* Blocking and waking.                                                    *)

(* p may issue a call on slot s.                                           *)
Calls(p, s) == wait[p] = None /\ s \in held[p]

Block(p, s, call) ==
    wait' = [wait EXCEPT ![p] = [call |-> call, slot |-> s, gen |-> sock[s].gen]]

(* wakeMatching() of everyone who waits on slot s.                         *)
Wake(calls, s) ==
    wait' = [p \in Procs |->
               IF /\ wait[p] # None
                  /\ wait[p].call \in calls
                  /\ wait[p].slot = s
                  /\ wait[p].gen = sock[s].gen
               THEN None ELSE wait[p]]

WakeIf(condition, calls, s) == IF condition THEN Wake(calls, s) ELSE UNCHANGED wait

(* Handing a segment to the network card may fail.                         *)
SendResults(out) == IF out = {} THEN {TRUE} ELSE BOOLEAN

-----------------------------------------------------------------------------
(* System calls.                                                           *)

(* A new slot, with its descriptor unless a descriptor limit is hit.       *)
Install(p, slot, others) ==
    LET s == First(FreeSlots)
        gen == NextGeneration(sock[s].gen)
    IN \/ /\ sock' = [others EXCEPT ![s] = [slot EXCEPT !.used = TRUE, !.gen = gen]]
          /\ held' = [held EXCEPT ![p] = @ \union {s}]
       \/ /\ sock' = [sock EXCEPT ![s] = FreeSlot(gen)]
          /\ UNCHANGED held

SyscallSocket(p) ==
    /\ wait[p] = None
    /\ FreeSlots # {}
    /\ Install(p, FreeSlot(0), sock)
    /\ UNCHANGED wait

(* A port asked for, or the ephemeral port found free.                     *)
SyscallBind(p, s, port) ==
    /\ Calls(p, s)
    /\ ~HasConn(s) /\ ~IsListener(s) /\ sock[s].bound = None
    /\ ~TcpPortInUse(port)
    /\ sock' = [sock EXCEPT ![s].bound = port]
    /\ UNCHANGED <<held, wait>>

SyscallListen(p, s, backlog) ==
    /\ Calls(p, s)
    /\ ~HasConn(s) /\ ~IsListener(s) /\ sock[s].bound # None
    /\ sock' = [sock EXCEPT ![s].backlog = backlog]
    /\ UNCHANGED <<held, wait>>

Limit(s) == 1 .. sock[s].backlog
EstablishedEntries(slot) ==
    {j \in 1 .. slot.backlog : slot.pending[j] # None
                               /\ slot.pending[j].control.state = "established"}

(* Mutant: accept leaves the entry in the backlog.                       *)
SyscallAcceptCopies(p, s) ==
    /\ Calls(p, s)
    /\ EstablishedEntries(sock[s]) # {}
    /\ FreeSlots # {}
    /\ LET entry == sock[s].pending[First(EstablishedEntries(sock[s]))]
       IN Install(p, [FreeSlot(0) EXCEPT
                        !.bound = sock[s].bound,
                        !.conn = NewConn(entry.peer, entry.control, "established")],
                  sock)
    /\ UNCHANGED wait

(* The entry is cleared only when the new descriptor exists.               *)
SyscallAccept(p, s) ==
    /\ Calls(p, s)
    /\ EstablishedEntries(sock[s]) # {}
    /\ FreeSlots # {}
    /\ LET j == First(EstablishedEntries(sock[s]))
           entry == sock[s].pending[j]
       IN Install(p, [FreeSlot(0) EXCEPT
                        !.bound = sock[s].bound,
                        !.conn = NewConn(entry.peer, entry.control, "established")],
                  [sock EXCEPT ![s].pending[j] = None])
    /\ UNCHANGED wait

SyscallAcceptBlocks(p, s) ==
    /\ Calls(p, s)
    /\ IsListener(s)
    /\ EstablishedEntries(sock[s]) = {}
    /\ Block(p, s, "accept")
    /\ UNCHANGED <<sock, held>>

(* The first connect() on a slot sends the SYN; if that fails the slot     *)
(* keeps a failed connection.                                              *)
SyscallConnect(p, s, peer) ==
    /\ Calls(p, s)
    /\ ~IsListener(s) /\ ~HasConn(s)
    /\ \E port \in Ports, iss \in InitialSequences, status \in {"connecting", "io_failed"} :
          /\ IF sock[s].bound = None THEN ~TcpPortInUse(port) ELSE port = sock[s].bound
          /\ sock' = [sock EXCEPT ![s] = [@ EXCEPT
                        !.bound = port,
                        !.conn = NewConn(peer, BeginActiveOpenAt(iss).control, status)]]
          /\ \/ status = "connecting" /\ Block(p, s, "connect")
             \/ UNCHANGED wait
    /\ UNCHANGED held

SyscallConnectBlocks(p, s) ==
    /\ Calls(p, s)
    /\ Status(s, "connecting")
    /\ Block(p, s, "connect")
    /\ UNCHANGED <<sock, held>>

(* One segment, cut to the peer's window; a failed hand-over is undone.    *)
SyscallSend(p, s) ==
    /\ Calls(p, s)
    /\ Status(s, "established") /\ ~sock[s].conn.writeShutdown
    /\ ApplicationSendReady(sock[s].conn.control)
    /\ \E length \in 1 .. sock[s].conn.control.wnd :
          sock' = [sock EXCEPT ![s].conn.control = BeginApplicationSend(@, length).control]
    /\ UNCHANGED <<held, wait>>

SyscallSendBlocks(p, s) ==
    /\ Calls(p, s)
    /\ \/ Status(s, "connecting")
       \/ /\ Status(s, "established") /\ ~sock[s].conn.writeShutdown
          /\ ~ApplicationSendReady(sock[s].conn.control)
    /\ Block(p, s, "send")
    /\ UNCHANGED <<sock, held>>

(* The write half: the FIN goes out or nothing happens.                    *)
SyscallShutdown(p, s) ==
    /\ Calls(p, s)
    /\ Status(s, "established") /\ ~sock[s].conn.writeShutdown
    /\ BeginClose(sock[s].conn.control).accepted
    /\ LET control == BeginClose(sock[s].conn.control).control
       IN sock' = [sock EXCEPT ![s].conn = [@ EXCEPT !.control = control,
                                                     !.writeShutdown = TRUE]]
    /\ UNCHANGED <<held, wait>>

(* closeExternalSocket() for every slot of S nobody holds any more.        *)
ReleaseUnheld(S) ==
    sock' = [s \in Slots |-> IF s \in S /\ \A p \in Procs : s \notin held'[p]
                             THEN FreeSlot(sock[s].gen) ELSE sock[s]]

SyscallClose(p, s) ==
    /\ Calls(p, s)
    /\ held' = [held EXCEPT ![p] = @ \ {s}]
    /\ ReleaseUnheld({s})
    /\ UNCHANGED wait

(* p ends, killed perhaps while blocked; its descriptors are released.     *)
Exit(p) ==
    /\ held[p] # {} \/ wait[p] # None
    /\ held' = [held EXCEPT ![p] = {}]
    /\ ReleaseUnheld(held[p])
    /\ wait' = [wait EXCEPT ![p] = None]

(* p spawns q, which inherits the descriptors not marked close-on-exec.    *)
Spawn(p, q) ==
    /\ wait[p] = None /\ wait[q] = None
    /\ held[q] = {}
    /\ \E S \in SUBSET held[p] \ {{}} : held' = [held EXCEPT ![q] = S]
    /\ UNCHANGED <<sock, wait>>

-----------------------------------------------------------------------------
(* serviceTcpConnects(): a packet, or a timer past its deadline.           *)

(* The slot whose live connection has the packet's ports and peer.         *)
ConnectionFor(port, peer) ==
    {s \in Slots : /\ sock[s].used /\ sock[s].bound = port /\ HasConn(s)
                   /\ sock[s].conn.peer = peer
                   /\ sock[s].conn.status \in {"connecting", "established"}}

StatusAfter(control, sent) ==
    CASE ~sent -> "io_failed"
      [] sent /\ control.state = "established" -> "established"
      [] sent /\ control.state = "reset" -> "refused"
      [] sent /\ control.state = "timed_out" -> "timed_out"
      [] OTHER -> "connecting"

SegmentWhileConnecting(port, peer, seg) ==
    /\ ConnectionFor(port, peer) # {}
    /\ LET s == First(ConnectionFor(port, peer))
           result == HandleSegment(sock[s].conn.control, seg)
       IN /\ Status(s, "connecting")
          /\ result.accepted
          /\ \E sent \in SendResults(result.outbound) :
                LET status == StatusAfter(result.control, sent)
                IN /\ sock' = [sock EXCEPT ![s].conn = Moved(@, result.control, status)]
                   /\ WakeIf(status # "connecting", Writers, s)
    /\ UNCHANGED held

(* Mutant: payload and FIN go to the state machine.                      *)
RetainedWhole(seg) == seg

(* Payload and FIN are not taken: such a segment counts as its bare ACK.   *)
Retained(seg) ==
    IF seg.len # 0 \/ Has(seg, "fin")
    THEN [seg EXCEPT !.flags = {"ack"}, !.len = 0] ELSE seg

(* A reset with payload or FIN, or payload without ACK, is dropped.        *)
Dropped(seg) ==
    \/ Has(seg, "syn")
    \/ (seg.len # 0 \/ Has(seg, "fin")) /\ (~Has(seg, "ack") \/ Has(seg, "rst"))

SegmentWhenEstablished(port, peer, seg) ==
    /\ ConnectionFor(port, peer) # {}
    /\ LET s == First(ConnectionFor(port, peer))
           control == sock[s].conn.control
           result == HandleSegment(control, Retained(seg))
       IN /\ Status(s, "established")
          /\ control.state = "established"
          /\ ~Dropped(seg)
          /\ result.accepted
          /\ sock' = [sock EXCEPT ![s].conn = Moved(@, result.control,
                        IF result.control.state = "reset" THEN "refused" ELSE @.status)]
          /\ WakeIf(/\ result.control.una # control.una
                    /\ ApplicationSendReady(result.control), Writers, s)
    /\ UNCHANGED held

ListenersFor(port) == {s \in Slots : sock[s].used /\ IsListener(s) /\ sock[s].bound = port}

(* What serviceTcpListenerSegment() leaves in a backlog entry.             *)
EntryAfter(peer, control, sent) ==
    IF ~sent \/ control.state \in {"closed", "reset", "timed_out"}
    THEN None ELSE [peer |-> peer, control |-> control]

(* Mutant: a completed handshake wakes nobody.                           *)
ListenerUpdateSilently(s, j, entry) ==
    /\ sock' = [sock EXCEPT ![s].pending[j] = entry]
    /\ UNCHANGED <<held, wait>>

ListenerUpdate(s, j, entry) ==
    /\ sock' = [sock EXCEPT ![s].pending[j] = entry]
    /\ WakeIf(EstablishedEntries(sock'[s]) # {}, Readers, s)
    /\ UNCHANGED held

EntriesOf(s, peer) == {j \in Limit(s) : sock[s].pending[j] # None /\ sock[s].pending[j].peer = peer}
FreeEntries(s) == {j \in Limit(s) : sock[s].pending[j] = None}

ListenerSegment(port, peer, seg) ==
    /\ ConnectionFor(port, peer) = {}
    /\ ListenersFor(port) # {}
    /\ LET s == First(ListenersFor(port))
           j == First(EntriesOf(s, peer))
           result == HandleSegment(sock[s].pending[j].control, seg)
       IN /\ EntriesOf(s, peer) # {}
          /\ result.accepted
          /\ \E sent \in SendResults(result.outbound) :
                ListenerUpdate(s, j, EntryAfter(peer, result.control, sent))

ListenerSyn(port, peer, seg) ==
    /\ ConnectionFor(port, peer) = {}
    /\ ListenersFor(port) # {}
    /\ IsSyn(seg)
    /\ LET s == First(ListenersFor(port))
       IN /\ EntriesOf(s, peer) = {}
          /\ FreeEntries(s) # {}
          /\ \E iss \in InitialSequences, sent \in BOOLEAN :
                ListenerUpdate(s, First(FreeEntries(s)),
                    EntryAfter(peer, BeginPassiveOpenAt(iss, seg).control, sent))

ConnectTimer(s) ==
    /\ Status(s, "connecting")
    /\ TimerArmed(sock[s].conn.control)
    /\ LET result == OnTimer(sock[s].conn.control)
       IN \E sent \in SendResults(result.outbound) :
             LET status == StatusAfter(result.control, sent)
             IN /\ sock' = [sock EXCEPT ![s].conn = Moved(@, result.control, status)]
                /\ WakeIf(status # "connecting", Writers, s)
    /\ UNCHANGED held

PendingTimer(s, j) ==
    /\ j \in Limit(s)
    /\ sock[s].pending[j] # None
    /\ sock[s].pending[j].control.state = "syn_received"
    /\ TimerArmed(sock[s].pending[j].control)
    /\ LET result == OnTimer(sock[s].pending[j].control)
       IN \E sent \in SendResults(result.outbound) :
             sock' = [sock EXCEPT ![s].pending[j] =
                        EntryAfter(@.peer, result.control, sent)]
    /\ UNCHANGED <<held, wait>>

-----------------------------------------------------------------------------
Syscall(p) ==
    \/ SyscallSocket(p)
    \/ Exit(p)
    \/ \E q \in Procs \ {p} : Spawn(p, q)
    \/ \E s \in held[p] :
          \/ \E port \in Ports : SyscallBind(p, s, port)
          \/ \E backlog \in Entries : SyscallListen(p, s, backlog)
          \/ \E peer \in Peers : SyscallConnect(p, s, peer)
          \/ SyscallAccept(p, s)
          \/ SyscallAcceptBlocks(p, s)
          \/ SyscallConnectBlocks(p, s)
          \/ SyscallSend(p, s)
          \/ SyscallSendBlocks(p, s)
          \/ SyscallShutdown(p, s)
          \/ SyscallClose(p, s)

Service ==
    \/ \E port \in Ports, peer \in Peers, seg \in Inbound :
          \/ SegmentWhileConnecting(port, peer, seg)
          \/ SegmentWhenEstablished(port, peer, seg)
          \/ ListenerSegment(port, peer, seg)
          \/ ListenerSyn(port, peer, seg)
    \/ \E s \in Slots : ConnectTimer(s) \/ \E j \in Entries : PendingTimer(s, j)

Next == Service \/ \E p \in Procs : Syscall(p)

Spec == Init /\ [][Next]_vars

(* serviceNetwork() runs on every tick and looks at every timer.           *)
Fairness == \A s \in Slots : /\ WF_vars(ConnectTimer(s))
                             /\ \A j \in Entries : WF_vars(PendingTimer(s, j))
FairSpec == Spec /\ Fairness

-----------------------------------------------------------------------------
(* Properties.                                                             *)

SlotType ==
    [used : BOOLEAN, gen : 0 .. MaxGeneration, bound : Ports \union {None},
     backlog : 0 .. MaxBacklog, pending : [Entries -> Pending \union {None}],
     conn : Connection \union {None}]

TypeOK ==
    /\ sock \in [Slots -> SlotType]
    /\ held \in [Procs -> SUBSET Slots]
    /\ wait \in [Procs -> Waiting \union {None}]

Blocked(p, call) == wait[p] # None /\ wait[p].call = call

(* Nobody sleeps on a key that no wakeup will carry: the slot a process is *)
(* blocked on is in use, under the generation it blocked with, until every *)
(* descriptor is gone (closeExternalSocket on the last close only).        *)
WaitKeyLive ==
    \A p \in Procs : wait[p] # None =>
        sock[wait[p].slot].used /\ sock[wait[p].slot].gen = wait[p].gen

(* connect() sleeps only while the handshake is running and its timer is   *)
(* armed: each way the handshake can end (SYN-ACK, reset, timeout, failed  *)
(* transmission) wakes every process that waits for it.                    *)
ConnectNotStranded ==
    \A p \in Procs : Blocked(p, "connect") =>
        /\ Status(wait[p].slot, "connecting")
        /\ TimerArmed(sock[wait[p].slot].conn.control)

(* accept() sleeps only while no peer is ready, also when several          *)
(* processes accept on one listener and one of them takes a peer or fails  *)
(* to get a descriptor.                                                    *)
AcceptNotStranded ==
    \A p \in Procs : Blocked(p, "accept") =>
        EstablishedEntries(sock[wait[p].slot]) = {}

(* No process sleeps through its wakeup, whatever the other holders of the *)
(* socket close, accept or exit in between.                                *)
SleepersServed == WaitKeyLive /\ ConnectNotStranded /\ AcceptNotStranded

(* The live connections on a port and peer: descriptors and backlog entries.*)
Connections(port, peer) ==
    (ConnectionFor(port, peer) \X {0})
        \union {x \in ListenersFor(port) \X Entries : x[2] \in EntriesOf(x[1], peer)}

(* At most one live control block exists per local port and peer, so a     *)
(* segment has one owner: accept() moves the block, it never copies it,    *)
(* and a peer that connects again while its old connection lives is not    *)
(* given a second one.                                                     *)
TupleUnique ==
    \A port \in Ports, peer \in Peers :
        \A x, y \in Connections(port, peer) : x = y

(* A port has one owner: sockets share a local port only if each is its    *)
(* one listener or holds a connection that got through its handshake; a    *)
(* port is not given away while an accepted connection outlives its        *)
(* listener (tcpPortInUse in bind and connect).                            *)
MaySharePort(s) == IsListener(s) \/ Status(s, "established") \/ Status(s, "refused")
PortOwner ==
    \A s, t \in Slots :
        s # t /\ sock[s].bound # None /\ sock[s].bound = sock[t].bound
            => MaySharePort(s) /\ MaySharePort(t) /\ ~(IsListener(s) /\ IsListener(t))

(* A segment and a port each have one owner.                               *)
OneOwner == TypeOK /\ TupleUnique /\ PortOwner

(* Payload and FIN that reach a connected socket are left to the peer to   *)
(* send again: receive_next stays, so they are never acknowledged, and     *)
(* only a reset or the local shutdown takes the block out of "established" *)
(* (the deferred-ingress branch of serviceTcpConnects).                    *)
IngressDeferred ==
    [][\A s \in Slots :
         Status(s, "established") /\ sock'[s].used =>
           LET before == sock[s].conn.control
               after == sock'[s].conn.control
           IN /\ after.rcv = before.rcv
              /\ after.state # before.state =>
                   \/ after.state = "reset"
                   \/ sock'[s].conn.writeShutdown /\ after.state = "fin_wait_1"]_vars

(* Every handshake ends: a connecting socket is established, refused,      *)
(* failed or timed out, and a half-open backlog entry is completed or      *)
(* given up, so that repeated SYNs cannot keep the backlog full (onTimer   *)
(* counts retransmissions, a duplicate SYN does not restart it).           *)
HalfOpen(s, j) ==
    sock[s].pending[j] # None /\ sock[s].pending[j].control.state = "syn_received"
HandshakesSettle ==
    \A s \in Slots :
        /\ Status(s, "connecting") ~> ~Status(s, "connecting")
        /\ \A j \in Entries : HalfOpen(s, j) ~> ~HalfOpen(s, j)

(* A process blocked in send() waits on a connection that cannot take data *)
(* yet: README.md of the repository says that an ACK refreshes the window  *)
(* and wakes the writer, ROADMAP G310 that writers are woken when capacity *)
(* becomes available.                                                      *)
WriterNotStranded ==
    \A p \in Procs : Blocked(p, "send") /\ Status(wait[p].slot, "established") =>
        ~ApplicationSendReady(sock[wait[p].slot].conn.control)
=============================================================================
