---------------------------- MODULE MCTcpSocket ----------------------------
(* Two processes that share sockets, and one peer that sends every kind of *)
(* segment the handlers tell apart, in and out of sequence: payload only   *)
(* where some handler would take it, one window on a reset.                *)
EXTENDS TcpSocket

MCFlags == {{"syn"}, {"syn", "ack"}, {"ack"}, {"fin", "ack"}, {"rst", "ack"}}
MCInbound ==
    {seg \in [seq : {0, 1}, ack : SeqNumbers, flags : MCFlags, wnd : {0, 1}, len : {0, 1}] :
        /\ seg.len # 0 => seg.flags \in {{"ack"}, {"fin", "ack"}}
        /\ Has(seg, "rst") => seg.wnd = 0}
=============================================================================
