----------------------------- MODULE MCTcpPair -----------------------------
EXTENDS TcpPair

(* Two opens each; the client's first numbers wrap past the modulus.       *)
MCInitialSequences == [client |-> <<14, 4>>, server |-> <<6, 11>>]
=============================================================================
