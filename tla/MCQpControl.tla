---------------------------- MODULE MCQpControl ----------------------------
(***************************************************************************)
(* QpControl for TLC: queue pairs 0 (net), 1 (rpc), 2 (tty), 3 (trace) with*)
(* rings of two descriptors and a command ring of four or five entries.    *)
(***************************************************************************)
EXTENDS QpControl

MCRpc      == {1}
MCTwoCdevs == {1, 3}
MCTty      == {2}
MCNet      == {0}
MCNetRpc   == {0, 1}
MCNone     == {}
MCCuts     == {"timeout", "signal"}

MCCmds(qps) == [op : {"OPEN", "CLOSE"},
                ring : {2 * q : q \in qps} \cup {2 * q + 1 : q \in qps}]
MCRpcCmds    == MCCmds(MCRpc)
MCTwoCmds    == MCCmds(MCTwoCdevs)
MCTtyCmds    == MCCmds(MCTty)
MCNetRpcCmds == MCCmds(MCNetRpc)

=============================================================================
