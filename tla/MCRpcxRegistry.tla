--------------------------- MODULE MCRpcxRegistry ---------------------------
\* The order of the addresses, for the run of RpcxRegistry.
EXTENDS RpcxRegistry, SequencesExt

ByNumber == [S \in SUBSET Servers |-> SetToSortSeq(S, <)]
=============================================================================
