----------------------------- MODULE MCRpcConn -----------------------------
\* Model values and symmetry for the runs of RpcConn.
EXTENDS RpcConn, TLC

\* Calls differ in nothing but their arguments, which Init chooses freely.
CallSymmetry == Permutations(Calls)
=============================================================================
