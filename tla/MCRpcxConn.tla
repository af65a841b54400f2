----------------------------- MODULE MCRpcxConn -----------------------------
\* Model values for the run of RpcxConn.
EXTENDS RpcxConn
=============================================================================
