----------------------------- MODULE MCXClient -----------------------------
\* Servers, tasks and connections for the run of XClient.
EXTENDS XClient

TwoAddrs == {"a", "b"}

\* A caller and a broadcaster meet at server a.
TwoLists == [u \in Callers \cup Broadcasters |-> IF u \in Callers THEN {"a"} ELSE TwoAddrs]
TheirCalls == {t \in (Callers \cup Broadcasters) \X TwoAddrs : t[2] \in TwoLists[t[1]]}

\* Server a can be dialled twice, server b not at all.
TwoConns == {<<"a", 1>>, <<"a", 2>>}
=============================================================================
