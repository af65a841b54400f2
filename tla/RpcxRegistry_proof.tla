------------------------ MODULE RpcxRegistry_proof ------------------------
(***************************************************************************)
(* Proofs about RpcxRegistry, for any servers, clients and bounds.         *)
(***************************************************************************)
EXTENDS RpcxRegistry, TLAPS

\* The processes are the servers and the clients, and none is both.
LEMMA ProcFacts ==
  /\ Servers \subseteq Procs /\ Clients \subseteq Procs
  /\ \A c \in Clients : c \notin Servers
  /\ \A a \in Servers : a # Nil
  BY RpcxRegistryAssumption DEF Procs

\* A request is told from another by what it is and whom it is for.
LEMMA RequestFacts ==
  /\ \A op \in {"post", "delete"}, a \in Servers : Request(op, a) \in Requests
  /\ \A m \in Requests :
       m.op \in {"post", "delete"} /\ m.addr \in Servers /\ m = Request(m.op, m.addr)
  /\ \A a, b \in Servers : Request("post", a) # Request("delete", b)
  /\ \A op \in {"post", "delete"}, a, b \in Servers : Request(op, a) = Request(op, b) => a = b
  BY DEF Request, Requests

\* The answer of the registry lists the addresses it holds to be alive.
LEMMA AnswerFacts ==
  ASSUME TypeOK
  PROVE  /\ GetServers \subseteq items /\ GetServers \subseteq Servers
         /\ Sorted[GetServers] \in Seq(Servers)
         /\ \A i \in DOMAIN Sorted[GetServers] : Sorted[GetServers][i] \in GetServers
         /\ \A a \in GetServers : Alive(a)
<1>1. GetServers \subseteq items /\ GetServers \subseteq Servers /\ \A a \in GetServers : Alive(a)
  BY DEF GetServers, TypeOK
<1> HIDE DEF GetServers
<1>2. Sorted[GetServers] \in Seq(Servers)
  BY <1>1, RpcxRegistryAssumption
<1>3. {Sorted[GetServers][i] : i \in DOMAIN Sorted[GetServers]} = GetServers
  BY <1>1, RpcxRegistryAssumption
<1> QED
  BY <1>1, <1>2, <1>3

\* A list that doHeartbeat has renewed is empty or begins with a nil node.
LEMMA RenewedFacts ==
  ASSUME TypeOK, NEW p \in Procs
  PROVE  /\ Renewed(p) \in Seq(Servers \cup {Nil})
         /\ news[p] = <<>> => Renewed(p) = <<>>
         /\ news[p] # <<>> => 1 \in DOMAIN Renewed(p) /\ Renewed(p)[1] = Nil
<1> DEFINE s == news[p]
           n == NilNodes(s)
<1>1. s \in Seq(Servers)
  BY DEF TypeOK
<1>2. n = [i \in 1 .. Len(s) |-> Nil]
  BY <1>1 DEF NilNodes
<1> HIDE DEF n, s
<1>3. n \in Seq(Servers \cup {Nil}) /\ Len(n) = Len(s) /\ \A i \in 1 .. Len(s) : n[i] = Nil
  BY <1>1, <1>2
<1>4. Renewed(p) = n \o s
  BY DEF Renewed, n, s
<1>5. s \in Seq(Servers \cup {Nil})
  BY <1>1
<1>6. n \o s \in Seq(Servers \cup {Nil})
  BY <1>3, <1>5
<1>7. s = <<>> => n \o s = <<>>
  <2> SUFFICES ASSUME s = <<>> PROVE n \o s = <<>>
    OBVIOUS
  <2>1. Len(n \o s) = 0
    BY <1>3, <1>5
  <2> QED
    BY <1>6, <2>1
<1>8. s # <<>> => 1 \in DOMAIN (n \o s) /\ (n \o s)[1] = Nil
  <2> SUFFICES ASSUME s # <<>> PROVE 1 \in DOMAIN (n \o s) /\ (n \o s)[1] = Nil
    OBVIOUS
  <2>1. Len(s) >= 1
    BY <1>1
  <2> QED
    BY <1>1, <1>3, <1>5, <2>1
<1> QED
  BY <1>4, <1>6, <1>7, <1>8 DEF s

\* Nothing is registered, filed or on its way.
LEMMA InitIInv == Init => IInv
<1> SUFFICES ASSUME Init PROVE IInv
  OBVIOUS
<1>0. \A p \in Procs : nodes[p] = <<>> /\ pc[p] = "idle" /\ hb[p] = "idle"
  BY DEF Init
<1>1. TypeOK
  BY ProcFacts, RpcxRegistryAssumption DEF Init, TypeOK, ServerPlaces, ClientPlaces
<1>2. ItemsInv
  BY <1>0, ProcFacts DEF Init, ItemsInv, Before
<1>3. NodesInv
  BY <1>0, ProcFacts DEF Init, NodesInv, HasNil
<1>4. FiledInv
  BY <1>0, ProcFacts DEF Init, FiledInv
<1>5. AgeInv
  BY <1>0, ProcFacts DEF AgeInv
<1> QED
  BY <1>1, <1>2, <1>3, <1>4, <1>5 DEF IInv

-----------------------------------------------------------------------------
(* Facts that several actions need.                                        *)

\* Goto keeps the type of pc.
LEMMA GotoType ==
  ASSUME TypeOK, NEW p \in Procs, NEW l, Goto(p, l),
         p \in Servers => l \in ServerPlaces, p \in Clients => l \in ClientPlaces
  PROVE  /\ pc' \in [Procs -> ServerPlaces \cup ClientPlaces]
         /\ \A a \in Servers : pc'[a] \in ServerPlaces
         /\ \A c \in Clients : pc'[c] \in ClientPlaces
<1>1. l \in ServerPlaces \cup ClientPlaces
  BY DEF Procs
<1> QED
  BY <1>1, ProcFacts DEF Goto, TypeOK

\* A request changes the items, and makes no item older.
LEMMA ItemFacts ==
  ASSUME TypeOK, NEW a \in Servers, AddServer(a) \/ RemoveServer(a)
  PROVE  /\ items' \subseteq Servers /\ age' \in [Servers -> Nat]
         /\ \A b \in Servers : age'[b] <= age[b]
<1>1. CASE AddServer(a)
  <2>1. items' \subseteq Servers
    BY <1>1 DEF AddServer, TypeOK
  <2>2. age' = [age EXCEPT ![a] = 0] /\ age \in [Servers -> Nat]
    BY <1>1 DEF AddServer, TypeOK
  <2> QED
    BY <2>1, <2>2
<1>2. CASE RemoveServer(a)
  BY <1>2 DEF RemoveServer, TypeOK
<1> QED
  BY <1>1, <1>2

\* Purge takes away only what is too old.
LEMMA PurgeKeepsItems ==
  ASSUME TypeOK, ItemsInv, Purge, UNCHANGED <<strays, upset, status>>,
         \A a \in Servers : pc'[a] = pc[a]
  PROVE  ItemsInv'
<1>1. /\ items' \subseteq items /\ \A a \in items : Alive(a) => a \in items'
      /\ \A a \in Servers : Alive(a)' <=> Alive(a)
  BY DEF Purge, GetServers, Alive
<1> QED
  BY <1>1 DEF ItemsInv, Before

\* The ages of the servers that a client knows are still within their limit when
\* the client knows no other server, and has as much time to its next list.
LEMMA AgeKept ==
  ASSUME TypeOK, TypeOK', AgeInv, faults' = 0 => faults = 0,
         \A a \in Servers : age'[a] <= age[a],
         \A c \in Clients :
           /\ pc'[c] = "got" => pc[c] = "got" /\ reply'[c] = reply[c]
           /\ pc[c] = "dead" => pc'[c] = "dead"
           /\ nodes'[c] = nodes[c] /\ tick'[c] = tick[c]
           /\ due[c] \/ hb[c] # "idle" => due'[c] \/ hb'[c] # "idle"
  PROVE  AgeInv'
<1> SUFFICES ASSUME Timeout > 0, faults' = 0, NEW c \in Clients
             PROVE  /\ pc'[c] = "got" => \A i \in DOMAIN reply'[c] : age'[reply'[c][i]] <= Timeout - 1
                    /\ pc'[c] # "dead" /\ ~HasNil(c)' =>
                         \A i \in DOMAIN nodes'[c] :
                           age'[nodes'[c][i]] <= Timeout - 1 + Period
                             - (IF due'[c] \/ hb'[c] # "idle" THEN 0 ELSE tick'[c])
  BY DEF AgeInv
<1>0. /\ c \in Procs /\ Timeout \in Nat /\ Period \in Nat /\ tick[c] \in Nat
      /\ age \in [Servers -> Nat] /\ age' \in [Servers -> Nat]
      /\ nodes[c] \in Seq(Servers \cup {Nil}) /\ reply[c] \in Seq(Servers)
  BY ProcFacts, RpcxRegistryAssumption DEF TypeOK
<1>1. /\ pc[c] = "got" => \A i \in DOMAIN reply[c] : age[reply[c][i]] <= Timeout - 1
      /\ pc[c] # "dead" /\ ~HasNil(c) =>
           \A i \in DOMAIN nodes[c] :
             age[nodes[c][i]] <= Timeout - 1 + Period
               - (IF due[c] \/ hb[c] # "idle" THEN 0 ELSE tick[c])
  BY DEF AgeInv
<1>2. ASSUME pc'[c] = "got", NEW i \in DOMAIN reply'[c] PROVE age'[reply'[c][i]] <= Timeout - 1
  <2>1. reply[c][i] \in Servers /\ i \in DOMAIN reply[c] /\ reply'[c] = reply[c] /\ pc[c] = "got"
    BY <1>0, <1>2
  <2> QED
    BY <1>0, <1>1, <2>1
<1>3. ASSUME pc'[c] # "dead", ~HasNil(c)', NEW i \in DOMAIN nodes'[c]
      PROVE  age'[nodes'[c][i]] <= Timeout - 1 + Period
               - (IF due'[c] \/ hb'[c] # "idle" THEN 0 ELSE tick'[c])
  <2>1. nodes'[c] = nodes[c] /\ tick'[c] = tick[c] /\ ~HasNil(c) /\ pc[c] # "dead"
    BY <1>3 DEF HasNil
  <2>2. nodes[c][i] \in Servers
    BY <1>0, <1>3, <2>1 DEF HasNil
  <2>3. age[nodes[c][i]] <= Timeout - 1 + Period
               - (IF due[c] \/ hb[c] # "idle" THEN 0 ELSE tick[c])
    BY <1>1, <1>3, <2>1
  <2>4. age'[nodes[c][i]] <= age[nodes[c][i]] /\ age[nodes[c][i]] \in Nat /\ age'[nodes[c][i]] \in Nat
    BY <1>0, <2>2
  <2>5. CASE due[c] \/ hb[c] # "idle"
    <3>1. due'[c] \/ hb'[c] # "idle"
      BY <2>5
    <3> QED
      BY <1>0, <2>1, <2>3, <2>4, <2>5, <3>1
  <2>6. CASE ~(due[c] \/ hb[c] # "idle")
    <3>1. age[nodes[c][i]] <= Timeout - 1 + Period - tick[c]
      BY <2>3, <2>6
    <3> QED
      BY <1>0, <2>1, <2>4, <3>1
  <2> QED
    BY <2>5, <2>6
<1> QED
  BY <1>2, <1>3

-----------------------------------------------------------------------------
(* The actions, one by one.                                                *)

\* The call of Register only leaves idle.
LEMMA RegisterIInv ==
  ASSUME IInv, NEW a \in Servers, Register(a)
  PROVE  IInv'
<1> USE ProcFacts DEF IInv
<1>1. TypeOK'
  <2>1. /\ pc' \in [Procs -> ServerPlaces \cup ClientPlaces]
        /\ \A b \in Servers : pc'[b] \in ServerPlaces
        /\ \A d \in Clients : pc'[d] \in ClientPlaces
    BY GotoType DEF Register, ServerPlaces, ClientPlaces
  <2> QED
    BY <2>1 DEF Register, Goto, serverVars, beatVars, faultVars, TypeOK
<1>2. ItemsInv'
  BY <1>1 DEF Register, Goto, serverVars, beatVars, faultVars, TypeOK, ItemsInv, Before, Alive
<1>3. NodesInv'
  BY <1>1 DEF Register, Goto, serverVars, beatVars, faultVars, TypeOK, NodesInv, HasNil
<1>4. FiledInv'
  BY <1>1 DEF Register, Goto, serverVars, beatVars, faultVars, TypeOK, FiledInv
<1>5. AgeInv'
  <2>1. \A b \in Servers : age'[b] <= age[b]
    BY DEF Register, Goto, serverVars, beatVars, faultVars, TypeOK
  <2>2. \A c \in Clients :
           /\ pc'[c] = "got" => pc[c] = "got" /\ reply'[c] = reply[c]
           /\ pc[c] = "dead" => pc'[c] = "dead"
           /\ nodes'[c] = nodes[c] /\ tick'[c] = tick[c]
           /\ due[c] \/ hb[c] # "idle" => due'[c] \/ hb'[c] # "idle"
    BY DEF Register, Goto, serverVars, beatVars, faultVars, TypeOK
  <2> QED
    BY <1>1, <2>1, <2>2, AgeKept DEF Register, faultVars
<1> QED
  BY <1>1, <1>2, <1>3, <1>4, <1>5

\* The call of Deregister only leaves idle, of a server that has registered.
LEMMA DeregisterIInv ==
  ASSUME IInv, NEW a \in Servers, Deregister(a)
  PROVE  IInv'
<1> USE ProcFacts DEF IInv
<1>1. TypeOK'
  <2>1. /\ pc' \in [Procs -> ServerPlaces \cup ClientPlaces]
        /\ \A b \in Servers : pc'[b] \in ServerPlaces
        /\ \A d \in Clients : pc'[d] \in ClientPlaces
    BY GotoType DEF Deregister, ServerPlaces, ClientPlaces
  <2> QED
    BY <2>1 DEF Deregister, Goto, serverVars, beatVars, faultVars, TypeOK
<1>2. ItemsInv'
  BY <1>1 DEF Deregister, Goto, serverVars, beatVars, faultVars, TypeOK, ItemsInv, Before, Alive
<1>3. NodesInv'
  BY <1>1 DEF Deregister, Goto, serverVars, beatVars, faultVars, TypeOK, NodesInv, HasNil
<1>4. FiledInv'
  BY <1>1 DEF Deregister, Goto, serverVars, beatVars, faultVars, TypeOK, FiledInv
<1>5. AgeInv'
  <2>1. \A b \in Servers : age'[b] <= age[b]
    BY DEF Deregister, Goto, serverVars, beatVars, faultVars, TypeOK
  <2>2. \A c \in Clients :
           /\ pc'[c] = "got" => pc[c] = "got" /\ reply'[c] = reply[c]
           /\ pc[c] = "dead" => pc'[c] = "dead"
           /\ nodes'[c] = nodes[c] /\ tick'[c] = tick[c]
           /\ due[c] \/ hb[c] # "idle" => due'[c] \/ hb'[c] # "idle"
    BY DEF Deregister, Goto, serverVars, beatVars, faultVars, TypeOK
  <2> QED
    BY <1>1, <2>1, <2>2, AgeKept DEF Deregister, faultVars
<1> QED
  BY <1>1, <1>2, <1>3, <1>4, <1>5

\* Under r.mu the list of the server becomes the server itself.
LEMMA PostIInv ==
  ASSUME IInv, NEW a \in Servers, Post(a)
  PROVE  IInv'
<1> USE ProcFacts DEF IInv
<1>1. TypeOK'
  <2>1. /\ pc' \in [Procs -> ServerPlaces \cup ClientPlaces]
        /\ \A b \in Servers : pc'[b] \in ServerPlaces
        /\ \A d \in Clients : pc'[d] \in ClientPlaces
    BY GotoType DEF Post, ServerPlaces, ClientPlaces
  <2> QED
    BY <2>1 DEF Post, Goto, serverVars, beatVars, faultVars, TypeOK
<1>2. ItemsInv'
  BY <1>1 DEF Post, Goto, serverVars, beatVars, faultVars, TypeOK, ItemsInv, Before, Alive
<1>3. NodesInv'
  BY <1>1 DEF Post, Goto, serverVars, beatVars, faultVars, TypeOK, NodesInv, HasNil
<1>4. FiledInv'
  BY <1>1 DEF Post, Goto, serverVars, beatVars, faultVars, TypeOK, FiledInv
<1>5. AgeInv'
  <2>1. \A b \in Servers : age'[b] <= age[b]
    BY DEF Post, Goto, serverVars, beatVars, faultVars, TypeOK
  <2>2. \A c \in Clients :
           /\ pc'[c] = "got" => pc[c] = "got" /\ reply'[c] = reply[c]
           /\ pc[c] = "dead" => pc'[c] = "dead"
           /\ nodes'[c] = nodes[c] /\ tick'[c] = tick[c]
           /\ due[c] \/ hb[c] # "idle" => due'[c] \/ hb'[c] # "idle"
    BY DEF Post, Goto, serverVars, beatVars, faultVars, TypeOK
  <2> QED
    BY <1>1, <2>1, <2>2, AgeKept DEF Post, faultVars
<1> QED
  BY <1>1, <1>2, <1>3, <1>4, <1>5

\* A Service that no tick has renewed still has its server, and is sent again.
LEMMA PostAgainIInv ==
  ASSUME IInv, NEW a \in Servers, PostAgain(a)
  PROVE  IInv'
<1> USE ProcFacts DEF IInv
<1>1. TypeOK'
  <2>1. /\ pc' \in [Procs -> ServerPlaces \cup ClientPlaces]
        /\ \A b \in Servers : pc'[b] \in ServerPlaces
        /\ \A d \in Clients : pc'[d] \in ClientPlaces
    <3>1. PICK l \in {"idle", "dead", "post"} : Goto(a, l)
      BY DEF PostAgain
    <3> QED
      BY <3>1, GotoType DEF ServerPlaces, ClientPlaces
  <2> QED
    BY <2>1 DEF PostAgain, Goto, serverVars, beatVars, faultVars, TypeOK
<1>2. ItemsInv'
  BY <1>1 DEF PostAgain, Goto, serverVars, beatVars, faultVars, TypeOK, ItemsInv, Before, Alive
<1>3. NodesInv'
  <2>1. UNCHANGED <<nodes, beaten>> /\ \A p \in Procs : HasNil(p)' = HasNil(p)
    BY DEF PostAgain, beatVars, HasNil
  <2>2. \A p \in Procs \ {a} : pc'[p] = pc[p]
    BY DEF PostAgain, Goto, TypeOK
  <2>3. /\ \A b \in Servers \ {a} : status'[b] = status[b]
        /\ status[a] # "new" /\ status'[a] # "new"
    BY DEF PostAgain, TypeOK
  <2>4. a \notin beaten => nodes[a] = <<a>>
    BY <2>3 DEF NodesInv
  <2>5. pc'[a] \in {"idle", "dead", "post"} /\ (a \notin beaten => pc'[a] # "dead")
    <3>1. Head(<<a>>) = a /\ <<a>> # <<>>
      OBVIOUS
    <3> QED
      BY <2>4, <3>1 DEF PostAgain, Goto, TypeOK
  <2> QED
    BY <2>1, <2>2, <2>3, <2>4, <2>5 DEF NodesInv
<1>4. FiledInv'
  BY <1>1 DEF PostAgain, Goto, serverVars, beatVars, faultVars, TypeOK, FiledInv
<1>5. AgeInv'
  <2>1. \A b \in Servers : age'[b] <= age[b]
    BY DEF PostAgain, Goto, serverVars, beatVars, faultVars, TypeOK
  <2>2. \A c \in Clients :
           /\ pc'[c] = "got" => pc[c] = "got" /\ reply'[c] = reply[c]
           /\ pc[c] = "dead" => pc'[c] = "dead"
           /\ nodes'[c] = nodes[c] /\ tick'[c] = tick[c]
           /\ due[c] \/ hb[c] # "idle" => due'[c] \/ hb'[c] # "idle"
    BY DEF PostAgain, Goto, serverVars, beatVars, faultVars, TypeOK
  <2> QED
    BY <1>1, <2>1, <2>2, AgeKept DEF PostAgain, faultVars
<1> QED
  BY <1>1, <1>2, <1>3, <1>4, <1>5

\* A list that no tick has renewed has a first address, so nothing panics.
LEMMA DeleteIInv ==
  ASSUME IInv, NEW a \in Servers, Delete(a)
  PROVE  IInv'
<1> USE ProcFacts DEF IInv
<1>1. TypeOK'
  <2>1. /\ pc' \in [Procs -> ServerPlaces \cup ClientPlaces]
        /\ \A b \in Servers : pc'[b] \in ServerPlaces
        /\ \A d \in Clients : pc'[d] \in ClientPlaces
    BY GotoType DEF Delete, ServerPlaces, ClientPlaces
  <2> QED
    BY <2>1 DEF Delete, Goto, serverVars, beatVars, faultVars, TypeOK
<1>2. ItemsInv'
  BY <1>1 DEF Delete, Goto, serverVars, beatVars, faultVars, TypeOK, ItemsInv, Before, Alive
<1>3. NodesInv'
  BY <1>1 DEF Delete, Goto, serverVars, beatVars, faultVars, TypeOK, NodesInv, HasNil
<1>4. FiledInv'
  BY <1>1 DEF Delete, Goto, serverVars, beatVars, faultVars, TypeOK, FiledInv
<1>5. AgeInv'
  <2>1. \A b \in Servers : age'[b] <= age[b]
    BY DEF Delete, Goto, serverVars, beatVars, faultVars, TypeOK
  <2>2. \A c \in Clients :
           /\ pc'[c] = "got" => pc[c] = "got" /\ reply'[c] = reply[c]
           /\ pc[c] = "dead" => pc'[c] = "dead"
           /\ nodes'[c] = nodes[c] /\ tick'[c] = tick[c]
           /\ due[c] \/ hb[c] # "idle" => due'[c] \/ hb'[c] # "idle"
    BY DEF Delete, Goto, serverVars, beatVars, faultVars, TypeOK
  <2> QED
    BY <1>1, <2>1, <2>2, AgeKept DEF Delete, faultVars
<1> QED
  BY <1>1, <1>2, <1>3, <1>4, <1>5

\* What the handler does is what pc says from then on, and makes no item older.
LEMMA ArriveIInv ==
  ASSUME IInv, NEW a \in Servers, Arrive(a)
  PROVE  IInv'
<1> USE ProcFacts DEF IInv
<1>1. TypeOK'
  <2>1. /\ pc' \in [Procs -> ServerPlaces \cup ClientPlaces]
        /\ \A b \in Servers : pc'[b] \in ServerPlaces
        /\ \A d \in Clients : pc'[d] \in ClientPlaces
    BY GotoType DEF Arrive, ServerPlaces, ClientPlaces
  <2>2. items' \subseteq Servers /\ age' \in [Servers -> Nat]
    BY ItemFacts DEF Arrive
  <2> QED
    BY <2>1, <2>2 DEF Arrive, beatVars, faultVars, TypeOK
<1>2. ItemsInv'
  BY <1>1 DEF Arrive, Goto, beatVars, faultVars, AddServer, RemoveServer, TypeOK, ItemsInv, Before, Alive
<1>3. NodesInv'
  BY <1>1 DEF Arrive, Goto, beatVars, faultVars, AddServer, RemoveServer, TypeOK, NodesInv, HasNil
<1>4. FiledInv'
  BY <1>1 DEF Arrive, Goto, beatVars, faultVars, AddServer, RemoveServer, TypeOK, FiledInv
<1>5. AgeInv'
  <2>1. \A b \in Servers : age'[b] <= age[b]
    BY ItemFacts DEF Arrive
  <2>2. \A c \in Clients :
           /\ pc'[c] = "got" => pc[c] = "got" /\ reply'[c] = reply[c]
           /\ pc[c] = "dead" => pc'[c] = "dead"
           /\ nodes'[c] = nodes[c] /\ tick'[c] = tick[c]
           /\ due[c] \/ hb[c] # "idle" => due'[c] \/ hb'[c] # "idle"
    BY DEF Arrive, Goto, beatVars, faultVars, AddServer, RemoveServer, TypeOK
  <2> QED
    BY <1>1, <2>1, <2>2, AgeKept DEF Arrive, faultVars
<1> QED
  BY <1>1, <1>2, <1>3, <1>4, <1>5

\* The status takes over what pc said of the items.
LEMMA ReturnIInv ==
  ASSUME IInv, NEW a \in Servers, Return(a)
  PROVE  IInv'
<1> USE ProcFacts DEF IInv
<1>1. TypeOK'
  <2>1. /\ pc' \in [Procs -> ServerPlaces \cup ClientPlaces]
        /\ \A b \in Servers : pc'[b] \in ServerPlaces
        /\ \A d \in Clients : pc'[d] \in ClientPlaces
    BY GotoType DEF Return, ServerPlaces, ClientPlaces
  <2> QED
    BY <2>1 DEF Return, Goto, serverVars, beatVars, faultVars, TypeOK
<1>2. ItemsInv'
  BY <1>1 DEF Return, Goto, serverVars, beatVars, faultVars, TypeOK, ItemsInv, Before, Alive
<1>3. NodesInv'
  <2>1. /\ UNCHANGED <<nodes, beaten>> /\ \A p \in Procs : HasNil(p)' = HasNil(p)
        /\ \A p \in Procs : pc'[p] = IF p = a THEN "idle" ELSE pc[p]
    BY DEF Return, Goto, beatVars, HasNil, TypeOK
  <2>2. /\ pc[a] \in {"posted", "deleted"}
        /\ \A b \in Servers \ {a} : status'[b] = status[b]
    BY DEF Return, TypeOK
  <2>3. a \notin beaten => nodes[a] = <<a>>
    BY <2>2 DEF NodesInv
  <2> QED
    BY <2>1, <2>2, <2>3 DEF NodesInv
<1>4. FiledInv'
  BY <1>1 DEF Return, Goto, serverVars, beatVars, faultVars, TypeOK, FiledInv
<1>5. AgeInv'
  <2>1. \A b \in Servers : age'[b] <= age[b]
    BY DEF Return, Goto, serverVars, beatVars, faultVars, TypeOK
  <2>2. \A c \in Clients :
           /\ pc'[c] = "got" => pc[c] = "got" /\ reply'[c] = reply[c]
           /\ pc[c] = "dead" => pc'[c] = "dead"
           /\ nodes'[c] = nodes[c] /\ tick'[c] = tick[c]
           /\ due[c] \/ hb[c] # "idle" => due'[c] \/ hb'[c] # "idle"
    BY DEF Return, Goto, serverVars, beatVars, faultVars, TypeOK
  <2> QED
    BY <1>1, <2>1, <2>2, AgeKept DEF Return, faultVars
<1> QED
  BY <1>1, <1>2, <1>3, <1>4, <1>5

\* A request that may still arrive is in upset.
LEMMA RequestFailsIInv ==
  ASSUME IInv, NEW a \in Servers, RequestFails(a)
  PROVE  IInv'
<1> USE ProcFacts DEF IInv
<1>1. TypeOK'
  <2>1. /\ pc' \in [Procs -> ServerPlaces \cup ClientPlaces]
        /\ \A b \in Servers : pc'[b] \in ServerPlaces
        /\ \A d \in Clients : pc'[d] \in ClientPlaces
    BY GotoType DEF RequestFails, ServerPlaces, ClientPlaces
  <2>2. strays' \subseteq Requests /\ upset' \subseteq Requests
    BY RequestFacts DEF RequestFails, TypeOK
  <2>3. status' \in [Servers -> {"new", "registered", "gone", "failed"}]
    BY DEF RequestFails, TypeOK
  <2>4. faults' \in Nat
    BY DEF RequestFails, Fault, TypeOK
  <2> QED
    BY <2>1, <2>2, <2>3, <2>4 DEF RequestFails, serverVars, beatVars, TypeOK
<1>2. ItemsInv'
  BY <1>1 DEF RequestFails, Goto, serverVars, beatVars, Fault, TypeOK, ItemsInv, Before, Alive
<1>3. NodesInv'
  BY <1>1 DEF RequestFails, Goto, serverVars, beatVars, Fault, TypeOK, NodesInv, HasNil
<1>4. FiledInv'
  BY <1>1 DEF RequestFails, Goto, serverVars, beatVars, Fault, TypeOK, FiledInv
<1>5. AgeInv'
  BY <1>1, <1>4 DEF RequestFails, Goto, serverVars, beatVars, Fault, TypeOK, FiledInv, AgeInv, HasNil
<1> QED
  BY <1>1, <1>2, <1>3, <1>4, <1>5

\* A client that asks for the list has not filed one.
LEMMA NewClientIInv ==
  ASSUME IInv, NEW c \in Clients, NewClient(c)
  PROVE  IInv'
<1> USE ProcFacts DEF IInv
<1>1. TypeOK'
  <2>1. /\ pc' \in [Procs -> ServerPlaces \cup ClientPlaces]
        /\ \A b \in Servers : pc'[b] \in ServerPlaces
        /\ \A d \in Clients : pc'[d] \in ClientPlaces
    BY GotoType DEF NewClient, ServerPlaces, ClientPlaces
  <2> QED
    BY <2>1 DEF NewClient, Goto, serverVars, beatVars, faultVars, TypeOK
<1>2. ItemsInv'
  BY <1>1 DEF NewClient, Goto, serverVars, beatVars, faultVars, TypeOK, ItemsInv, Before, Alive
<1>3. NodesInv'
  BY <1>1 DEF NewClient, Goto, serverVars, beatVars, faultVars, TypeOK, NodesInv, HasNil
<1>4. FiledInv'
  BY <1>1 DEF NewClient, Goto, serverVars, beatVars, faultVars, TypeOK, FiledInv
<1>5. AgeInv'
  <2>1. \A a \in Servers : age'[a] <= age[a]
    BY DEF NewClient, Goto, serverVars, beatVars, faultVars, TypeOK
  <2>2. \A d \in Clients :
           /\ pc'[d] = "got" => pc[d] = "got" /\ reply'[d] = reply[d]
           /\ pc[d] = "dead" => pc'[d] = "dead"
           /\ nodes'[d] = nodes[d] /\ tick'[d] = tick[d]
           /\ due[d] \/ hb[d] # "idle" => due'[d] \/ hb'[d] # "idle"
    BY DEF NewClient, Goto, serverVars, beatVars, faultVars, TypeOK
  <2> QED
    BY <1>1, <2>1, <2>2, AgeKept DEF NewClient, faultVars
<1> QED
  BY <1>1, <1>2, <1>3, <1>4, <1>5

\* The answer has only addresses younger than Timeout.
LEMMA AnswerGetIInv ==
  ASSUME IInv, NEW c \in Clients, AnswerGet(c)
  PROVE  IInv'
<1> USE ProcFacts DEF IInv
<1>1. TypeOK'
  <2>1. /\ pc' \in [Procs -> ServerPlaces \cup ClientPlaces]
        /\ \A b \in Servers : pc'[b] \in ServerPlaces
        /\ \A d \in Clients : pc'[d] \in ClientPlaces
    BY GotoType DEF AnswerGet, ServerPlaces, ClientPlaces
  <2> QED
    BY <2>1, AnswerFacts DEF AnswerGet, Goto, beatVars, faultVars, Purge, TypeOK
<1>2. ItemsInv'
  <2>1. \A a \in Servers : pc'[a] = pc[a]
    BY DEF AnswerGet, Goto, TypeOK
  <2> QED
    BY <2>1, PurgeKeepsItems DEF AnswerGet, mainVars, faultVars
<1>3. NodesInv'
  BY <1>1 DEF AnswerGet, Goto, beatVars, faultVars, Purge, TypeOK, NodesInv, HasNil
<1>4. FiledInv'
  BY <1>1 DEF AnswerGet, Goto, beatVars, faultVars, Purge, TypeOK, FiledInv
<1>5. AgeInv'
  <2> SUFFICES ASSUME Timeout > 0, faults' = 0, NEW d \in Clients
               PROVE  /\ pc'[d] = "got" => \A i \in DOMAIN reply'[d] : age'[reply'[d][i]] <= Timeout - 1
                      /\ pc'[d] # "dead" /\ ~HasNil(d)' =>
                           \A i \in DOMAIN nodes'[d] :
                             age'[nodes'[d][i]] <= Timeout - 1 + Period
                               - (IF due'[d] \/ hb'[d] # "idle" THEN 0 ELSE tick'[d])
    BY DEF AgeInv
  <2>0. UNCHANGED <<faults, age, nodes, due, hb, tick>>
    BY DEF AnswerGet, Purge, beatVars, faultVars
  <2>1. /\ pc[d] = "got" => \A i \in DOMAIN reply[d] : age[reply[d][i]] <= Timeout - 1
        /\ pc[d] # "dead" /\ ~HasNil(d) =>
             \A i \in DOMAIN nodes[d] :
               age[nodes[d][i]] <= Timeout - 1 + Period
                 - (IF due[d] \/ hb[d] # "idle" THEN 0 ELSE tick[d])
    BY <2>0 DEF AgeInv
  <2>2. pc'[d] # "dead" => pc[d] # "dead"
    BY DEF AnswerGet, Goto, TypeOK
  <2>3. CASE d = c
    <3>1. reply'[d] = Sorted[GetServers]
      BY <2>3 DEF AnswerGet, TypeOK
    <3>2. \A i \in DOMAIN reply'[d] : reply'[d][i] \in GetServers /\ Alive(reply'[d][i])
                                      /\ reply'[d][i] \in Servers
      BY <3>1, AnswerFacts
    <3>3. \A i \in DOMAIN reply'[d] : age'[reply'[d][i]] <= Timeout - 1
      <4> SUFFICES ASSUME NEW b \in Servers, Alive(b) PROVE age[b] <= Timeout - 1
        BY <2>0, <3>2
      <4>1. Timeout \in Nat /\ age[b] \in Nat
        BY RpcxRegistryAssumption DEF TypeOK
      <4> QED
        BY <4>1 DEF Alive
    <3> QED
      BY <2>0, <2>1, <2>2, <3>3 DEF HasNil
  <2>4. CASE d # c
    <3>1. reply'[d] = reply[d] /\ pc'[d] = pc[d]
      BY <2>4 DEF AnswerGet, Goto, TypeOK
    <3> QED
      BY <2>0, <2>1, <3>1 DEF HasNil
  <2> QED
    BY <2>3, <2>4
<1> QED
  BY <1>1, <1>2, <1>3, <1>4, <1>5

\* The list that is filed is the answer: no tick is due to an unfiled list.
LEMMA FileServiceIInv ==
  ASSUME IInv, NEW c \in Clients, FileService(c)
  PROVE  IInv'
<1> USE ProcFacts DEF IInv
<1>1. TypeOK'
  <2>1. /\ pc' \in [Procs -> ServerPlaces \cup ClientPlaces]
        /\ \A b \in Servers : pc'[b] \in ServerPlaces
        /\ \A d \in Clients : pc'[d] \in ClientPlaces
    BY GotoType DEF FileService, ServerPlaces, ClientPlaces
  <2>2. reply[c] \in Seq(Servers) /\ reply[c] \in Seq(Servers \cup {Nil})
    BY DEF TypeOK
  <2>3. nodes' \in [Procs -> Seq(Servers \cup {Nil})]
    BY <2>2 DEF FileService, Listed, TypeOK
  <2>4. filed' \in [Procs -> BOOLEAN] /\ reply' \in [Procs -> Seq(Servers)]
    BY DEF FileService, TypeOK
  <2>5. UNCHANGED <<serverVars, status, beatVars, tick, faultVars>>
    BY DEF FileService
  <2> QED
    BY <2>1, <2>3, <2>4, <2>5 DEF serverVars, beatVars, faultVars, TypeOK
<1>2. ItemsInv'
  BY <1>1 DEF FileService, Goto, serverVars, beatVars, faultVars, Listed, TypeOK, ItemsInv, Before, Alive
<1>3. NodesInv'
  BY <1>1 DEF FileService, Goto, serverVars, beatVars, faultVars, Listed, TypeOK, NodesInv, HasNil
<1>4. FiledInv'
  BY <1>1 DEF FileService, Goto, serverVars, beatVars, faultVars, Listed, TypeOK, FiledInv
<1>5. AgeInv'
  <2> SUFFICES ASSUME Timeout > 0, faults' = 0, NEW d \in Clients
               PROVE  /\ pc'[d] = "got" => \A i \in DOMAIN reply'[d] : age'[reply'[d][i]] <= Timeout - 1
                      /\ pc'[d] # "dead" /\ ~HasNil(d)' =>
                           \A i \in DOMAIN nodes'[d] :
                             age'[nodes'[d][i]] <= Timeout - 1 + Period
                               - (IF due'[d] \/ hb'[d] # "idle" THEN 0 ELSE tick'[d])
    BY DEF AgeInv
  <2>0. UNCHANGED <<faults, age, due, hb, tick>>
    BY DEF FileService, serverVars, beatVars, faultVars
  <2>1. /\ pc[d] = "got" => \A i \in DOMAIN reply[d] : age[reply[d][i]] <= Timeout - 1
        /\ pc[d] # "dead" /\ ~HasNil(d) =>
             \A i \in DOMAIN nodes[d] :
               age[nodes[d][i]] <= Timeout - 1 + Period
                 - (IF due[d] \/ hb[d] # "idle" THEN 0 ELSE tick[d])
    BY <2>0 DEF AgeInv
  <2>3. CASE d = c
    <3>1. pc[d] = "got" /\ pc'[d] = "choose" /\ nodes'[d] = reply[d]
      BY <2>3 DEF FileService, Goto, Listed, TypeOK
    <3>2. /\ Timeout \in Nat /\ Period \in Nat /\ tick[d] \in 1 .. Period
          /\ \A i \in DOMAIN reply[d] : age[reply[d][i]] \in Nat
      BY RpcxRegistryAssumption DEF TypeOK
    <3>3. \A i \in DOMAIN nodes'[d] : age[reply[d][i]] <= Timeout - 1
      BY <2>1, <3>1
    <3>4. \A i \in DOMAIN nodes'[d] :
             age[reply[d][i]] <= Timeout - 1 + Period
               - (IF due[d] \/ hb[d] # "idle" THEN 0 ELSE tick[d])
      BY <3>1, <3>2, <3>3
    <3> QED
      BY <2>0, <3>1, <3>4
  <2>4. CASE d # c
    <3>1. reply'[d] = reply[d] /\ pc'[d] = pc[d] /\ nodes'[d] = nodes[d]
      BY <2>4 DEF FileService, Goto, TypeOK
    <3> QED
      BY <2>0, <2>1, <3>1 DEF HasNil
  <2> QED
    BY <2>3, <2>4
<1> QED
  BY <1>1, <1>2, <1>3, <1>4, <1>5

\* Only a list with a nil node, which a tick has renewed, ends in the panic.
LEMMA ChooseServerIInv ==
  ASSUME IInv, NEW c \in Clients, ChooseServer(c)
  PROVE  IInv'
<1> USE ProcFacts DEF IInv
<1>1. TypeOK'
  <2>1. /\ pc' \in [Procs -> ServerPlaces \cup ClientPlaces]
        /\ \A b \in Servers : pc'[b] \in ServerPlaces
        /\ \A d \in Clients : pc'[d] \in ClientPlaces
    BY GotoType DEF ChooseServer, ServerPlaces, ClientPlaces
  <2> QED
    BY <2>1 DEF ChooseServer, Goto, serverVars, beatVars, faultVars, TypeOK
<1>2. ItemsInv'
  BY <1>1 DEF ChooseServer, Goto, serverVars, beatVars, faultVars, TypeOK, ItemsInv, Before, Alive
<1>3. NodesInv'
  BY <1>1 DEF ChooseServer, Goto, serverVars, beatVars, faultVars, TypeOK, NodesInv, HasNil
<1>4. FiledInv'
  BY <1>1 DEF ChooseServer, Goto, serverVars, beatVars, faultVars, TypeOK, FiledInv
<1>5. AgeInv'
  <2>1. \A a \in Servers : age'[a] <= age[a]
    BY DEF ChooseServer, Goto, serverVars, beatVars, faultVars, TypeOK
  <2>2. \A d \in Clients :
           /\ pc'[d] = "got" => pc[d] = "got" /\ reply'[d] = reply[d]
           /\ pc[d] = "dead" => pc'[d] = "dead"
           /\ nodes'[d] = nodes[d] /\ tick'[d] = tick[d]
           /\ due[d] \/ hb[d] # "idle" => due'[d] \/ hb'[d] # "idle"
    BY DEF ChooseServer, Goto, serverVars, beatVars, faultVars, TypeOK
  <2> QED
    BY <1>1, <2>1, <2>2, AgeKept DEF ChooseServer, faultVars
<1> QED
  BY <1>1, <1>2, <1>3, <1>4, <1>5

\* A lookup that fails leaves nothing filed.
LEMMA GetFailsIInv ==
  ASSUME IInv, NEW c \in Clients, GetFails(c)
  PROVE  IInv'
<1> USE ProcFacts DEF IInv
<1>1. TypeOK'
  <2>1. /\ pc' \in [Procs -> ServerPlaces \cup ClientPlaces]
        /\ \A b \in Servers : pc'[b] \in ServerPlaces
        /\ \A d \in Clients : pc'[d] \in ClientPlaces
    BY GotoType DEF GetFails, ServerPlaces, ClientPlaces
  <2>2. reply' \in [Procs -> Seq(Servers)]
    <3>1. <<>> \in Seq(Servers)
      OBVIOUS
    <3> QED
      BY <3>1 DEF GetFails, TypeOK
  <2>3. faults' \in Nat
    BY DEF GetFails, Fault, TypeOK
  <2> QED
    BY <2>1, <2>2, <2>3 DEF GetFails, serverVars, beatVars, TypeOK
<1>2. ItemsInv'
  BY <1>1 DEF GetFails, Goto, serverVars, beatVars, Fault, TypeOK, ItemsInv, Before, Alive
<1>3. NodesInv'
  BY <1>1 DEF GetFails, Goto, serverVars, beatVars, Fault, TypeOK, NodesInv, HasNil
<1>4. FiledInv'
  BY <1>1 DEF GetFails, Goto, serverVars, beatVars, Fault, TypeOK, FiledInv
<1>5. AgeInv'
  BY <1>1, <1>4 DEF GetFails, Goto, serverVars, beatVars, Fault, TypeOK, FiledInv, AgeInv, HasNil
<1> QED
  BY <1>1, <1>2, <1>3, <1>4, <1>5

\* A tick that was due is now a request of the heartbeat.
LEMMA HeartbeatIInv ==
  ASSUME IInv, NEW p \in Procs, Heartbeat(p)
  PROVE  IInv'
<1> USE ProcFacts DEF IInv
<1>1. TypeOK'
  BY RpcxRegistryAssumption DEF Heartbeat, serverVars, mainVars, faultVars, Holds, Sending,
         TypeOK, ServerPlaces, ClientPlaces
<1>2. ItemsInv'
  BY <1>1 DEF Heartbeat, serverVars, mainVars, faultVars, Holds, Sending, TypeOK, ItemsInv, Before, Alive
<1>3. NodesInv'
  BY <1>1 DEF Heartbeat, serverVars, mainVars, faultVars, Holds, Sending, TypeOK, NodesInv, HasNil
<1>4. FiledInv'
  BY <1>1 DEF Heartbeat, serverVars, mainVars, faultVars, Holds, Sending, TypeOK, FiledInv
<1>5. AgeInv'
  <2> SUFFICES ASSUME Timeout > 0, faults' = 0, NEW d \in Clients
               PROVE  /\ pc'[d] = "got" => \A i \in DOMAIN reply'[d] : age'[reply'[d][i]] <= Timeout - 1
                      /\ pc'[d] # "dead" /\ ~HasNil(d)' =>
                           \A i \in DOMAIN nodes'[d] :
                             age'[nodes'[d][i]] <= Timeout - 1 + Period
                               - (IF due'[d] \/ hb'[d] # "idle" THEN 0 ELSE tick'[d])
    BY DEF AgeInv
  <2>0. UNCHANGED <<faults, age, nodes, pc, reply, tick>>
    BY DEF Heartbeat, serverVars, mainVars, faultVars
  <2>1. /\ pc[d] = "got" => \A i \in DOMAIN reply[d] : age[reply[d][i]] <= Timeout - 1
        /\ pc[d] # "dead" /\ ~HasNil(d) =>
             \A i \in DOMAIN nodes[d] :
               age[nodes[d][i]] <= Timeout - 1 + Period
                 - (IF due[d] \/ hb[d] # "idle" THEN 0 ELSE tick[d])
    BY <2>0 DEF AgeInv
  <2>3. CASE d = p /\ ~filed[d]
    <3>1. nodes[d] = <<>>
      BY <2>3 DEF FiledInv
    <3> QED
      BY <2>0, <2>1, <3>1
  <2>4. CASE d = p /\ filed[d]
    <3>1. due[d] /\ hb'[d] # "idle"
      BY <2>4 DEF Heartbeat, TypeOK
    <3> QED
      BY <2>0, <2>1, <3>1 DEF HasNil
  <2>5. CASE d # p
    <3>1. due'[d] = due[d] /\ hb'[d] = hb[d]
      BY <2>5 DEF Heartbeat, TypeOK
    <3> QED
      BY <2>0, <2>1, <3>1 DEF HasNil
  <2> QED
    BY <2>3, <2>4, <2>5
<1> QED
  BY <1>1, <1>2, <1>3, <1>4, <1>5

\* The answer to the heartbeat purges the items and renews no list yet.
LEMMA AnswerBeatIInv ==
  ASSUME IInv, NEW p \in Procs, AnswerBeat(p)
  PROVE  IInv'
<1> USE ProcFacts DEF IInv
<1>1. TypeOK'
  BY AnswerFacts DEF AnswerBeat, mainVars, faultVars, Purge, TypeOK
<1>2. ItemsInv'
  BY PurgeKeepsItems DEF AnswerBeat, mainVars, faultVars
<1>3. NodesInv'
  BY <1>1 DEF AnswerBeat, mainVars, faultVars, Purge, TypeOK, NodesInv, HasNil
<1>4. FiledInv'
  BY <1>1 DEF AnswerBeat, mainVars, faultVars, Purge, TypeOK, FiledInv
<1>5. AgeInv'
  <2>1. \A a \in Servers : age'[a] <= age[a]
    BY DEF AnswerBeat, mainVars, faultVars, Purge, TypeOK
  <2>2. \A c \in Clients :
           /\ pc'[c] = "got" => pc[c] = "got" /\ reply'[c] = reply[c]
           /\ pc[c] = "dead" => pc'[c] = "dead"
           /\ nodes'[c] = nodes[c] /\ tick'[c] = tick[c]
           /\ due[c] \/ hb[c] # "idle" => due'[c] \/ hb'[c] # "idle"
    BY DEF AnswerBeat, mainVars, faultVars, Purge, TypeOK
  <2> QED
    BY <1>1, <2>1, <2>2, AgeKept DEF AnswerBeat, faultVars
<1> QED
  BY <1>1, <1>2, <1>3, <1>4, <1>5

\* The renewed list has a nil node or none at all, so AgeInv says nothing of it.
LEMMA UpdateNodesIInv ==
  ASSUME IInv, NEW p \in Procs, UpdateNodes(p)
  PROVE  IInv'
<1> USE ProcFacts DEF IInv
<1>1. TypeOK'
  <2>1. nodes' \in [Procs -> Seq(Servers \cup {Nil})]
    BY RenewedFacts DEF UpdateNodes, TypeOK
  <2> QED
    BY <2>1 DEF UpdateNodes, serverVars, mainVars, faultVars, TypeOK
<1>2. ItemsInv'
  BY <1>1 DEF UpdateNodes, serverVars, mainVars, faultVars, TypeOK, ItemsInv, Before, Alive
<1>3. NodesInv'
  <2>1. \A q \in Procs \ {p} : HasNil(q)' <=> HasNil(q)
    BY DEF UpdateNodes, HasNil, TypeOK
  <2> QED
    BY <2>1 DEF UpdateNodes, mainVars, NodesInv, TypeOK
<1>4. FiledInv'
  BY <1>1 DEF UpdateNodes, serverVars, mainVars, faultVars, TypeOK, FiledInv
<1>5. AgeInv'
  <2> SUFFICES ASSUME Timeout > 0, faults' = 0, NEW d \in Clients
               PROVE  /\ pc'[d] = "got" => \A i \in DOMAIN reply'[d] : age'[reply'[d][i]] <= Timeout - 1
                      /\ pc'[d] # "dead" /\ ~HasNil(d)' =>
                           \A i \in DOMAIN nodes'[d] :
                             age'[nodes'[d][i]] <= Timeout - 1 + Period
                               - (IF due'[d] \/ hb'[d] # "idle" THEN 0 ELSE tick'[d])
    BY DEF AgeInv
  <2>0. UNCHANGED <<faults, age, pc, reply, tick, due>>
    BY DEF UpdateNodes, serverVars, mainVars, faultVars
  <2>1. /\ pc[d] = "got" => \A i \in DOMAIN reply[d] : age[reply[d][i]] <= Timeout - 1
        /\ pc[d] # "dead" /\ ~HasNil(d) =>
             \A i \in DOMAIN nodes[d] :
               age[nodes[d][i]] <= Timeout - 1 + Period
                 - (IF due[d] \/ hb[d] # "idle" THEN 0 ELSE tick[d])
    BY <2>0 DEF AgeInv
  <2>3. CASE d = p
    <3>1. nodes'[d] = Renewed(d)
      BY <2>3 DEF UpdateNodes, TypeOK
    <3>2. CASE news[d] = <<>>
      BY <2>0, <2>1, <3>1, <3>2, RenewedFacts
    <3>3. CASE news[d] # <<>>
      <4>1. HasNil(d)'
        BY <3>1, <3>3, RenewedFacts DEF HasNil
      <4> QED
        BY <2>0, <2>1, <4>1
    <3> QED
      BY <3>2, <3>3
  <2>4. CASE d # p
    <3>1. nodes'[d] = nodes[d] /\ hb'[d] = hb[d]
      BY <2>4 DEF UpdateNodes, TypeOK
    <3> QED
      BY <2>0, <2>1, <3>1 DEF HasNil
  <2> QED
    BY <2>3, <2>4
<1> QED
  BY <1>1, <1>2, <1>3, <1>4, <1>5

\* A heartbeat that fails is a fault, and it changes no list.
LEMMA BeatFailsIInv ==
  ASSUME IInv, NEW p \in Procs, BeatFails(p)
  PROVE  IInv'
<1> USE ProcFacts DEF IInv
<1>1. TypeOK'
  <2>1. hb' \in [Procs -> {"idle", "get", "got", "hung"}] /\ faults' \in Nat
    BY DEF BeatFails, Fault, Released, TypeOK
  <2>2. UNCHANGED <<serverVars, mainVars, nodes, tick, due, strays, upset, beaten>>
        /\ news' \in [Procs -> Seq(Servers)]
    BY DEF BeatFails, Fault, TypeOK
  <2> QED
    BY <2>1, <2>2 DEF serverVars, mainVars, TypeOK
<1>2. ItemsInv'
  BY <1>1 DEF BeatFails, serverVars, mainVars, Fault, Released, TypeOK, ItemsInv, Before, Alive
<1>3. NodesInv'
  BY <1>1 DEF BeatFails, serverVars, mainVars, Fault, Released, TypeOK, NodesInv, HasNil
<1>4. FiledInv'
  BY <1>1 DEF BeatFails, serverVars, mainVars, Fault, Released, TypeOK, FiledInv
<1>5. AgeInv'
  BY <1>1, <1>4 DEF BeatFails, serverVars, mainVars, Fault, Released, TypeOK, FiledInv, AgeInv, HasNil
<1> QED
  BY <1>1, <1>2, <1>3, <1>4, <1>5

\* A request that hangs is a fault, and it changes no item.
LEMMA HangsIInv ==
  ASSUME IInv, NEW p \in Procs, Hangs(p)
  PROVE  IInv'
<1> USE ProcFacts DEF IInv
<1>1. TypeOK'
  <2>1. /\ pc' \in [Procs -> ServerPlaces \cup ClientPlaces]
        /\ \A b \in Servers : pc'[b] \in ServerPlaces
        /\ \A d \in Clients : pc'[d] \in ClientPlaces
    <3>1. CASE Goto(p, "hung")
      BY <3>1, GotoType DEF ServerPlaces, ClientPlaces
    <3>2. CASE UNCHANGED pc
      BY <3>2 DEF TypeOK
    <3> QED
      BY <3>1, <3>2 DEF Hangs
  <2>2. hb' \in [Procs -> {"idle", "get", "got", "hung"}]
    BY DEF Hangs, TypeOK
  <2>3. faults' \in Nat
    BY DEF Hangs, Fault, TypeOK
  <2> QED
    BY <2>1, <2>2, <2>3 DEF Hangs, serverVars, mainVars, beatVars, faultVars, TypeOK
<1>2. ItemsInv'
  BY <1>1 DEF Hangs, Goto, serverVars, Fault, TypeOK, ItemsInv, Before, Alive
<1>3. NodesInv'
  <2>1. /\ UNCHANGED <<nodes, beaten, status>>
        /\ \A q \in Procs : pc'[q] = pc[q] \/ pc'[q] = "hung"
    BY DEF Hangs, Goto, TypeOK
  <2>2. \A q \in Procs : HasNil(q)' = HasNil(q)
    BY <2>1 DEF HasNil
  <2> QED
    BY <2>1, <2>2 DEF NodesInv
<1>4. FiledInv'
  BY <1>1 DEF Hangs, Goto, serverVars, Fault, TypeOK, FiledInv
<1>5. AgeInv'
  BY <1>1, <1>4 DEF Hangs, Goto, serverVars, Fault, TypeOK, FiledInv, AgeInv, HasNil
<1> QED
  BY <1>1, <1>2, <1>3, <1>4, <1>5

\* A late request changes the item of its server, as upset allows.
LEMMA StrayArrivesIInv ==
  ASSUME IInv, StrayArrives
  PROVE  IInv'
<1> USE ProcFacts DEF IInv
<1>1. TypeOK'
  <2>1. PICK m \in strays : /\ strays' = strays \ {m}
                            /\ IF m.op = "post" THEN AddServer(m.addr) ELSE RemoveServer(m.addr)
    BY DEF StrayArrives
  <2>2. m.addr \in Servers
    BY <2>1, RequestFacts DEF TypeOK
  <2>3. items' \subseteq Servers /\ age' \in [Servers -> Nat]
    BY <2>1, <2>2, ItemFacts
  <2> QED
    BY <2>1, <2>3 DEF StrayArrives, mainVars, beatVars, faultVars, TypeOK
<1>2. ItemsInv'
  <2>1. PICK m \in strays : /\ strays' = strays \ {m}
                            /\ IF m.op = "post" THEN AddServer(m.addr) ELSE RemoveServer(m.addr)
    BY DEF StrayArrives
  <2>2. /\ m \in upset /\ m.op \in {"post", "delete"} /\ m.addr \in Servers
        /\ m = Request(m.op, m.addr) /\ strays' \subseteq upset
    BY <2>1, RequestFacts DEF TypeOK, ItemsInv
  <2>3. UNCHANGED <<pc, status, upset>>
    BY DEF StrayArrives, mainVars
  <2>4. CASE m.op = "post"
    <3>1. AddServer(m.addr) /\ Request("post", m.addr) \in upset
      BY <2>1, <2>2, <2>4
    <3>2. \A a \in Servers \ {m.addr} : Alive(a)' = Alive(a) /\ (a \in items' <=> a \in items)
      BY <3>1 DEF AddServer, Alive, TypeOK
    <3>3. m.addr \in items'
      BY <3>1 DEF AddServer
    <3> QED
      BY <2>2, <2>3, <3>1, <3>2, <3>3 DEF ItemsInv, Before
  <2>5. CASE m.op = "delete"
    <3>1. RemoveServer(m.addr) /\ Request("delete", m.addr) \in upset
      BY <2>1, <2>2, <2>5
    <3>2. \A a \in Servers \ {m.addr} : Alive(a)' = Alive(a) /\ (a \in items' <=> a \in items)
      BY <3>1 DEF RemoveServer, Alive
    <3>3. m.addr \notin items'
      BY <3>1 DEF RemoveServer
    <3> QED
      BY <2>2, <2>3, <3>1, <3>2, <3>3 DEF ItemsInv, Before
  <2> QED
    BY <2>2, <2>4, <2>5
<1>3. NodesInv'
  BY <1>1 DEF StrayArrives, mainVars, beatVars, AddServer, RemoveServer, TypeOK, NodesInv, HasNil
<1>4. FiledInv'
  BY <1>1 DEF StrayArrives, mainVars, beatVars, AddServer, RemoveServer, TypeOK, FiledInv
<1>5. AgeInv'
  <2>0. PICK m \in strays : /\ strays' = strays \ {m}
                            /\ IF m.op = "post" THEN AddServer(m.addr) ELSE RemoveServer(m.addr)
    BY DEF StrayArrives
  <2>1. \A a \in Servers : age'[a] <= age[a]
    <3>1. m.addr \in Servers
      BY <2>0, RequestFacts DEF TypeOK
    <3> QED
      BY <2>0, <3>1, ItemFacts
  <2>2. \A c \in Clients :
           /\ pc'[c] = "got" => pc[c] = "got" /\ reply'[c] = reply[c]
           /\ pc[c] = "dead" => pc'[c] = "dead"
           /\ nodes'[c] = nodes[c] /\ tick'[c] = tick[c]
           /\ due[c] \/ hb[c] # "idle" => due'[c] \/ hb'[c] # "idle"
    BY DEF StrayArrives, mainVars, beatVars, AddServer, RemoveServer, TypeOK
  <2> QED
    BY <1>1, <2>1, <2>2, AgeKept DEF StrayArrives, faultVars
<1> QED
  BY <1>1, <1>2, <1>3, <1>4, <1>5

\* After a restart a DELETE of every server is in upset.
LEMMA RestartIInv ==
  ASSUME IInv, Restart
  PROVE  IInv'
<1> USE ProcFacts DEF IInv
<1>1. TypeOK'
  <2>1. upset' \subseteq Requests
    BY RequestFacts DEF Restart, TypeOK
  <2>2. faults' \in Nat
    BY DEF Restart, Fault, TypeOK
  <2> QED
    BY <2>1, <2>2 DEF Restart, mainVars, beatVars, TypeOK
<1>2. ItemsInv'
  BY <1>1 DEF Restart, mainVars, beatVars, Fault, TypeOK, ItemsInv, Before, Alive
<1>3. NodesInv'
  BY <1>1 DEF Restart, mainVars, beatVars, Fault, TypeOK, NodesInv, HasNil
<1>4. FiledInv'
  BY <1>1 DEF Restart, mainVars, beatVars, Fault, TypeOK, FiledInv
<1>5. AgeInv'
  BY <1>1, <1>4 DEF Restart, mainVars, beatVars, Fault, TypeOK, FiledInv, AgeInv, HasNil
<1> QED
  BY <1>1, <1>2, <1>3, <1>4, <1>5

\* Each unit of time adds one to the ages and takes one from tick.
LEMMA ElapseIInv ==
  ASSUME IInv, Elapse
  PROVE  IInv'
<1> USE ProcFacts DEF IInv
<1>1. TypeOK'
  BY RpcxRegistryAssumption DEF Elapse, mainVars, faultVars, Quiet, TypeOK, ServerPlaces, ClientPlaces
<1>2. ItemsInv'
  <2>1. \A a \in Servers : Alive(a)' => Alive(a)
    BY RpcxRegistryAssumption DEF Elapse, TypeOK, Alive
  <2> QED
    BY <2>1 DEF Elapse, mainVars, faultVars, ItemsInv, Before
<1>3. NodesInv'
  BY <1>1 DEF Elapse, mainVars, faultVars, Quiet, TypeOK, NodesInv, HasNil
<1>4. FiledInv'
  BY <1>1 DEF Elapse, mainVars, faultVars, Quiet, TypeOK, FiledInv
<1>5. AgeInv'
  <2> SUFFICES ASSUME Timeout > 0, faults' = 0, NEW d \in Clients
               PROVE  /\ pc'[d] = "got" => \A i \in DOMAIN reply'[d] : age'[reply'[d][i]] <= Timeout - 1
                      /\ pc'[d] # "dead" /\ ~HasNil(d)' =>
                           \A i \in DOMAIN nodes'[d] :
                             age'[nodes'[d][i]] <= Timeout - 1 + Period
                               - (IF due'[d] \/ hb'[d] # "idle" THEN 0 ELSE tick'[d])
    BY DEF AgeInv
  <2>0. UNCHANGED <<faults, nodes, pc, reply, hb>>
    BY DEF Elapse, mainVars, faultVars
  <2>1. /\ pc[d] = "got" => \A i \in DOMAIN reply[d] : age[reply[d][i]] <= Timeout - 1
        /\ pc[d] # "dead" /\ ~HasNil(d) =>
             \A i \in DOMAIN nodes[d] :
               age[nodes[d][i]] <= Timeout - 1 + Period
                 - (IF due[d] \/ hb[d] # "idle" THEN 0 ELSE tick[d])
    BY <2>0 DEF AgeInv
  <2>2. /\ Timeout \in Nat /\ Period \in Nat \ {0} /\ tick[d] \in 1 .. Period
        /\ nodes[d] \in Seq(Servers \cup {Nil}) /\ pc[d] \in ClientPlaces
        /\ hb[d] \in {"idle", "get", "got", "hung"} /\ age \in [Servers -> Nat]
    BY RpcxRegistryAssumption DEF TypeOK
  <2>3. pc[d] # "got"
    BY DEF Elapse, Quiet
  <2>4. ASSUME pc[d] # "dead" PROVE ~due[d] /\ hb[d] = "idle"
    <3>1. pc[d] # "hung" /\ hb[d] # "hung"
      BY <2>0 DEF FiledInv
    <3>2. hb[d] = "idle" /\ ~Holds(d) /\ Quiet(d)
      BY <2>2, <2>4, <3>1 DEF Elapse, Quiet, ClientPlaces, Holds
    <3> QED
      BY <2>4, <3>2 DEF Quiet
  <2>5. ASSUME pc[d] # "dead", ~HasNil(d), NEW i \in DOMAIN nodes[d]
        PROVE  age'[nodes[d][i]] <= Timeout - 1 + Period
                 - (IF due'[d] \/ hb'[d] # "idle" THEN 0 ELSE tick'[d])
    <3> DEFINE b == nodes[d][i]
    <3>1. b \in Servers
      BY <2>2, <2>5 DEF HasNil
    <3>2. age[b] <= Timeout - 1 + Period - tick[d]
      BY <2>1, <2>4, <2>5
    <3>3. age[b] \in Nat /\ age'[b] \in Nat /\ age'[b] <= age[b] + 1
      BY <2>2, <3>1, RpcxRegistryAssumption DEF Elapse
    <3> HIDE DEF b
    <3>4. CASE tick[d] = 1
      <4>1. due'[d] = TRUE
        BY <3>4 DEF Elapse
      <4>2. age'[b] <= Timeout - 1 + Period
        BY <2>2, <3>2, <3>3, <3>4
      <4> QED
        BY <2>2, <4>1, <4>2 DEF b
    <3>5. CASE tick[d] # 1
      <4>1. tick'[d] = tick[d] - 1 /\ ~due'[d] /\ hb'[d] = "idle"
        BY <2>0, <2>4, <2>5, <3>5 DEF Elapse
      <4>2. age'[b] <= Timeout - 1 + Period - (tick[d] - 1)
        BY <2>2, <3>2, <3>3
      <4> QED
        BY <4>1, <4>2 DEF b
    <3> QED
      BY <3>4, <3>5
  <2> QED
    BY <2>0, <2>3, <2>5 DEF HasNil
<1> QED
  BY <1>1, <1>2, <1>3, <1>4, <1>5


-----------------------------------------------------------------------------
\* Every step keeps the invariant: one case for each action.
LEMMA NextIInv == IInv /\ [Next]_vars => IInv'
<1> SUFFICES ASSUME IInv, [Next]_vars PROVE IInv'
  OBVIOUS
<1>1. ASSUME NEW a \in Servers,
             Register(a) \/ Deregister(a) \/ ServerStep(a) \/ RequestFails(a)
      PROVE  IInv'
  BY <1>1, RegisterIInv, DeregisterIInv, PostIInv, PostAgainIInv, DeleteIInv, ArriveIInv, ReturnIInv,
     RequestFailsIInv DEF ServerStep
<1>2. ASSUME NEW c \in Clients, NewClient(c) \/ ClientStep(c) \/ GetFails(c)
      PROVE  IInv'
  BY <1>2, NewClientIInv, AnswerGetIInv, FileServiceIInv, ChooseServerIInv, GetFailsIInv
     DEF ClientStep
<1>3. ASSUME NEW p \in Procs, BeatStep(p) \/ BeatFails(p) \/ Hangs(p)
      PROVE  IInv'
  BY <1>3, HeartbeatIInv, AnswerBeatIInv, UpdateNodesIInv, BeatFailsIInv, HangsIInv
     DEF BeatStep
<1>4. CASE UNCHANGED vars
  BY <1>4 DEF vars, serverVars, mainVars, beatVars, faultVars, IInv, TypeOK, ItemsInv,
     NodesInv, FiledInv, AgeInv, Before, Alive, HasNil
<1> QED
  BY <1>1, <1>2, <1>3, <1>4, StrayArrivesIInv, RestartIInv, ElapseIInv DEF Next

\* What the registry, the lists and the ages have to do with each other, as
\* IInv says, holds in every state.
THEOREM Invariance == Spec => []IInv
  BY InitIInv, NextIInv, PTL DEF Spec

\* A registered server is listed until its item is too old.
THEOREM StaysListed == Spec => []RegisteredIsListed
<1>1. IInv => RegisteredIsListed
  BY DEF IInv, ItemsInv, RegisteredIsListed, Before, Alive
<1> QED
  BY <1>1, Invariance, PTL

\* An address that was deregistered is not listed.
THEOREM StaysGone == Spec => []DeregisteredIsGone
<1>1. IInv => DeregisteredIsGone
  BY DEF IInv, ItemsInv, DeregisteredIsGone, Before
<1> QED
  BY <1>1, Invariance, PTL

\* Without faults NewClient takes no address that is too old.
THEOREM NeverStale == Spec => []NoStaleAddress
<1>1. IInv => NoStaleAddress
  <2> SUFFICES ASSUME IInv, Timeout > 0, faults = 0, NEW c \in Clients,
                      pc[c] = "choose", ~HasNil(c), NEW i \in DOMAIN nodes[c]
               PROVE  age[nodes[c][i]] <= Timeout - 1 + Period
    BY DEF NoStaleAddress
  <2>1. /\ Timeout \in Nat /\ Period \in Nat /\ tick[c] \in Nat
        /\ nodes[c] \in Seq(Servers \cup {Nil})
    BY ProcFacts, RpcxRegistryAssumption DEF IInv, TypeOK
  <2>2. nodes[c][i] \in Servers
    BY <2>1 DEF HasNil
  <2>3. age[nodes[c][i]] \in Nat
    BY <2>2 DEF IInv, TypeOK
  <2>4. age[nodes[c][i]] <= Timeout - 1 + Period
          - (IF due[c] \/ hb[c] # "idle" THEN 0 ELSE tick[c])
    BY DEF IInv, AgeInv
  <2> QED
    BY <2>1, <2>3, <2>4
<1> QED
  BY <1>1, Invariance, PTL

\* NewClient, Register and Deregister panic only after doHeartbeat has renewed a list.
THEOREM PanicsNeedABeat == Spec => []PanicsAfterBeat
<1>1. IInv => PanicsAfterBeat
  BY DEF IInv, NodesInv, PanicsAfterBeat
<1> QED
  BY <1>1, Invariance, PTL
=============================================================================
