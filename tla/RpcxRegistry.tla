---------------------------- MODULE RpcxRegistry ----------------------------
(***************************************************************************)
(* The registry of package rpcx: the server of rpcx/registry_server, and   *)
(* processes that each hold one httpRegistry of rpcx/registry.  A server   *)
(* calls Register and Deregister for its address, a client calls NewClient *)
(* of rpcx/client.go.  All of them run doHeartbeat when the ticker says    *)
(* so.  There is one service.                                              *)
(*                                                                         *)
(* r.mu is held across the HTTP requests of Register, Deregister and       *)
(* doHeartbeat; GetService takes no lock.  The unit of time is longer than *)
(* any request that is answered, and age[a] stands for time.Now() minus    *)
(* the start of a's ServerItem.                                            *)
(***************************************************************************)
EXTENDS Integers, Sequences

CONSTANTS
  Servers,     \* the addresses, each of a server process
  Clients,     \* the client processes
  Nil,         \* a nil *Node
  Timeout,     \* the timeout of the registry server; 0 for none
  Period,      \* opts.Timeout, the period of the ticker
  MaxAge,      \* ages are not told apart from here on
  MaxFaults,   \* bound on the faults
  Sorted       \* Sorted[S]: the addresses S in the order of sort.Strings

Procs == Servers \cup Clients

ASSUME RpcxRegistryAssumption ==
  /\ Servers \cap Clients = {} /\ Nil \notin Procs
  /\ Timeout \in Nat /\ Period \in Nat \ {0}
  /\ MaxAge \in Nat /\ MaxAge >= Timeout /\ MaxFaults \in Nat
  /\ Sorted \in [SUBSET Servers -> Seq(Servers)]
  /\ \A S \in SUBSET Servers : {Sorted[S][i] : i \in DOMAIN Sorted[S]} = S

VARIABLES
  items,    \* the keys of r.servers[service] in the registry server
  age,      \* age[a]: the time since the start of a's item
  filed,    \* filed[p]: r.servers of the httpRegistry of p has the service
  nodes,    \* nodes[p]: the Nodes of the *Service that p holds
  pc,       \* pc[p]: where the main goroutine of p is
  reply,    \* reply[p]: the addresses in the answer to its GET
  hb,       \* hb[p]: where doHeartbeat of p is
  news,     \* news[p]: the addresses in the answer to the GET of doHeartbeat
  tick,     \* tick[p]: the time to the next tick
  due,      \* due[p]: a tick is in the channel
  strays,   \* requests that were given up by their senders, and may arrive
  faults,   \* the number of faults so far
  status,   \* history: status[a]: the result of the last call of server a
  upset,    \* history: the requests that were given up; a restart is a DELETE
            \*   of every address that nobody asked for
  beaten    \* history: the processes whose doHeartbeat has renewed a list

serverVars == <<items, age>>
mainVars == <<filed, pc, reply, status>>
beatVars == <<hb, news, due, beaten>>
faultVars == <<strays, faults, upset>>
vars == <<serverVars, mainVars, nodes, beatVars, tick, faultVars>>

\* Every process has called NewRegistry, at some time within a period.
Init ==
  /\ items = {} /\ age = [a \in Servers |-> 0]
  /\ filed = [p \in Procs |-> FALSE] /\ nodes = [p \in Procs |-> <<>>]
  /\ pc = [p \in Procs |-> "idle"] /\ reply = [p \in Procs |-> <<>>]
  /\ hb = [p \in Procs |-> "idle"] /\ news = [p \in Procs |-> <<>>]
  /\ tick \in [Procs -> 1..Period] /\ due = [p \in Procs |-> FALSE]
  /\ strays = {} /\ faults = 0
  /\ status = [a \in Servers |-> "new"] /\ upset = {} /\ beaten = {}

Goto(p, l) == pc' = [pc EXCEPT ![p] = l]

-----------------------------------------------------------------------------
(* The registry server.                                                    *)

AddServer(a) ==
  /\ items' = items \cup {a}
  /\ age' = [age EXCEPT ![a] = 0]

\* Mutant: the map of the service is not changed.
RemoveServerKept(a) == UNCHANGED <<items, age>>
RemoveServer(a) ==
  /\ items' = items \ {a}
  /\ UNCHANGED age

AliveEarly(a) == Timeout = 0 \/ age[a] + 1 < Timeout     \* mutant
Alive(a) == Timeout = 0 \/ age[a] < Timeout

\* getServers: the dead ones are deleted, the others are the answer.
GetServers == {a \in items : Alive(a)}
Purge == items' = GetServers /\ UNCHANGED age

-----------------------------------------------------------------------------
(* Register and Deregister.                                                *)

\* The request, or its answer, is on its way: r.mu is held.
Sending(p) == pc[p] \in {"post", "posted", "delete", "deleted", "hung"}
Holds(p) == p \in Servers /\ Sending(p)

Register(a) ==
  /\ pc[a] = "idle" /\ Goto(a, "register")
  /\ UNCHANGED <<serverVars, filed, reply, status, nodes, beatVars, tick, faultVars>>

\* A server calls Deregister when it has called Register before.
Deregister(a) ==
  /\ status[a] # "new"
  /\ pc[a] = "idle" /\ Goto(a, "deregister")
  /\ UNCHANGED <<serverVars, filed, reply, status, nodes, beatVars, tick, faultVars>>

\* r.mu is free: a new Service of the caller, with its one node, is filed.
Post(a) ==
  /\ pc[a] = "register" /\ hb[a] = "idle"
  /\ filed' = [filed EXCEPT ![a] = TRUE]
  /\ nodes' = [nodes EXCEPT ![a] = <<a>>]
  /\ Goto(a, "post")
  /\ UNCHANGED <<serverVars, reply, status, beatVars, tick, faultVars>>

(***************************************************************************)
(* Register with the Service of an earlier call, which is filed whatever   *)
(* its Nodes are.  doHeartbeat may have changed them: an empty list is an  *)
(* error, and a nil node at its head a panic.                              *)
(***************************************************************************)
PostAgain(a) ==
  /\ pc[a] = "register" /\ hb[a] = "idle" /\ status[a] # "new"
  /\ filed' = [filed EXCEPT ![a] = TRUE]
  /\ \/ /\ nodes[a] = <<>>
        /\ status' = [status EXCEPT ![a] = "failed"]
        /\ Goto(a, "idle")
     \/ /\ nodes[a] # <<>>
        /\ Goto(a, IF Head(nodes[a]) = Nil THEN "dead" ELSE "post")
        /\ UNCHANGED status
  /\ UNCHANGED <<serverVars, reply, nodes, beatVars, tick, faultVars>>

(***************************************************************************)
(* Deregister with a new Service, or with the one that was registered:     *)
(* doHeartbeat has changed its Nodes, when it begins with a nil node or is *)
(* empty, and service.Nodes[0].Address panics.                             *)
(***************************************************************************)
Delete(a) ==
  /\ pc[a] = "deregister" /\ hb[a] = "idle"
  /\ filed' = [filed EXCEPT ![a] = FALSE]
  /\ \/ Goto(a, "delete")
     \/ /\ ~(nodes[a] # <<>> /\ Head(nodes[a]) # Nil)
        /\ Goto(a, "dead")
  /\ UNCHANGED <<serverVars, reply, status, nodes, beatVars, tick, faultVars>>

Arrive(a) ==
  /\ \/ pc[a] = "post" /\ AddServer(a) /\ Goto(a, "posted")
     \/ pc[a] = "delete" /\ RemoveServer(a) /\ Goto(a, "deleted")
  /\ UNCHANGED <<filed, reply, status, nodes, beatVars, tick, faultVars>>

Return(a) ==
  /\ \/ pc[a] = "posted" /\ status' = [status EXCEPT ![a] = "registered"]
     \/ pc[a] = "deleted" /\ status' = [status EXCEPT ![a] = "gone"]
  /\ Goto(a, "idle")
  /\ UNCHANGED <<serverVars, filed, reply, nodes, beatVars, tick, faultVars>>

-----------------------------------------------------------------------------
(* NewClient: GetService, and the choice of an address.                    *)

NewClient(c) ==
  /\ pc[c] = "idle"
  /\ Goto(c, IF filed[c] THEN "choose" ELSE "get")
  /\ UNCHANGED <<serverVars, filed, reply, status, nodes, beatVars, tick, faultVars>>

AnswerGet(c) ==
  /\ pc[c] = "get" /\ Goto(c, "got")
  /\ reply' = [reply EXCEPT ![c] = Sorted[GetServers]]
  /\ Purge
  /\ UNCHANGED <<filed, status, nodes, beatVars, tick, faultVars>>

\* Mutant: the slice has a length where it should have a capacity.
NilNodes(list) == [i \in DOMAIN list |-> Nil]
ListedPadded(list) == NilNodes(list) \o list
Listed(list) == list

FileService(c) ==
  /\ pc[c] = "got" /\ Goto(c, "choose")
  /\ filed' = [filed EXCEPT ![c] = TRUE]
  /\ nodes' = [nodes EXCEPT ![c] = Listed(reply[c])]
  /\ reply' = [reply EXCEPT ![c] = <<>>]
  /\ UNCHANGED <<serverVars, status, beatVars, tick, faultVars>>

HasNil(p) == \E i \in DOMAIN nodes[p] : nodes[p][i] = Nil

\* getServerAddress reads the address of every node.  The balancer then takes
\* one of them, which is the first with RoundRobinSelect, or there is none.
ChooseServer(c) ==
  /\ pc[c] = "choose"
  /\ Goto(c, IF HasNil(c) THEN "dead" ELSE "idle")
  /\ UNCHANGED <<serverVars, filed, reply, status, nodes, beatVars, tick, faultVars>>

-----------------------------------------------------------------------------
(* doHeartbeat, at a tick: it asks for the services in r.servers.          *)

Heartbeat(p) ==
  /\ due[p] /\ hb[p] = "idle" /\ ~Holds(p) /\ pc[p] # "dead"
  /\ due' = [due EXCEPT ![p] = FALSE]
  /\ hb' = [hb EXCEPT ![p] = IF filed[p] THEN "get" ELSE "idle"]
  /\ UNCHANGED <<serverVars, mainVars, nodes, news, beaten, tick, faultVars>>

AnswerBeat(p) ==
  /\ hb[p] = "get" /\ hb' = [hb EXCEPT ![p] = "got"]
  /\ news' = [news EXCEPT ![p] = Sorted[GetServers]]
  /\ Purge
  /\ UNCHANGED <<mainVars, nodes, due, beaten, tick, faultVars>>

\* Mutant: the new list is made and not stored.
RenewedNot(p) == nodes[p]
\* make([]*Node, len(list)), and then append.
Renewed(p) == NilNodes(news[p]) \o news[p]

UpdateNodes(p) ==
  /\ hb[p] = "got" /\ hb' = [hb EXCEPT ![p] = "idle"]
  /\ pc[p] # "dead"
  /\ nodes' = [nodes EXCEPT ![p] = Renewed(p)]
  /\ news' = [news EXCEPT ![p] = <<>>]
  /\ beaten' = beaten \cup {p}
  /\ UNCHANGED <<serverVars, mainVars, due, tick, faultVars>>

-----------------------------------------------------------------------------
(* Faults.                                                                 *)

Requests == [op : {"post", "delete"}, addr : Servers]
Request(op, a) == [op |-> op, addr |-> a]

Fault == faults < MaxFaults /\ faults' = faults + 1

\* A request of a server fails.  When the connection broke on the way there,
\* the registry may have it nevertheless, and serve it later.
RequestFails(a) ==
  /\ Fault
  /\ \/ /\ pc[a] \in {"post", "delete"}
        /\ strays' = strays \cup {Request(pc[a], a)}
        /\ upset' = upset \cup {Request(pc[a], a)}
     \/ /\ pc[a] \in {"post", "posted", "delete", "deleted"}
        /\ UNCHANGED <<strays, upset>>
  /\ status' = [status EXCEPT ![a] = "failed"]
  /\ Goto(a, "idle")
  /\ UNCHANGED <<serverVars, filed, reply, nodes, beatVars, tick>>

StrayArrives ==
  \E m \in strays :
    /\ strays' = strays \ {m}
    /\ IF m.op = "post" THEN AddServer(m.addr) ELSE RemoveServer(m.addr)
    /\ UNCHANGED <<mainVars, nodes, beatVars, tick, faults, upset>>

GetFails(c) ==
  /\ Fault
  /\ pc[c] \in {"get", "got"} /\ Goto(c, "idle")
  /\ reply' = [reply EXCEPT ![c] = <<>>]
  /\ UNCHANGED <<serverVars, filed, status, nodes, beatVars, tick, strays, upset>>

\* Mutant: an error is returned from doHeartbeat before r.mu is released.
ReleasedNot == "stuck"
Released == "idle"

\* doHeartbeat logs the error, and keeps the list.
BeatFails(p) ==
  /\ Fault
  /\ hb[p] \in {"get", "got"} /\ hb' = [hb EXCEPT ![p] = Released]
  /\ news' = [news EXCEPT ![p] = <<>>]
  /\ UNCHANGED <<serverVars, mainVars, nodes, due, beaten, tick, strays, upset>>

\* A request that is never answered: http.DefaultClient has no timeout.
Hangs(p) ==
  /\ Fault
  /\ \/ /\ pc[p] \in {"post", "posted", "delete", "deleted", "get", "got"}
        /\ Goto(p, "hung")
        /\ UNCHANGED hb
     \/ /\ hb[p] \in {"get", "got"} /\ hb' = [hb EXCEPT ![p] = "hung"]
        /\ UNCHANGED pc
  /\ UNCHANGED <<serverVars, filed, reply, status, nodes, news, due, beaten, tick, strays, upset>>

\* The registry server restarts, with an empty map.
Restart ==
  /\ Fault
  /\ items' = {}
  /\ upset' = upset \cup {Request("delete", a) : a \in Servers}
  /\ UNCHANGED <<age, mainVars, nodes, beatVars, tick, strays>>

-----------------------------------------------------------------------------
\* Nothing is on its way, and no goroutine can run.
Quiet(p) ==
  \/ pc[p] = "dead"
  \/ /\ \/ pc[p] \in {"idle", "hung"}
        \/ pc[p] \in {"register", "deregister"} /\ hb[p] # "idle"
     /\ hb[p] \notin {"get", "got"}
     /\ due[p] => hb[p] # "idle" \/ Holds(p)

Elapse ==
  /\ \A p \in Procs : Quiet(p)
  /\ age' = [a \in Servers |-> IF age[a] < MaxAge THEN age[a] + 1 ELSE age[a]]
  /\ due' = [p \in Procs |-> due[p] \/ tick[p] = 1]
  /\ tick' = [p \in Procs |-> IF tick[p] = 1 THEN Period ELSE tick[p] - 1]
  /\ UNCHANGED <<items, mainVars, nodes, hb, news, beaten, faultVars>>

ServerStep(a) == Post(a) \/ PostAgain(a) \/ Delete(a) \/ Arrive(a) \/ Return(a)
ClientStep(c) == AnswerGet(c) \/ FileService(c) \/ ChooseServer(c)
BeatStep(p) == Heartbeat(p) \/ AnswerBeat(p) \/ UpdateNodes(p)

Next ==
  \/ \E a \in Servers : Register(a) \/ Deregister(a) \/ ServerStep(a) \/ RequestFails(a)
  \/ \E c \in Clients : NewClient(c) \/ ClientStep(c) \/ GetFails(c)
  \/ \E p \in Procs : BeatStep(p) \/ BeatFails(p) \/ Hangs(p)
  \/ StrayArrives
  \/ Restart
  \/ Elapse

Spec == Init /\ [][Next]_vars

\* Goroutines that can run do, sync.Mutex starves none of them, and requests
\* that are neither lost nor stuck are answered.
FairSpec ==
  /\ Spec
  /\ \A a \in Servers : SF_vars(ServerStep(a))
  /\ \A c \in Clients : WF_vars(ClientStep(c))
  /\ \A p \in Procs : WF_vars(BeatStep(p))

-----------------------------------------------------------------------------
\* A server that has registered is listed until its item is Timeout old,
\* whoever asks the registry meanwhile and lets it delete old items.  Only a
\* DELETE that was given up, or a restart, can take it away.
RegisteredIsListed ==
  \A a \in Servers :
    pc[a] = "idle" /\ status[a] = "registered" /\ Request("delete", a) \notin upset
      /\ (Timeout = 0 \/ age[a] < Timeout) => a \in items

\* An address is not listed after a Deregister that returned nil.  Only a POST
\* that was given up can bring it back; no DELETE and no restart does.
DeregisteredIsGone ==
  \A a \in Servers :
    pc[a] = "idle" /\ status[a] = "gone" /\ Request("post", a) \notin upset
      => a \notin items

\* NewClient takes no address whose last Register is longer ago than Timeout
\* and the period of a heartbeat: a list is used until the next tick only.
NoStaleAddress ==
  Timeout > 0 /\ faults = 0 =>
    \A c \in Clients : pc[c] = "choose" /\ ~HasNil(c) =>
      \A i \in DOMAIN nodes[c] : age[nodes[c][i]] <= Timeout - 1 + Period

\* Neither NewClient nor Register nor Deregister panics with a registry whose
\* heartbeat has not yet renewed a list: the nil nodes come from doHeartbeat.
PanicsAfterBeat == \A p \in Procs : pc[p] = "dead" => p \in beaten

\* Register and Deregister return, or panic, unless a request of the process
\* is never answered, that of the heartbeat included.
CallsReturn == \A a \in Servers :
  pc[a] \in {"register", "deregister"} ~>
    (pc[a] \in {"idle", "hung", "dead"} \/ hb[a] = "hung")

-----------------------------------------------------------------------------
(* The inductive invariant behind the four state properties above.         *)

ServerPlaces == {"idle", "register", "post", "posted", "deregister", "delete", "deleted",
                 "hung", "dead"}
ClientPlaces == {"idle", "get", "got", "choose", "hung", "dead"}

\* Every variable keeps its type, and a process is where its role allows.
TypeOK ==
  /\ items \subseteq Servers /\ age \in [Servers -> Nat]
  /\ filed \in [Procs -> BOOLEAN] /\ nodes \in [Procs -> Seq(Servers \cup {Nil})]
  /\ pc \in [Procs -> ServerPlaces \cup ClientPlaces] /\ reply \in [Procs -> Seq(Servers)]
  /\ \A a \in Servers : pc[a] \in ServerPlaces
  /\ \A c \in Clients : pc[c] \in ClientPlaces
  /\ hb \in [Procs -> {"idle", "get", "got", "hung"}] /\ news \in [Procs -> Seq(Servers)]
  /\ tick \in [Procs -> 1..Period] /\ due \in [Procs -> BOOLEAN]
  /\ strays \subseteq Requests /\ faults \in Nat
  /\ status \in [Servers -> {"new", "registered", "gone", "failed"}]
  /\ upset \subseteq Requests /\ beaten \subseteq Procs

\* The request of a call of the server has not reached the registry.
Before(a) == pc[a] \in {"idle", "register", "post", "deregister", "delete"}

\* Only a request that was given up can change the items behind the back of
\* its server; the others leave them as the server has been told, or will be.
ItemsInv ==
  /\ strays \subseteq upset
  /\ \A a \in Servers :
       /\ Request("delete", a) \notin upset =>
            (pc[a] = "posted" \/ (status[a] = "registered" /\ Before(a)) =>
               (Alive(a) => a \in items))
       /\ Request("post", a) \notin upset =>
            (pc[a] = "deleted" \/ (status[a] = "gone" /\ Before(a)) => a \notin items)

\* Until doHeartbeat renews it, a list has no nil node, and that of a server
\* which has registered has the server itself.
NodesInv ==
  /\ \A p \in Procs \ beaten : ~HasNil(p) /\ pc[p] # "dead"
  /\ \A a \in Servers : pc[a] \in {"deregister", "delete", "deleted"} => status[a] # "new"
  /\ \A a \in Servers \ beaten :
       status[a] # "new" \/ pc[a] \in {"post", "posted"} => nodes[a] = <<a>>

\* A client asks for a list once, and doHeartbeat only renews one that is there.
FiledInv ==
  /\ faults = 0 => \A p \in Procs : pc[p] # "hung" /\ hb[p] # "hung"
  /\ \A c \in Clients :
       /\ pc[c] \in {"get", "got"} => ~filed[c]
       /\ ~filed[c] => hb[c] = "idle" /\ nodes[c] = <<>>

\* The servers of a list are as old as Timeout allowed when it was made, and
\* the time since then; a tick that is due leaves no time.
AgeInv ==
  Timeout > 0 /\ faults = 0 =>
    \A c \in Clients :
      /\ pc[c] = "got" => \A i \in DOMAIN reply[c] : age[reply[c][i]] <= Timeout - 1
      /\ pc[c] # "dead" /\ ~HasNil(c) =>
           \A i \in DOMAIN nodes[c] :
             age[nodes[c][i]] <= Timeout - 1 + Period
               - (IF due[c] \/ hb[c] # "idle" THEN 0 ELSE tick[c])

IInv == TypeOK /\ ItemsInv /\ NodesInv /\ FiledInv /\ AgeInv
=============================================================================
