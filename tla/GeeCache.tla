------------------------------ MODULE GeeCache ------------------------------
(***************************************************************************)
(* One group of package cache spread over several nodes: Group.Get, the    *)
(* singleflight.Group that joins concurrent loads of a key, the HTTPPool   *)
(* that picks and asks the peer owning a key, and the HTTP handler that    *)
(* answers it.  mainCache is the map of module EvictingMap.                *)
(*                                                                         *)
(* The goroutines are users, each running Get once, and HTTP handlers.  At *)
(* a node only the leader of a flight asks a peer, so the handler serving  *)
(* it is named by that node and key, its slot.  A handler whose connection *)
(* breaks runs on as an orphan.                                            *)
(***************************************************************************)
EXTENDS HashRing

CONSTANTS
  Users,        \* the goroutines that call Get
  Orphans,      \* names for the handlers that have lost their connection
  Rings,        \* the hash functions there may be, each with the peers that
                \*   the pools of the nodes were Set to
  Wire,         \* Wire[k]: the key a peer finds in the URL asked for k
  Outcomes,     \* how Getter.Get may end: "ok", "err" or "panic"
  RemoteFails,  \* an HTTP request to a peer may fail
  Evicts,       \* mainCache is small enough to evict
  NoG, NoData, Err

Slots == Nodes \X Keys    \* a key at a node
NodeOf(s) == s[1]
KeyOf(s) == s[2]

G == Users \cup Slots \cup Orphans
Data == Keys \cup {NoData, Err}

ASSUME RingsAssumption ==
  \A r \in Rings : r.hash \in Hashes /\ r.peers \in [Nodes -> Seq(Nodes)]
ASSUME WireAssumption == Wire \in [Keys -> Keys]
ASSUME OutcomesAssumption == Outcomes \subseteq {"ok", "err", "panic"}
ASSUME NamesAssumption ==
  NoG \notin G /\ NoData \notin Keys /\ Err \notin Keys /\ NoData # Err
ASSUME DisjointAssumption ==
  Users \cap Slots = {} /\ Orphans \cap (Users \cup Slots) = {}

VARIABLES
  ring,     \* the hash function, and the peers of every pool
  view,     \* view[s]: the owner of the key as the pool of the node computes it
  pc,       \* where a goroutine is
  slot,     \* slot[g]: the node it runs at and the key it gets
  res,      \* what its Get will return
  cached,   \* cached[s]: the mainCache of the node
  flight,   \* flight[s]: the entry in loader.m of the node
  crashed   \* history: the slots of flights whose Getter panicked

vars == <<ring, view, pc, slot, res, cached, flight, crashed>>

NoFlight == [leader |-> NoG, state |-> "none", val |-> NoData]

\* PickPeer: a node that finds no peer, or itself, loads the key itself.
OwnerAt(s) ==
  LET p == Lookup(ring.hash, ring.peers[NodeOf(s)], KeyOf(s)) IN
  IF p = NoPeer THEN NodeOf(s) ELSE p

Init ==
  /\ ring \in Rings
  /\ view = [s \in Slots |-> OwnerAt(s)]
  /\ pc = [g \in G |-> "idle"]
  /\ slot \in [G -> Slots]
  /\ \A h \in Slots : slot[h] = <<view[h], Wire[KeyOf(h)]>>
  /\ \A o \in Orphans : slot[o] = CHOOSE s \in Slots : TRUE
  /\ res = [g \in G |-> NoData]
  /\ cached = [s \in Slots |-> NoData]
  /\ flight = [s \in Slots |-> NoFlight]
  /\ crashed = {}

Goto(g, l) == pc' = [pc EXCEPT ![g] = l]

-----------------------------------------------------------------------------
(* Group.Get.                                                              *)

\* A user calls Get for its key at its node.
Begin(u) ==
  /\ pc[u] = "idle"
  /\ Goto(u, "get")
  /\ UNCHANGED <<ring, view, slot, res, cached, flight, crashed>>

CacheGet(g) ==
  LET v == cached[slot[g]] IN
  /\ pc[g] = "get"
  /\ \/ v # NoData /\ res' = [res EXCEPT ![g] = v] /\ Goto(g, "return")
     \/ v = NoData /\ UNCHANGED res /\ Goto(g, "do")
  /\ UNCHANGED <<ring, view, slot, cached, flight, crashed>>

-----------------------------------------------------------------------------
(* singleflight.Group.Do: its three critical sections.                     *)

\* Mutant: the entry of another caller is not looked for.
AbsentAlways(g) == TRUE
Absent(g) == flight[slot[g]].leader = NoG

\* g finds no entry and becomes the leader.
Lead(g) ==
  /\ pc[g] = "do" /\ Absent(g)
  /\ flight' = [flight EXCEPT ![slot[g]] =
                  [leader |-> g, state |-> "running", val |-> NoData]]
  /\ Goto(g, "load")
  /\ UNCHANGED <<ring, view, slot, res, cached, crashed>>

\* g finds an entry; c.wg.Wait returns at once when the leader is through.
Join(g) ==
  LET c == flight[slot[g]] IN
  /\ pc[g] = "do" /\ ~Absent(g)
  /\ \/ c.state = "done" /\ res' = [res EXCEPT ![g] = c.val] /\ Goto(g, "return")
     \/ c.state # "done" /\ UNCHANGED res /\ Goto(g, "wait")
  /\ UNCHANGED <<ring, view, slot, cached, flight, crashed>>

\* Mutant: c.wg.Done is forgotten.
WokenNone(g) == {}
Woken(g) == {w \in G : pc[w] = "wait" /\ slot[w] = slot[g]}

\* fn has returned: c.val is set and c.wg.Done wakes the waiters.
WgDone(g) ==
  /\ pc[g] = "fnDone"
  /\ flight' = [flight EXCEPT ![slot[g]] =
                  [leader |-> @.leader, state |-> "done", val |-> res[g]]]
  /\ res' = [w \in G |-> IF w \in Woken(g) THEN res[g] ELSE res[w]]
  /\ pc' = [w \in G |-> IF w \in Woken(g) THEN "return"
                        ELSE IF w = g THEN "delete" ELSE pc[w]]
  /\ UNCHANGED <<ring, view, slot, cached, crashed>>

Delete(g) ==
  /\ pc[g] = "delete"
  /\ flight' = [flight EXCEPT ![slot[g]] = NoFlight]
  /\ Goto(g, "return")
  /\ UNCHANGED <<ring, view, slot, res, cached, crashed>>

-----------------------------------------------------------------------------
(* The function load passes to Do.                                         *)

\* Mutant: PickPeer may pick any peer but the node itself.
OwnerOther(g) == CHOOSE n \in Nodes : n # NodeOf(slot[g])
Owner(g) == view[slot[g]]

\* PickPeer finds that the node owns the key itself.
PickSelf(g) ==
  /\ pc[g] = "load" /\ Owner(g) = NodeOf(slot[g])
  /\ Goto(g, "local")
  /\ UNCHANGED <<ring, view, slot, res, cached, flight, crashed>>

\* It finds a peer, and the request reaches the handler there.
AskPeer(g) ==
  LET h == slot[g] IN
  /\ pc[g] = "load" /\ Owner(g) # NodeOf(slot[g])
  /\ pc' = [pc EXCEPT ![g] = "remote", ![h] = "get"]
  /\ slot' = [slot EXCEPT ![h] = <<Owner(g), Wire[KeyOf(h)]>>]
  /\ UNCHANGED <<ring, view, res, cached, flight, crashed>>

\* The request fails, or is answered with an error status.
AskFails(g) ==
  /\ RemoteFails
  /\ pc[g] = "load" /\ Owner(g) # NodeOf(slot[g])
  /\ Goto(g, "local")
  /\ UNCHANGED <<ring, view, slot, res, cached, flight, crashed>>

\* The handler has answered, with data or an error, or has panicked.
PeerAnswers(g) ==
  LET h == slot[g] IN
  /\ pc[g] = "remote" /\ pc[h] \in {"return", "dead"}
  /\ \/ /\ pc[h] = "return" /\ res[h] # Err
        /\ res' = [res EXCEPT ![g] = res[h], ![h] = NoData]
        /\ pc' = [pc EXCEPT ![g] = "fnDone", ![h] = "idle"]
     \/ /\ RemoteFails \/ pc[h] = "dead" \/ res[h] = Err
        /\ res' = [res EXCEPT ![h] = NoData]
        /\ pc' = [pc EXCEPT ![g] = "local", ![h] = "idle"]
  /\ UNCHANGED <<ring, view, slot, cached, flight, crashed>>

(***************************************************************************)
(* The connection breaks while the handler runs.  The leader goes local;   *)
(* the handler knows nothing of it and goes on, with the flight that it    *)
(* may lead at its node.                                                   *)
(***************************************************************************)
ConnBreaks(g, o) ==
  LET h == slot[g] IN
  /\ RemoteFails
  /\ pc[g] = "remote" /\ pc[h] \notin {"idle", "return", "dead"} /\ pc[o] = "idle"
  /\ pc' = [pc EXCEPT ![g] = "local", ![h] = "idle", ![o] = pc[h]]
  /\ slot' = [slot EXCEPT ![o] = slot[h]]
  /\ res' = [res EXCEPT ![o] = res[h], ![h] = NoData]
  /\ flight' = [flight EXCEPT ![slot[h]].leader = IF @ = h THEN o ELSE @]
  /\ UNCHANGED <<ring, view, cached, crashed>>

\* mainCache.add, which may evict, the new entry included.
CacheAdd(s, v) ==
  \E kept \in SUBSET Keys :
    /\ Evicts \/ kept = Keys
    /\ cached' = [t \in Slots |->
         IF NodeOf(t) # NodeOf(s) THEN cached[t]
         ELSE IF KeyOf(t) \notin kept THEN NoData
         ELSE IF t = s THEN v ELSE cached[t]]

\* Mutant: the Getter is asked for a key of its own choosing.
LoadedAny(g) == CHOOSE k \in Keys : TRUE
Loaded(g) == KeyOf(slot[g])

\* getLocally.  A panic unwinds Do, which defers nothing.
GetLocally(g, o) ==
  LET s == slot[g] IN
  /\ pc[g] = "local"
  /\ \/ /\ o = "ok" /\ res' = [res EXCEPT ![g] = Loaded(g)]
        /\ CacheAdd(s, Loaded(g)) /\ Goto(g, "fnDone") /\ UNCHANGED crashed
     \/ /\ o = "err" /\ res' = [res EXCEPT ![g] = Err]
        /\ Goto(g, "fnDone") /\ UNCHANGED <<cached, crashed>>
     \/ /\ o = "panic" /\ crashed' = crashed \cup {s}
        /\ Goto(g, "dead") /\ UNCHANGED <<res, cached>>
  /\ UNCHANGED <<ring, view, slot, flight>>

-----------------------------------------------------------------------------
Step(g) ==
  \/ CacheGet(g) \/ Lead(g) \/ Join(g) \/ WgDone(g) \/ Delete(g)
  \/ PickSelf(g) \/ AskPeer(g) \/ AskFails(g) \/ PeerAnswers(g)
  \/ \E o \in Outcomes : GetLocally(g, o)

Next ==
  \/ \E u \in Users : Begin(u)
  \/ \E g \in G : Step(g)
  \/ \E g \in G, o \in Orphans : ConnBreaks(g, o)

Spec == Init /\ [][Next]_vars

\* Every goroutine that can run does; the Getter and the HTTP client return.
FairSpec == Spec /\ \A g \in G : WF_vars(Step(g))

-----------------------------------------------------------------------------
\* Every variable keeps its type: nobody but a goroutine leads a flight, and
\* mainCache holds data, never an error.
TypeOK ==
  /\ ring \in Rings
  /\ view \in [Slots -> Nodes]
  /\ pc \in [G -> {"idle", "get", "do", "wait", "load", "remote", "local",
                   "fnDone", "delete", "return", "dead"}]
  /\ slot \in [G -> Slots]
  /\ res \in [G -> Data]
  /\ cached \in [Slots -> Keys \cup {NoData}]
  /\ flight \in [Slots -> [leader : G \cup {NoG}, state : {"none", "running", "done"},
                           val : Data]]
  /\ crashed \in SUBSET Slots

Loading == {"load", "remote", "local", "fnDone"}
InFlight(g) == pc[g] \in Loading \cup {"delete"}

\* "only one call can do func()": at a node at most one goroutine is loading
\* a key.
OneFlightPerKey ==
  \A g, h \in G : InFlight(g) /\ InFlight(h) /\ slot[g] = slot[h] => g = h

\* No wake-up is lost: a goroutine that waits finds in loader.m an entry whose
\* leader has still to call wg.Done, unless the leader's Getter panicked.
WaitersHaveALeader ==
  \A g \in G : pc[g] = "wait" =>
    LET c == flight[slot[g]] IN
    /\ c.state = "running"
    /\ slot[g] \in crashed \/ (pc[c.leader] \in Loading /\ slot[c.leader] = slot[g])

\* Get returns, and mainCache holds, the data of the key it was asked for.
RightValue ==
  /\ \A u \in Users : pc[u] = "return" => res[u] \in {KeyOf(slot[u]), Err}
  /\ \A s \in Slots : cached[s] \in {KeyOf(s), NoData}

\* All pools compute the same owners.
Agree == \A s, t \in Slots : KeyOf(s) = KeyOf(t) => view[s] = view[t]

\* Pools that were Set to the same peers, in whatever order, agree on the owner
\* of every key, as long as no two peers collide on the ring.
SamePeers ==
  \A m, n \in Nodes :
    ring.peers[n] # <<>> /\ Range(ring.peers[m]) = Range(ring.peers[n])

SamePeersAgree == SamePeers /\ NoCollision(ring.hash) => Agree

\* When the pools agree, the peer that is asked does not ask another in turn,
\* so no two nodes can wait for each other; neither does an orphan.
SingleHop == Agree => \A h \in Slots \cup Orphans : pc[h] # "remote"

\* When the pools agree, every Get returns, unless a Getter has panicked for
\* the same key: a panic that leaves an entry in loader.m harms no other key.
Harmed(k) == \E s \in crashed : KeyOf(s) = k
EveryGetReturns == Agree =>
  \A u \in Users :
    (pc[u] = "get") ~> (pc[u] \in {"return", "dead"} \/ Harmed(KeyOf(slot[u])))

-----------------------------------------------------------------------------
(* The inductive invariant behind the safety properties.                   *)

\* Who is in flight is the leader in the entry of its key.
LeaderInv ==
  \A g \in G : InFlight(g) =>
    /\ flight[slot[g]].leader = g
    /\ flight[slot[g]].state = IF pc[g] = "delete" THEN "done" ELSE "running"

\* Conversely an entry has a leader at work on it, or one that panicked; an
\* entry left behind by a panic stays, and nobody works on it.
EntryInv ==
  \A s \in Slots :
    /\ (flight[s].state = "none") <=> (flight[s].leader = NoG)
    /\ flight[s].state = "running" => \/ s \in crashed
                                     \/ /\ pc[flight[s].leader] \in Loading
                                        /\ slot[flight[s].leader] = s
    /\ flight[s].state = "done" => /\ pc[flight[s].leader] = "delete"
                                  /\ slot[flight[s].leader] = s
    /\ s \in crashed => /\ flight[s].state = "running"
                        /\ \A g \in G : slot[g] = s => ~InFlight(g)

WaitInv == \A g \in G : pc[g] = "wait" => flight[slot[g]].state = "running"

\* A handler that runs was sent by the leader of the flight it is named
\* after, who waits for it, to the owner of the key.
HandlerInv ==
  \A h \in Slots : pc[h] # "idle" =>
    /\ slot[h] = <<view[h], Wire[KeyOf(h)]>>
    /\ view[h] # NodeOf(h)
    /\ flight[h].leader \in G
    /\ pc[flight[h].leader] = "remote"
    /\ slot[flight[h].leader] = h

\* So was an orphan, by a leader that has gone.
OrphanInv ==
  \A o \in Orphans : pc[o] # "idle" =>
    \E s \in Slots : slot[o] = <<view[s], Wire[KeyOf(s)]>>

\* A peer is asked only for a key that another node owns.
RemoteInv == \A g \in G : pc[g] = "remote" => view[slot[g]] # NodeOf(slot[g])

FlightInv == LeaderInv /\ EntryInv /\ WaitInv /\ HandlerInv /\ RemoteInv

\* The parts together, as GeeCache_proof shows them to hold: loader.m and the
\* goroutines inside Do agree on who is at work on which key.
IInv == TypeOK /\ FlightInv

\* Data is always the data of the key; a Get that is about to return has some.
ValueInv ==
  /\ \A g \in G : res[g] \in {KeyOf(slot[g]), Err, NoData}
  /\ \A h \in Slots : pc[h] = "idle" => res[h] = NoData
  /\ \A g \in G : pc[g] \in {"fnDone", "delete", "return"} => res[g] # NoData
  /\ \A s \in Slots : cached[s] \in {KeyOf(s), NoData}
  /\ \A s \in Slots : flight[s].state = "done" => flight[s].val \in {KeyOf(s), Err}

=============================================================================
