--------------------------- MODULE GeeCache_proof ---------------------------
(***************************************************************************)
(* Proofs about GeeCache and the HashRing it is built on, for any nodes,   *)
(* keys, users, replicas and hash functions.                               *)
(***************************************************************************)
EXTENDS GeeCache, WellFoundedInduction, TLAPS

-----------------------------------------------------------------------------
(* The consistent hash.                                                    *)


\* A nonempty set of natural numbers has a least element, which Min chooses.
LEMMA MinFacts ==
  ASSUME NEW S, S \subseteq Nat, S # {}
  PROVE  Min(S) \in S /\ \A y \in S : Min(S) <= y
<1> DEFINE R == OpToRel(<, Nat)
<1>1. IsWellFoundedOn(R, Nat)
  BY NatLessThanWellFounded
<1>2. \A x, y \in Nat : x < y => <<x, y>> \in R
  BY DEF OpToRel
<1> HIDE DEF R
<1>3. PICK x \in S : \A y \in S : ~(<<y, x>> \in R)
  BY <1>1, WFMin
<1>4. ASSUME NEW y \in S PROVE x <= y
  <2>1. x \in Nat /\ y \in Nat
    OBVIOUS
  <2>2. ~(y < x)
    BY <1>2, <1>3, <2>1
  <2> QED
    BY <2>1, <2>2
<1> QED
  BY <1>4 DEF Min

\* A nonempty set of indices has a greatest element, which Max chooses.
LEMMA MaxFacts ==
  ASSUME NEW n \in Nat, NEW S, S \subseteq 1 .. n, S # {}
  PROVE  Max(S) \in S /\ \A y \in S : Max(S) >= y
<1> DEFINE T == {n - i : i \in S}
<1>1. \A i \in S : i \in Nat /\ n - i \in Nat /\ n - i \in T
  OBVIOUS
<1>2. T \subseteq Nat /\ T # {}
  BY <1>1
<1>3. \A y \in T : \E i \in S : y = n - i
  OBVIOUS
<1> HIDE DEF T
<1>4. Min(T) \in T /\ \A y \in T : Min(T) <= y
  BY <1>2, MinFacts
<1>5. PICK x \in S : Min(T) = n - x
  BY <1>3, <1>4
<1>6. ASSUME NEW y \in S PROVE x >= y
  <2>1. n - x <= n - y
    BY <1>1, <1>4, <1>5
  <2> QED
    BY <1>1, <2>1
<1> QED
  BY <1>6 DEF Max

\* Every peer has points, and they are natural numbers.
LEMMA SpotFacts ==
  ASSUME NEW r \in Hashes, NEW p \in Nodes
  PROVE  Spots(r, p) \subseteq Nat /\ Spots(r, p) # {}
<1>1. 0 \in 0 .. Replicas - 1
  BY ReplicasAssumption
<1>2. \A i \in 0 .. Replicas - 1 : r.spot[<<p, i>>] \in Nat
  BY DEF Hashes
<1> QED
  BY <1>1, <1>2 DEF Spots

\* The points of a list of peers are those of its peers.
LEMMA PointFacts ==
  ASSUME NEW r \in Hashes, NEW peers \in Seq(Nodes)
  PROVE  /\ Points(r, peers) \subseteq Nat
         /\ peers # <<>> => Points(r, peers) # {}
         /\ \A x : x \in Points(r, peers) <=> \E p \in Range(peers) : x \in Spots(r, p)
<1>1. DOMAIN peers = 1 .. Len(peers) /\ Len(peers) \in Nat /\ \A i \in DOMAIN peers : peers[i] \in Nodes
  OBVIOUS
<1>2. \A x : x \in Points(r, peers) <=> \E i \in DOMAIN peers : x \in Spots(r, peers[i])
  BY DEF Points
<1>3. \A x : x \in Points(r, peers) <=> \E p \in Range(peers) : x \in Spots(r, p)
  BY <1>2 DEF Range
<1>4. Points(r, peers) \subseteq Nat
  BY <1>1, <1>2, SpotFacts
<1>5. ASSUME peers # <<>> PROVE Points(r, peers) # {}
  <2>1. 1 \in DOMAIN peers
    BY <1>1, <1>5
  <2> QED
    BY <1>1, <1>2, <2>1, SpotFacts
<1> QED
  BY <1>3, <1>4, <1>5

\* Closest finds a point of the ring: the first at or after x, or the first of
\* all when there is none.
LEMMA ClosestFacts ==
  ASSUME NEW r \in Hashes, NEW peers \in Seq(Nodes), peers # <<>>, NEW x \in Nat
  PROVE  LET c == Closest(r, peers, x) P == Points(r, peers) IN
         /\ c \in P
         /\ c >= x => \A y \in P : y >= x => c <= y
         /\ c < x => \A y \in P : y < x /\ c <= y
<1> DEFINE P == Points(r, peers)
           above == {y \in P : y >= x}
           c == Closest(r, peers, x)
<1>1. P \subseteq Nat /\ P # {}
  BY PointFacts
<1>2. c = IF above = {} THEN Min(P) ELSE Min(above)
  BY DEF Closest
<1> HIDE DEF P, c
<1>3. CASE above = {}
  <2>1. c \in P /\ \A y \in P : c <= y
    BY <1>1, <1>2, <1>3, MinFacts
  <2>2. \A y \in P : y < x
    BY <1>1, <1>3
  <2> QED
    BY <1>1, <2>1, <2>2 DEF P, c
<1>4. CASE above # {}
  <2>1. c \in above /\ \A y \in above : c <= y
    BY <1>1, <1>2, <1>4, MinFacts
  <2> QED
    BY <1>1, <2>1 DEF P, c
<1> QED
  BY <1>3, <1>4

\* A point of the ring belongs to the last of the peers that have it.
LEMMA HashMapFacts ==
  ASSUME NEW r \in Hashes, NEW peers \in Seq(Nodes), NEW x \in Points(r, peers)
  PROVE  \E i \in DOMAIN peers :
           /\ HashMap(r, peers, x) = peers[i] /\ x \in Spots(r, peers[i])
           /\ \A j \in DOMAIN peers : x \in Spots(r, peers[j]) => j <= i
<1> DEFINE S == {i \in DOMAIN peers : x \in Spots(r, peers[i])}
<1>1. Len(peers) \in Nat /\ S \subseteq 1 .. Len(peers) /\ S # {}
  BY DEF Points
<1>2. Max(S) \in S /\ \A y \in S : Max(S) >= y
  BY <1>1, MaxFacts
<1>3. HashMap(r, peers, x) = peers[Max(S)]
  BY DEF HashMap
<1> HIDE DEF S
<1>4. \A j \in S : j <= Max(S)
  BY <1>1, <1>2
<1> QED
  BY <1>2, <1>3, <1>4 DEF S

\* Get returns one of the peers that were added, so that httpGetters has an
\* entry for what PickPeer picks.
THEOREM LookupIsAPeer ==
  ASSUME NEW r \in Hashes, NEW peers \in Seq(Nodes), peers # <<>>, NEW k \in Keys
  PROVE  Lookup(r, peers, k) \in Range(peers) /\ Lookup(r, peers, k) \in Nodes
<1>1. r.key[k] \in Nat
  BY DEF Hashes
<1>2. Closest(r, peers, r.key[k]) \in Points(r, peers)
  BY <1>1, ClosestFacts
<1>3. PICK i \in DOMAIN peers : HashMap(r, peers, Closest(r, peers, r.key[k])) = peers[i]
  BY <1>2, HashMapFacts
<1> QED
  BY <1>3 DEF Lookup, Range

\* The order in which peers were added does not matter when no two collide:
\* pools with the same peers send a key to the same owner.
THEOREM OrderDoesNotMatter ==
  ASSUME NEW r \in Hashes, NoCollision(r), NEW k \in Keys,
         NEW p \in Seq(Nodes), NEW q \in Seq(Nodes), p # <<>>, q # <<>>,
         Range(p) = Range(q)
  PROVE  Lookup(r, p, k) = Lookup(r, q, k)
<1> DEFINE x == r.key[k]
<1>1. x \in Nat
  BY DEF Hashes
<1>2. Points(r, p) = Points(r, q)
  BY PointFacts
<1>3. Closest(r, p, x) = Closest(r, q, x)
  BY <1>2 DEF Closest
<1>4. Closest(r, p, x) \in Points(r, p)
  BY <1>1, ClosestFacts
<1> DEFINE c == Closest(r, p, x)
<1> HIDE DEF c
<1>5. PICK i \in DOMAIN p : HashMap(r, p, c) = p[i] /\ c \in Spots(r, p[i])
  BY <1>4, HashMapFacts DEF c
<1>6. PICK j \in DOMAIN q : HashMap(r, q, c) = q[j] /\ c \in Spots(r, q[j])
  BY <1>2, <1>4, HashMapFacts DEF c
<1>7. p[i] \in Nodes /\ q[j] \in Nodes
  OBVIOUS
<1>8. p[i] = q[j]
  BY <1>5, <1>6, <1>7 DEF NoCollision
<1> QED
  BY <1>3, <1>5, <1>6, <1>8 DEF Lookup, c

\* A peer that is added takes keys, and moves none between the others: what
\* consistent hashing is for.
THEOREM MovesToNewOnly ==
  ASSUME NEW r \in Hashes, NEW peers \in Seq(Nodes), peers # <<>>,
         NEW n \in Nodes, NEW k \in Keys
  PROVE  Lookup(r, Append(peers, n), k) \in {Lookup(r, peers, k), n}
<1> DEFINE x == r.key[k]
           more == Append(peers, n)
           c == Closest(r, peers, x)
           d == Closest(r, more, x)
<1>1. x \in Nat
  BY DEF Hashes
<1>2. /\ more \in Seq(Nodes) /\ more # <<>>
      /\ DOMAIN more = 1 .. Len(peers) + 1 /\ more[Len(peers) + 1] = n
      /\ Len(peers) \in Nat /\ DOMAIN peers = 1 .. Len(peers)
      /\ \A i \in DOMAIN peers : i \in DOMAIN more /\ more[i] = peers[i]
  OBVIOUS
<1>3. SUFFICES ASSUME HashMap(r, more, d) # n
               PROVE  HashMap(r, more, d) = HashMap(r, peers, c)
  BY <1>2 DEF Lookup
<1>4. /\ d \in Points(r, more)
      /\ d >= x => \A y \in Points(r, more) : y >= x => d <= y
      /\ d < x => \A y \in Points(r, more) : y < x /\ d <= y
  BY <1>1, <1>2, ClosestFacts
<1>5. /\ c \in Points(r, peers)
      /\ c >= x => \A y \in Points(r, peers) : y >= x => c <= y
      /\ c < x => \A y \in Points(r, peers) : y < x /\ c <= y
  BY <1>1, ClosestFacts
<1>6. Points(r, peers) \subseteq Points(r, more) /\ Points(r, more) \subseteq Nat
  <2>1. Points(r, more) \subseteq Nat
    BY <1>2, PointFacts
  <2>2. Points(r, peers) \subseteq Points(r, more)
    BY <1>2 DEF Points
  <2> QED
    BY <2>1, <2>2
<1> HIDE DEF c, d, more, x
<1>7. PICK i \in DOMAIN more :
        /\ HashMap(r, more, d) = more[i] /\ d \in Spots(r, more[i])
        /\ \A j \in DOMAIN more : d \in Spots(r, more[j]) => j <= i
  BY <1>2, <1>4, HashMapFacts
<1>8. i \in DOMAIN peers
  BY <1>2, <1>3, <1>7
<1>9. d \in Points(r, peers)
  BY <1>2, <1>7, <1>8 DEF Points
<1>10. c = d
  BY <1>1, <1>4, <1>5, <1>6, <1>9
<1>11. PICK j \in DOMAIN peers :
        /\ HashMap(r, peers, c) = peers[j] /\ c \in Spots(r, peers[j])
        /\ \A l \in DOMAIN peers : c \in Spots(r, peers[l]) => l <= j
  BY <1>5, HashMapFacts
<1>12. i <= j /\ j <= i
  BY <1>2, <1>7, <1>8, <1>10, <1>11
<1>13. i = j
  BY <1>2, <1>8, <1>12
<1> QED
  BY <1>2, <1>7, <1>8, <1>11, <1>13

-----------------------------------------------------------------------------
(* The cache.                                                              *)

\* A slot is a pair, and every slot names a goroutine.
LEMMA SlotFacts ==
  /\ Slots \subseteq G /\ Users \subseteq G /\ Orphans \subseteq G
  /\ \A s \in Slots : NodeOf(s) \in Nodes /\ KeyOf(s) \in Keys
  /\ \A n \in Nodes, k \in Keys :
       <<n, k>> \in Slots /\ NodeOf(<<n, k>>) = n /\ KeyOf(<<n, k>>) = k
BY DEF G, Slots, NodeOf, KeyOf

\* A pool computes an owner among the nodes for every key.
LEMMA OwnerIsANode ==
  ASSUME ring \in Rings, NEW s \in Slots
  PROVE  OwnerAt(s) \in Nodes
<1> DEFINE peers == ring.peers[NodeOf(s)]
<1>1. NodeOf(s) \in Nodes /\ KeyOf(s) \in Keys
  BY SlotFacts
<1>2. ring.hash \in Hashes /\ peers \in Seq(Nodes)
  BY <1>1, RingsAssumption
<1>3. CASE peers = <<>>
  BY <1>1, <1>3 DEF OwnerAt, Lookup
<1>4. CASE peers # <<>>
  BY <1>1, <1>2, <1>4, LookupIsAPeer DEF OwnerAt
<1> QED
  BY <1>3, <1>4

\* The initial states satisfy the inductive invariant.
LEMMA InitIInv == Init => IInv
<1> SUFFICES ASSUME Init PROVE IInv
  OBVIOUS
<1>1. TypeOK
  <2>1. ring \in Rings /\ view \in [Slots -> Nodes]
    BY OwnerIsANode DEF Init
  <2> QED
    BY <2>1, NamesAssumption DEF Init, TypeOK, NoFlight, Data
<1>2. FlightInv
  BY SlotFacts, NamesAssumption
     DEF Init, NoFlight, FlightInv, LeaderInv, EntryInv, WaitInv, HandlerInv, RemoteInv,
         InFlight, Loading
<1> QED
  BY <1>1, <1>2 DEF IInv

\* The beginning of a Get disturbs no flight.
LEMMA BeginStep ==
  ASSUME IInv, NEW u \in Users, Begin(u)
  PROVE  IInv'
<1> USE SlotFacts, NamesAssumption
<1>1. TypeOK'
  BY DisjointAssumption DEF Begin, Goto, IInv, TypeOK, Data
<1>2. LeaderInv'
  BY DisjointAssumption DEF Begin, Goto, IInv, TypeOK, FlightInv, LeaderInv, EntryInv, InFlight, Loading
<1>3. EntryInv'
  BY DisjointAssumption DEF Begin, Goto, IInv, TypeOK, FlightInv, LeaderInv, EntryInv, InFlight, Loading
<1>4. WaitInv'
  BY DisjointAssumption DEF Begin, Goto, IInv, TypeOK, FlightInv, LeaderInv, EntryInv, WaitInv, InFlight, Loading
<1>5. HandlerInv'
  BY DisjointAssumption DEF Begin, Goto, IInv, TypeOK, FlightInv, LeaderInv, EntryInv, HandlerInv, InFlight, Loading
<1>6. RemoteInv'
  BY DisjointAssumption DEF Begin, Goto, IInv, TypeOK, FlightInv, RemoteInv
<1> QED
  BY <1>1, <1>2, <1>3, <1>4, <1>5, <1>6 DEF IInv, FlightInv

\* A look into mainCache disturbs no flight.
LEMMA CacheGetStep ==
  ASSUME IInv, NEW g \in G, CacheGet(g)
  PROVE  IInv'
<1> USE SlotFacts, NamesAssumption
<1>1. TypeOK'
  BY DEF CacheGet, Goto, IInv, TypeOK, Data
<1>2. LeaderInv'
  BY DEF CacheGet, Goto, IInv, TypeOK, FlightInv, LeaderInv, EntryInv, InFlight, Loading
<1>3. EntryInv'
  <2>1. /\ UNCHANGED <<slot, flight, crashed>>
        /\ \A j \in G : j # g => pc'[j] = pc[j]
        /\ pc[g] = "get" /\ pc'[g] \in {"return", "do"}
    BY DEF CacheGet, Goto, IInv, TypeOK
  <2>2. ASSUME NEW l \in G, pc[l] \in Loading \cup {"delete"}
        PROVE  pc'[l] = pc[l]
    BY <2>1, <2>2 DEF Loading
  <2>3. \A j \in G : InFlight(j)' => InFlight(j)
    BY <2>1 DEF InFlight, Loading
  <2>4. \A s \in Slots : flight[s].leader # NoG => flight[s].leader \in G
    BY DEF IInv, TypeOK
  <2> QED
    BY <2>1, <2>2, <2>3, <2>4 DEF IInv, FlightInv, EntryInv
<1>4. WaitInv'
  BY DEF CacheGet, Goto, IInv, TypeOK, FlightInv, LeaderInv, EntryInv, WaitInv, InFlight, Loading
<1>5. HandlerInv'
  BY DEF CacheGet, Goto, IInv, TypeOK, FlightInv, LeaderInv, EntryInv, HandlerInv, InFlight, Loading
<1>6. RemoteInv'
  BY DEF CacheGet, Goto, IInv, TypeOK, FlightInv, RemoteInv
<1> QED
  BY <1>1, <1>2, <1>3, <1>4, <1>5, <1>6 DEF IInv, FlightInv

\* A new leader is the only one for its key.
LEMMA LeadStep ==
  ASSUME IInv, NEW g \in G, Lead(g)
  PROVE  IInv'
<1> USE SlotFacts, NamesAssumption
<1>1. TypeOK'
  BY DEF Lead, Goto, Absent, IInv, TypeOK, Data
<1>2. LeaderInv'
  BY DEF Lead, Goto, Absent, IInv, TypeOK, FlightInv, LeaderInv, EntryInv, InFlight, Loading
<1>3. EntryInv'
  BY DEF Lead, Goto, Absent, IInv, TypeOK, FlightInv, LeaderInv, EntryInv, InFlight, Loading
<1>4. WaitInv'
  BY DEF Lead, Goto, Absent, IInv, TypeOK, FlightInv, LeaderInv, EntryInv, WaitInv, InFlight, Loading
<1>5. HandlerInv'
  BY DEF Lead, Goto, Absent, IInv, TypeOK, FlightInv, LeaderInv, EntryInv, HandlerInv, InFlight, Loading
<1>6. RemoteInv'
  BY DEF Lead, Goto, Absent, IInv, TypeOK, FlightInv, RemoteInv
<1> QED
  BY <1>1, <1>2, <1>3, <1>4, <1>5, <1>6 DEF IInv, FlightInv

\* A goroutine joins only a flight whose leader will wake it.
LEMMA JoinStep ==
  ASSUME IInv, NEW g \in G, Join(g)
  PROVE  IInv'
<1> USE SlotFacts, NamesAssumption
<1>1. TypeOK'
  BY DEF Join, Goto, Absent, IInv, TypeOK, Data
<1>2. LeaderInv'
  BY DEF Join, Goto, Absent, IInv, TypeOK, FlightInv, LeaderInv, EntryInv, InFlight, Loading
<1>3. EntryInv'
  <2>1. /\ UNCHANGED <<slot, flight, crashed>>
        /\ \A j \in G : j # g => pc'[j] = pc[j]
        /\ pc[g] = "do" /\ pc'[g] \in {"return", "wait"}
    BY DEF Join, Goto, Absent, IInv, TypeOK
  <2>2. ASSUME NEW l \in G, pc[l] \in Loading \cup {"delete"}
        PROVE  pc'[l] = pc[l]
    BY <2>1, <2>2 DEF Loading
  <2>3. \A j \in G : InFlight(j)' => InFlight(j)
    BY <2>1 DEF InFlight, Loading
  <2>4. \A s \in Slots : flight[s].leader # NoG => flight[s].leader \in G
    BY DEF IInv, TypeOK
  <2> QED
    BY <2>1, <2>2, <2>3, <2>4 DEF IInv, FlightInv, EntryInv
<1>4. WaitInv'
  BY DEF Join, Goto, Absent, IInv, TypeOK, FlightInv, LeaderInv, EntryInv, WaitInv, InFlight, Loading
<1>5. HandlerInv'
  BY DEF Join, Goto, Absent, IInv, TypeOK, FlightInv, LeaderInv, EntryInv, HandlerInv, InFlight, Loading
<1>6. RemoteInv'
  BY DEF Join, Goto, Absent, IInv, TypeOK, FlightInv, RemoteInv
<1> QED
  BY <1>1, <1>2, <1>3, <1>4, <1>5, <1>6 DEF IInv, FlightInv

\* wg.Done leaves no waiter behind.
LEMMA WgDoneStep ==
  ASSUME IInv, NEW g \in G, WgDone(g)
  PROVE  IInv'
<1> USE SlotFacts, NamesAssumption
<1>1. TypeOK'
  BY DEF WgDone, Woken, IInv, TypeOK, Data
<1>2. LeaderInv'
  BY DEF WgDone, Woken, IInv, TypeOK, FlightInv, LeaderInv, EntryInv, InFlight, Loading
<1>3. EntryInv'
  BY DEF WgDone, Woken, IInv, TypeOK, FlightInv, LeaderInv, EntryInv, InFlight, Loading
<1>4. WaitInv'
  BY DEF WgDone, Woken, IInv, TypeOK, FlightInv, LeaderInv, EntryInv, WaitInv, InFlight, Loading
<1>5. HandlerInv'
  BY DEF WgDone, Woken, IInv, TypeOK, FlightInv, LeaderInv, EntryInv, HandlerInv, InFlight, Loading
<1>6. RemoteInv'
  BY DEF WgDone, Woken, IInv, TypeOK, FlightInv, RemoteInv
<1> QED
  BY <1>1, <1>2, <1>3, <1>4, <1>5, <1>6 DEF IInv, FlightInv

\* The entry is deleted when nobody waits for it.
LEMMA DeleteStep ==
  ASSUME IInv, NEW g \in G, Delete(g)
  PROVE  IInv'
<1> USE SlotFacts, NamesAssumption
<1>1. TypeOK'
  BY DEF Delete, Goto, NoFlight, IInv, TypeOK, Data
<1>2. LeaderInv'
  BY DEF Delete, Goto, NoFlight, IInv, TypeOK, FlightInv, LeaderInv, EntryInv, InFlight, Loading
<1>3. EntryInv'
  BY DEF Delete, Goto, NoFlight, IInv, TypeOK, FlightInv, LeaderInv, EntryInv, InFlight, Loading
<1>4. WaitInv'
  BY DEF Delete, Goto, NoFlight, IInv, TypeOK, FlightInv, LeaderInv, EntryInv, WaitInv, InFlight, Loading
<1>5. HandlerInv'
  BY DEF Delete, Goto, NoFlight, IInv, TypeOK, FlightInv, LeaderInv, EntryInv, HandlerInv, InFlight, Loading
<1>6. RemoteInv'
  BY DEF Delete, Goto, NoFlight, IInv, TypeOK, FlightInv, RemoteInv
<1> QED
  BY <1>1, <1>2, <1>3, <1>4, <1>5, <1>6 DEF IInv, FlightInv

\* The leader goes on to its own Getter.
LEMMA PickSelfStep ==
  ASSUME IInv, NEW g \in G, PickSelf(g)
  PROVE  IInv'
<1> USE SlotFacts, NamesAssumption
<1>1. TypeOK'
  BY DEF PickSelf, Goto, Owner, IInv, TypeOK, Data
<1>2. LeaderInv'
  BY DEF PickSelf, Goto, Owner, IInv, TypeOK, FlightInv, LeaderInv, EntryInv, InFlight, Loading
<1>3. EntryInv'
  BY DEF PickSelf, Goto, Owner, IInv, TypeOK, FlightInv, LeaderInv, EntryInv, InFlight, Loading
<1>4. WaitInv'
  BY DEF PickSelf, Goto, Owner, IInv, TypeOK, FlightInv, LeaderInv, EntryInv, WaitInv, InFlight, Loading
<1>5. HandlerInv'
  BY DEF PickSelf, Goto, Owner, IInv, TypeOK, FlightInv, LeaderInv, EntryInv, HandlerInv, InFlight, Loading
<1>6. RemoteInv'
  BY DEF PickSelf, Goto, Owner, IInv, TypeOK, FlightInv, RemoteInv
<1> QED
  BY <1>1, <1>2, <1>3, <1>4, <1>5, <1>6 DEF IInv, FlightInv

\* The handler named after a flight is free when its leader asks a peer.
LEMMA AskPeerStep ==
  ASSUME IInv, NEW g \in G, AskPeer(g)
  PROVE  IInv'
<1> USE SlotFacts, NamesAssumption
<1> DEFINE h == slot[g]
<1>1. /\ h \in Slots /\ pc[g] = "load" /\ view[h] # NodeOf(h)
      /\ pc' = [pc EXCEPT ![g] = "remote", ![h] = "get"]
      /\ slot' = [slot EXCEPT ![h] = <<view[h], Wire[KeyOf(h)]>>]
      /\ UNCHANGED <<ring, view, res, cached, flight, crashed>>
  BY DEF AskPeer, Owner, IInv, TypeOK
<1>2. flight[h].leader = g
  BY <1>1 DEF IInv, FlightInv, LeaderInv, InFlight, Loading
<1>3. pc[h] = "idle" /\ g # h
  BY <1>1, <1>2 DEF IInv, FlightInv, HandlerInv
<1>4. <<view[h], Wire[KeyOf(h)]>> \in Slots
  BY <1>1, WireAssumption DEF IInv, TypeOK
<1>5. TypeOK'
  BY <1>1, <1>4 DEF IInv, TypeOK, Data
<1>6. \A j \in G : /\ j # g /\ j # h => pc'[j] = pc[j]
                   /\ j # h => slot'[j] = slot[j]
                   /\ pc'[g] = "remote" /\ pc'[h] = "get"
  BY <1>1, <1>3 DEF IInv, TypeOK
<1>7. LeaderInv'
  BY DEF AskPeer, Owner, IInv, TypeOK, FlightInv, LeaderInv, EntryInv, InFlight, Loading
<1>8. EntryInv'
  <2>1. ASSUME NEW s \in Slots, flight[s].state = "running"
        PROVE  s \in crashed \/ (pc'[flight[s].leader] \in Loading /\ slot'[flight[s].leader] = s)
    <3>1. flight[s].leader \in G
      BY <2>1 DEF IInv, TypeOK, FlightInv, EntryInv
    <3> QED
      BY <1>1, <1>3, <1>6, <2>1, <3>1 DEF IInv, FlightInv, EntryInv, Loading
  <2>2. ASSUME NEW s \in Slots, flight[s].state = "done"
        PROVE  pc'[flight[s].leader] = "delete" /\ slot'[flight[s].leader] = s
    <3>1. flight[s].leader \in G /\ pc[flight[s].leader] = "delete" /\ slot[flight[s].leader] = s
      BY <2>2 DEF IInv, TypeOK, FlightInv, EntryInv
    <3>2. flight[s].leader # g /\ flight[s].leader # h
      BY <1>1, <1>3, <3>1
    <3> QED
      BY <1>6, <3>1, <3>2
  <2>3. ASSUME NEW s \in Slots, s \in crashed, NEW j \in G, slot'[j] = s
        PROVE  pc'[j] \notin Loading \cup {"delete"}
    <3>1. CASE j = h
      BY <1>6, <3>1 DEF Loading
    <3>2. CASE j # h
      <4>1. pc[j] \notin Loading \cup {"delete"}
        BY <1>6, <2>3, <3>2 DEF IInv, FlightInv, EntryInv, InFlight
      <4>2. j # g
        BY <1>1, <4>1 DEF Loading
      <4> QED
        BY <1>6, <3>2, <4>1, <4>2
    <3> QED
      BY <3>1, <3>2
  <2>4. \A s \in Slots : /\ (flight[s].state = "none") <=> (flight[s].leader = NoG)
                         /\ s \in crashed => flight[s].state = "running"
    BY DEF IInv, FlightInv, EntryInv
  <2>5. flight' = flight /\ crashed' = crashed
    BY <1>1
  <2> QED
    BY <2>1, <2>2, <2>3, <2>4, <2>5 DEF EntryInv, InFlight
<1>9. WaitInv'
  BY <1>1, <1>6 DEF IInv, FlightInv, WaitInv
<1>10. HandlerInv'
  BY <1>1, <1>2, <1>3, <1>6 DEF IInv, TypeOK, FlightInv, HandlerInv
<1>11. RemoteInv'
  BY <1>1, <1>3, <1>6 DEF IInv, FlightInv, RemoteInv
<1> QED
  BY <1>5, <1>7, <1>8, <1>9, <1>10, <1>11 DEF IInv, FlightInv

\* The leader falls back to its own Getter.
LEMMA AskFailsStep ==
  ASSUME IInv, NEW g \in G, AskFails(g)
  PROVE  IInv'
<1> USE SlotFacts, NamesAssumption
<1>1. TypeOK'
  BY DEF AskFails, Goto, Owner, IInv, TypeOK, Data
<1>2. LeaderInv'
  BY DEF AskFails, Goto, Owner, IInv, TypeOK, FlightInv, LeaderInv, EntryInv, InFlight, Loading
<1>3. EntryInv'
  BY DEF AskFails, Goto, Owner, IInv, TypeOK, FlightInv, LeaderInv, EntryInv, InFlight, Loading
<1>4. WaitInv'
  BY DEF AskFails, Goto, Owner, IInv, TypeOK, FlightInv, LeaderInv, EntryInv, WaitInv, InFlight, Loading
<1>5. HandlerInv'
  BY DEF AskFails, Goto, Owner, IInv, TypeOK, FlightInv, LeaderInv, EntryInv, HandlerInv, InFlight, Loading
<1>6. RemoteInv'
  BY DEF AskFails, Goto, Owner, IInv, TypeOK, FlightInv, RemoteInv
<1> QED
  BY <1>1, <1>2, <1>3, <1>4, <1>5, <1>6 DEF IInv, FlightInv

\* The leader takes up the answer and the handler is free again.
LEMMA PeerAnswersStep ==
  ASSUME IInv, NEW g \in G, PeerAnswers(g)
  PROVE  IInv'
<1> USE SlotFacts, NamesAssumption
<1> DEFINE h == slot[g]
<1>1. /\ h \in Slots /\ h \in G /\ g # h /\ pc[g] = "remote" /\ pc[h] \in {"return", "dead"}
      /\ UNCHANGED <<ring, view, slot, cached, flight, crashed>>
  BY DEF PeerAnswers, IInv, TypeOK
<1>2. PICK l \in {"fnDone", "local"} : pc' = [pc EXCEPT ![g] = l, ![h] = "idle"]
  BY DEF PeerAnswers
<1>3. res' \in [G -> Data]
  BY <1>1 DEF PeerAnswers, IInv, TypeOK, Data
<1>4. TypeOK'
  BY <1>1, <1>2, <1>3 DEF IInv, TypeOK
<1>5. /\ pc'[g] = l /\ pc'[h] = "idle"
      /\ \A j \in G : j # g /\ j # h => pc'[j] = pc[j]
  BY <1>1, <1>2 DEF IInv, TypeOK
<1>6. LeaderInv'
  <2> SUFFICES ASSUME NEW j \in G, pc'[j] \in Loading \cup {"delete"}
               PROVE  /\ flight[slot[j]].leader = j
                      /\ flight[slot[j]].state = IF pc'[j] = "delete" THEN "done" ELSE "running"
    BY <1>1 DEF LeaderInv, InFlight
  <2>1. \A i \in G : pc[i] \in Loading \cup {"delete"} =>
          /\ flight[slot[i]].leader = i
          /\ flight[slot[i]].state = IF pc[i] = "delete" THEN "done" ELSE "running"
    BY DEF IInv, FlightInv, LeaderInv, InFlight
  <2>2. j # h
    BY <1>5 DEF Loading
  <2>3. CASE j = g
    BY <1>1, <1>5, <2>1, <2>3 DEF Loading
  <2>4. CASE j # g
    BY <1>5, <2>1, <2>2, <2>4
  <2> QED
    BY <2>3, <2>4
<1>7. EntryInv'
  <2>1. ASSUME NEW s \in Slots, flight[s].state = "running"
        PROVE  s \in crashed \/ (pc'[flight[s].leader] \in Loading /\ slot[flight[s].leader] = s)
    <3>1. flight[s].leader \in G
      BY <2>1 DEF IInv, TypeOK, FlightInv, EntryInv
    <3> QED
      BY <1>1, <1>2, <1>5, <2>1, <3>1 DEF IInv, FlightInv, EntryInv, Loading
  <2>2. ASSUME NEW s \in Slots, flight[s].state = "done"
        PROVE  pc'[flight[s].leader] = "delete" /\ slot[flight[s].leader] = s
    <3>1. flight[s].leader \in G
      BY <2>2 DEF IInv, TypeOK, FlightInv, EntryInv
    <3> QED
      BY <1>1, <1>2, <1>5, <2>2, <3>1 DEF IInv, FlightInv, EntryInv
  <2>3. ASSUME NEW s \in Slots, s \in crashed, NEW j \in G, slot[j] = s
        PROVE  pc'[j] \notin Loading \cup {"delete"}
    <3>1. pc[j] \notin Loading \cup {"delete"}
      BY <2>3 DEF IInv, FlightInv, EntryInv, InFlight
    <3>2. j # g
      BY <1>1, <3>1 DEF Loading
    <3>3. CASE j = h
      BY <1>5, <3>3 DEF Loading
    <3>4. CASE j # h
      BY <1>5, <3>1, <3>2, <3>4
    <3> QED
      BY <3>3, <3>4
  <2> QED
    BY <1>1, <2>1, <2>2, <2>3 DEF IInv, FlightInv, EntryInv, InFlight
<1>8. WaitInv'
  BY <1>1, <1>2, <1>5 DEF IInv, FlightInv, WaitInv
<1>9. HandlerInv'
  <2> SUFFICES ASSUME NEW j \in Slots, pc'[j] # "idle"
               PROVE  /\ slot[j] = <<view[j], Wire[KeyOf(j)]>>
                      /\ view[j] # NodeOf(j)
                      /\ flight[j].leader \in G
                      /\ pc'[flight[j].leader] = "remote"
                      /\ slot[flight[j].leader] = j
    BY <1>1 DEF HandlerInv
  <2>1. j # h /\ j \in G /\ pc[j] # "idle"
    BY <1>1, <1>5
  <2>2. /\ slot[j] = <<view[j], Wire[KeyOf(j)]>> /\ view[j] # NodeOf(j)
        /\ flight[j].leader \in G /\ pc[flight[j].leader] = "remote"
        /\ slot[flight[j].leader] = j
    BY <2>1 DEF IInv, FlightInv, HandlerInv
  <2>3. flight[j].leader # g /\ flight[j].leader # h
    BY <1>1, <2>1, <2>2
  <2> QED
    BY <1>5, <2>2, <2>3
<1>10. RemoteInv'
  BY <1>1, <1>2, <1>5 DEF IInv, FlightInv, RemoteInv
<1> QED
  BY <1>4, <1>6, <1>7, <1>8, <1>9, <1>10 DEF IInv, FlightInv

\* The orphan takes over the flight that the handler leads, and the leader
\* that asked keeps its own.
LEMMA ConnBreaksStep ==
  ASSUME IInv, NEW g \in G, NEW o \in Orphans, ConnBreaks(g, o)
  PROVE  IInv'
<1> USE SlotFacts, NamesAssumption
<1> DEFINE h == slot[g]
           t == slot[h]
<1>1. /\ h \in Slots /\ h \in G /\ o \in G /\ t \in Slots
      /\ pc[g] = "remote" /\ pc[h] \notin {"idle", "return", "dead"} /\ pc[o] = "idle"
      /\ UNCHANGED <<ring, view, cached, crashed>>
      /\ o # g /\ o # h
  BY DEF ConnBreaks, IInv, TypeOK
<1>2. t # h
  <2>1. t = <<view[h], Wire[KeyOf(h)]>> /\ view[h] # NodeOf(h) /\ view[h] \in Nodes
    BY <1>1 DEF IInv, TypeOK, FlightInv, HandlerInv
  <2>2. Wire[KeyOf(h)] \in Keys
    BY <1>1, WireAssumption
  <2> QED
    BY <2>1, <2>2
<1>3. g # h
  BY <1>2
<1>4. /\ pc' = [pc EXCEPT ![g] = "local", ![h] = "idle", ![o] = pc[h]]
      /\ slot' = [slot EXCEPT ![o] = t]
      /\ res' = [res EXCEPT ![o] = res[h], ![h] = NoData]
      /\ flight' = [flight EXCEPT ![t].leader = IF @ = h THEN o ELSE @]
  BY DEF ConnBreaks
<1>5. /\ pc'[g] = "local" /\ pc'[h] = "idle" /\ pc'[o] = pc[h]
      /\ slot'[o] = t
      /\ \A j \in G : /\ j \notin {g, h, o} => pc'[j] = pc[j]
                      /\ j # o => slot'[j] = slot[j]
  BY <1>1, <1>3, <1>4 DEF IInv, TypeOK
<1>6. /\ \A s \in Slots : flight'[s].state = flight[s].state
      /\ \A s \in Slots : s # t \/ flight[s].leader # h => flight'[s].leader = flight[s].leader
      /\ flight[t].leader = h => flight'[t].leader = o
  BY <1>1, <1>4 DEF IInv, TypeOK
<1>7. TypeOK'
  <2>1. flight' \in [Slots -> [leader : G \cup {NoG}, state : {"none", "running", "done"},
                              val : Data]]
    <3>1. PICK v \in G \cup {NoG} : v = IF flight[t].leader = h THEN o ELSE flight[t].leader
      BY <1>1 DEF IInv, TypeOK
    <3>2. flight' = [flight EXCEPT ![t] = [flight[t] EXCEPT !.leader = v]]
      BY <1>4, <3>1
    <3>3. flight[t] \in [leader : G \cup {NoG}, state : {"none", "running", "done"}, val : Data]
      BY <1>1 DEF IInv, TypeOK
    <3>4. [flight[t] EXCEPT !.leader = v] \in
            [leader : G \cup {NoG}, state : {"none", "running", "done"}, val : Data]
      BY <3>3
    <3> QED
      BY <1>1, <3>2, <3>4 DEF IInv, TypeOK
  <2>2. res' \in [G -> Data]
    BY <1>1, <1>4 DEF IInv, TypeOK, Data
  <2> QED
    BY <1>1, <1>4, <2>1, <2>2 DEF IInv, TypeOK
<1> HIDE DEF h, t
<1>8. h = slot[g] /\ t = slot[h]
  BY DEF h, t
<1>9. LeaderInv'
  <2> SUFFICES ASSUME NEW j \in G, pc'[j] \in Loading \cup {"delete"}
               PROVE  /\ flight'[slot'[j]].leader = j
                      /\ flight'[slot'[j]].state = IF pc'[j] = "delete" THEN "done" ELSE "running"
    BY DEF LeaderInv, InFlight
  <2>1. \A i \in G : pc[i] \in Loading \cup {"delete"} =>
          /\ flight[slot[i]].leader = i /\ slot[i] \in Slots
          /\ flight[slot[i]].state = IF pc[i] = "delete" THEN "done" ELSE "running"
    BY DEF IInv, TypeOK, FlightInv, LeaderInv, InFlight
  <2>2. CASE j = g
    BY <1>1, <1>2, <1>3, <1>5, <1>6, <1>8, <2>1, <2>2 DEF Loading
  <2>3. CASE j = h
    BY <1>5, <2>3 DEF Loading
  <2>4. CASE j = o
    BY <1>1, <1>5, <1>6, <1>8, <2>1, <2>4
  <2>5. CASE j \notin {g, h, o}
    BY <1>1, <1>5, <1>6, <2>1, <2>5
  <2> QED
    BY <2>2, <2>3, <2>4, <2>5
<1>10. EntryInv'
  <2>0. ASSUME NEW s \in Slots
        PROVE  /\ (flight[s].state = "none") <=> (flight[s].leader = NoG)
               /\ flight[s].leader \in G \cup {NoG}
               /\ flight[s].state = "running" => \/ s \in crashed
                                                \/ /\ pc[flight[s].leader] \in Loading
                                                   /\ slot[flight[s].leader] = s
               /\ flight[s].state = "done" => /\ pc[flight[s].leader] = "delete"
                                             /\ slot[flight[s].leader] = s
               /\ s \in crashed => /\ flight[s].state = "running"
                                   /\ \A j \in G : slot[j] = s => pc[j] \notin Loading \cup {"delete"}
    BY DEF IInv, TypeOK, FlightInv, EntryInv, InFlight
  <2>1. ASSUME NEW s \in Slots
        PROVE  (flight'[s].state = "none") <=> (flight'[s].leader = NoG)
    BY <1>1, <1>6, <2>0, <2>1
  <2>2. ASSUME NEW s \in Slots, flight[s].state = "running", s \notin crashed
        PROVE  pc'[flight'[s].leader] \in Loading /\ slot'[flight'[s].leader] = s
    <3>1. /\ flight[s].leader \in G /\ flight[s].leader # o
          /\ pc[flight[s].leader] \in Loading /\ slot[flight[s].leader] = s
      BY <1>1, <2>0, <2>2 DEF Loading
    <3>2. CASE flight[s].leader = h
      BY <1>5, <1>6, <1>8, <3>1, <3>2
    <3>3. CASE flight[s].leader # h
      BY <1>5, <1>6, <3>1, <3>3 DEF Loading
    <3> QED
      BY <3>2, <3>3
  <2>3. ASSUME NEW s \in Slots, flight[s].state = "done"
        PROVE  pc'[flight'[s].leader] = "delete" /\ slot'[flight'[s].leader] = s
    <3>1. /\ flight[s].leader \in G /\ flight[s].leader # o /\ flight[s].leader # g
          /\ pc[flight[s].leader] = "delete" /\ slot[flight[s].leader] = s
      BY <1>1, <2>0, <2>3
    <3>2. CASE flight[s].leader = h
      BY <1>5, <1>6, <1>8, <3>1, <3>2
    <3>3. CASE flight[s].leader # h
      BY <1>5, <1>6, <3>1, <3>3
    <3> QED
      BY <3>2, <3>3
  <2>4. ASSUME NEW s \in Slots, s \in crashed, NEW j \in G, slot'[j] = s
        PROVE  pc'[j] \notin Loading \cup {"delete"}
    <3>1. \A i \in G : slot[i] = s => pc[i] \notin Loading \cup {"delete"}
      BY <2>0, <2>4
    <3>2. CASE j = g
      BY <1>1, <1>5, <2>4, <3>1, <3>2 DEF Loading
    <3>3. CASE j = h
      BY <1>5, <3>3 DEF Loading
    <3>4. CASE j = o
      BY <1>1, <1>5, <1>8, <2>4, <3>1, <3>4
    <3>5. CASE j \notin {g, h, o}
      BY <1>5, <2>4, <3>1, <3>5
    <3> QED
      BY <3>2, <3>3, <3>4, <3>5
  <2>5. crashed' = crashed /\ \A s \in Slots : s \in crashed => flight[s].state = "running"
    BY <1>1, <2>0
  <2> QED
    BY <1>6, <2>1, <2>2, <2>3, <2>4, <2>5 DEF EntryInv, InFlight
<1>11. WaitInv'
  <2> SUFFICES ASSUME NEW j \in G, pc'[j] = "wait" PROVE flight'[slot'[j]].state = "running"
    BY DEF WaitInv
  <2>1. \A i \in G : pc[i] = "wait" => flight[slot[i]].state = "running" /\ slot[i] \in Slots
    BY DEF IInv, TypeOK, FlightInv, WaitInv
  <2>2. CASE j = o
    BY <1>1, <1>5, <1>6, <1>8, <2>1, <2>2
  <2>3. CASE j # o
    <3>1. j # g /\ j # h
      BY <1>5
    <3> QED
      BY <1>5, <1>6, <2>1, <2>3, <3>1
  <2> QED
    BY <2>2, <2>3
<1>12. HandlerInv'
  <2> SUFFICES ASSUME NEW j \in Slots, pc'[j] # "idle"
               PROVE  /\ slot'[j] = <<view[j], Wire[KeyOf(j)]>>
                      /\ view[j] # NodeOf(j)
                      /\ flight'[j].leader \in G
                      /\ pc'[flight'[j].leader] = "remote"
                      /\ slot'[flight'[j].leader] = j
    BY <1>1 DEF HandlerInv
  <2>1. j # h /\ j # o /\ j \in G /\ pc[j] # "idle"
    BY <1>1, <1>5, DisjointAssumption
  <2>2. /\ slot[j] = <<view[j], Wire[KeyOf(j)]>> /\ view[j] # NodeOf(j)
        /\ flight[j].leader \in G /\ pc[flight[j].leader] = "remote"
        /\ slot[flight[j].leader] = j
    BY <2>1 DEF IInv, FlightInv, HandlerInv
  <2>3. flight[j].leader # g /\ flight[j].leader # o
    BY <1>1, <1>8, <2>1, <2>2
  <2>4. CASE flight[j].leader = h
    BY <1>1, <1>5, <1>6, <1>8, <2>1, <2>2, <2>4
  <2>5. CASE flight[j].leader # h
    BY <1>5, <1>6, <2>1, <2>2, <2>3, <2>5
  <2> QED
    BY <2>4, <2>5
<1>13. RemoteInv'
  <2> SUFFICES ASSUME NEW j \in G, pc'[j] = "remote" PROVE view[slot'[j]] # NodeOf(slot'[j])
    BY <1>1 DEF RemoteInv
  <2>1. \A i \in G : pc[i] = "remote" => view[slot[i]] # NodeOf(slot[i])
    BY DEF IInv, FlightInv, RemoteInv
  <2>2. j # g /\ j # h
    BY <1>5
  <2> QED
    BY <1>1, <1>5, <1>8, <2>1, <2>2
<1> QED
  BY <1>7, <1>9, <1>10, <1>11, <1>12, <1>13 DEF IInv, FlightInv

\* A panic leaves the entry behind for good.
LEMMA GetLocallyStep ==
  ASSUME IInv, NEW g \in G, NEW o \in Outcomes, GetLocally(g, o)
  PROVE  IInv'
<1> USE SlotFacts, NamesAssumption
<1>1. TypeOK'
  <2>1. slot[g] \in Slots /\ KeyOf(slot[g]) \in Keys
    BY DEF IInv, TypeOK
  <2>3. cached' \in [Slots -> Keys \cup {NoData}]
    BY <2>1 DEF GetLocally, Loaded, CacheAdd, IInv, TypeOK
  <2>4. res' \in [G -> Data]
    BY <2>1 DEF GetLocally, Loaded, IInv, TypeOK, Data
  <2>5. crashed' \in SUBSET Slots
    BY <2>1 DEF GetLocally, IInv, TypeOK
  <2> QED
    BY <2>3, <2>4, <2>5 DEF GetLocally, Goto, IInv, TypeOK
<1>2. LeaderInv'
  BY DEF GetLocally, Goto, Loaded, CacheAdd, IInv, TypeOK, FlightInv, LeaderInv, EntryInv, InFlight, Loading
<1>3. EntryInv'
  BY DEF GetLocally, Goto, Loaded, CacheAdd, IInv, TypeOK, FlightInv, LeaderInv, EntryInv, InFlight, Loading
<1>4. WaitInv'
  BY DEF GetLocally, Goto, Loaded, CacheAdd, IInv, TypeOK, FlightInv, LeaderInv, EntryInv, WaitInv, InFlight, Loading
<1>5. HandlerInv'
  BY DEF GetLocally, Goto, Loaded, CacheAdd, IInv, TypeOK, FlightInv, LeaderInv, EntryInv, HandlerInv, InFlight, Loading
<1>6. RemoteInv'
  BY DEF GetLocally, Goto, Loaded, CacheAdd, IInv, TypeOK, FlightInv, RemoteInv
<1> QED
  BY <1>1, <1>2, <1>3, <1>4, <1>5, <1>6 DEF IInv, FlightInv


-----------------------------------------------------------------------------
\* Every step preserves the inductive invariant.
LEMMA NextIInv == IInv /\ [Next]_vars => IInv'
<1> SUFFICES ASSUME IInv, [Next]_vars PROVE IInv'
  OBVIOUS
<1>1. ASSUME NEW u \in Users, Begin(u) PROVE IInv'
  BY <1>1, BeginStep
<1>2. ASSUME NEW g \in G, Step(g) PROVE IInv'
  BY <1>2, CacheGetStep, LeadStep, JoinStep, WgDoneStep, DeleteStep, PickSelfStep,
     AskPeerStep, AskFailsStep, PeerAnswersStep, GetLocallyStep DEF Step
<1>3. ASSUME NEW g \in G, NEW o \in Orphans, ConnBreaks(g, o) PROVE IInv'
  BY <1>3, ConnBreaksStep
<1>4. CASE UNCHANGED vars
  BY <1>4 DEF vars, IInv, TypeOK, FlightInv, LeaderInv, EntryInv, WaitInv, HandlerInv,
              RemoteInv, InFlight
<1> QED
  BY <1>1, <1>2, <1>3, <1>4 DEF Next

\* The invariant of the flights holds in every reachable state.
THEOREM Invariance == Spec => []IInv
BY InitIInv, NextIInv, PTL DEF Spec

\* singleflight keeps its promise: at a node at most one goroutine is inside
\* the function passed to Do for a key.
THEOREM OneFlight == Spec => []OneFlightPerKey
<1>1. IInv => OneFlightPerKey
  BY DEF IInv, FlightInv, LeaderInv, OneFlightPerKey
<1> QED
  BY <1>1, Invariance, PTL

\* A goroutine in c.wg.Wait has a leader that will wake it, or one whose
\* Getter panicked.
THEOREM NoLostWakeUp == Spec => []WaitersHaveALeader
<1>1. IInv => WaitersHaveALeader
  BY DEF IInv, TypeOK, FlightInv, EntryInv, WaitInv, WaitersHaveALeader
<1> QED
  BY <1>1, Invariance, PTL

\* An orphan was a handler, and stays at the node and key it was sent to.
LEMMA NextOrphan == IInv /\ OrphanInv /\ [Next]_vars => OrphanInv'
<1> SUFFICES ASSUME IInv, OrphanInv, [Next]_vars PROVE OrphanInv'
  OBVIOUS
<1> USE SlotFacts
<1>1. \A p \in Orphans : p \notin Users /\ p \notin Slots
  BY DisjointAssumption
<1>2. ASSUME view' = view,
             \A p \in Orphans : slot'[p] = slot[p] /\ (pc'[p] # "idle" => pc[p] # "idle")
      PROVE  OrphanInv'
  BY <1>2 DEF OrphanInv
<1>3. ASSUME NEW u \in Users, Begin(u) PROVE OrphanInv'
  BY <1>1, <1>2, <1>3 DEF Begin, Goto, IInv, TypeOK
<1>4. ASSUME NEW g \in G, CacheGet(g) \/ Lead(g) \/ Join(g) \/ Delete(g) \/ PickSelf(g) \/ AskFails(g)
      PROVE  OrphanInv'
  BY <1>2, <1>4 DEF CacheGet, Lead, Join, Delete, PickSelf, AskFails, Goto, IInv, TypeOK
<1>5. ASSUME NEW g \in G, WgDone(g) PROVE OrphanInv'
  BY <1>2, <1>5 DEF WgDone, Woken, IInv, TypeOK
<1>6. ASSUME NEW g \in G, AskPeer(g) PROVE OrphanInv'
  <2>1. slot[g] \in Slots /\ view' = view
    BY <1>6 DEF AskPeer, IInv, TypeOK
  <2> QED
    BY <1>1, <1>2, <1>6, <2>1 DEF AskPeer, IInv, TypeOK
<1>7. ASSUME NEW g \in G, PeerAnswers(g) PROVE OrphanInv'
  <2>1. slot[g] \in Slots /\ view' = view /\ slot' = slot
    BY <1>7 DEF PeerAnswers, IInv, TypeOK
  <2>2. PICK l \in {"fnDone", "local"} : pc' = [pc EXCEPT ![g] = l, ![slot[g]] = "idle"]
    BY <1>7 DEF PeerAnswers
  <2>3. pc[g] # "idle"
    BY <1>7 DEF PeerAnswers
  <2> QED
    BY <1>1, <1>2, <2>1, <2>2, <2>3 DEF IInv, TypeOK
<1>8. ASSUME NEW g \in G, NEW x \in Outcomes, GetLocally(g, x) PROVE OrphanInv'
  BY <1>2, <1>8 DEF GetLocally, Goto, IInv, TypeOK
<1>9. ASSUME NEW g \in G, NEW o \in Orphans, ConnBreaks(g, o) PROVE OrphanInv'
  <2> DEFINE h == slot[g]
  <2>1. h \in Slots /\ h \in G /\ pc[h] # "idle" /\ pc[g] # "idle" /\ view' = view
    BY <1>9 DEF ConnBreaks, IInv, TypeOK
  <2>2. slot[h] = <<view[h], Wire[KeyOf(h)]>>
    BY <2>1 DEF IInv, FlightInv, HandlerInv
  <2>3. slot'[o] = slot[h]
    BY <1>9 DEF ConnBreaks, IInv, TypeOK
  <2>4. ASSUME NEW p \in Orphans, p # o
        PROVE  slot'[p] = slot[p] /\ (pc'[p] # "idle" => pc[p] # "idle")
    BY <1>1, <1>9, <2>1, <2>4 DEF ConnBreaks, IInv, TypeOK
  <2> QED
    BY <2>1, <2>2, <2>3, <2>4 DEF OrphanInv
<1>10. CASE UNCHANGED vars
  BY <1>10 DEF vars, OrphanInv
<1> QED
  BY <1>3, <1>4, <1>5, <1>6, <1>7, <1>8, <1>9, <1>10 DEF Next, Step

\* Pools that agree send a key over one hop, provided the URL keeps the key.
THEOREM OneHop ==
  ASSUME \A k \in Keys : Wire[k] = k
  PROVE  Spec => []SingleHop
<1>1. IInv /\ OrphanInv => SingleHop
  <2> SUFFICES ASSUME IInv, OrphanInv, Agree, NEW h \in Slots \cup Orphans, pc[h] = "remote"
               PROVE  FALSE
    BY DEF SingleHop
  <2>1. PICK s \in Slots : slot[h] = <<view[s], Wire[KeyOf(s)]>>
    BY DEF IInv, FlightInv, HandlerInv, OrphanInv
  <2>2. h \in G /\ slot[h] \in Slots /\ KeyOf(s) \in Keys /\ view[s] \in Nodes
    BY SlotFacts DEF IInv, TypeOK
  <2>3. NodeOf(slot[h]) = view[s] /\ KeyOf(slot[h]) = KeyOf(s)
    BY <2>1, <2>2, SlotFacts
  <2>4. view[slot[h]] = view[s]
    BY <2>2, <2>3 DEF Agree
  <2> QED
    BY <2>2, <2>3, <2>4 DEF IInv, FlightInv, RemoteInv
<1>2. Init => IInv /\ OrphanInv
  BY InitIInv, SlotFacts DEF Init, OrphanInv
<1>3. (IInv /\ OrphanInv) /\ [Next]_vars => (IInv /\ OrphanInv)'
  BY NextIInv, NextOrphan
<1> QED
  BY <1>1, <1>2, <1>3, PTL DEF Spec

\* A pool is Set once, and its view stays what the ring gives.
LEMMA ViewsAreComputed == Spec => [](ring \in Rings /\ view = [s \in Slots |-> OwnerAt(s)])
<1> DEFINE V == ring \in Rings /\ view = [s \in Slots |-> OwnerAt(s)]
<1>1. Init => V
  BY DEF Init
<1>2. ASSUME V, [Next]_vars PROVE V'
  <2>1. UNCHANGED <<ring, view>>
    BY <1>2 DEF vars, Next, Step, Begin, CacheGet, Lead, Join, WgDone, Delete, PickSelf,
                AskPeer, AskFails, PeerAnswers, ConnBreaks, GetLocally
  <2> QED
    BY <1>2, <2>1 DEF OwnerAt
<1> QED
  BY <1>1, <1>2, PTL DEF Spec

\* Pools with the same peers agree, whatever the order and the hash function,
\* if no two peers collide; with OneHop: a key then travels over one hop.
THEOREM AgreeOnOwners == Spec => []SamePeersAgree
<1>1. ASSUME ring \in Rings, view = [s \in Slots |-> OwnerAt(s)] PROVE SamePeersAgree
  <2> SUFFICES ASSUME SamePeers, NoCollision(ring.hash),
                      NEW s \in Slots, NEW t \in Slots, KeyOf(s) = KeyOf(t)
               PROVE  view[s] = view[t]
    BY DEF SamePeersAgree, Agree
  <2> DEFINE p == ring.peers[NodeOf(s)]
             q == ring.peers[NodeOf(t)]
  <2>1. NodeOf(s) \in Nodes /\ NodeOf(t) \in Nodes /\ KeyOf(s) \in Keys
    BY SlotFacts
  <2>2. ring.hash \in Hashes /\ p \in Seq(Nodes) /\ q \in Seq(Nodes)
    BY <1>1, <2>1, RingsAssumption
  <2>3. p # <<>> /\ q # <<>> /\ Range(p) = Range(q)
    BY <2>1 DEF SamePeers
  <2>4. Lookup(ring.hash, p, KeyOf(s)) = Lookup(ring.hash, q, KeyOf(s))
    BY <2>1, <2>2, <2>3, OrderDoesNotMatter
  <2>5. Lookup(ring.hash, p, KeyOf(s)) \in Nodes
    BY <2>1, <2>2, <2>3, LookupIsAPeer
  <2>6. view[s] = OwnerAt(s) /\ view[t] = OwnerAt(t)
    BY <1>1
  <2> QED
    BY <2>4, <2>5, <2>6, NoPeerAssumption DEF OwnerAt
<1> QED
  BY <1>1, ViewsAreComputed, PTL

-----------------------------------------------------------------------------
(* The data of a key, when URLs keep keys.                                 *)

\* No data has been loaded in the initial state.
LEMMA InitValue == Init => ValueInv
BY SlotFacts, NamesAssumption DEF Init, ValueInv, NoFlight

\* No step hands the data of one key to a Get of another.
LEMMA NextValue ==
  ASSUME \A k \in Keys : Wire[k] = k, IInv, ValueInv, [Next]_vars
  PROVE  ValueInv'
<1> USE SlotFacts, NamesAssumption
<1>1. ASSUME NEW u \in Users, Begin(u) PROVE ValueInv'
  BY <1>1 DEF Begin, Goto, IInv, TypeOK, ValueInv
<1>2. ASSUME NEW g \in G, CacheGet(g) PROVE ValueInv'
  <2>1. slot[g] \in Slots /\ UNCHANGED <<slot, cached, flight>>
    BY <1>2 DEF CacheGet, IInv, TypeOK
  <2>2. CASE UNCHANGED res /\ pc' = [pc EXCEPT ![g] = "do"]
    BY <2>1, <2>2 DEF IInv, TypeOK, ValueInv
  <2>3. CASE /\ cached[slot[g]] # NoData /\ res' = [res EXCEPT ![g] = cached[slot[g]]]
             /\ pc' = [pc EXCEPT ![g] = "return"]
    BY <2>1, <2>3 DEF IInv, TypeOK, ValueInv
  <2> QED
    BY <1>2, <2>2, <2>3 DEF CacheGet, Goto
<1>3. ASSUME NEW g \in G, Lead(g) PROVE ValueInv'
  BY <1>3 DEF Lead, Goto, IInv, TypeOK, ValueInv
<1>4. ASSUME NEW g \in G, Join(g) PROVE ValueInv'
  <2>1. slot[g] \in Slots /\ KeyOf(slot[g]) # NoData /\ UNCHANGED <<slot, cached, flight>>
    BY <1>4 DEF Join, IInv, TypeOK
  <2>2. CASE UNCHANGED res /\ pc' = [pc EXCEPT ![g] = "wait"]
    BY <2>1, <2>2 DEF IInv, TypeOK, ValueInv
  <2>3. CASE /\ flight[slot[g]].state = "done" /\ pc' = [pc EXCEPT ![g] = "return"]
             /\ res' = [res EXCEPT ![g] = flight[slot[g]].val]
    <3>1. flight[slot[g]].val \in {KeyOf(slot[g]), Err}
      BY <2>1, <2>3 DEF ValueInv
    <3> QED
      BY <2>1, <2>3, <3>1 DEF IInv, TypeOK, ValueInv
  <2> QED
    BY <1>4, <2>2, <2>3 DEF Join, Goto
<1>5. ASSUME NEW g \in G, WgDone(g) PROVE ValueInv'
  BY <1>5 DEF WgDone, Woken, IInv, TypeOK, ValueInv
<1>6. ASSUME NEW g \in G, Delete(g) PROVE ValueInv'
  BY <1>6 DEF Delete, Goto, NoFlight, IInv, TypeOK, ValueInv
<1>7. ASSUME NEW g \in G, PickSelf(g) \/ AskFails(g) PROVE ValueInv'
  BY <1>7 DEF PickSelf, AskFails, Goto, IInv, TypeOK, ValueInv
<1>8. ASSUME NEW g \in G, AskPeer(g) PROVE ValueInv'
  <2> DEFINE h == slot[g]
  <2>1. /\ h \in Slots /\ h \in G /\ pc[g] = "load" /\ view[h] # NodeOf(h)
        /\ pc' = [pc EXCEPT ![g] = "remote", ![h] = "get"]
        /\ slot' = [slot EXCEPT ![h] = <<view[h], Wire[KeyOf(h)]>>]
        /\ UNCHANGED <<res, cached, flight>>
    BY <1>8 DEF AskPeer, Owner, IInv, TypeOK
  <2>2. flight[h].leader = g
    BY <2>1 DEF IInv, FlightInv, LeaderInv, InFlight, Loading
  <2>3. pc[h] = "idle" /\ res[h] = NoData
    BY <2>1, <2>2 DEF IInv, FlightInv, HandlerInv, ValueInv
  <2> QED
    BY <2>1, <2>3 DEF IInv, TypeOK, ValueInv
<1>9. ASSUME NEW g \in G, PeerAnswers(g) PROVE ValueInv'
  <2> DEFINE h == slot[g]
  <2>1. /\ h \in Slots /\ h \in G /\ KeyOf(h) \in Keys /\ pc[h] # "idle" /\ pc[g] # "idle"
        /\ UNCHANGED <<slot, cached, flight>>
    BY <1>9 DEF PeerAnswers, IInv, TypeOK
  <2>2. KeyOf(slot[h]) = KeyOf(h)
    <3>1. slot[h] = <<view[h], KeyOf(h)>> /\ view[h] \in Nodes
      BY <2>1 DEF IInv, TypeOK, FlightInv, HandlerInv
    <3> QED
      BY <2>1, <3>1
  <2>3. CASE pc[h] = "return" /\ res[h] # Err /\ res' = [res EXCEPT ![g] = res[h], ![h] = NoData]
             /\ pc' = [pc EXCEPT ![g] = "fnDone", ![h] = "idle"]
    <3>1. res[h] = KeyOf(slot[g])
      BY <2>1, <2>2, <2>3 DEF ValueInv
    <3> QED
      BY <2>1, <2>3, <3>1 DEF IInv, TypeOK, ValueInv
  <2>4. CASE /\ pc' = [pc EXCEPT ![g] = "local", ![h] = "idle"]
             /\ res' = [res EXCEPT ![h] = NoData]
    BY <2>1, <2>4 DEF IInv, TypeOK, ValueInv
  <2> QED
    BY <1>9, <2>3, <2>4 DEF PeerAnswers
<1>10. ASSUME NEW g \in G, NEW o \in Outcomes, GetLocally(g, o) PROVE ValueInv'
  <2>1. slot[g] \in Slots /\ KeyOf(slot[g]) \in Keys /\ UNCHANGED <<slot, flight>>
    BY <1>10 DEF GetLocally, IInv, TypeOK
  <2>2. \A s \in Slots : cached'[s] \in {KeyOf(s), NoData}
    BY <1>10, <2>1 DEF GetLocally, CacheAdd, Loaded, IInv, TypeOK, ValueInv
  <2>3. /\ \A j \in G : res'[j] \in {KeyOf(slot[j]), Err, NoData}
        /\ \A j \in Slots : pc'[j] = "idle" => res'[j] = NoData
        /\ \A j \in G : pc'[j] \in {"fnDone", "delete", "return"} => res'[j] # NoData
    <3>1. CASE res' = res /\ pc' = [pc EXCEPT ![g] = "dead"]
      BY <3>1 DEF IInv, TypeOK, ValueInv
    <3>2. CASE /\ pc' = [pc EXCEPT ![g] = "fnDone"]
               /\ \E v \in {KeyOf(slot[g]), Err} : res' = [res EXCEPT ![g] = v]
      BY <2>1, <3>2 DEF IInv, TypeOK, ValueInv
    <3> QED
      BY <1>10, <3>1, <3>2 DEF GetLocally, Goto, Loaded
  <2> QED
    BY <2>1, <2>2, <2>3 DEF ValueInv
<1>11. ASSUME NEW g \in G, NEW o \in Orphans, ConnBreaks(g, o) PROVE ValueInv'
  <2> DEFINE h == slot[g]
  <2>1. /\ h \in Slots /\ h \in G /\ o \in G /\ slot[h] \in Slots
        /\ pc[g] = "remote" /\ pc[h] # "idle" /\ pc[o] = "idle"
        /\ pc' = [pc EXCEPT ![g] = "local", ![h] = "idle", ![o] = pc[h]]
        /\ slot' = [slot EXCEPT ![o] = slot[h]]
        /\ res' = [res EXCEPT ![o] = res[h], ![h] = NoData]
        /\ flight' = [flight EXCEPT ![slot[h]].leader = IF @ = h THEN o ELSE @]
        /\ UNCHANGED cached
    BY <1>11 DEF ConnBreaks, IInv, TypeOK
  <2>2. o # g /\ o # h /\ o \notin Slots
    BY <2>1, DisjointAssumption
  <2>0. /\ res[h] \in {KeyOf(slot[h]), Err, NoData}
        /\ pc[h] \in {"fnDone", "delete", "return"} => res[h] # NoData
    BY <2>1 DEF ValueInv
  <2> HIDE DEF h
  <2>3. /\ pc'[o] = pc[h] /\ res'[o] = res[h] /\ slot'[o] = slot[h]
        /\ pc'[h] = "idle" /\ res'[h] = NoData /\ slot'[h] = slot[h]
        /\ \A j \in G : j # o /\ j # h =>
             /\ res'[j] = res[j] /\ slot'[j] = slot[j]
             /\ pc'[j] = pc[j] \/ (j = g /\ pc'[j] = "local")
    BY <2>1, <2>2 DEF IInv, TypeOK
  <2>4. \A s \in Slots : flight'[s].state = flight[s].state /\ flight'[s].val = flight[s].val
    BY <2>1 DEF IInv, TypeOK
  <2>5. ASSUME NEW j \in G PROVE res'[j] \in {KeyOf(slot'[j]), Err, NoData}
    <3>1. CASE j = o
      BY <2>0, <2>3, <3>1
    <3>2. CASE j = h
      BY <2>3, <3>2
    <3>3. CASE j # o /\ j # h
      BY <2>3, <3>3 DEF ValueInv
    <3> QED
      BY <3>1, <3>2, <3>3
  <2>6. \A j \in Slots : pc'[j] = "idle" => res'[j] = NoData
    BY <2>2, <2>3 DEF ValueInv
  <2>7. ASSUME NEW j \in G, pc'[j] \in {"fnDone", "delete", "return"} PROVE res'[j] # NoData
    <3>1. CASE j = o
      BY <2>0, <2>3, <2>7, <3>1
    <3>2. CASE j = h
      BY <2>3, <2>7, <3>2
    <3>3. CASE j # o /\ j # h
      BY <2>3, <2>7, <3>3 DEF ValueInv
    <3> QED
      BY <3>1, <3>2, <3>3
  <2> QED
    BY <2>1, <2>4, <2>5, <2>6, <2>7 DEF ValueInv
<1>12. CASE UNCHANGED vars
  BY <1>12 DEF vars, ValueInv
<1> QED
  BY <1>1, <1>2, <1>3, <1>4, <1>5, <1>6, <1>7, <1>8, <1>9, <1>10, <1>11, <1>12 DEF Next, Step

\* Get returns the data of the key it was asked for, and mainCache holds it,
\* provided the URL keeps the key.
THEOREM RightData ==
  ASSUME \A k \in Keys : Wire[k] = k
  PROVE  Spec => []RightValue
<1>1. Init => IInv /\ ValueInv
  BY InitIInv, InitValue
<1>2. (IInv /\ ValueInv) /\ [Next]_vars => (IInv /\ ValueInv)'
  BY NextIInv, NextValue
<1>3. IInv /\ ValueInv => RightValue
  BY SlotFacts DEF ValueInv, RightValue
<1> QED
  BY <1>1, <1>2, <1>3, PTL DEF Spec
=============================================================================
