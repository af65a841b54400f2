----------------------------- MODULE HashRing -----------------------------
(***************************************************************************)
(* The consistent hash of cache/consistenthash: a Map to which peers have  *)
(* been added, and the peer that it gets for a key.                        *)
(*                                                                         *)
(* A ring r stands for a hash function: r.spot[<<p, i>>] is the hash of    *)
(* replica i of peer p, r.key[k] that of key k.  The function is any: two  *)
(* replicas may collide, also because they have the same name ("1" and     *)
(* "1x", "11" and "x").                                                    *)
(***************************************************************************)
EXTENDS Sequences, FiniteSetsExt

CONSTANTS
  Nodes,      \* the peers
  Keys,       \* the keys of the cache
  Replicas,   \* m.replicas, defaultReplicas in HTTPPool.Set
  NoPeer      \* the empty string, which names no peer

ASSUME ReplicasAssumption == Replicas \in Nat \ {0}
ASSUME NoPeerAssumption == NoPeer \notin Nodes

Hashes == [spot : [Nodes \X (0 .. Replicas - 1) -> Nat], key : [Keys -> Nat]]

\* Where Add puts peer p.
Spots(r, p) == {r.spot[<<p, i>>] : i \in 0 .. Replicas - 1}

\* m.keys, as a set: it is sorted after every Add.
Points(r, peers) == UNION {Spots(r, peers[i]) : i \in DOMAIN peers}

\* m.hashMap[x] is the last of the peers that were put there.
HashMap(r, peers, x) == peers[Max({i \in DOMAIN peers : x \in Spots(r, peers[i])})]

\* What sort.Search finds, or m.keys[0] when it finds nothing.
\* Mutant: m.keys is not sorted, and sort.Search finds one at or after x that
\* depends on the order of the peers.
ClosestUnsorted(r, peers, x) ==
  LET above == {i \in DOMAIN peers : \E y \in Spots(r, peers[i]) : y >= x} IN
  Min(Spots(r, peers[IF above = {} THEN 1 ELSE Min(above)]))
Closest(r, peers, x) ==
  LET above == {y \in Points(r, peers) : y >= x} IN
  Min(IF above = {} THEN Points(r, peers) ELSE above)

\* Map.Get.
Lookup(r, peers, k) ==
  IF peers = <<>> THEN NoPeer ELSE HashMap(r, peers, Closest(r, peers, r.key[k]))

\* No two peers share a point.
NoCollision(r) ==
  \A p, q \in Nodes : p # q => Spots(r, p) \cap Spots(r, q) = {}
=============================================================================
