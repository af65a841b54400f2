----------------------------- MODULE MCGeeCache -----------------------------
\* Rings and keys for the run of GeeCache.
EXTENDS GeeCache, TLC

CONSTANTS n1, n2, k1, k2

\* Replicas that alternate, and one peer below the other; a key on a point,
\* between two, and beyond the last; and a point that both peers have.
Hash(a, b, c, d) ==
  [spot |-> (<<n1, 0>> :> a[1]) @@ (<<n1, 1>> :> a[2]) @@ (<<n2, 0>> :> b[1]) @@ (<<n2, 1>> :> b[2]),
   key |-> (k1 :> c) @@ (k2 :> d)]

Alternate == Hash(<<1, 5>>, <<3, 7>>, 3, 8)
Apart == Hash(<<2, 3>>, <<5, 6>>, 4, 0)
Collide == Hash(<<2, 4>>, <<4, 6>>, 3, 7)
SomeHashes == {Alternate, Apart, Collide}

\* The peers of the two pools, in either order, or none in one of them.  Pools
\* that put colliding peers in another order ask each other for the same key.
Lists(p, q) == (n1 :> p) @@ (n2 :> q)
Swapped == Lists(<<n1, n2>>, <<n2, n1>>)
OneUnset == Lists(<<>>, <<n2, n1>>)

SomeRings ==
  {[hash |-> h, peers |-> Swapped] : h \in SomeHashes}
    \cup {[hash |-> Alternate, peers |-> OneUnset]}

\* Keys that a URL carries unchanged.
SameOnWire == [k \in Keys |-> k]
=============================================================================
