---------------------------- MODULE EvictingMap ----------------------------
(***************************************************************************)
(* What lru.Cache promises as a map: a key holds the value it was last     *)
(* given, until it is dropped.  Which key is dropped, and when, is left    *)
(* open; module GeeCache sees mainCache in this way.                       *)
(***************************************************************************)
CONSTANTS Keys, Values, NoValue

VARIABLE map

Init == map = [k \in Keys |-> NoValue]

Put(k, v) == map' = [map EXCEPT ![k] = v]

Drop(k) ==
  /\ map[k] # NoValue
  /\ map' = [map EXCEPT ![k] = NoValue]

Next == \E k \in Keys : Drop(k) \/ \E v \in Values : Put(k, v)

Spec == Init /\ [][Next]_map
=============================================================================
