-------------------------------- MODULE Lru --------------------------------
(***************************************************************************)
(* The LRU cache of cache/lru/lru.go: Get, Add with its eviction loop, and *)
(* RemoveOldest.  It is not safe for concurrent access; cache/cache.go     *)
(* runs each call under a mutex, so that calls do not overlap here.  The   *)
(* loop of Add takes a step for every entry it drops, so that the states   *)
(* OnEvicted is called in are states of the model.                         *)
(***************************************************************************)
EXTENDS Integers, Sequences, FiniteSets, FiniteSetsExt, SequencesExt

CONSTANTS
  Keys, Values, NoValue,
  KeyLen,      \* KeyLen[k]: len(key)
  ValueLen,    \* ValueLen[v]: value.Len()
  Capacities   \* the values of maxBytes

ASSUME LruAssumption ==
  /\ NoValue \notin Values
  /\ KeyLen \in [Keys -> Nat] /\ ValueLen \in [Values -> Nat]
  /\ Capacities \subseteq Int

Entry == [key : Keys, value : Values]

VARIABLES
  maxBytes,  \* c.maxBytes
  ll,        \* c.ll, front first
  cache,     \* the keys of c.cache; an element is known by its key
  nbytes,    \* c.nbytes
  pc,        \* "ready", or "evict" inside the loop of Add
  full,      \* history: the list when the loop of the last Add began
  recent     \* history: the keys ever used, the last used first

vars == <<maxBytes, ll, cache, nbytes, pc, full, recent>>

Init ==
  /\ maxBytes \in Capacities
  /\ ll = <<>> /\ cache = {} /\ nbytes = 0
  /\ pc = "ready"
  /\ full = <<>> /\ recent = <<>>

Elem(k) == CHOOSE i \in DOMAIN ll : ll[i].key = k
Size(e) == KeyLen[e.key] + ValueLen[e.value]

\* Mutant: the element of a key that is there stays where it is.
NotMoved(e) ==
  IF e.key \in cache THEN [ll EXCEPT ![Elem(e.key)] = e] ELSE <<e>> \o ll
\* MoveToFront, or PushFront for a key that is not there.
MovedToFront(e) ==
  <<e>> \o (IF e.key \in cache THEN RemoveAt(ll, Elem(e.key)) ELSE ll)

LastUse(k) == CHOOSE i \in DOMAIN recent : recent[i] = k
Use(k) ==
  recent' = <<k>> \o (IF k \in Range(recent) THEN RemoveAt(recent, LastUse(k)) ELSE recent)

\* Get of a key that is there; a miss changes nothing.
Get(k) ==
  /\ pc = "ready" /\ k \in cache
  /\ ll' = MovedToFront(ll[Elem(k)])
  /\ Use(k)
  /\ UNCHANGED <<maxBytes, cache, nbytes, pc, full>>

\* Mutant: the old value is not subtracted when a key is given a new one.
GrowthAlways(k, v) == KeyLen[k] + ValueLen[v]
Growth(k, v) ==
  IF k \in cache THEN ValueLen[v] - ValueLen[ll[Elem(k)].value]
                 ELSE KeyLen[k] + ValueLen[v]

\* Add up to its loop.
Add(k, v) ==
  /\ pc = "ready"
  /\ ll' = MovedToFront([key |-> k, value |-> v])
  /\ cache' = cache \cup {k}
  /\ nbytes' = nbytes + Growth(k, v)
  /\ pc' = "evict"
  /\ full' = ll' /\ Use(k)
  /\ UNCHANGED maxBytes

OverByOne == maxBytes # 0 /\ maxBytes <= nbytes       \* mutant: <= for <
Overfull == maxBytes # 0 /\ maxBytes < nbytes

\* Mutants: the counter keeps the bytes; the whole cache is dropped at once.
RemovalUncounted ==
  LET e == ll[Len(ll)] IN
  /\ ll' = SubSeq(ll, 1, Len(ll) - 1)
  /\ cache' = cache \ {e.key}
  /\ UNCHANGED nbytes
RemovalOfAll == ll' = <<>> /\ cache' = {} /\ nbytes' = 0
\* The removal of the back element, from the list, the map and the counter.
Removal ==
  LET e == ll[Len(ll)] IN
  /\ ll' = SubSeq(ll, 1, Len(ll) - 1)
  /\ cache' = cache \ {e.key}
  /\ nbytes' = nbytes - Size(e)

\* RemoveOldest; an empty list is left as it is.
RemoveOldest ==
  /\ \/ ll = <<>> /\ UNCHANGED <<ll, cache, nbytes>>
     \/ ll # <<>> /\ Removal
  /\ UNCHANGED <<maxBytes, pc, full, recent>>

RemoveOldestCalled == pc = "ready" /\ RemoveOldest

\* A turn of the loop of Add.
Evict == pc = "evict" /\ Overfull /\ RemoveOldest

AddReturns ==
  /\ pc = "evict" /\ ~Overfull
  /\ pc' = "ready"
  /\ UNCHANGED <<maxBytes, ll, cache, nbytes, full, recent>>

Next ==
  \/ \E k \in Keys : Get(k)
  \/ \E k \in Keys, v \in Values : Add(k, v)
  \/ RemoveOldestCalled
  \/ Evict
  \/ AddReturns

Spec == Init /\ [][Next]_vars

\* A call of Add, once begun, goes on with its loop.
FairSpec == Spec /\ WF_vars(Evict) /\ WF_vars(AddReturns)

-----------------------------------------------------------------------------
\* Every variable keeps its type; c.nbytes in particular never falls below 0.
TypeOK ==
  /\ maxBytes \in Capacities
  /\ ll \in Seq(Entry) /\ full \in Seq(Entry)
  /\ cache \subseteq Keys
  /\ nbytes \in Nat
  /\ pc \in {"ready", "evict"}
  /\ recent \in Seq(Keys)

\* The size of the first n entries of the list s.
SizeOf(s, n) ==
  LET size[i \in 0..Len(s)] == IF i = 0 THEN 0 ELSE size[i - 1] + Size(s[i]) IN
  size[n]

\* Get, Add and RemoveOldest keep the list, the map and the counter of lru.go
\* together: the list and the map hold the same keys, each once, and nbytes
\* is the size of what they hold, in every state OnEvicted can see.
Coherent ==
  /\ TypeOK
  /\ cache = {ll[i].key : i \in DOMAIN ll}
  /\ Cardinality(cache) = Len(ll)
  /\ nbytes = SizeOf(ll, Len(ll))

\* The loop of Add leaves as much as fits and no less: the longest front part
\* of the list that is within maxBytes, where 0 means no limit.  An entry
\* larger than maxBytes drops everything, itself included.
FitsTightly ==
  pc = "evict" /\ ~Overfull /\ maxBytes >= 0 =>
    ll = SubSeq(full, 1, Max({n \in 0..Len(full) :
                                maxBytes = 0 \/ SizeOf(full, n) <= maxBytes}))

\* Eviction is by last use: what the cache holds, in the order it holds it, is
\* what was used last of all the keys that Get found and Add was given.
HoldsMostRecent ==
  [i \in DOMAIN ll |-> ll[i].key] = SubSeq(recent, 1, Len(ll))

\* As a map the cache is an EvictingMap: Add gives a key its value, Get and
\* the recency order change no value, and RemoveOldest drops a single key.
AsMap == [k \in Keys |-> IF k \in cache THEN ll[Elem(k)].value ELSE NoValue]
Abstract == INSTANCE EvictingMap WITH map <- AsMap
ImplementsMap == Abstract!Spec

\* The loop of Add ends, with a maxBytes that is not negative.  With a
\* negative one it goes on for ever: the list is empty and 0 is still above.
LoopEnds == maxBytes >= 0 => [](pc = "evict" => <>(pc = "ready"))

-----------------------------------------------------------------------------
(* The inductive invariant behind Coherent, FitsTightly, HoldsMostRecent   *)
(* and ImplementsMap.                                                      *)

\* The list and the map hold the same keys, and the list holds none twice.
KeysInv ==
  /\ cache = {ll[i].key : i \in DOMAIN ll}
  /\ \A i, j \in DOMAIN ll : ll[i].key = ll[j].key => i = j

BytesInv == nbytes = SizeOf(ll, Len(ll))

\* The keys of the list are the first ones of recent, which has none twice.
RecentInv ==
  /\ \A i, j \in DOMAIN recent : recent[i] = recent[j] => i = j
  /\ Len(ll) <= Len(recent)
  /\ \A i \in DOMAIN ll : recent[i] = ll[i].key

\* In the loop of Add the list is what it was less some entries at its back,
\* and none of those could have been kept.
LoopInv ==
  pc = "evict" =>
    /\ Len(ll) <= Len(full) /\ ll = SubSeq(full, 1, Len(ll))
    /\ \A n \in Len(ll) + 1 .. Len(full) : maxBytes # 0 /\ SizeOf(full, n) > maxBytes

IInv == TypeOK /\ KeysInv /\ BytesInv /\ RecentInv /\ LoopInv
=============================================================================
