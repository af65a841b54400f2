----------------------------- MODULE Discovery -----------------------------
(***************************************************************************)
(* GeeRegistryDiscovery of rpc/xclient/discovery_gee.go, over the server   *)
(* list of MultiServersDiscovery in rpc/xclient/discovery.go.  Get and     *)
(* GetAll call Refresh, which holds d.mu while it asks the registry, and   *)
(* take d.mu again to select; between the two another goroutine may run.   *)
(* A user makes at most one call in a unit of time: it rests after a call. *)
(***************************************************************************)
EXTENDS Integers, Sequences

CONSTANTS
  Users,            \* the goroutines that call Get or GetAll
  UpdateTimeout,    \* d.timeout
  Wheel             \* d.index is kept modulo Wheel

ASSUME DiscoveryAssumption ==
  /\ UpdateTimeout \in Nat \ {0} /\ Wheel \in Nat \ {0}

VARIABLES
  known,    \* d.servers
  since,    \* the time since d.lastUpdate, up to UpdateTimeout
  index,    \* d.index
  upc,      \* upc[u]: where user u is
  query,    \* the GET of the user in Refresh: "none", "asked" or "answered"
  answer,   \* the servers in the answer, sorted
  lag,      \* the time since the GET was sent
  manual    \* history: the list was set by Update

discoveryVars == <<known, since, index, upc, query, answer, lag, manual>>

\* lastUpdate is the zero time: the first Refresh asks the registry.
DiscoveryInit ==
  /\ known = <<>> /\ since = UpdateTimeout
  /\ index \in 0..(Wheel - 1)
  /\ upc = [u \in Users |-> "idle"]
  /\ query = "none" /\ answer = <<>> /\ lag = 0
  /\ manual = FALSE

\* d.mu is held across the GET, and otherwise only within one step.
Locked == \E u \in Users : upc[u] = "query"

Get(u) ==
  /\ upc[u] = "idle"
  /\ upc' = [upc EXCEPT ![u] = "refresh"]
  /\ UNCHANGED <<known, since, index, query, answer, lag, manual>>

\* Refresh: the list is fresh enough, or the registry is asked.
Fresh == since < UpdateTimeout

RefreshSkips(u) ==
  /\ upc[u] = "refresh" /\ ~Locked
  /\ Fresh
  /\ upc' = [upc EXCEPT ![u] = "select"]
  /\ UNCHANGED <<known, since, index, query, answer, lag, manual>>

RefreshAsks(u) ==
  /\ upc[u] = "refresh" /\ ~Locked
  /\ ~Fresh
  /\ upc' = [upc EXCEPT ![u] = "query"]
  /\ query' = "asked" /\ lag' = 0
  /\ UNCHANGED <<known, since, index, answer, manual>>

\* The answer replaces the list.
RefreshDone(u) ==
  /\ upc[u] = "query" /\ query = "answered"
  /\ known' = answer /\ since' = 0
  /\ upc' = [upc EXCEPT ![u] = "select"]
  /\ query' = "none" /\ answer' = <<>>
  /\ manual' = FALSE
  /\ UNCHANGED <<index, lag>>

\* Mutant: d.mu is not released when http.Get returns an error.
RefreshFailsLocked(u) ==
  /\ upc[u] = "query"
  /\ query' = "none" /\ answer' = <<>>
  /\ UNCHANGED <<known, since, index, upc, lag, manual>>
\* http.Get returns an error, and so does Get; the old list stays.
RefreshFails(u) ==
  /\ upc[u] = "query"
  /\ upc' = [upc EXCEPT ![u] = "resting"]
  /\ query' = "none" /\ answer' = <<>>
  /\ UNCHANGED <<known, since, index, lag, manual>>

\* MultiServersDiscovery.Get with an empty list, or with RandomSelect, and
\* GetAll leave the discovery as it is.
Select(u) ==
  /\ upc[u] = "select" /\ ~Locked
  /\ upc' = [upc EXCEPT ![u] = "resting"]
  /\ UNCHANGED <<known, since, index, query, answer, lag, manual>>

NextIndex == (index + 1) % Wheel

\* MultiServersDiscovery.Get with RoundRobinSelect.
SelectRoundRobin(u) ==
  /\ upc[u] = "select" /\ ~Locked
  /\ known # <<>>
  /\ index' = NextIndex
  /\ upc' = [upc EXCEPT ![u] = "resting"]
  /\ UNCHANGED <<known, since, query, answer, lag, manual>>

\* Update, with the servers of the caller.
Update(list) ==
  /\ ~Locked
  /\ known' = list /\ since' = 0
  /\ manual' = TRUE
  /\ UNCHANGED <<index, upc, query, answer, lag>>
=============================================================================
