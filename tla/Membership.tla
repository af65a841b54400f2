----------------------------- MODULE Membership -----------------------------
(***************************************************************************)
(* Servers that keep themselves in a registry, and a discovery that takes  *)
(* its list from there, on one clock.                                      *)
(***************************************************************************)
EXTENDS Registry, Discovery, FiniteSets

CONSTANT Sorted   \* Sorted[S]: the servers S in the order of sort.Strings

ASSUME MembershipAssumption ==
  /\ Sorted \in [SUBSET Servers -> Seq(Servers)]
  /\ \A S \in SUBSET Servers : {Sorted[S][i] : i \in DOMAIN Sorted[S]} = S

vars == <<registryVars, discoveryVars>>

Init == RegistryInit /\ DiscoveryInit

-----------------------------------------------------------------------------
(* GET: the registry answers a discovery.                                  *)

Reply(list) ==
  /\ query = "asked" /\ query' = "answered"
  /\ answer' = list
  /\ UNCHANGED <<known, since, index, upc, lag, manual>>

AnswerGet ==
  /\ Reply(Sorted[AliveServers])
  /\ Purge
  /\ UNCHANGED <<age, beat, ticker, due, trip, faults>>

\* Refresh does not look at the status: an answer without the header, which
\* is what a GET of another handler gets, is an empty list.
AnswerBlank ==
  /\ faults < MaxFaults /\ faults' = faults + 1
  /\ Reply(<<>>)
  /\ UNCHANGED <<servers, age, beat, ticker, due, trip>>

\* http.Get fails, or goes on for ever: it has no timeout.
GetFails ==
  /\ faults < MaxFaults /\ faults' = faults + 1
  /\ \/ \E u \in Users : RefreshFails(u)
     \/ /\ query \in {"asked", "answered"} /\ query' = "hung"
        /\ UNCHANGED <<known, since, index, upc, answer, lag, manual>>
  /\ UNCHANGED <<servers, age, beat, ticker, due, trip>>

-----------------------------------------------------------------------------
UsersInTime ==
  /\ query \in {"asked", "answered"} => lag < Delay
  /\ ~Locked => \A u \in Users : upc[u] \in {"idle", "resting"}

Elapse ==
  /\ ElapseForBeats /\ UsersInTime
  /\ since' = IF since < UpdateTimeout THEN since + 1 ELSE since
  /\ lag' = IF query \in {"asked", "answered"} THEN lag + 1 ELSE lag
  /\ upc' = [u \in Users |-> IF upc[u] = "resting" THEN "idle" ELSE upc[u]]
  /\ UNCHANGED <<known, index, query, answer, manual>>

Beating(a) == Start(a) \/ Arrive(a) \/ Return(a) \/ Beat(a)
Failing(a) == BeatRefused(a) \/ BeatFails(a) \/ BeatHangs(a) \/ Crash(a)

Refreshing(u) == RefreshSkips(u) \/ RefreshAsks(u) \/ RefreshDone(u)
Selecting(u) == Select(u) \/ SelectRoundRobin(u)

Next ==
  \/ (\E a \in Servers : Beating(a) \/ Failing(a)) /\ UNCHANGED discoveryVars
  \/ RegistryRestart /\ UNCHANGED discoveryVars
  \/ (\E u \in Users : Get(u) \/ Refreshing(u) \/ Selecting(u)) /\ UNCHANGED registryVars
  \/ (\E S \in SUBSET Servers : Update(Sorted[S])) /\ UNCHANGED registryVars
  \/ AnswerGet
  \/ AnswerBlank
  \/ GetFails
  \/ Elapse

Spec == Init /\ [][Next]_vars

\* Time goes on, however often goroutines run in between; goroutines that can
\* run do, and sync.Mutex starves none of them; requests that are neither lost
\* nor stuck arrive and are answered.
Progress(a) == (Arrive(a) \/ Return(a) \/ Beat(a)) /\ UNCHANGED discoveryVars
UserProgress(u) == (Refreshing(u) \/ Selecting(u)) /\ UNCHANGED registryVars
FairSpec ==
  /\ Spec
  /\ SF_vars(Elapse) /\ WF_vars(AnswerGet)
  /\ \A a \in Servers : WF_vars(Progress(a))
  /\ \A u \in Users : SF_vars(UserProgress(u))

-----------------------------------------------------------------------------
\* Every variable keeps its type.
TypeOK ==
  /\ servers \subseteq Servers
  /\ age \in [Servers -> 0..MaxAge]
  /\ beat \in [Servers -> BeatStates]
  /\ ticker \in [Servers -> 0..Period]
  /\ due \in [Servers -> BOOLEAN]
  /\ trip \in [Servers -> 0..Delay]
  /\ faults \in 0..MaxFaults
  /\ known \in Seq(Servers) /\ answer \in Seq(Servers)
  /\ since \in 0..UpdateTimeout /\ lag \in 0..Delay
  /\ index \in 0..(Wheel - 1)
  /\ upc \in [Users -> {"idle", "refresh", "query", "select", "resting"}]
  /\ query \in {"none", "asked", "answered", "hung"}
  /\ manual \in BOOLEAN

\* The heartbeats are in time when the registry's timeout leaves room for a
\* period and two requests.  One request is not enough: the ticker starts when
\* the answer to the first heartbeat is there, not when the registry got it.
InTime == Timeout = 0 \/ Period + 2 * Delay < Timeout

\* A server whose first heartbeat has arrived is in every answer of
\* aliveServers while it runs, as long as no request has failed and the
\* registry has not restarted.
AliveAreListed ==
  InTime /\ faults = 0 =>
    \A a \in Servers : beat[a] \in {"joined", "waiting", "sending", "answered"} =>
      a \in AliveServers

\* How long ago the last heartbeat of a server can be that is handed out: it
\* was within Timeout when the registry answered, the answer took Delay, and
\* the list was then used up to UpdateTimeout.
StaleBound == Timeout - 1 + Delay + UpdateTimeout - 1

\* Get and GetAll hand out no server that is dead for longer than that, with
\* a list of the registry.
DeadAreForgotten ==
  Timeout > 0 /\ ~manual /\ ~Locked /\ (\E u \in Users : upc[u] = "select") =>
    \A i \in DOMAIN known : age[known[i]] <= StaleBound

\* The inductive invariant.  A heartbeat is never further from the last one
\* than its place in the cycle allows: what the start of a server's entry is
\* ago, and the ticker and the request in flight, add up.
Cycle(a) ==
  /\ beat[a] \in {"joined", "answered"} => age[a] <= trip[a]
  /\ beat[a] = "waiting" => age[a] + (IF due[a] THEN 0 ELSE ticker[a]) <= Period + Delay
  /\ beat[a] = "sending" => age[a] <= Period + Delay + trip[a]
  /\ beat[a] \in {"waiting", "sending", "answered"} => ticker[a] > 0
BeatInv ==
  InTime /\ faults = 0 =>
    \A a \in Servers : beat[a] \in {"joined", "waiting", "sending", "answered"} =>
      a \in servers /\ Cycle(a)

\* One user at most is in a GET, and none has passed Refresh meanwhile.
LockInv ==
  /\ \A u, w \in Users : upc[u] = "query" /\ upc[w] = "query" => u = w
  /\ (\E u \in Users : upc[u] = "select") => ~Locked /\ Fresh

\* The servers in an answer, and in a list that is in use, are as old as the
\* answer and the list allow.
ListInv ==
  Timeout > 0 =>
    /\ query = "answered" => \A i \in DOMAIN answer : age[answer[i]] <= Timeout - 1 + lag
    /\ ~manual /\ Fresh =>
         \A i \in DOMAIN known : age[known[i]] <= Timeout - 1 + Delay + since

\* The parts together, as Membership_proof shows them to hold: the start of an
\* entry in the registry, the ticker of its Heartbeat and the age of the list
\* of a discovery are never out of step.
IInv == TypeOK /\ BeatInv /\ LockInv /\ ListInv

\* A server that goes on beating is in the registry again after a restart of
\* the registry: a heartbeat is as good as a registration.
ComesBack == \A a \in Servers :
  [](ticker[a] > 0 => <>(a \in servers \/ ticker[a] = 0 \/ beat[a] = "stuck"))

\* Get and GetAll return, unless a GET is never answered: d.mu is then held
\* for good, and no user gets past it.
GetReturns == \A u \in Users :
  [](upc[u] = "refresh" => <>(upc[u] = "resting" \/ query = "hung"))
=============================================================================
