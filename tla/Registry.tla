------------------------------ MODULE Registry ------------------------------
(***************************************************************************)
(* The registry of rpc/registry/registry.go and the servers that Heartbeat *)
(* keeps in it.  Time is discrete, and a point in time is kept as the time *)
(* since then: age[a] stands for time.Now() minus the start of a's         *)
(* ServerItem, and the test start.Add(timeout).After(now) is age < Timeout.*)
(* A request to the registry takes at most Delay, there and back; the      *)
(* faults, of which there are at most MaxFaults, break that rule.          *)
(***************************************************************************)
EXTENDS Integers

CONSTANTS
  Servers,     \* the addresses
  Timeout,     \* r.timeout; 0 for none
  Period,      \* the duration of Heartbeat
  Delay,       \* what a request takes when nothing is wrong
  MaxAge,      \* ages are not told apart from here on
  MaxFaults    \* bound on the faults

ASSUME RegistryAssumption ==
  /\ Timeout \in Nat /\ Period \in Nat \ {0} /\ Delay \in Nat
  /\ MaxAge \in Nat /\ MaxAge >= Timeout
  /\ MaxFaults \in Nat

VARIABLES
  servers,   \* the keys of r.servers
  age,       \* age[a]: the time since servers[a].start
  beat,      \* beat[a]: where the heartbeat of a is
  ticker,    \* ticker[a]: the time to the next tick; 0: no ticker, or stopped
  due,       \* due[a]: a tick is in the channel of the ticker
  trip,      \* trip[a]: the time since the current request was sent
  faults     \* the number of faults so far

registryVars == <<servers, age, beat, ticker, due, trip, faults>>

BeatStates ==
  {"down",       \* the server is not running
   "joining",    \* the first request is on its way
   "joined",     \* the answer to the first request is on its way
   "waiting",    \* the goroutine is in range ticker.C
   "sending",    \* a request is on its way
   "answered",   \* its answer is on its way
   "off",        \* Heartbeat has returned, with no goroutine started
   "stuck"}      \* a request is never answered: http.Client has no timeout

\* At first no server runs, and the registry is empty.
RegistryInit ==
  /\ servers = {}
  /\ age = [a \in Servers |-> 0]
  /\ beat = [a \in Servers |-> "down"]
  /\ ticker = [a \in Servers |-> 0]
  /\ due = [a \in Servers |-> FALSE]
  /\ trip = [a \in Servers |-> 0]
  /\ faults = 0

-----------------------------------------------------------------------------
(* The registry.                                                           *)

\* Mutant: a known server is not given a new start.
PutServerOnce(a) ==
  /\ servers' = servers \cup {a}
  /\ age' = IF a \in servers THEN age ELSE [age EXCEPT ![a] = 0]
\* Mutant: a server that is not known is not added.
PutServerKnown(a) ==
  /\ UNCHANGED servers
  /\ age' = IF a \in servers THEN [age EXCEPT ![a] = 0] ELSE age
\* putServer
PutServer(a) ==
  /\ servers' = servers \cup {a}
  /\ age' = [age EXCEPT ![a] = 0]

AliveLate(a) == Timeout = 0 \/ age[a] <= Timeout      \* mutant: <= for <
Alive(a) == Timeout = 0 \/ age[a] < Timeout

\* aliveServers: the dead ones are deleted, the others are the answer.
AliveServers == {a \in servers : Alive(a)}
Purge == servers' = AliveServers

\* The process of the registry restarts, with an empty map.
RegistryRestart ==
  /\ faults < MaxFaults /\ faults' = faults + 1
  /\ servers' = {}
  /\ UNCHANGED <<age, beat, ticker, due, trip>>

-----------------------------------------------------------------------------
(* Heartbeat.                                                              *)

Start(a) ==
  /\ beat[a] = "down"
  /\ beat' = [beat EXCEPT ![a] = "joining"]
  /\ trip' = [trip EXCEPT ![a] = 0]
  /\ UNCHANGED <<servers, age, ticker, due, faults>>

\* sendHeartbeat reaches the registry.
Arrive(a) ==
  /\ \/ beat[a] = "joining" /\ beat' = [beat EXCEPT ![a] = "joined"]
     \/ beat[a] = "sending" /\ beat' = [beat EXCEPT ![a] = "answered"]
  /\ PutServer(a)
  /\ UNCHANGED <<ticker, due, trip, faults>>

\* Something else answers, such as an error page: sendHeartbeat does not look at
\* the status of the answer, and will return nil.
BeatRefused(a) ==
  /\ faults < MaxFaults /\ faults' = faults + 1
  /\ \/ beat[a] = "joining" /\ beat' = [beat EXCEPT ![a] = "joined"]
     \/ beat[a] = "sending" /\ beat' = [beat EXCEPT ![a] = "answered"]
  /\ UNCHANGED <<servers, age, ticker, due, trip>>

\* sendHeartbeat returns nil; the ticker is made after the first one.
Return(a) ==
  /\ \/ beat[a] = "joined" /\ ticker' = [ticker EXCEPT ![a] = Period]
     \/ beat[a] = "answered" /\ UNCHANGED ticker
  /\ beat' = [beat EXCEPT ![a] = "waiting"]
  /\ UNCHANGED <<servers, age, due, trip, faults>>

\* The ticker has ticked: the next heartbeat.
Beat(a) ==
  /\ beat[a] = "waiting" /\ due[a]
  /\ beat' = [beat EXCEPT ![a] = "sending"]
  /\ due' = [due EXCEPT ![a] = FALSE]
  /\ trip' = [trip EXCEPT ![a] = 0]
  /\ UNCHANGED <<servers, age, ticker, faults>>

\* sendHeartbeat returns an error, before or after the registry has got the
\* request.  The first one ends Heartbeat.  A later one stops the ticker, and
\* nothing starts it again; a tick that is in the channel is still taken.
BeatFails(a) ==
  /\ faults < MaxFaults /\ faults' = faults + 1
  /\ \/ /\ beat[a] \in {"joining", "joined"}
        /\ beat' = [beat EXCEPT ![a] = "off"]
        /\ UNCHANGED ticker
     \/ /\ beat[a] \in {"sending", "answered"}
        /\ beat' = [beat EXCEPT ![a] = "waiting"]
        /\ ticker' = [ticker EXCEPT ![a] = 0]
  /\ UNCHANGED <<servers, age, due, trip>>

BeatHangs(a) ==
  /\ faults < MaxFaults /\ faults' = faults + 1
  /\ beat[a] \in {"joining", "joined", "sending", "answered"}
  /\ beat' = [beat EXCEPT ![a] = "stuck"]
  /\ UNCHANGED <<servers, age, ticker, due, trip>>

\* The process of the server ends.  This is no fault of the registry's.
Crash(a) ==
  /\ beat[a] # "down"
  /\ beat' = [beat EXCEPT ![a] = "down"]
  /\ ticker' = [ticker EXCEPT ![a] = 0]
  /\ due' = [due EXCEPT ![a] = FALSE]
  /\ UNCHANGED <<servers, age, trip, faults>>

-----------------------------------------------------------------------------
(* Time.                                                                   *)

Travelling(a) == beat[a] \in {"joining", "joined", "sending", "answered"}

\* Time stands still for an overdue answer and for a goroutine that can run.
BeatsInTime == \A a \in Servers :
  /\ Travelling(a) => trip[a] < Delay
  /\ ~(beat[a] = "waiting" /\ due[a])

\* A tick that finds the channel full is dropped.
Older(n) == IF n < MaxAge THEN n + 1 ELSE n
ElapseForBeats ==
  /\ BeatsInTime
  /\ age' = [a \in Servers |-> Older(age[a])]
  /\ trip' = [a \in Servers |-> IF Travelling(a) THEN trip[a] + 1 ELSE trip[a]]
  /\ due' = [a \in Servers |-> due[a] \/ ticker[a] = 1]
  /\ ticker' = [a \in Servers |->
       IF ticker[a] = 0 THEN 0 ELSE IF ticker[a] = 1 THEN Period ELSE ticker[a] - 1]
  /\ UNCHANGED <<servers, beat, faults>>
=============================================================================
