-------------------------- MODULE Membership_proof --------------------------
(***************************************************************************)
(* Proofs about module Membership, for every set of servers and of users   *)
(* and for all delays, periods and timeouts.  Each lemma below says that   *)
(* the steps of one kind keep one part of the inductive invariant IInv.    *)
(***************************************************************************)
EXTENDS Membership, TLAPS

USE DEF registryVars, discoveryVars

\* A beating server is within its timeout: the cycle of the heartbeat leaves
\* no age that aliveServers would take for dead.
LEMMA CycleIsAlive ==
  ASSUME IInv, InTime, faults = 0, NEW a \in Servers,
         beat[a] \in {"joined", "waiting", "sending", "answered"}
  PROVE  a \in AliveServers
<1>1. a \in servers /\ Cycle(a)
  BY DEF IInv, BeatInv
<1>2. age[a] \in Nat /\ ticker[a] \in Nat /\ trip[a] \in 0..Delay
      /\ Period \in Nat /\ Delay \in Nat /\ Timeout \in Nat
  BY RegistryAssumption DEF IInv, TypeOK
<1>3. age[a] <= Period + 2 * Delay
  <2>1. CASE beat[a] \in {"joined", "answered"}
    BY <1>1, <1>2, <2>1, RegistryAssumption DEF Cycle
  <2>2. CASE beat[a] = "waiting"
    <3>1. age[a] + (IF due[a] THEN 0 ELSE ticker[a]) <= Period + Delay
      BY <1>1, <2>2 DEF Cycle
    <3>2. age[a] <= Period + Delay
      BY <1>2, <3>1
    <3> QED BY <1>2, <3>2
  <2>3. CASE beat[a] = "sending"
    BY <1>1, <1>2, <2>3 DEF Cycle
  <2> QED BY <2>1, <2>2, <2>3
<1> QED
  BY <1>1, <1>2, <1>3 DEF AliveServers, Alive, InTime

-----------------------------------------------------------------------------
\* The steps of a server change no variable of the discovery, and only lower
\* the age of an entry.
LEMMA BeatsKeepTheRest ==
  ASSUME IInv, NEW a \in Servers, UNCHANGED discoveryVars,
         Beating(a) \/ Failing(a)
  PROVE  LockInv' /\ ListInv'
<1>1. LockInv'
  BY DEF IInv, LockInv, Locked, Fresh
<1>2. age' = age \/ age' = [age EXCEPT ![a] = 0]
  BY DEF Beating, Failing, Start, Arrive, PutServer, Return, Beat, BeatRefused, BeatFails, BeatHangs, Crash
<1>3. \A b \in Servers : age'[b] <= age[b] /\ age'[b] \in Nat /\ age[b] \in Nat
  <2>1. age \in [Servers -> 0..MaxAge] /\ MaxAge \in Nat
    BY RegistryAssumption DEF IInv, TypeOK
  <2>2. \A b \in Servers : age[b] \in Nat
    BY <2>1
  <2> QED BY <1>2, <2>1, <2>2
<1>4. ASSUME Timeout > 0 PROVE ListInv'
  <2>1. \A i \in DOMAIN answer : answer[i] \in Servers
    BY DEF IInv, TypeOK
  <2>2. \A i \in DOMAIN known : known[i] \in Servers
    BY DEF IInv, TypeOK
  <2>3. lag \in Nat /\ since \in Nat /\ Timeout \in Nat /\ Delay \in Nat
    BY RegistryAssumption, DiscoveryAssumption DEF IInv, TypeOK
  <2>4. (query = "answered" => \A i \in DOMAIN answer : age[answer[i]] <= Timeout - 1 + lag)'
    BY <1>3, <1>4, <2>1, <2>3 DEF IInv, ListInv
  <2>5. (~manual /\ Fresh =>
          \A i \in DOMAIN known : age[known[i]] <= Timeout - 1 + Delay + since)'
    BY <1>3, <1>4, <2>2, <2>3 DEF IInv, ListInv, Fresh
  <2> QED BY <2>4, <2>5 DEF ListInv
<1> QED BY <1>1, <1>4 DEF ListInv

\* They keep the types.
LEMMA BeatsType ==
  ASSUME IInv, NEW a \in Servers, UNCHANGED discoveryVars,
         Beating(a) \/ Failing(a)
  PROVE  TypeOK'
<1>1. /\ servers' \subseteq Servers /\ age' \in [Servers -> 0..MaxAge]
      /\ trip' \in [Servers -> 0..Delay] /\ ticker' \in [Servers -> 0..Period]
      /\ faults' \in 0..MaxFaults
  <2>1. 0 \in 0..MaxAge /\ 0 \in 0..Delay /\ 0 \in 0..Period /\ Period \in 0..Period
    BY RegistryAssumption
  <2>2. faults' = faults \/ (faults < MaxFaults /\ faults' = faults + 1)
    BY DEF Beating, Failing, Start, Arrive, Return, Beat, BeatRefused, BeatFails, BeatHangs, Crash
  <2>3. faults' \in 0..MaxFaults
    BY <2>2, RegistryAssumption DEF IInv, TypeOK
  <2>4. /\ servers' \subseteq Servers /\ age' \in [Servers -> 0..MaxAge]
        /\ trip' \in [Servers -> 0..Delay] /\ ticker' \in [Servers -> 0..Period]
    <3>1. servers' = servers \/ servers' = servers \cup {a}
      BY DEF Beating, Failing, Start, Arrive, PutServer, Return, Beat, BeatRefused, BeatFails, BeatHangs, Crash
    <3>2. age' = age \/ age' = [age EXCEPT ![a] = 0]
      BY DEF Beating, Failing, Start, Arrive, PutServer, Return, Beat, BeatRefused, BeatFails, BeatHangs, Crash
    <3>3. trip' = trip \/ trip' = [trip EXCEPT ![a] = 0]
      BY DEF Beating, Failing, Start, Arrive, PutServer, Return, Beat, BeatRefused, BeatFails, BeatHangs, Crash
    <3>4. ticker' = ticker \/ \E t \in {0, Period} : ticker' = [ticker EXCEPT ![a] = t]
      BY DEF Beating, Failing, Start, Arrive, PutServer, Return, Beat, BeatRefused, BeatFails, BeatHangs, Crash
    <3>5. servers' \subseteq Servers
      BY <3>1 DEF IInv, TypeOK
    <3>6. age' \in [Servers -> 0..MaxAge]
      BY <2>1, <3>2 DEF IInv, TypeOK
    <3>7. trip' \in [Servers -> 0..Delay]
      BY <2>1, <3>3 DEF IInv, TypeOK
    <3>8. ticker' \in [Servers -> 0..Period]
      BY <2>1, <3>4 DEF IInv, TypeOK
    <3> QED BY <3>5, <3>6, <3>7, <3>8
  <2> QED BY <2>3, <2>4
<1>2. beat' \in [Servers -> BeatStates]
  BY DEF IInv, TypeOK, BeatStates, Beating, Failing, Start, Arrive, PutServer, Return, Beat,
         BeatRefused, BeatFails, BeatHangs, Crash
<1>3. due' \in [Servers -> BOOLEAN]
  <2>1. due' = due \/ due' = [due EXCEPT ![a] = FALSE]
    BY DEF Beating, Failing, Start, Arrive, Return, Beat, BeatRefused, BeatFails, BeatHangs, Crash
  <2> QED BY <2>1, Zenon DEF IInv, TypeOK
<1>4. UNCHANGED <<known, answer, since, lag, index, upc, query, manual>>
  OBVIOUS
<1> QED BY <1>1, <1>2, <1>3, <1>4 DEF IInv, TypeOK

\* Each of them leaves every server at its place in the cycle.
LEMMA BeatsCycle ==
  ASSUME IInv, NEW a \in Servers, UNCHANGED discoveryVars,
         Beating(a) \/ Failing(a)
  PROVE  BeatInv'
<1> SUFFICES ASSUME InTime, faults' = 0, NEW b \in Servers,
                    beat'[b] \in {"joined", "waiting", "sending", "answered"}
             PROVE  b \in servers' /\ Cycle(b)'
  BY DEF BeatInv, InTime
<1>1. faults = 0
  BY RegistryAssumption
  DEF IInv, TypeOK, Beating, Failing, Start, Arrive, Return, Beat, BeatRefused, BeatFails, BeatHangs, Crash
<1>2. /\ age[b] \in Nat /\ ticker[b] \in 0..Period /\ trip[b] \in 0..Delay /\ due[b] \in BOOLEAN
      /\ Period \in Nat \ {0} /\ Delay \in Nat
  BY RegistryAssumption DEF IInv, TypeOK
<1>3. servers \subseteq servers'
  BY DEF Beating, Failing, Start, Arrive, PutServer, Return, Beat, BeatRefused, BeatFails, BeatHangs, Crash
<1>4. CASE b # a
  <2>1. UNCHANGED <<age[b], beat[b], ticker[b], due[b], trip[b]>>
    BY <1>4
    DEF IInv, TypeOK, Beating, Failing, Start, Arrive, PutServer, Return, Beat, BeatRefused,
        BeatFails, BeatHangs, Crash
  <2>2. b \in servers /\ Cycle(b)
    BY <1>1, <2>1 DEF IInv, BeatInv
  <2> QED BY <1>3, <2>1, <2>2 DEF Cycle
<1>5. CASE b = a
  <2>1. CASE Arrive(a)
    BY <1>1, <1>2, <1>5, <2>1 DEF IInv, TypeOK, BeatInv, Cycle, Arrive, PutServer
  <2>2. CASE Return(a)
    <3>1. b \in servers /\ Cycle(b)
      BY <1>1, <1>5, <2>2 DEF IInv, BeatInv, Return
    <3>2. beat'[b] = "waiting" /\ UNCHANGED <<age, due, trip, servers>>
      BY <1>5, <2>2 DEF IInv, TypeOK, Return
    <3>3. age[b] <= trip[b]
      BY <1>5, <2>2, <3>1 DEF Return, Cycle
    <3>4. ticker'[b] > 0 /\ ticker'[b] <= Period /\ ticker'[b] \in Nat
      BY <1>2, <1>5, <2>2, <3>1 DEF IInv, TypeOK, Return, Cycle
    <3>5. age'[b] + (IF due'[b] THEN 0 ELSE ticker'[b]) <= Period + Delay
      BY <1>2, <3>2, <3>3, <3>4
    <3> QED BY <3>1, <3>2, <3>4, <3>5 DEF Cycle
  <2>3. CASE Beat(a)
    <3>1. b \in servers /\ Cycle(b)
      BY <1>1, <1>5, <2>3 DEF IInv, BeatInv, Beat
    <3>2. beat'[b] = "sending" /\ trip'[b] = 0 /\ UNCHANGED <<age, ticker, servers>>
      BY <1>5, <2>3 DEF IInv, TypeOK, Beat
    <3>3. age[b] <= Period + Delay /\ ticker[b] > 0
      BY <1>2, <1>5, <2>3, <3>1 DEF Beat, Cycle
    <3> QED BY <1>2, <3>1, <3>2, <3>3 DEF Cycle
  <2>4. CASE Start(a)
    BY <1>5, <2>4 DEF IInv, TypeOK, Start
  <2>5. CASE Crash(a)
    BY <1>5, <2>5 DEF IInv, TypeOK, Crash
  <2>6. ~BeatRefused(a) /\ ~BeatFails(a) /\ ~BeatHangs(a)
    BY <1>1 DEF BeatRefused, BeatFails, BeatHangs
  <2> QED BY <2>1, <2>2, <2>3, <2>4, <2>5, <2>6 DEF Beating, Failing
<1> QED BY <1>4, <1>5

-----------------------------------------------------------------------------
\* The registry restarts, answers a GET, or a GET goes wrong.  The parts that
\* these steps leave alone are kept; a fault ends the claim of BeatInv.
LEMMA RestartStep ==
  ASSUME IInv, RegistryRestart, UNCHANGED discoveryVars
  PROVE  IInv'
<1>1. faults' \in 0..MaxFaults /\ faults' # 0
  BY RegistryAssumption DEF IInv, TypeOK, RegistryRestart
<1>2. TypeOK'
  BY <1>1 DEF IInv, TypeOK, RegistryRestart
<1>3. BeatInv'
  BY <1>1 DEF BeatInv
<1>4. LockInv'
  BY DEF IInv, LockInv, Locked, Fresh
<1>5. ListInv'
  BY DEF IInv, ListInv, Fresh, RegistryRestart
<1> QED BY <1>2, <1>3, <1>4, <1>5 DEF IInv

\* The servers in an answer are within their timeout, and no beating server is
\* deleted.
LEMMA AnswerGetStep ==
  ASSUME IInv, AnswerGet
  PROVE  IInv'
<1>1. AliveServers \in SUBSET Servers
  BY DEF IInv, TypeOK, AliveServers
<1>2. /\ answer' \in Seq(Servers)
      /\ \A i \in DOMAIN answer' : answer'[i] \in AliveServers
  BY <1>1, MembershipAssumption DEF AnswerGet, Reply
<1>3. TypeOK'
  BY <1>1, <1>2 DEF IInv, TypeOK, AnswerGet, Reply, Purge
<1>4. BeatInv'
  <2> SUFFICES ASSUME InTime, faults = 0, NEW a \in Servers,
                      beat[a] \in {"joined", "waiting", "sending", "answered"}
               PROVE  a \in servers' /\ Cycle(a)'
    BY DEF BeatInv, InTime, AnswerGet
  <2>1. a \in AliveServers
    BY CycleIsAlive
  <2>2. Cycle(a)
    BY DEF IInv, BeatInv
  <2> QED BY <2>1, <2>2 DEF AnswerGet, Purge, Cycle
<1>5. LockInv'
  BY DEF IInv, LockInv, Locked, Fresh, AnswerGet, Reply
<1>6. ListInv'
  <2> SUFFICES ASSUME Timeout > 0 PROVE ListInv'
    BY DEF ListInv
  <2>1. ASSUME NEW i \in DOMAIN answer' PROVE age'[answer'[i]] <= Timeout - 1 + lag'
    <3>1. answer'[i] \in Servers /\ age[answer'[i]] < Timeout
      BY <1>1, <1>2, <2>1, RegistryAssumption DEF AliveServers, Alive
    <3>2. age[answer'[i]] \in Nat /\ lag \in Nat /\ Timeout \in Nat
      BY <3>1, RegistryAssumption DEF IInv, TypeOK
    <3>3. UNCHANGED <<age, lag>>
      BY DEF AnswerGet, Reply
    <3> QED BY <3>1, <3>2, <3>3
  <2> QED BY <2>1 DEF IInv, ListInv, Fresh, AnswerGet, Reply
<1> QED BY <1>3, <1>4, <1>5, <1>6 DEF IInv

\* A blank answer lists nobody.
LEMMA AnswerBlankStep ==
  ASSUME IInv, AnswerBlank
  PROVE  IInv'
<1>1. faults' \in 0..MaxFaults /\ faults' # 0
  BY RegistryAssumption DEF IInv, TypeOK, AnswerBlank
<1>2. <<>> \in Seq(Servers)
  OBVIOUS
<1>3. TypeOK'
  BY <1>1, <1>2 DEF IInv, TypeOK, AnswerBlank, Reply
<1>4. BeatInv'
  BY <1>1 DEF BeatInv
<1>5. LockInv'
  BY DEF IInv, LockInv, Locked, Fresh, AnswerBlank, Reply
<1>6. ListInv'
  BY DEF IInv, ListInv, Fresh, AnswerBlank, Reply
<1> QED BY <1>3, <1>4, <1>5, <1>6 DEF IInv

\* A GET that fails or hangs leaves the list as it was.
LEMMA GetFailsStep ==
  ASSUME IInv, GetFails
  PROVE  IInv'
<1>1. faults' \in 0..MaxFaults /\ faults' # 0
  BY RegistryAssumption DEF IInv, TypeOK, GetFails
<1>2. <<>> \in Seq(Servers)
  OBVIOUS
<1>3. TypeOK'
  BY <1>1, <1>2 DEF IInv, TypeOK, GetFails, RefreshFails
<1>4. BeatInv'
  BY <1>1 DEF BeatInv
<1>5. LockInv'
  BY DEF IInv, TypeOK, LockInv, Locked, Fresh, GetFails, RefreshFails
<1>6. ListInv'
  BY DEF IInv, ListInv, Fresh, GetFails, RefreshFails
<1> QED BY <1>3, <1>4, <1>5, <1>6 DEF IInv

-----------------------------------------------------------------------------
\* The users change nothing of the registry, so that the heartbeats stay where
\* they are in their cycle.
LEMMA UsersKeepBeats ==
  ASSUME IInv, UNCHANGED registryVars
  PROVE  BeatInv'
BY DEF IInv, BeatInv, Cycle, InTime

\* Get, and the ends of Refresh.
LEMMA RefreshStep ==
  ASSUME IInv, NEW u \in Users, UNCHANGED registryVars, Get(u) \/ Refreshing(u)
  PROVE  IInv'
<1>1. BeatInv'
  BY UsersKeepBeats
<1>2. <<>> \in Seq(Servers) /\ 0 \in 0..UpdateTimeout /\ 0 \in 0..Delay
      /\ 0 < UpdateTimeout
  BY RegistryAssumption, DiscoveryAssumption
<1>3. CASE Get(u)
  <2>1. TypeOK'
    BY <1>3 DEF IInv, TypeOK, Get
  <2>2. LockInv'
    BY <1>3 DEF IInv, TypeOK, LockInv, Locked, Fresh, Get
  <2>3. ListInv'
    BY <1>3 DEF IInv, ListInv, Fresh, Get
  <2> QED BY <1>1, <2>1, <2>2, <2>3 DEF IInv
<1>4. CASE RefreshSkips(u)
  <2>1. TypeOK'
    BY <1>4 DEF IInv, TypeOK, RefreshSkips
  <2>2. LockInv'
    BY <1>4 DEF IInv, TypeOK, LockInv, Locked, Fresh, RefreshSkips
  <2>3. ListInv'
    BY <1>4 DEF IInv, ListInv, Fresh, RefreshSkips
  <2> QED BY <1>1, <2>1, <2>2, <2>3 DEF IInv
<1>5. CASE RefreshAsks(u)
  <2>1. TypeOK'
    BY <1>2, <1>5 DEF IInv, TypeOK, RefreshAsks
  <2>2. LockInv'
    BY <1>5 DEF IInv, TypeOK, LockInv, Locked, Fresh, RefreshAsks
  <2>3. ListInv'
    BY <1>5 DEF IInv, ListInv, Fresh, RefreshAsks
  <2> QED BY <1>1, <2>1, <2>2, <2>3 DEF IInv
<1>6. CASE RefreshDone(u)
  <2>1. TypeOK'
    <3>1. manual' \in BOOLEAN
      BY <1>6, Zenon DEF RefreshDone
    <3> QED BY <1>2, <1>6, <3>1 DEF IInv, TypeOK, RefreshDone
  <2>2. LockInv'
    BY <1>2, <1>6 DEF IInv, TypeOK, LockInv, Locked, Fresh, RefreshDone
  <2>3. ListInv'
    <3> SUFFICES ASSUME Timeout > 0 PROVE ListInv'
      BY DEF ListInv
    <3>1. ASSUME NEW i \in DOMAIN answer
          PROVE  age[answer[i]] <= Timeout - 1 + Delay + 0
      <4>1. age[answer[i]] <= Timeout - 1 + lag
        BY <1>6, <3>1 DEF IInv, ListInv, RefreshDone
      <4>2. answer[i] \in Servers
        BY <3>1 DEF IInv, TypeOK
      <4>3. age[answer[i]] \in Nat /\ lag \in 0..Delay /\ Timeout \in Nat /\ Delay \in Nat
        BY <4>2, RegistryAssumption DEF IInv, TypeOK
      <4> QED BY <4>1, <4>3
    <3>2. known' = answer /\ since' = 0 /\ age' = age /\ query' = "none"
      BY <1>6 DEF RefreshDone
    <3> QED BY <3>1, <3>2 DEF ListInv
  <2> QED BY <1>1, <2>1, <2>2, <2>3 DEF IInv
<1> QED BY <1>3, <1>4, <1>5, <1>6 DEF Refreshing

\* A selection moves the index.
LEMMA SelectStep ==
  ASSUME IInv, NEW u \in Users, UNCHANGED registryVars, Selecting(u)
  PROVE  IInv'
<1>1. BeatInv'
  BY UsersKeepBeats
<1>2. index' \in 0..(Wheel - 1)
  BY DiscoveryAssumption DEF IInv, TypeOK, Selecting, Select, SelectRoundRobin, NextIndex
<1>3. TypeOK'
  BY <1>2 DEF IInv, TypeOK, Selecting, Select, SelectRoundRobin
<1>4. LockInv'
  BY DEF IInv, TypeOK, LockInv, Locked, Fresh, Selecting, Select, SelectRoundRobin
<1>5. ListInv'
  BY DEF IInv, ListInv, Fresh, Selecting, Select, SelectRoundRobin
<1> QED BY <1>1, <1>3, <1>4, <1>5 DEF IInv

\* Update makes the list the caller's.
LEMMA UpdateStep ==
  ASSUME IInv, NEW S \in SUBSET Servers, UNCHANGED registryVars, Update(Sorted[S])
  PROVE  IInv'
<1>1. BeatInv'
  BY UsersKeepBeats
<1>2. <<>> \in Seq(Servers) /\ 0 \in 0..UpdateTimeout /\ 0 < UpdateTimeout
      /\ Sorted[S] \in Seq(Servers)
  BY DiscoveryAssumption, MembershipAssumption
<1>3. manual' = TRUE
  BY DEF Update
<1>4. manual' \in BOOLEAN
  BY <1>3, Zenon
<1>5. TypeOK'
  BY <1>2, <1>4 DEF IInv, TypeOK, Update
<1>6. LockInv'
  BY <1>2 DEF IInv, TypeOK, LockInv, Locked, Fresh, Update
<1>7. ListInv'
  BY <1>3 DEF IInv, ListInv, Update
<1> QED BY <1>1, <1>5, <1>6, <1>7 DEF IInv

-----------------------------------------------------------------------------
\* Time adds one to the ages, and to what bounds them.
LEMMA ElapseStep ==
  ASSUME IInv, Elapse
  PROVE  IInv'
<1> USE DEF Elapse, ElapseForBeats
<1>1. /\ Timeout \in Nat /\ Period \in Nat \ {0} /\ Delay \in Nat /\ MaxAge \in Nat
      /\ UpdateTimeout \in Nat \ {0}
  BY RegistryAssumption, DiscoveryAssumption
<1>2. \A a \in Servers :
        /\ age[a] \in Nat /\ age'[a] \in Nat /\ age'[a] <= age[a] + 1 /\ age'[a] <= MaxAge
        /\ ticker[a] \in 0..Period /\ trip[a] \in 0..Delay
  BY <1>1 DEF IInv, TypeOK, Older
<1>3. TypeOK'
  <2>1. age' \in [Servers -> 0..MaxAge]
    BY <1>1 DEF IInv, TypeOK, Older
  <2>2. trip' \in [Servers -> 0..Delay]
    BY <1>1 DEF IInv, TypeOK, BeatsInTime
  <2>3. ticker' \in [Servers -> 0..Period]
    BY <1>1 DEF IInv, TypeOK
  <2>4. due' \in [Servers -> BOOLEAN]
    BY Zenon
  <2>5. since' \in 0..UpdateTimeout
    BY <1>1 DEF IInv, TypeOK
  <2>6. lag' \in 0..Delay
    BY <1>1 DEF IInv, TypeOK, UsersInTime
  <2>7. upc' \in [Users -> {"idle", "refresh", "query", "select", "resting"}]
    BY DEF IInv, TypeOK
  <2> QED BY <2>1, <2>2, <2>3, <2>4, <2>5, <2>6, <2>7 DEF IInv, TypeOK
<1>4. BeatInv'
  <2> SUFFICES ASSUME InTime, faults = 0, NEW a \in Servers,
                      beat[a] \in {"joined", "waiting", "sending", "answered"}
               PROVE  a \in servers' /\ Cycle(a)'
    BY DEF BeatInv, InTime
  <2>1. a \in servers /\ Cycle(a)
    BY DEF IInv, BeatInv
  <2>2. beat' = beat /\ servers' = servers
    OBVIOUS
  <2>3. ticker'[a] = IF ticker[a] = 0 THEN 0
                     ELSE IF ticker[a] = 1 THEN Period ELSE ticker[a] - 1
    OBVIOUS
  <2>4. ticker[a] > 0 => ticker'[a] > 0 /\ ticker'[a] \in Nat
    BY <1>1, <1>2, <2>3
  <2>5. CASE beat[a] = "waiting"
    <3>1. ~due[a]
      BY <2>5 DEF BeatsInTime
    <3>2. age[a] + ticker[a] <= Period + Delay /\ ticker[a] > 0
      BY <2>1, <2>5, <3>1 DEF Cycle
    <3>3. due'[a] <=> ticker[a] = 1
      BY <3>1
    <3>4. age'[a] + (IF due'[a] THEN 0 ELSE ticker'[a]) <= Period + Delay
      BY <1>1, <1>2, <2>3, <3>2, <3>3
    <3> QED BY <2>1, <2>2, <2>4, <2>5, <3>2, <3>4 DEF Cycle
  <2>6. CASE beat[a] # "waiting"
    <3>1. trip'[a] = trip[a] + 1
      BY <2>6 DEF Travelling
    <3>2. beat[a] \in {"joined", "answered"} => age'[a] <= trip'[a]
      BY <1>2, <2>1, <3>1 DEF Cycle
    <3>3. beat[a] = "sending" => age'[a] <= Period + Delay + trip'[a]
      BY <1>1, <1>2, <2>1, <3>1 DEF Cycle
    <3>4. beat[a] \in {"sending", "answered"} => ticker'[a] > 0
      BY <2>1, <2>4 DEF Cycle
    <3> QED BY <2>1, <2>2, <2>6, <3>2, <3>3, <3>4 DEF Cycle
  <2> QED BY <2>5, <2>6
<1>5. LockInv'
  <2>1. \A u \in Users : (upc'[u] = "query" <=> upc[u] = "query")
                         /\ (upc'[u] = "select" <=> upc[u] = "select")
    BY DEF IInv, TypeOK
  <2>2. Locked' <=> Locked
    BY <2>1 DEF Locked
  <2>3. ~\E u \in Users : upc[u] = "select"
    BY DEF IInv, LockInv, UsersInTime
  <2> QED BY <2>1, <2>2, <2>3 DEF IInv, LockInv
<1>6. ListInv'
  <2> SUFFICES ASSUME Timeout > 0 PROVE ListInv'
    BY DEF ListInv
  <2>1. ASSUME query = "answered", NEW i \in DOMAIN answer
        PROVE  age'[answer[i]] <= Timeout - 1 + lag'
    <3>1. answer[i] \in Servers /\ lag \in Nat
      BY <1>1, <2>1 DEF IInv, TypeOK
    <3>2. age[answer[i]] <= Timeout - 1 + lag
      BY <2>1 DEF IInv, ListInv
    <3>3. lag' = lag + 1
      BY <2>1
    <3> QED BY <1>1, <1>2, <3>1, <3>2, <3>3
  <2>2. ASSUME ~manual, Fresh', NEW i \in DOMAIN known
        PROVE  age'[known[i]] <= Timeout - 1 + Delay + since'
    <3>1. known[i] \in Servers /\ since \in Nat
      BY <1>1, <2>2 DEF IInv, TypeOK
    <3>2. since' = since + 1 /\ Fresh
      BY <1>1, <2>2, <3>1 DEF Fresh
    <3>3. age[known[i]] <= Timeout - 1 + Delay + since
      BY <2>2, <3>2 DEF IInv, ListInv
    <3> QED BY <1>1, <1>2, <3>1, <3>2, <3>3
  <2>3. UNCHANGED <<query, answer, known, manual>>
    OBVIOUS
  <2> QED BY <2>1, <2>2, <2>3 DEF ListInv
<1> QED BY <1>3, <1>4, <1>5, <1>6 DEF IInv

-----------------------------------------------------------------------------
\* The invariant holds in the initial state.
LEMMA InitIInv == Init => IInv
<1> SUFFICES ASSUME Init PROVE IInv
  OBVIOUS
<1> USE DEF Init, RegistryInit, DiscoveryInit
<1>1. /\ Period \in Nat \ {0} /\ Delay \in Nat /\ MaxAge \in Nat /\ MaxFaults \in Nat
      /\ UpdateTimeout \in Nat \ {0}
  BY RegistryAssumption, DiscoveryAssumption
<1>2. due \in [Servers -> BOOLEAN] /\ manual \in BOOLEAN
  BY Zenon
<1>3. <<>> \in Seq(Servers)
  OBVIOUS
<1>4. TypeOK
  BY <1>1, <1>2, <1>3 DEF TypeOK, BeatStates
<1>5. BeatInv
  BY DEF BeatInv
<1>6. LockInv
  BY DEF LockInv, Locked
<1>7. ListInv
  BY <1>1 DEF ListInv, Fresh
<1> QED BY <1>4, <1>5, <1>6, <1>7 DEF IInv

\* Every step keeps the invariant.
LEMMA NextIInv == IInv /\ [Next]_vars => IInv'
<1> SUFFICES ASSUME IInv, [Next]_vars PROVE IInv'
  OBVIOUS
<1>1. CASE (\E a \in Servers : Beating(a) \/ Failing(a)) /\ UNCHANGED discoveryVars
  BY <1>1, BeatsKeepTheRest, BeatsType, BeatsCycle DEF IInv
<1>2. CASE RegistryRestart /\ UNCHANGED discoveryVars
  BY <1>2, RestartStep
<1>3. CASE (\E u \in Users : Get(u) \/ Refreshing(u) \/ Selecting(u)) /\ UNCHANGED registryVars
  BY <1>3, RefreshStep, SelectStep
<1>4. CASE (\E S \in SUBSET Servers : Update(Sorted[S])) /\ UNCHANGED registryVars
  BY <1>4, UpdateStep
<1>5. CASE AnswerGet
  BY <1>5, AnswerGetStep
<1>6. CASE AnswerBlank
  BY <1>6, AnswerBlankStep
<1>7. CASE GetFails
  BY <1>7, GetFailsStep
<1>8. CASE Elapse
  BY <1>8, ElapseStep
<1>9. CASE UNCHANGED vars
  <2>1. UNCHANGED registryVars /\ UNCHANGED discoveryVars
    BY <1>9 DEF vars
  <2>2. TypeOK'
    BY <2>1 DEF IInv, TypeOK
  <2>3. BeatInv'
    BY <2>1, UsersKeepBeats
  <2>4. LockInv'
    BY <2>1 DEF IInv, LockInv, Locked, Fresh
  <2>5. ListInv'
    BY <2>1 DEF IInv, ListInv, Fresh
  <2> QED BY <2>2, <2>3, <2>4, <2>5 DEF IInv
<1> QED BY <1>1, <1>2, <1>3, <1>4, <1>5, <1>6, <1>7, <1>8, <1>9 DEF Next

\* The invariant holds in every reachable state of the registry, the
\* heartbeats and the discovery.
THEOREM Invariance == Spec => []IInv
BY InitIInv, NextIInv, PTL DEF Spec

\* A server that beats is in every answer of aliveServers, for every period,
\* delay and timeout with Period + 2 * Delay < Timeout.
THEOREM Listed == Spec => []AliveAreListed
<1>1. IInv => AliveAreListed
  BY CycleIsAlive DEF AliveAreListed
<1> QED BY <1>1, Invariance, PTL

\* A discovery hands out no server that is dead for longer than StaleBound,
\* whatever fails.
THEOREM Forgotten == Spec => []DeadAreForgotten
<1>1. IInv => DeadAreForgotten
  <2> SUFFICES ASSUME IInv, Timeout > 0, ~manual, ~Locked,
                      \E u \in Users : upc[u] = "select", NEW i \in DOMAIN known
               PROVE  age[known[i]] <= StaleBound
    BY DEF DeadAreForgotten
  <2>1. Fresh
    BY DEF IInv, LockInv
  <2>2. age[known[i]] <= Timeout - 1 + Delay + since
    BY <2>1 DEF IInv, ListInv
  <2>3. known[i] \in Servers
    BY DEF IInv, TypeOK
  <2>4. /\ age[known[i]] \in Nat /\ since \in Nat /\ since < UpdateTimeout
        /\ Timeout \in Nat /\ Delay \in Nat /\ UpdateTimeout \in Nat
    BY <2>1, <2>3, RegistryAssumption, DiscoveryAssumption DEF IInv, TypeOK, Fresh
  <2> QED BY <2>2, <2>4 DEF StaleBound
<1> QED BY <1>1, Invariance, PTL
=============================================================================
