--------------------------- MODULE XClient_proof ---------------------------
(***************************************************************************)
(* Proofs about XClient, for any users, servers, lists and connections.    *)
(***************************************************************************)
EXTENDS XClient, TLAPS

\* A task belongs to a user and an address, a connection to an address.
LEMMA NameFacts ==
  /\ \A t \in Calls : User(t) \in Users /\ Addr(t) \in Addrs
  /\ \A k \in Conns : k[1] \in Addrs
  /\ NoConn \notin Conns /\ NoTask \notin Calls
  /\ \A s, t \in Calls : User(s) = User(t) /\ Addr(s) = Addr(t) => s = t
BY CallsAssumption, ConnsAssumption, NamesAssumption DEF User, Addr

\* The initial states satisfy the inductive invariant.
LEMMA InitIInv == Init => IInv
<1> SUFFICES ASSUME Init PROVE IInv
  OBVIOUS
<1> USE NameFacts DEF Init, PromiseInit
<1>1. TypeOK
  BY DEF TypeOK, Errors, Answers
<1>2. MutexInv /\ ClientsInv /\ NoLeakedConn
  BY DEF MutexInv, ClientsInv, NoLeakedConn
<1>3. CallInv /\ CancelInv /\ UserInv /\ Verdict
  BY DEF CallInv, CancelInv, UserInv, Verdict
<1> QED
  BY <1>1, <1>2, <1>3 DEF IInv

\* A user starts its tasks.
LEMMA StartStep ==
  ASSUME IInv, NEW u \in Users, NEW m \in {"call", "broadcast"}, NEW servers, m = "call" => \E a : servers = {a},
         Start(u, m, servers)
  PROVE  IInv'
<1> USE NameFacts
<1>0. /\ UNCHANGED <<promiseVars, e, reply, gaveUp, canceled, err, mu, clients, sock, dialer>>
      /\ upc[u] = "idle" /\ upc' = [upc EXCEPT ![u] = "running"] /\ mode' = [mode EXCEPT ![u] = m]
      /\ \A t \in Calls : User(t) # u => tpc'[t] = tpc[t]
      /\ \A t \in Calls : User(t) = u => tpc[t] = "idle" /\ tpc'[t] \in {"idle", "dial"}
  BY DEF Start, IInv, UserInv
<1>1. TypeOK'
  BY DEF Start, promiseVars, callState, userVars, taskVars, IInv, TypeOK, Errors, Answers
<1>2. MutexInv'
  BY <1>0 DEF promiseVars, callState, IInv, TypeOK, MutexInv
<1>3. ClientsInv'
  BY <1>0 DEF promiseVars, callState, IInv, TypeOK, ClientsInv
<1>4. NoLeakedConn'
  BY <1>0 DEF promiseVars, callState, IInv, TypeOK, MutexInv, NoLeakedConn, Filed
<1>5. CallInv'
  BY <1>0 DEF promiseVars, callState, IInv, TypeOK, CallInv
<1>6. CancelInv'
  BY <1>0 DEF promiseVars, callState, IInv, TypeOK, CallInv, CancelInv, UserInv, CtxDone
<1>7. UserInv'
  BY DEF Start, promiseVars, callState, userVars, taskVars, IInv, TypeOK, CallInv, UserInv,
         MutexInv
<1>8. Verdict'
  BY DEF Start, promiseVars, callState, userVars, taskVars, IInv, TypeOK, CallInv,
         CancelInv, UserInv, Verdict, CtxDone
<1> QED
  BY <1>1, <1>2, <1>3, <1>4, <1>5, <1>6, <1>7, <1>8 DEF IInv

\* The discovery has no server for a user.
LEMMA DiscoveryFailsStep ==
  ASSUME IInv, NEW u \in Users, DiscoveryFails(u)
  PROVE  IInv'
<1> USE NameFacts
<1>1. TypeOK'
  BY DEF DiscoveryFails, promiseVars, callState, userVars, taskVars, IInv, TypeOK, Errors,
         Answers
<1>2. MutexInv'
  BY DEF DiscoveryFails, promiseVars, callState, userVars, taskVars, IInv, TypeOK, MutexInv
<1>3. ClientsInv'
  BY DEF DiscoveryFails, promiseVars, callState, userVars, taskVars, IInv, TypeOK,
         MutexInv, ClientsInv
<1>4. NoLeakedConn'
  BY DEF DiscoveryFails, promiseVars, callState, userVars, taskVars, IInv, TypeOK,
         MutexInv, ClientsInv, NoLeakedConn, Filed
<1>5. CallInv'
  BY DEF DiscoveryFails, promiseVars, callState, userVars, taskVars, IInv, TypeOK, CallInv
<1>6. CancelInv'
  BY DEF DiscoveryFails, promiseVars, callState, userVars, taskVars, IInv, TypeOK, CallInv,
         CancelInv, UserInv, CtxDone
<1>7. UserInv'
  BY DEF DiscoveryFails, promiseVars, callState, userVars, taskVars, IInv, TypeOK, CallInv,
         UserInv, MutexInv
<1>8. Verdict'
  BY DEF DiscoveryFails, promiseVars, callState, userVars, taskVars, IInv, TypeOK, CallInv,
         CancelInv, UserInv, Verdict, CtxDone
<1> QED
  BY <1>1, <1>2, <1>3, <1>4, <1>5, <1>6, <1>7, <1>8 DEF IInv

\* A task takes a client that is there.
LEMMA DialReusesStep ==
  ASSUME IInv, NEW t \in Calls, DialReuses(t)
  PROVE  IInv'
<1> USE NameFacts
<1>1. TypeOK'
  BY DEF DialReuses, Take, Goto, promiseVars, callState, userVars, taskVars, IInv, TypeOK,
         Errors, Answers
<1>2. MutexInv'
  BY DEF DialReuses, Take, Goto, promiseVars, callState, userVars, taskVars, IInv, TypeOK,
         MutexInv
<1>3. ClientsInv'
  BY DEF DialReuses, Take, Goto, promiseVars, callState, userVars, taskVars, IInv, TypeOK,
         MutexInv, ClientsInv
<1>4. NoLeakedConn'
  BY DEF DialReuses, Take, Goto, promiseVars, callState, userVars, taskVars, IInv, TypeOK,
         MutexInv, ClientsInv, NoLeakedConn, Filed
<1>5. CallInv'
  BY DEF DialReuses, Take, Goto, promiseVars, callState, userVars, taskVars, IInv, TypeOK,
         CallInv
<1>6. CancelInv'
  BY DEF DialReuses, Take, Goto, promiseVars, callState, userVars, taskVars, IInv, TypeOK,
         CallInv, CancelInv, UserInv, CtxDone
<1>7. UserInv'
  BY DEF DialReuses, Take, Goto, promiseVars, callState, userVars, taskVars, IInv, TypeOK,
         CallInv, UserInv, MutexInv
<1>8. Verdict'
  BY DEF DialReuses, Take, Goto, promiseVars, callState, userVars, taskVars, IInv, TypeOK,
         CallInv, CancelInv, UserInv, Verdict, CtxDone
<1> QED
  BY <1>1, <1>2, <1>3, <1>4, <1>5, <1>6, <1>7, <1>8 DEF IInv

\* An old client is closed and no new one found.
LEMMA ConnectFailsStep ==
  ASSUME IInv, NEW t \in Calls, ConnectFails(t)
  PROVE  IInv'
<1> USE NameFacts
<1>1. TypeOK'
  BY DEF ConnectFails, DropOld, CloseClients, Replaced, DialError, Unlocked, Goto,
         promiseVars, callState, userVars, taskVars, IInv, TypeOK, Errors, Answers
<1>2. MutexInv'
  BY DEF ConnectFails, DropOld, CloseClients, Replaced, DialError, Unlocked, Goto,
         promiseVars, callState, userVars, taskVars, IInv, TypeOK, MutexInv
<1>3. ClientsInv'
  BY DEF ConnectFails, DropOld, CloseClients, Replaced, DialError, Unlocked, Goto,
         promiseVars, callState, userVars, taskVars, IInv, TypeOK, MutexInv, ClientsInv
<1>4. NoLeakedConn'
  BY DEF ConnectFails, DropOld, CloseClients, Replaced, DialError, Unlocked, Goto,
         promiseVars, callState, userVars, taskVars, IInv, TypeOK, MutexInv, ClientsInv,
         NoLeakedConn, Filed
<1>5. CallInv'
  BY DEF ConnectFails, DropOld, CloseClients, Replaced, DialError, Unlocked, Goto,
         promiseVars, callState, userVars, taskVars, IInv, TypeOK, CallInv
<1>6. CancelInv'
  BY DEF ConnectFails, DropOld, CloseClients, Replaced, DialError, Unlocked, Goto,
         promiseVars, callState, userVars, taskVars, IInv, TypeOK, CallInv, CancelInv,
         UserInv, CtxDone
<1>7. UserInv'
  BY DEF ConnectFails, DropOld, CloseClients, Replaced, DialError, Unlocked, Goto,
         promiseVars, callState, userVars, taskVars, IInv, TypeOK, CallInv, UserInv,
         MutexInv
<1>8. Verdict'
  BY DEF ConnectFails, DropOld, CloseClients, Replaced, DialError, Unlocked, Goto,
         promiseVars, callState, userVars, taskVars, IInv, TypeOK, CallInv, CancelInv,
         UserInv, Verdict, CtxDone
<1> QED
  BY <1>1, <1>2, <1>3, <1>4, <1>5, <1>6, <1>7, <1>8 DEF IInv

\* A task has a new connection and keeps xc.mu.
LEMMA ConnectStep ==
  ASSUME IInv, NEW t \in Calls, Connect(t)
  PROVE  IInv'
<1> USE NameFacts
<1>1. TypeOK'
  BY DEF Connect, DropOld, CloseClients, Replaced, Goto, promiseVars, callState, userVars,
         taskVars, IInv, TypeOK, Errors, Answers
<1>2. MutexInv'
  BY DEF Connect, DropOld, CloseClients, Replaced, Goto, promiseVars, callState, userVars,
         taskVars, IInv, TypeOK, MutexInv
<1>3. ClientsInv'
  BY DEF Connect, DropOld, CloseClients, Replaced, Goto, promiseVars, callState, userVars,
         taskVars, IInv, TypeOK, MutexInv, ClientsInv
<1>4. NoLeakedConn'
  BY DEF Connect, DropOld, CloseClients, Replaced, Goto, promiseVars, callState, userVars,
         taskVars, IInv, TypeOK, MutexInv, ClientsInv, NoLeakedConn, Filed
<1>5. CallInv'
  BY DEF Connect, DropOld, CloseClients, Replaced, Goto, promiseVars, callState, userVars,
         taskVars, IInv, TypeOK, CallInv
<1>6. CancelInv'
  BY DEF Connect, DropOld, CloseClients, Replaced, Goto, promiseVars, callState, userVars,
         taskVars, IInv, TypeOK, CallInv, CancelInv, UserInv, CtxDone
<1>7. UserInv'
  BY DEF Connect, DropOld, CloseClients, Replaced, Goto, promiseVars, callState, userVars,
         taskVars, IInv, TypeOK, CallInv, UserInv, MutexInv
<1>8. Verdict'
  BY DEF Connect, DropOld, CloseClients, Replaced, Goto, promiseVars, callState, userVars,
         taskVars, IInv, TypeOK, CallInv, CancelInv, UserInv, Verdict, CtxDone
<1> QED
  BY <1>1, <1>2, <1>3, <1>4, <1>5, <1>6, <1>7, <1>8 DEF IInv

\* The dialing goroutine has a result.
LEMMA NewClientStep ==
  ASSUME IInv, NEW k \in Conns, NewClient(k)
  PROVE  IInv'
<1> USE NameFacts
<1>1. TypeOK'
  <2>1. dialer' \in [Conns -> {"none", "running", "ok", "err", "gone", "hung", "lost"}]
    BY DEF NewClient, IInv, TypeOK
  <2>2. life' \in [Conns -> {"none", "up", "over"}] /\ UNCHANGED <<on, callState, closing>>
    BY DEF NewClient, Open, promiseVars, IInv, TypeOK
  <2> QED
    BY <2>1, <2>2 DEF NewClient, callState, userVars, taskVars, IInv, TypeOK
<1>2. MutexInv'
  BY DEF NewClient, Open, promiseVars, callState, userVars, taskVars, IInv, TypeOK,
         MutexInv
<1>3. ClientsInv'
  BY DEF NewClient, Open, promiseVars, callState, userVars, taskVars, IInv, TypeOK,
         MutexInv, ClientsInv
<1>4. NoLeakedConn'
  BY DEF NewClient, Open, promiseVars, callState, userVars, taskVars, IInv, TypeOK,
         MutexInv, ClientsInv, NoLeakedConn, Filed
<1>5. CallInv'
  BY DEF NewClient, Open, promiseVars, callState, userVars, taskVars, IInv, TypeOK, CallInv
<1>6. CancelInv'
  BY DEF NewClient, Open, promiseVars, callState, userVars, taskVars, IInv, TypeOK,
         CallInv, CancelInv, UserInv, CtxDone
<1>7. UserInv'
  BY DEF NewClient, Open, promiseVars, callState, userVars, taskVars, IInv, TypeOK,
         CallInv, UserInv, MutexInv
<1>8. Verdict'
  BY DEF NewClient, Open, promiseVars, callState, userVars, taskVars, IInv, TypeOK,
         CallInv, CancelInv, UserInv, Verdict, CtxDone
<1> QED
  BY <1>1, <1>2, <1>3, <1>4, <1>5, <1>6, <1>7, <1>8 DEF IInv

\* A new client is filed.
LEMMA DialDoneStep ==
  ASSUME IInv, NEW t \in Calls, DialDone(t)
  PROVE  IInv'
<1> USE NameFacts
<1>1. TypeOK'
  <2>1. dialer' \in [Conns -> {"none", "running", "ok", "err", "gone", "hung", "lost"}]
    BY DEF DialDone, IInv, TypeOK
  <2>2. clients' \in [Addrs -> Conns \cup {NoConn}]
    BY DEF DialDone, IInv, TypeOK
  <2>3. mu' \in Calls \cup {NoTask}
    BY DEF DialDone
  <2> QED
    BY <2>1, <2>2, <2>3 DEF DialDone, Goto, promiseVars, callState, userVars, IInv, TypeOK
<1>2. MutexInv'
  BY DEF DialDone, Goto, promiseVars, callState, userVars, taskVars, IInv, TypeOK, MutexInv
<1>3. ClientsInv'
  BY DEF DialDone, Goto, promiseVars, callState, userVars, taskVars, IInv, TypeOK,
         MutexInv, ClientsInv
<1>4. NoLeakedConn'
  BY DEF DialDone, Goto, promiseVars, callState, userVars, taskVars, IInv, TypeOK,
         MutexInv, ClientsInv, NoLeakedConn, Filed
<1>5. CallInv'
  BY DEF DialDone, Goto, promiseVars, callState, userVars, taskVars, IInv, TypeOK, CallInv
<1>6. CancelInv'
  BY DEF DialDone, Goto, promiseVars, callState, userVars, taskVars, IInv, TypeOK, CallInv,
         CancelInv, UserInv, CtxDone
<1>7. UserInv'
  BY DEF DialDone, Goto, promiseVars, callState, userVars, taskVars, IInv, TypeOK, CallInv,
         UserInv, MutexInv
<1>8. Verdict'
  BY DEF DialDone, Goto, promiseVars, callState, userVars, taskVars, IInv, TypeOK, CallInv,
         CancelInv, UserInv, Verdict, CtxDone
<1> QED
  BY <1>1, <1>2, <1>3, <1>4, <1>5, <1>6, <1>7, <1>8 DEF IInv

\* A dial fails, and its connection is closed.
LEMMA DialFailsStep ==
  ASSUME IInv, NEW t \in Calls, DialFails(t)
  PROVE  IInv'
<1> USE NameFacts
<1>1. TypeOK'
  <2>1. on[t] \in Conns
    BY DEF DialFails, IInv, ClientsInv
  <2>2. dialer' \in [Conns -> {"none", "running", "ok", "err", "gone", "hung", "lost"}]
    BY <2>1 DEF DialFails, IInv, TypeOK
  <2>3. sock' \in [Conns -> {"none", "open", "closed"}]
    BY <2>1 DEF DialFails, Deferred, IInv, TypeOK
  <2> QED
    BY <2>2, <2>3 DEF DialFails, DialError, Unlocked, Goto, promiseVars, callState, userVars, IInv, TypeOK, Errors
<1>2. MutexInv'
  BY DEF DialFails, Deferred, DialError, Unlocked, Goto, promiseVars, callState, userVars,
         taskVars, IInv, TypeOK, MutexInv
<1>3. ClientsInv'
  BY DEF DialFails, Deferred, DialError, Unlocked, Goto, promiseVars, callState, userVars,
         taskVars, IInv, TypeOK, MutexInv, ClientsInv
<1>4. NoLeakedConn'
  BY DEF DialFails, Deferred, DialError, Unlocked, Goto, promiseVars, callState, userVars,
         taskVars, IInv, TypeOK, MutexInv, ClientsInv, NoLeakedConn, Filed
<1>5. CallInv'
  BY DEF DialFails, Deferred, DialError, Unlocked, Goto, promiseVars, callState, userVars,
         taskVars, IInv, TypeOK, CallInv
<1>6. CancelInv'
  BY DEF DialFails, Deferred, DialError, Unlocked, Goto, promiseVars, callState, userVars,
         taskVars, IInv, TypeOK, CallInv, CancelInv, UserInv, CtxDone
<1>7. UserInv'
  BY DEF DialFails, Deferred, DialError, Unlocked, Goto, promiseVars, callState, userVars,
         taskVars, IInv, TypeOK, CallInv, UserInv, MutexInv
<1>8. Verdict'
  BY DEF DialFails, Deferred, DialError, Unlocked, Goto, promiseVars, callState, userVars,
         taskVars, IInv, TypeOK, CallInv, CancelInv, UserInv, Verdict, CtxDone
<1> QED
  BY <1>1, <1>2, <1>3, <1>4, <1>5, <1>6, <1>7, <1>8 DEF IInv

\* A dial times out, and its connection is closed.
LEMMA DialTimesOutStep ==
  ASSUME IInv, NEW t \in Calls, DialTimesOut(t)
  PROVE  IInv'
<1> USE NameFacts
<1>1. TypeOK'
  <2>1. on[t] \in Conns
    BY DEF DialTimesOut, IInv, ClientsInv
  <2>2. dialer' \in [Conns -> {"none", "running", "ok", "err", "gone", "hung", "lost"}]
    BY <2>1 DEF DialTimesOut, IInv, TypeOK
  <2>3. sock' \in [Conns -> {"none", "open", "closed"}]
    BY <2>1 DEF DialTimesOut, Deferred, IInv, TypeOK
  <2> QED
    BY <2>2, <2>3 DEF DialTimesOut, DialError, Unlocked, Goto, promiseVars, callState, userVars, IInv, TypeOK, Errors
<1>2. MutexInv'
  BY DEF DialTimesOut, Deferred, DialError, Unlocked, Goto, promiseVars, callState, userVars,
         taskVars, IInv, TypeOK, MutexInv
<1>3. ClientsInv'
  BY DEF DialTimesOut, Deferred, DialError, Unlocked, Goto, promiseVars, callState, userVars,
         taskVars, IInv, TypeOK, MutexInv, ClientsInv
<1>4. NoLeakedConn'
  BY DEF DialTimesOut, Deferred, DialError, Unlocked, Goto, promiseVars, callState, userVars,
         taskVars, IInv, TypeOK, MutexInv, ClientsInv, NoLeakedConn, Filed
<1>5. CallInv'
  BY DEF DialTimesOut, Deferred, DialError, Unlocked, Goto, promiseVars, callState, userVars,
         taskVars, IInv, TypeOK, CallInv
<1>6. CancelInv'
  BY DEF DialTimesOut, Deferred, DialError, Unlocked, Goto, promiseVars, callState, userVars,
         taskVars, IInv, TypeOK, CallInv, CancelInv, UserInv, CtxDone
<1>7. UserInv'
  BY DEF DialTimesOut, Deferred, DialError, Unlocked, Goto, promiseVars, callState, userVars,
         taskVars, IInv, TypeOK, CallInv, UserInv, MutexInv
<1>8. Verdict'
  BY DEF DialTimesOut, Deferred, DialError, Unlocked, Goto, promiseVars, callState, userVars,
         taskVars, IInv, TypeOK, CallInv, CancelInv, UserInv, Verdict, CtxDone
<1> QED
  BY <1>1, <1>2, <1>3, <1>4, <1>5, <1>6, <1>7, <1>8 DEF IInv

\* A call is registered.
LEMMA CallBeginsStep ==
  ASSUME IInv, NEW t \in Calls, CallBegins(t)
  PROVE  IInv'
<1> USE NameFacts
<1>1. TypeOK'
  BY DEF CallBegins, Begin, Goto, promiseVars, callState, userVars, taskVars, IInv, TypeOK,
         Errors, Answers
<1>2. MutexInv'
  BY DEF CallBegins, Begin, Goto, promiseVars, callState, userVars, taskVars, IInv, TypeOK,
         MutexInv
<1>3. ClientsInv'
  BY DEF CallBegins, Begin, Goto, promiseVars, callState, userVars, taskVars, IInv, TypeOK,
         MutexInv, ClientsInv
<1>4. NoLeakedConn'
  BY DEF CallBegins, Begin, Goto, promiseVars, callState, userVars, taskVars, IInv, TypeOK,
         MutexInv, ClientsInv, NoLeakedConn, Filed
<1>5. CallInv'
  BY DEF CallBegins, Begin, Goto, promiseVars, callState, userVars, taskVars, IInv, TypeOK,
         CallInv
<1>6. CancelInv'
  BY DEF CallBegins, Begin, Goto, promiseVars, callState, userVars, taskVars, IInv, TypeOK,
         CallInv, CancelInv, UserInv, CtxDone
<1>7. UserInv'
  BY DEF CallBegins, Begin, Goto, promiseVars, callState, userVars, taskVars, IInv, TypeOK,
         CallInv, UserInv, MutexInv
<1>8. Verdict'
  BY DEF CallBegins, Begin, Goto, promiseVars, callState, userVars, taskVars, IInv, TypeOK,
         CallInv, CancelInv, UserInv, Verdict, CtxDone
<1> QED
  BY <1>1, <1>2, <1>3, <1>4, <1>5, <1>6, <1>7, <1>8 DEF IInv

\* receive takes a call out of pending.
LEMMA ClientHoldsStep ==
  ASSUME IInv, NEW t \in Calls, ClientHolds(t)
  PROVE  IInv'
<1> USE NameFacts
<1>1. TypeOK'
  BY DEF ClientHolds, Hold, promiseVars, callState, userVars, taskVars, IInv, TypeOK,
         Errors, Answers
<1>2. MutexInv'
  BY DEF ClientHolds, Hold, promiseVars, callState, userVars, taskVars, IInv, TypeOK,
         MutexInv
<1>3. ClientsInv'
  BY DEF ClientHolds, Hold, promiseVars, callState, userVars, taskVars, IInv, TypeOK,
         MutexInv, ClientsInv
<1>4. NoLeakedConn'
  BY DEF ClientHolds, Hold, promiseVars, callState, userVars, taskVars, IInv, TypeOK,
         MutexInv, ClientsInv, NoLeakedConn, Filed
<1>5. CallInv'
  BY DEF ClientHolds, Hold, promiseVars, callState, userVars, taskVars, IInv, TypeOK,
         CallInv
<1>6. CancelInv'
  BY DEF ClientHolds, Hold, promiseVars, callState, userVars, taskVars, IInv, TypeOK,
         CallInv, CancelInv, UserInv, CtxDone
<1>7. UserInv'
  BY DEF ClientHolds, Hold, promiseVars, callState, userVars, taskVars, IInv, TypeOK,
         CallInv, UserInv, MutexInv
<1>8. Verdict'
  BY DEF ClientHolds, Hold, promiseVars, callState, userVars, taskVars, IInv, TypeOK,
         CallInv, CancelInv, UserInv, Verdict, CtxDone
<1> QED
  BY <1>1, <1>2, <1>3, <1>4, <1>5, <1>6, <1>7, <1>8 DEF IInv

\* receive completes a call.
LEMMA ClientRepliesStep ==
  ASSUME IInv, NEW t \in Calls, ClientReplies(t)
  PROVE  IInv'
<1> USE NameFacts
<1>1. TypeOK'
  BY DEF ClientReplies, Settle, Written, promiseVars, callState, userVars, taskVars, IInv,
         TypeOK, Errors, Answers
<1>2. MutexInv'
  BY DEF ClientReplies, Settle, Written, promiseVars, callState, userVars, taskVars, IInv,
         TypeOK, MutexInv
<1>3. ClientsInv'
  BY DEF ClientReplies, Settle, Written, promiseVars, callState, userVars, taskVars, IInv,
         TypeOK, MutexInv, ClientsInv
<1>4. NoLeakedConn'
  BY DEF ClientReplies, Settle, Written, promiseVars, callState, userVars, taskVars, IInv,
         TypeOK, MutexInv, ClientsInv, NoLeakedConn, Filed
<1>5. CallInv'
  BY DEF ClientReplies, Settle, Written, promiseVars, callState, userVars, taskVars, IInv,
         TypeOK, CallInv
<1>6. CancelInv'
  BY DEF ClientReplies, Settle, Written, promiseVars, callState, userVars, taskVars, IInv,
         TypeOK, CallInv, CancelInv, UserInv, CtxDone
<1>7. UserInv'
  BY DEF ClientReplies, Settle, Written, promiseVars, callState, userVars, taskVars, IInv,
         TypeOK, CallInv, UserInv, MutexInv
<1>8. Verdict'
  BY DEF ClientReplies, Settle, Written, promiseVars, callState, userVars, taskVars, IInv,
         TypeOK, CallInv, CancelInv, UserInv, Verdict, CtxDone
<1> QED
  BY <1>1, <1>2, <1>3, <1>4, <1>5, <1>6, <1>7, <1>8 DEF IInv

\* receive completes a call with an error.
LEMMA ClientErrsStep ==
  ASSUME IInv, NEW t \in Calls, ClientErrs(t)
  PROVE  IInv'
<1> USE NameFacts
<1>1. TypeOK'
  BY DEF ClientErrs, Settle, promiseVars, callState, userVars, taskVars, IInv, TypeOK,
         Errors, Answers
<1>2. MutexInv'
  BY DEF ClientErrs, Settle, promiseVars, callState, userVars, taskVars, IInv, TypeOK,
         MutexInv
<1>3. ClientsInv'
  BY DEF ClientErrs, Settle, promiseVars, callState, userVars, taskVars, IInv, TypeOK,
         MutexInv, ClientsInv
<1>4. NoLeakedConn'
  BY DEF ClientErrs, Settle, promiseVars, callState, userVars, taskVars, IInv, TypeOK,
         MutexInv, ClientsInv, NoLeakedConn, Filed
<1>5. CallInv'
  BY DEF ClientErrs, Settle, promiseVars, callState, userVars, taskVars, IInv, TypeOK,
         CallInv
<1>6. CancelInv'
  BY DEF ClientErrs, Settle, promiseVars, callState, userVars, taskVars, IInv, TypeOK,
         CallInv, CancelInv, UserInv, CtxDone
<1>7. UserInv'
  BY DEF ClientErrs, Settle, promiseVars, callState, userVars, taskVars, IInv, TypeOK,
         CallInv, UserInv, MutexInv
<1>8. Verdict'
  BY DEF ClientErrs, Settle, promiseVars, callState, userVars, taskVars, IInv, TypeOK,
         CallInv, CancelInv, UserInv, Verdict, CtxDone
<1> QED
  BY <1>1, <1>2, <1>3, <1>4, <1>5, <1>6, <1>7, <1>8 DEF IInv

\* send fails and closes the connection.
LEMMA WriteFailsStep ==
  ASSUME IInv, NEW t \in Calls, WriteFails(t)
  PROVE  IInv'
<1> USE NameFacts
<1>0. /\ tpc[t] = "calling"
      /\ \E l \in {"stuck", "calling"} : tpc' = [tpc EXCEPT ![t] = l]
      /\ UNCHANGED <<on, ret, late, life, closing, userVars, err, mu, clients, dialer>>
  BY DEF WriteFails, Fail, Goto, promiseVars, callState
<1>1. TypeOK'
  <2>1. phase' \in [Calls -> {"new", "open", "held", "settled"}] /\ answer' \in [Calls -> Answers]
    BY DEF WriteFails, Fail, promiseVars, callState, IInv, TypeOK, Answers
  <2>2. sock' \in [Conns -> {"none", "open", "closed"}]
    BY DEF WriteFails, IInv, TypeOK
  <2>3. tpc' \in [Calls -> {"idle", "dial", "dialing", "got", "calling",
                           "stuck", "report", "done"}]
    BY <1>0 DEF IInv, TypeOK
  <2> QED
    BY <1>0, <2>1, <2>2, <2>3 DEF userVars, IInv, TypeOK
<1>2. MutexInv'
  BY DEF WriteFails, Fail, Goto, promiseVars, callState, userVars, taskVars, IInv, TypeOK,
         MutexInv
<1>3. ClientsInv'
  BY DEF WriteFails, Fail, Goto, promiseVars, callState, userVars, taskVars, IInv, TypeOK,
         MutexInv, ClientsInv
<1>4. NoLeakedConn'
  BY DEF WriteFails, Fail, Goto, promiseVars, callState, userVars, taskVars, IInv, TypeOK,
         MutexInv, ClientsInv, NoLeakedConn, Filed
<1>5. CallInv'
  BY DEF WriteFails, Fail, Goto, promiseVars, callState, userVars, taskVars, IInv, TypeOK,
         CallInv
<1>6. CancelInv'
  BY DEF WriteFails, Fail, Goto, promiseVars, callState, userVars, taskVars, IInv, TypeOK,
         CallInv, CancelInv, UserInv, CtxDone
<1>7. UserInv'
  BY <1>0 DEF userVars, IInv, TypeOK, UserInv
<1>8. Verdict'
  BY DEF WriteFails, Fail, Goto, promiseVars, callState, userVars, taskVars, IInv, TypeOK,
         CallInv, CancelInv, UserInv, Verdict, CtxDone
<1> QED
  BY <1>1, <1>2, <1>3, <1>4, <1>5, <1>6, <1>7, <1>8 DEF IInv

\* receive ends and completes what is pending.
LEMMA ClientEndsStep ==
  ASSUME IInv, NEW k \in Conns, NEW x \in {"nil", "err"}, ClientEnds(k, x)
  PROVE  IInv'
<1> USE NameFacts
<1>1. TypeOK'
  BY DEF ClientEnds, End, Owed, promiseVars, callState, userVars, taskVars, IInv, TypeOK,
         Errors, Answers
<1>2. MutexInv'
  BY DEF ClientEnds, End, Owed, promiseVars, callState, userVars, taskVars, IInv, TypeOK,
         MutexInv
<1>3. ClientsInv'
  BY DEF ClientEnds, End, Owed, promiseVars, callState, userVars, taskVars, IInv, TypeOK,
         MutexInv, ClientsInv
<1>4. NoLeakedConn'
  BY DEF ClientEnds, End, Owed, promiseVars, callState, userVars, taskVars, IInv, TypeOK,
         MutexInv, ClientsInv, NoLeakedConn, Filed
<1>5. CallInv'
  BY DEF ClientEnds, End, Owed, promiseVars, callState, userVars, taskVars, IInv, TypeOK,
         CallInv
<1>6. CancelInv'
  BY DEF ClientEnds, End, Owed, promiseVars, callState, userVars, taskVars, IInv, TypeOK,
         CallInv, CancelInv, UserInv, CtxDone
<1>7. UserInv'
  BY DEF ClientEnds, End, Owed, promiseVars, callState, userVars, taskVars, IInv, TypeOK,
         CallInv, UserInv, MutexInv
<1>8. Verdict'
  BY DEF ClientEnds, End, Owed, promiseVars, callState, userVars, taskVars, IInv, TypeOK,
         CallInv, CancelInv, UserInv, Verdict, CtxDone
<1> QED
  BY <1>1, <1>2, <1>3, <1>4, <1>5, <1>6, <1>7, <1>8 DEF IInv

\* Call returns what the client says.
LEMMA CallReturnsStep ==
  ASSUME IInv, NEW t \in Calls, CallReturns(t)
  PROVE  IInv'
<1> USE NameFacts
<1>1. TypeOK'
  BY DEF CallReturns, Return, Goto, promiseVars, callState, userVars, taskVars, IInv,
         TypeOK, Errors, Answers
<1>2. MutexInv'
  BY DEF CallReturns, Return, Goto, promiseVars, callState, userVars, taskVars, IInv,
         TypeOK, MutexInv
<1>3. ClientsInv'
  BY DEF CallReturns, Return, Goto, promiseVars, callState, userVars, taskVars, IInv,
         TypeOK, MutexInv, ClientsInv
<1>4. NoLeakedConn'
  BY DEF CallReturns, Return, Goto, promiseVars, callState, userVars, taskVars, IInv,
         TypeOK, MutexInv, ClientsInv, NoLeakedConn, Filed
<1>5. CallInv'
  BY DEF CallReturns, Return, Goto, promiseVars, callState, userVars, taskVars, IInv,
         TypeOK, CallInv
<1>6. CancelInv'
  BY DEF CallReturns, Return, Goto, promiseVars, callState, userVars, taskVars, IInv,
         TypeOK, CallInv, CancelInv, UserInv, CtxDone
<1>7. UserInv'
  BY DEF CallReturns, Return, Goto, promiseVars, callState, userVars, taskVars, IInv,
         TypeOK, CallInv, UserInv, MutexInv
<1>8. Verdict'
  BY DEF CallReturns, Return, Goto, promiseVars, callState, userVars, taskVars, IInv,
         TypeOK, CallInv, CancelInv, UserInv, Verdict, CtxDone
<1> QED
  BY <1>1, <1>2, <1>3, <1>4, <1>5, <1>6, <1>7, <1>8 DEF IInv

\* Call returns when the context has ended.
LEMMA CallCanceledStep ==
  ASSUME IInv, NEW t \in Calls, CallCanceled(t)
  PROVE  IInv'
<1> USE NameFacts
<1>1. TypeOK'
  BY DEF CallCanceled, Cancel, Goto, CtxDone, promiseVars, callState, userVars, taskVars,
         IInv, TypeOK, Errors, Answers
<1>2. MutexInv'
  BY DEF CallCanceled, Cancel, Goto, CtxDone, promiseVars, callState, userVars, taskVars,
         IInv, TypeOK, MutexInv
<1>3. ClientsInv'
  BY DEF CallCanceled, Cancel, Goto, CtxDone, promiseVars, callState, userVars, taskVars,
         IInv, TypeOK, MutexInv, ClientsInv
<1>4. NoLeakedConn'
  BY DEF CallCanceled, Cancel, Goto, CtxDone, promiseVars, callState, userVars, taskVars,
         IInv, TypeOK, MutexInv, ClientsInv, NoLeakedConn, Filed
<1>5. CallInv'
  BY DEF CallCanceled, Cancel, Goto, CtxDone, promiseVars, callState, userVars, taskVars,
         IInv, TypeOK, CallInv
<1>6. CancelInv'
  BY DEF CallCanceled, Cancel, Goto, CtxDone, promiseVars, callState, userVars, taskVars,
         IInv, TypeOK, CallInv, CancelInv, UserInv
<1>7. UserInv'
  BY DEF CallCanceled, Cancel, Goto, CtxDone, promiseVars, callState, userVars, taskVars,
         IInv, TypeOK, CallInv, UserInv, MutexInv
<1>8. Verdict'
  BY DEF CallCanceled, Cancel, Goto, CtxDone, promiseVars, callState, userVars, taskVars,
         IInv, TypeOK, CallInv, CancelInv, UserInv, Verdict
<1> QED
  BY <1>1, <1>2, <1>3, <1>4, <1>5, <1>6, <1>7, <1>8 DEF IInv

\* A task of Broadcast reports its result.
LEMMA ReportStep ==
  ASSUME IInv, NEW t \in Calls, Report(t)
  PROVE  IInv'
<1> USE NameFacts
<1>1. TypeOK'
  BY DEF Report, FirstError, Clone, Goto, promiseVars, callState, userVars, taskVars, IInv,
         TypeOK, Errors, Answers
<1>2. MutexInv'
  BY DEF Report, FirstError, Clone, Goto, promiseVars, callState, userVars, taskVars, IInv,
         TypeOK, MutexInv
<1>3. ClientsInv'
  BY DEF Report, FirstError, Clone, Goto, promiseVars, callState, userVars, taskVars, IInv,
         TypeOK, MutexInv, ClientsInv
<1>4. NoLeakedConn'
  BY DEF Report, FirstError, Clone, Goto, promiseVars, callState, userVars, taskVars, IInv,
         TypeOK, MutexInv, ClientsInv, NoLeakedConn, Filed
<1>5. CallInv'
  BY DEF Report, FirstError, Clone, Goto, promiseVars, callState, userVars, taskVars, IInv,
         TypeOK, CallInv
<1>6. CancelInv'
  BY DEF Report, FirstError, Clone, Goto, promiseVars, callState, userVars, taskVars, IInv,
         TypeOK, CallInv, CancelInv, UserInv, CtxDone
<1>7. UserInv'
  BY DEF Report, FirstError, Clone, Goto, promiseVars, callState, userVars, taskVars, IInv,
         TypeOK, CallInv, UserInv, MutexInv
<1>8. Verdict'
  BY DEF Report, FirstError, Clone, Goto, promiseVars, callState, userVars, taskVars, IInv,
         TypeOK, CallInv, CancelInv, UserInv, Verdict, CtxDone
<1> QED
  BY <1>1, <1>2, <1>3, <1>4, <1>5, <1>6, <1>7, <1>8 DEF IInv

\* Broadcast returns when its tasks are done.
LEMMA BroadcastReturnsStep ==
  ASSUME IInv, NEW u \in Users, BroadcastReturns(u)
  PROVE  IInv'
<1> USE NameFacts
<1>1. TypeOK'
  BY DEF BroadcastReturns, AllDone, promiseVars, callState, userVars, taskVars, IInv,
         TypeOK, Errors, Answers
<1>2. MutexInv'
  BY DEF BroadcastReturns, AllDone, promiseVars, callState, userVars, taskVars, IInv,
         TypeOK, MutexInv
<1>3. ClientsInv'
  BY DEF BroadcastReturns, AllDone, promiseVars, callState, userVars, taskVars, IInv,
         TypeOK, MutexInv, ClientsInv
<1>4. NoLeakedConn'
  BY DEF BroadcastReturns, AllDone, promiseVars, callState, userVars, taskVars, IInv,
         TypeOK, MutexInv, ClientsInv, NoLeakedConn, Filed
<1>5. CallInv'
  BY DEF BroadcastReturns, AllDone, promiseVars, callState, userVars, taskVars, IInv,
         TypeOK, CallInv
<1>6. CancelInv'
  BY DEF BroadcastReturns, AllDone, promiseVars, callState, userVars, taskVars, IInv,
         TypeOK, CallInv, CancelInv, UserInv, CtxDone
<1>7. UserInv'
  BY DEF BroadcastReturns, AllDone, promiseVars, callState, userVars, taskVars, IInv,
         TypeOK, CallInv, UserInv, MutexInv
<1>8. Verdict'
  BY DEF BroadcastReturns, AllDone, promiseVars, callState, userVars, taskVars, IInv,
         TypeOK, CallInv, CancelInv, UserInv, Verdict, CtxDone
<1> QED
  BY <1>1, <1>2, <1>3, <1>4, <1>5, <1>6, <1>7, <1>8 DEF IInv

\* Call returns the result of its task.
LEMMA XCallReturnsStep ==
  ASSUME IInv, NEW t \in Calls, XCallReturns(t)
  PROVE  IInv'
<1> USE NameFacts
<1>1. TypeOK'
  BY DEF XCallReturns, Goto, promiseVars, callState, userVars, taskVars, IInv, TypeOK,
         Errors, Answers
<1>2. MutexInv'
  BY DEF XCallReturns, Goto, promiseVars, callState, userVars, taskVars, IInv, TypeOK,
         MutexInv
<1>3. ClientsInv'
  BY DEF XCallReturns, Goto, promiseVars, callState, userVars, taskVars, IInv, TypeOK,
         MutexInv, ClientsInv
<1>4. NoLeakedConn'
  BY DEF XCallReturns, Goto, promiseVars, callState, userVars, taskVars, IInv, TypeOK,
         MutexInv, ClientsInv, NoLeakedConn, Filed
<1>5. CallInv'
  BY DEF XCallReturns, Goto, promiseVars, callState, userVars, taskVars, IInv, TypeOK,
         CallInv
<1>6. CancelInv'
  BY DEF XCallReturns, Goto, promiseVars, callState, userVars, taskVars, IInv, TypeOK,
         CallInv, CancelInv, UserInv, CtxDone
<1>7. UserInv'
  BY DEF XCallReturns, Goto, promiseVars, callState, userVars, taskVars, IInv, TypeOK,
         CallInv, UserInv, MutexInv
<1>8. Verdict'
  BY DEF XCallReturns, Goto, promiseVars, callState, userVars, taskVars, IInv, TypeOK,
         CallInv, CancelInv, UserInv, Verdict, CtxDone
<1> QED
  BY <1>1, <1>2, <1>3, <1>4, <1>5, <1>6, <1>7, <1>8 DEF IInv

\* A context ends.
LEMMA GiveUpStep ==
  ASSUME IInv, NEW u \in Users, GiveUp(u)
  PROVE  IInv'
<1> USE NameFacts
<1>1. TypeOK'
  BY DEF GiveUp, promiseVars, callState, userVars, taskVars, IInv, TypeOK, Errors, Answers
<1>2. MutexInv'
  BY DEF GiveUp, promiseVars, callState, userVars, taskVars, IInv, TypeOK, MutexInv
<1>3. ClientsInv'
  BY DEF GiveUp, promiseVars, callState, userVars, taskVars, IInv, TypeOK, MutexInv,
         ClientsInv
<1>4. NoLeakedConn'
  BY DEF GiveUp, promiseVars, callState, userVars, taskVars, IInv, TypeOK, MutexInv,
         ClientsInv, NoLeakedConn, Filed
<1>5. CallInv'
  BY DEF GiveUp, promiseVars, callState, userVars, taskVars, IInv, TypeOK, CallInv
<1>6. CancelInv'
  BY DEF GiveUp, promiseVars, callState, userVars, taskVars, IInv, TypeOK, CallInv,
         CancelInv, UserInv, CtxDone
<1>7. UserInv'
  BY DEF GiveUp, promiseVars, callState, userVars, taskVars, IInv, TypeOK, CallInv,
         UserInv, MutexInv
<1>8. Verdict'
  BY DEF GiveUp, promiseVars, callState, userVars, taskVars, IInv, TypeOK, CallInv,
         CancelInv, UserInv, Verdict, CtxDone
<1> QED
  BY <1>1, <1>2, <1>3, <1>4, <1>5, <1>6, <1>7, <1>8 DEF IInv

\* The XClient is closed.
LEMMA ShutStep ==
  ASSUME IInv, Shut
  PROVE  IInv'
<1> USE NameFacts
<1>1. TypeOK'
  BY DEF Shut, CloseClients, Filed, promiseVars, callState, userVars, taskVars, IInv,
         TypeOK, Errors, Answers
<1>2. MutexInv'
  BY DEF Shut, CloseClients, Filed, promiseVars, callState, userVars, taskVars, IInv,
         TypeOK, MutexInv
<1>3. ClientsInv'
  BY DEF Shut, CloseClients, Filed, promiseVars, callState, userVars, taskVars, IInv,
         TypeOK, MutexInv, ClientsInv
<1>4. NoLeakedConn'
  BY DEF Shut, CloseClients, Filed, promiseVars, callState, userVars, taskVars, IInv,
         TypeOK, MutexInv, ClientsInv, NoLeakedConn
<1>5. CallInv'
  BY DEF Shut, CloseClients, Filed, promiseVars, callState, userVars, taskVars, IInv,
         TypeOK, CallInv
<1>6. CancelInv'
  BY DEF Shut, CloseClients, Filed, promiseVars, callState, userVars, taskVars, IInv,
         TypeOK, CallInv, CancelInv, UserInv, CtxDone
<1>7. UserInv'
  BY DEF Shut, CloseClients, Filed, promiseVars, callState, userVars, taskVars, IInv,
         TypeOK, CallInv, UserInv, MutexInv
<1>8. Verdict'
  BY DEF Shut, CloseClients, Filed, promiseVars, callState, userVars, taskVars, IInv,
         TypeOK, CallInv, CancelInv, UserInv, Verdict, CtxDone
<1> QED
  BY <1>1, <1>2, <1>3, <1>4, <1>5, <1>6, <1>7, <1>8 DEF IInv

-----------------------------------------------------------------------------
\* Every step preserves the inductive invariant.
LEMMA NextIInv == IInv /\ [Next]_vars => IInv'
<1> SUFFICES ASSUME IInv, [Next]_vars PROVE IInv'
  OBVIOUS
<1>1. CASE UNCHANGED vars
  BY <1>1 DEF vars, promiseVars, callState, userVars, taskVars, IInv, TypeOK, MutexInv, ClientsInv,
              NoLeakedConn, Filed, CallInv, CancelInv, CtxDone, UserInv, Verdict
<1>2. ASSUME NEW u \in Users, Call(u) \/ Broadcast(u) PROVE IInv'
  <2>1. ASSUME Call(u) PROVE IInv'
    BY <2>1, StartStep DEF Call
  <2>2. ASSUME Broadcast(u) PROVE IInv'
    <3>1. PICK servers : Start(u, "broadcast", servers)
      BY <2>2 DEF Broadcast
    <3> QED
      BY <3>1, StartStep
  <2> QED
    BY <1>2, <2>1, <2>2
<1>3. ASSUME NEW u \in Users, DiscoveryFails(u) \/ BroadcastReturns(u) \/ GiveUp(u) PROVE IInv'
  BY <1>3, DiscoveryFailsStep, BroadcastReturnsStep, GiveUpStep
<1>4. ASSUME NEW t \in Calls, Task(t) PROVE IInv'
  BY <1>4, DialReusesStep, ConnectFailsStep, ConnectStep, DialDoneStep, DialFailsStep,
     CallBeginsStep, CallReturnsStep, CallCanceledStep, ReportStep, XCallReturnsStep DEF Task
<1>5. ASSUME NEW t \in Calls, DialTimesOut(t) \/ Receive(t) \/ WriteFails(t) PROVE IInv'
  BY <1>5, DialTimesOutStep, ClientHoldsStep, ClientRepliesStep, ClientErrsStep, WriteFailsStep DEF Receive
<1>6. ASSUME NEW k \in Conns, NewClient(k) PROVE IInv'
  BY <1>6, NewClientStep
<1>7. ASSUME NEW k \in Conns, NEW x \in {"nil", "err"}, ClientEnds(k, x) PROVE IInv'
  BY <1>7, ClientEndsStep
<1>8. ASSUME Shut PROVE IInv'
  BY <1>8, ShutStep
<1> QED
  BY <1>1, <1>2, <1>3, <1>4, <1>5, <1>6, <1>7, <1>8 DEF Next

\* The map, the lock and the sockets agree in every reachable state, and so do
\* the tasks and what their user returns.
THEOREM Invariance == Spec => []IInv
<1> QED
  BY InitIInv, NextIInv, PTL DEF Spec

\* No dial, failed dial, replacement or Close leaves a connection open that
\* xc.clients has lost.
THEOREM NothingLeaks == Spec => []NoLeakedConn
<1>1. IInv => NoLeakedConn
  BY DEF IInv
<1> QED
  BY <1>1, Invariance, PTL

\* A cancelled call is reported only to a caller that gave up, and nil only
\* when no server failed.
THEOREM TrueVerdict == Spec => []Verdict
<1>1. IInv => Verdict
  BY DEF IInv
<1> QED
  BY <1>1, Invariance, PTL

\* Once Call or Broadcast has returned, the caller's reply is written only by
\* the receive goroutine of a call that was cancelled in its hands.
THEOREM StableReply == Spec => ReplyIsStable
<1> DEFINE A == \A u \in Users : upc[u] = "returned" /\ reply'[u] # reply[u] =>
                   mode[u] = "call" /\ e[u] = "canceled"
<1>1. ASSUME IInv, [Next]_vars PROVE [A]_vars
  <2> SUFFICES ASSUME NEW u \in Users, upc[u] = "returned", reply'[u] # reply[u]
               PROVE  mode[u] = "call" /\ e[u] = "canceled"
    OBVIOUS
  <2> USE NameFacts
  <2>1. ASSUME NEW t \in Calls, Report(t) PROVE FALSE
    <3>1. tpc[t] = "report" /\ (upc[User(t)] # "running" => tpc[t] \in {"idle", "done"})
      BY <1>1, <2>1 DEF Report, IInv, UserInv
    <3>2. User(t) # u
      BY <3>1
    <3> QED
      BY <1>1, <2>1, <3>2 DEF Report, IInv, TypeOK
  <2>2. ASSUME NEW t \in Calls, ClientReplies(t) PROVE mode[u] = "call" /\ e[u] = "canceled"
    <3>1. User(t) = u /\ mode[u] = "call"
      BY <1>1, <2>2 DEF ClientReplies, Written, IInv, TypeOK
    <3>2. phase[t] = "held"
      BY <2>2 DEF ClientReplies, Settle
    <3>3. tpc[t] = "done"
      <4>1. tpc[t] \in {"idle", "done"}
        BY <1>1, <3>1 DEF IInv, UserInv
      <4> QED
        BY <1>1, <3>2, <4>1 DEF IInv, CallInv
    <3>4. err[t] = "canceled"
      BY <1>1, <3>2, <3>3 DEF IInv, CallInv
    <3>5. e[User(t)] = err[t]
      BY <1>1, <3>1, <3>3 DEF IInv, UserInv
    <3> QED
      BY <3>1, <3>4, <3>5
  <2>3. reply' = reply \/ \E t \in Calls : Report(t) \/ ClientReplies(t)
    BY <1>1 DEF Next, Task, Receive, vars, userVars, Call, Broadcast, Start, DiscoveryFails,
       BroadcastReturns, GiveUp, DialReuses, ConnectFails, DialError, Connect, DialDone, DialFails, DialTimesOut,
       CallBegins, CallReturns, CallCanceled, XCallReturns, ClientHolds, ClientErrs,
       WriteFails, NewClient, ClientEnds, Shut
  <2> QED
    BY <2>1, <2>2, <2>3
<1>2. ReplyIsStable <=> [][A]_vars
  BY DEF ReplyIsStable
<1> QED
  BY <1>1, <1>2, Invariance, PTL DEF Spec
=============================================================================
