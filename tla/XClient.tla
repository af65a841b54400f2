------------------------------ MODULE XClient ------------------------------
(***************************************************************************)
(* XClient of rpc/xclient/xclient.go: users that call Call, Broadcast and  *)
(* Close on one XClient, the clients it shares between them, and the       *)
(* dialing of rpc/client.go.  A client is what RpcPromise says of it.      *)
(*                                                                         *)
(* Broadcast starts a goroutine for each server, and Call is one itself:   *)
(* task <<u, a>> is the call of user u to address a.  xc.mu is held while  *)
(* XDial connects.                                                         *)
(***************************************************************************)
EXTENDS RpcPromise, Naturals

CONSTANTS
  Callers,       \* the users that make a call of Call
  Broadcasters,  \* the users that make a call of Broadcast
  Addrs,         \* the addresses of servers
  Listed,        \* Listed[u]: the servers that the discovery has for user u
  NoTask

Users == Callers \cup Broadcasters
User(t) == t[1]
Addr(t) == t[2]

ASSUME ListedAssumption == Listed \in [Users -> SUBSET Addrs]
ASSUME CallsAssumption == Calls = {t \in Users \X Addrs : Addr(t) \in Listed[User(t)]}
ASSUME ConnsAssumption == Conns \subseteq Addrs \X Nat
ASSUME NamesAssumption == NoConn \notin Conns /\ NoTask \notin Calls

VARIABLES
  mode,      \* mode[u]: "none", "call" or "broadcast"
  upc,       \* upc[u]: "idle", "running" or "returned"
  e,         \* e[u]: the error it returns: "nil", "err" or "canceled"
  reply,     \* reply[u]: the caller's reply: "untouched", "value" or "zero"
  gaveUp,    \* gaveUp[u]: the caller's context has ended
  canceled,  \* canceled[u]: Broadcast has called cancel
  tpc,       \* tpc[t]: where task t is
  err,       \* err[t]: what xc.call returned
  mu,        \* the task that holds xc.mu from one step to the next
  clients,   \* xc.clients
  sock,      \* sock[k]: our end of the connection: "none", "open", "closed"
  dialer     \* dialer[k]: the goroutine of dialTimeout: "none", "running",
             \*   "ok" or "err" when it offers its result, "gone", "hung" when
             \*   it waits for an answer to CONNECT that never comes, or "lost"
             \*   when nobody will ever take its result

userVars == <<mode, upc, e, reply, gaveUp, canceled>>
taskVars == <<tpc, err, mu, clients>>
vars == <<promiseVars, userVars, taskVars, sock, dialer>>

Init ==
  /\ PromiseInit
  /\ on = [t \in Calls |-> NoConn]
  /\ life = [k \in Conns |-> "none"]
  /\ mode = [u \in Users |-> "none"]
  /\ upc = [u \in Users |-> "idle"]
  /\ e = [u \in Users |-> "nil"]
  /\ reply = [u \in Users |-> "untouched"]
  /\ gaveUp = [u \in Users |-> FALSE]
  /\ canceled = [u \in Users |-> FALSE]
  /\ tpc = [t \in Calls |-> "idle"]
  /\ err = [t \in Calls |-> "nil"]
  /\ mu = NoTask
  /\ clients = [a \in Addrs |-> NoConn]
  /\ sock = [k \in Conns |-> "none"]
  /\ dialer = [k \in Conns |-> "none"]

Goto(t, l) == tpc' = [tpc EXCEPT ![t] = l]

-----------------------------------------------------------------------------
(* Call and Broadcast up to their tasks.                                   *)

Start(u, m, servers) ==
  /\ upc[u] = "idle"
  /\ upc' = [upc EXCEPT ![u] = "running"]
  /\ mode' = [mode EXCEPT ![u] = m]
  /\ tpc' = [t \in Calls |-> IF User(t) = u /\ Addr(t) \in servers THEN "dial" ELSE tpc[t]]
  /\ UNCHANGED <<promiseVars, e, reply, gaveUp, canceled, err, mu, clients, sock, dialer>>

\* d.Get selects one of the servers, d.GetAll returns those there are.
Call(u) == u \in Callers /\ \E a \in Listed[u] : Start(u, "call", {a})
Broadcast(u) ==
  u \in Broadcasters /\ \E servers \in SUBSET Listed[u] : Start(u, "broadcast", servers)

\* The discovery returns an error.
DiscoveryFails(u) ==
  /\ upc[u] = "idle"
  /\ upc' = [upc EXCEPT ![u] = "returned"]
  /\ e' = [e EXCEPT ![u] = "err"]
  /\ UNCHANGED <<promiseVars, mode, reply, gaveUp, canceled, taskVars, sock, dialer>>

-----------------------------------------------------------------------------
(* xc.dial, and dialTimeout under it.                                      *)

\* The client of the address is there and available.
DialReuses(t) ==
  LET k == clients[Addr(t)] IN
  /\ tpc[t] = "dial" /\ mu = NoTask
  /\ k # NoConn /\ IsAvailable(k)
  /\ Take(t, k)
  /\ Goto(t, "got")
  /\ UNCHANGED <<userVars, err, mu, clients, sock, dialer>>

\* client.Close for some clients, while others get a connection.
CloseClients(shut, opened) ==
  /\ closing' = [k \in Conns |-> closing[k] \/ k \in shut]
  /\ sock' = [k \in Conns |-> IF k \in shut THEN "closed"
                             ELSE IF k \in opened THEN "open" ELSE sock[k]]

\* It is not: an old client is closed and forgotten.
ReplacedNot(a) == {}                          \* mutant: it is forgotten only
Replaced(a) == {k \in Conns : clients[a] = k}

DropOld(a, opened) ==
  /\ clients[a] # NoConn => ~IsAvailable(clients[a])
  /\ CloseClients(Replaced(a), opened)
  /\ clients' = [clients EXCEPT ![a] = NoConn]

\* Mutant: xc.mu is not unlocked when XDial fails.
UnlockedNot(t) == t
Unlocked(t) == NoTask

DialError(t) ==
  /\ err' = [err EXCEPT ![t] = "err"]
  /\ mu' = Unlocked(t)
  /\ Goto(t, "report")
  /\ UNCHANGED <<on, callState, life, userVars>>

\* The address is malformed, or net.DialTimeout returns an error.
ConnectFails(t) ==
  /\ tpc[t] = "dial" /\ mu = NoTask
  /\ DropOld(Addr(t), {})
  /\ DialError(t)
  /\ UNCHANGED dialer

\* The k-th connection to the address is there, and a goroutine of its own
\* makes a client of it.
Connect(t) ==
  \E k \in Conns :
    /\ tpc[t] = "dial" /\ mu = NoTask
    /\ k[1] = Addr(t)
    /\ \A j \in Conns : j[1] = k[1] => (sock[j] = "none" <=> j[2] >= k[2])
    /\ DropOld(Addr(t), {k})
    /\ dialer' = [dialer EXCEPT ![k] = "running"]
    /\ on' = [on EXCEPT ![t] = k]
    /\ mu' = t
    /\ Goto(t, "dialing")
    /\ UNCHANGED <<callState, life, userVars, err>>

\* NewClient, or NewHTTPClient with its CONNECT request, in that goroutine.
\* Nothing limits the time that http.ReadResponse waits for the answer.
NewClient(k) ==
  /\ dialer[k] = "running"
  /\ \/ /\ Open(k)
        /\ dialer' = [dialer EXCEPT ![k] = "ok"]
     \/ /\ dialer' \in {[dialer EXCEPT ![k] = "err"], [dialer EXCEPT ![k] = "hung"]}
        /\ UNCHANGED promiseVars
  /\ UNCHANGED <<userVars, taskVars, sock>>

\* dialTimeout receives a client.
DialDone(t) ==
  /\ tpc[t] = "dialing" /\ dialer[on[t]] = "ok"
  /\ dialer' = [dialer EXCEPT ![on[t]] = "gone"]
  /\ clients' = [clients EXCEPT ![Addr(t)] = on[t]]
  /\ mu' = NoTask
  /\ Goto(t, "got")
  /\ UNCHANGED <<promiseVars, userVars, err, sock>>

\* The deferred function of dialTimeout closes the connection on an error.
Deferred(t) == sock' = [sock EXCEPT ![on[t]] = "closed"]

\* dialTimeout receives an error.
DialFails(t) ==
  /\ tpc[t] = "dialing" /\ dialer[on[t]] = "err"
  /\ dialer' = [dialer EXCEPT ![on[t]] = "gone"]
  /\ Deferred(t)
  /\ DialError(t)
  /\ UNCHANGED <<closing, clients>>

\* The timeout comes first, also when a client is ready, and the goroutine is
\* lost.  XDial is called without options, and DefaultOption has no
\* ConnectTimeout: there is a timer only if the program has put one there.
DialTimesOut(t) ==
  /\ tpc[t] = "dialing"
  /\ dialer' = [dialer EXCEPT ![on[t]] = "lost"]
  /\ Deferred(t)
  /\ DialError(t)
  /\ UNCHANGED <<closing, clients>>

-----------------------------------------------------------------------------
(* client.Call, as RpcPromise has it.                                      *)

\* Between dial and this step the client may have ended or been closed.
CallBegins(t) ==
  /\ tpc[t] = "got"
  /\ Begin(t)
  /\ Goto(t, "calling")
  /\ UNCHANGED <<userVars, err, mu, clients, sock, dialer>>

\* Call gives the caller's reply to the client, Broadcast a clone of it.
WrittenShared(t) == [reply EXCEPT ![User(t)] = "value"]   \* mutant: no clone
Written(t) ==
  IF mode[User(t)] = "call" THEN [reply EXCEPT ![User(t)] = "value"] ELSE reply

ClientHolds(t) ==
  /\ Hold(t)
  /\ UNCHANGED <<userVars, taskVars, sock, dialer>>

ClientReplies(t) ==
  /\ Settle(t, "reply")
  /\ reply' = Written(t)
  /\ UNCHANGED <<mode, upc, e, gaveUp, canceled, taskVars, sock, dialer>>

ClientErrs(t) ==
  /\ Settle(t, "err")
  /\ UNCHANGED <<userVars, taskVars, sock, dialer>>

\* Write fails, and has closed the connection.  send reports it, unless receive
\* has taken the call, and blocks in done() for ever when terminateCalls was
\* there before it.
WriteFails(t) ==
  /\ tpc[t] = "calling"
  /\ \/ Fail(t) /\ Goto(t, IF phase[t] = "settled" THEN "stuck" ELSE "calling")
     \/ phase[t] # "open" /\ Goto(t, "calling") /\ UNCHANGED promiseVars
  /\ sock' = [sock EXCEPT ![on[t]] = "closed"]
  /\ UNCHANGED <<userVars, err, mu, clients, dialer>>

\* receive ends, for whatever reason; at the latest when our end is closed.
\* The end of a client that nobody has any more is left out: nobody sees it.
Known(k) == \/ clients[k[1]] = k
            \/ \E t \in Calls : on[t] = k /\ tpc[t] \in {"got", "calling"}

ClientEnds(k, x) ==
  /\ Known(k)
  /\ End(k, x)
  /\ UNCHANGED <<userVars, taskVars, sock, dialer>>

CtxDone(u) == gaveUp[u] \/ canceled[u]

CallReturns(t) ==
  /\ tpc[t] = "calling"
  /\ Return(t)
  /\ err' = [err EXCEPT ![t] = IF answer[t] = "err" THEN "err" ELSE "nil"]
  /\ Goto(t, "report")
  /\ UNCHANGED <<userVars, mu, clients, sock, dialer>>

CallCanceled(t) ==
  /\ tpc[t] = "calling" /\ CtxDone(User(t))
  /\ Cancel(t)
  /\ err' = [err EXCEPT ![t] = "canceled"]
  /\ Goto(t, "report")
  /\ UNCHANGED <<userVars, mu, clients, sock, dialer>>

-----------------------------------------------------------------------------
(* Call and Broadcast after xc.call.                                       *)

\* Mutant: a later error replaces the first.
FirstErrorAny(t) == err[t] # "nil"
FirstError(t) == err[t] # "nil" /\ e[User(t)] = "nil"

\* The clone is empty when the call was completed without a reply.
Clone(t) == IF answer[t] = "reply" THEN "value" ELSE "zero"

\* The critical section of a task of Broadcast, and wg.Done.
Report(t) ==
  LET u == User(t) IN
  /\ tpc[t] = "report" /\ mode[u] = "broadcast"
  /\ e' = [e EXCEPT ![u] = IF FirstError(t) THEN err[t] ELSE @]
  /\ canceled' = [canceled EXCEPT ![u] = @ \/ FirstError(t)]
  /\ reply' = [reply EXCEPT ![u] =
                 IF err[t] = "nil" /\ @ = "untouched" THEN Clone(t) ELSE @]
  /\ Goto(t, "done")
  /\ UNCHANGED <<promiseVars, mode, upc, gaveUp, err, mu, clients, sock, dialer>>

AllDone(u) == \A t \in Calls : User(t) = u => tpc[t] \in {"idle", "done"}

BroadcastReturns(u) ==
  /\ upc[u] = "running" /\ mode[u] = "broadcast" /\ AllDone(u)
  /\ upc' = [upc EXCEPT ![u] = "returned"]
  /\ UNCHANGED <<promiseVars, mode, e, reply, gaveUp, canceled, taskVars, sock, dialer>>

XCallReturns(t) ==
  LET u == User(t) IN
  /\ tpc[t] = "report" /\ mode[u] = "call"
  /\ e' = [e EXCEPT ![u] = err[t]]
  /\ upc' = [upc EXCEPT ![u] = "returned"]
  /\ Goto(t, "done")
  /\ UNCHANGED <<promiseVars, mode, reply, gaveUp, canceled, err, mu, clients, sock, dialer>>

-----------------------------------------------------------------------------
(* What else happens: a context ends, and somebody closes the XClient.     *)

\* Only Client.Call looks at the context.
GiveUp(u) ==
  /\ ~gaveUp[u] /\ \E t \in Calls : User(t) = u /\ tpc[t] = "calling"
  /\ gaveUp' = [gaveUp EXCEPT ![u] = TRUE]
  /\ UNCHANGED <<promiseVars, mode, upc, e, reply, canceled, taskVars, sock, dialer>>

\* XClient.Close closes every client and empties the map; dial may fill it again.
Filed(k) == clients[k[1]] = k

Shut ==
  /\ mu = NoTask
  /\ \E k \in Conns : Filed(k)
  /\ CloseClients({k \in Conns : Filed(k)}, {})
  /\ clients' = [a \in Addrs |-> NoConn]
  /\ UNCHANGED <<on, callState, life, userVars, tpc, err, mu, dialer>>

-----------------------------------------------------------------------------
Task(t) ==
  \/ DialReuses(t) \/ ConnectFails(t) \/ Connect(t) \/ DialDone(t) \/ DialFails(t)
  \/ CallBegins(t) \/ CallReturns(t) \/ CallCanceled(t)
  \/ Report(t) \/ XCallReturns(t)

Receive(t) == ClientHolds(t) \/ ClientReplies(t) \/ ClientErrs(t)

Next ==
  \/ \E u \in Users :
       \/ Call(u) \/ Broadcast(u) \/ DiscoveryFails(u)
       \/ BroadcastReturns(u) \/ GiveUp(u)
  \/ \E t \in Calls : Task(t) \/ DialTimesOut(t) \/ Receive(t) \/ WriteFails(t)
  \/ \E k \in Conns : NewClient(k) \/ \E x \in {"nil", "err"} : ClientEnds(k, x)
  \/ Shut

Spec == Init /\ [][Next]_vars

(***************************************************************************)
(* As long as some goroutine can run, one of them does.  Every behaviour   *)
(* is finite here, so that this is fair to each.  Dialing has no timer     *)
(* that would have to go off, and NewClient may end in "hung".  Nobody has *)
(* to begin or to give up.                                                 *)
(*                                                                         *)
(* Answers are not assumed.  Users of one XClient write at the same time,  *)
(* and call right after dial: both can lose a request, as the "overlap"    *)
(* and "eager" of RpcConn show, and then nobody answers it.  But once our  *)
(* end is closed, receive reads no further, and ends.                      *)
(***************************************************************************)
ReceiveEnds(t) ==
  /\ on[t] # NoConn /\ sock[on[t]] = "closed"
  /\ Receive(t) \/ \E x \in {"nil", "err"} : ClientEnds(on[t], x)

Progress ==
  \/ \E t \in Calls : Task(t) \/ ReceiveEnds(t)
  \/ \E u \in Users : BroadcastReturns(u)
  \/ \E k \in Conns : NewClient(k)

FairSpec == Spec /\ WF_vars(Progress)

-----------------------------------------------------------------------------
Errors == {"nil", "err", "canceled"}
Answers == {"none", "reply", "err", "silent"}

\* Every variable keeps its type: a task has a client only of this XClient,
\* and xc.mu is held by a task.
TypeOK ==
  /\ on \in [Calls -> Conns \cup {NoConn}]
  /\ phase \in [Calls -> {"new", "open", "held", "settled"}]
  /\ answer \in [Calls -> Answers]
  /\ ret \in [Calls -> Answers \cup {"canceled"}]
  /\ late \in SUBSET Calls
  /\ life \in [Conns -> {"none", "up", "over"}]
  /\ closing \in [Conns -> BOOLEAN]
  /\ mode \in [Users -> {"none", "call", "broadcast"}]
  /\ upc \in [Users -> {"idle", "running", "returned"}]
  /\ e \in [Users -> Errors]
  /\ reply \in [Users -> {"untouched", "value", "zero"}]
  /\ gaveUp \in [Users -> BOOLEAN]
  /\ canceled \in [Users -> BOOLEAN]
  /\ tpc \in [Calls -> {"idle", "dial", "dialing", "got", "calling",
                        "stuck", "report", "done"}]
  /\ err \in [Calls -> Errors]
  /\ mu \in Calls \cup {NoTask}
  /\ clients \in [Addrs -> Conns \cup {NoConn}]
  /\ sock \in [Conns -> {"none", "open", "closed"}]
  /\ dialer \in [Conns -> {"none", "running", "ok", "err", "gone", "hung", "lost"}]

\* No connection is left behind: one that is open on our side is in
\* xc.clients, or in the hands of the one task that is dialing; whether a
\* dial fails, times out, or finds a client that has ended, and whoever
\* closes the XClient meanwhile.
NoLeakedConn ==
  \A k \in Conns : sock[k] = "open" =>
    Filed(k) \/ \E t \in Calls : mu = t /\ tpc[t] = "dialing" /\ on[t] = k

\* What Call and Broadcast return is a verdict on the servers.  They report
\* that a call was cancelled only if the caller gave up, although Broadcast
\* cancels calls itself; and Broadcast returns nil only if no task failed.
Verdict ==
  \A u \in Users :
    /\ e[u] = "canceled" => gaveUp[u]
    /\ upc[u] = "returned" /\ e[u] = "nil" =>
         \A t \in Calls : User(t) = u => tpc[t] \in {"idle", "done"} /\ err[t] = "nil"

\* The caller's reply does not change behind its back: once Broadcast has
\* returned, no task and no receive goroutine writes it, and once Call has,
\* only if the call was cancelled when receive had already taken it.
ReplyIsStable ==
  [][\A u \in Users : upc[u] = "returned" /\ reply'[u] # reply[u] =>
       mode[u] = "call" /\ e[u] = "canceled"]_vars

\* What a task may wait for and never get: room in Done; the answer to a call,
\* while our end is open or with a client that had ended before the call, as long
\* as nobody cancels it; or the answer to the CONNECT of the task that holds xc.mu.
WaitsForEver(t) ==
  \/ tpc[t] = "stuck"
  \/ /\ tpc[t] = "calling" /\ phase[t] # "settled" /\ ~CtxDone(User(t))
     /\ sock[on[t]] = "open" \/ t \in late
  \/ /\ tpc[t] \in {"dial", "dialing"}
     /\ \E s \in Calls, k \in Conns : mu = s /\ on[s] = k /\ dialer[k] = "hung"

\* Call and Broadcast return, also when servers cannot be reached, dials fail
\* with xc.mu held, and clients end or are closed under them; a user that does
\* not return has a task that waits for ever for one of these reasons.
UsersReturn ==
  \A u \in Users : (upc[u] = "running") ~>
    \/ upc[u] = "returned"
    \/ [](\E t \in Calls : User(t) = u /\ WaitsForEver(t))

-----------------------------------------------------------------------------
(* The inductive invariant behind NoLeakedConn, Verdict and ReplyIsStable. *)

\* xc.mu is held by the one task that is dialing.
MutexInv == \A t \in Calls : mu = t <=> tpc[t] = "dialing"

\* xc.clients files a client under its address; while it is being replaced
\* the address has none, and the task that dials has the new connection.
ClientsInv ==
  /\ \A a \in Addrs : clients[a] # NoConn => clients[a][1] = a /\ sock[clients[a]] # "none"
  /\ \A t \in Calls : tpc[t] = "dialing" =>
       /\ clients[Addr(t)] = NoConn
       /\ on[t] \in Conns /\ on[t][1] = Addr(t) /\ sock[on[t]] # "none"

\* A call is begun after dial, and returns when its task goes on.
CallInv ==
  \A t \in Calls :
    /\ phase[t] = "new" => ret[t] = "none"
    /\ phase[t] = "settled" => answer[t] # "none"
    /\ tpc[t] \in {"idle", "dial", "dialing", "got"} => phase[t] = "new"
    /\ tpc[t] = "calling" => ret[t] = "none"
    /\ err[t] # "nil" => tpc[t] \in {"report", "done"}
    /\ phase[t] # "new" /\ tpc[t] \in {"report", "done"} => ret[t] # "none"
    /\ phase[t] \in {"open", "held"} /\ tpc[t] \in {"report", "done"} => err[t] = "canceled"

\* Broadcast cancels when it has an error to return, and not before.
CancelInv ==
  /\ \A u \in Users : canceled[u] => e[u] # "nil" /\ mode[u] = "broadcast"
  /\ \A t \in Calls : err[t] = "canceled" => CtxDone(User(t))
  /\ \A t \in Calls : tpc[t] = "done" /\ err[t] # "nil" => e[User(t)] # "nil"

\* A user that has not begun has no tasks, one that has returned has none
\* under way; Call has one, whose error it returns.
UserInv ==
  /\ \A u \in Users : upc[u] = "idle" => e[u] = "nil"
  /\ \A t \in Calls :
       /\ upc[User(t)] # "running" => tpc[t] \in {"idle", "done"}
       /\ tpc[t] # "idle" => mode[User(t)] # "none"
       /\ upc[User(t)] = "idle" => tpc[t] = "idle"
       /\ mode[User(t)] = "call" /\ tpc[t] = "done" => e[User(t)] = err[t]
  /\ \A s, t \in Calls :
       User(s) = User(t) /\ mode[User(t)] = "call" /\ tpc[s] # "idle" /\ tpc[t] # "idle" => s = t

\* The parts together, as XClient_proof shows them to hold: the map, the lock
\* and the sockets agree, and so do the tasks and what their user will return.
IInv ==
  TypeOK /\ MutexInv /\ ClientsInv /\ NoLeakedConn /\ CallInv /\ CancelInv /\ UserInv
    /\ Verdict
=============================================================================
