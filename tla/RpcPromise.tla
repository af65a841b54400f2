----------------------------- MODULE RpcPromise -----------------------------
(***************************************************************************)
(* What a Client of package rpc promises to those who share it, for any    *)
(* number of clients and calls.  RpcConn implements it; XClient is built   *)
(* on it.  Here are the points where a call changes hands, without the     *)
(* stream, the numbers and the server behind them.                         *)
(*                                                                         *)
(* A call is open when it is registered, held when receive has taken it    *)
(* out of pending, and settled when it is in its Done channel.  A client   *)
(* that has ended is not available any more; it ends with or without an    *)
(* error, and what it still owes is settled the same way.                  *)
(***************************************************************************)
CONSTANTS
  Calls,     \* the calls of Client.Call
  Conns,     \* the clients, each with a connection of its own
  NoConn     \* the nil *Client

VARIABLES
  on,        \* on[c]: the client that the caller of c has
  phase,     \* phase[c]: "new", "open", "held" or "settled"
  answer,    \* answer[c]: "none"; "reply", "err", or "silent", which is neither
  ret,       \* ret[c]: what Call returned: "none", an answer or "canceled"
  late,      \* history: the calls registered with a client that had ended
  life,      \* life[k]: "none"; "up" while receive runs; "over"
  closing    \* closing[k]: Close was called

callState == <<phase, answer, ret, late>>
promiseVars == <<on, callState, life, closing>>

PromiseInit ==
  /\ on \in [Calls -> Conns \cup {NoConn}]
  /\ phase = [c \in Calls |-> "new"]
  /\ answer = [c \in Calls |-> "none"]
  /\ ret = [c \in Calls |-> "none"]
  /\ late = {}
  /\ life \in [Conns -> {"none", "up"}]
  /\ closing = [k \in Conns |-> FALSE]

IsAvailable(k) == life[k] = "up" /\ ~closing[k]

\* NewClient has returned: receive is running.
Open(k) ==
  /\ life[k] = "none"
  /\ life' = [life EXCEPT ![k] = "up"]
  /\ UNCHANGED <<on, callState, closing>>

\* A caller gets hold of a client.
Take(c, k) ==
  /\ phase[c] = "new"
  /\ on' = [on EXCEPT ![c] = k]
  /\ UNCHANGED <<callState, life, closing>>

\* registerCall; a client that has ended accepts the call, and owes nothing.
Begin(c) ==
  /\ phase[c] = "new" /\ on[c] \in Conns /\ life[on[c]] # "none"
  /\ phase' = [phase EXCEPT ![c] = "open"]
  /\ late' = IF life[on[c]] = "up" THEN late ELSE late \cup {c}
  /\ UNCHANGED <<on, answer, ret, life, closing>>

\* receive has read a header: a call that was cancelled is not found.
Hold(c) ==
  /\ phase[c] = "open" /\ ret[c] = "none" /\ life[on[c]] = "up"
  /\ phase' = [phase EXCEPT ![c] = "held"]
  /\ UNCHANGED <<on, answer, ret, late, life, closing>>

\* receive has read the body, and perhaps written the reply; the caller may
\* have given up meanwhile.
Settle(c, x) ==
  /\ phase[c] = "held" /\ x \in {"reply", "err"}
  /\ phase' = [phase EXCEPT ![c] = "settled"]
  /\ answer' = [answer EXCEPT ![c] = x]
  /\ UNCHANGED <<on, ret, late, life, closing>>

\* send reports a failed Write; terminateCalls may have been there before it.
Fail(c) ==
  /\ phase[c] = "open" \/ (phase[c] = "settled" /\ life[on[c]] # "up")
  /\ ret[c] = "none"
  /\ phase' = [phase EXCEPT ![c] = "settled"]
  /\ answer' = [answer EXCEPT ![c] = "err"]
  /\ UNCHANGED <<on, ret, late, life, closing>>

\* terminateCalls settles all that is open, unless the caller has given up.
Owed(k) == {c \in Calls : on[c] = k /\ phase[c] = "open" /\ ret[c] = "none"}

End(k, x) ==
  /\ life[k] = "up" /\ x \in {"nil", "err"}
  /\ \A c \in Calls : on[c] = k => phase[c] # "held"
  /\ life' = [life EXCEPT ![k] = "over"]
  /\ phase' = [c \in Calls |-> IF c \in Owed(k) THEN "settled" ELSE phase[c]]
  /\ answer' = [c \in Calls |-> IF c \notin Owed(k) THEN answer[c]
                                ELSE IF x = "nil" THEN "silent" ELSE "err"]
  /\ UNCHANGED <<on, ret, late, closing>>

Return(c) ==
  /\ phase[c] = "settled" /\ ret[c] = "none"
  /\ ret' = [ret EXCEPT ![c] = answer[c]]
  /\ UNCHANGED <<on, phase, answer, late, life, closing>>

\* The context of the call ends before Call has looked into Done.
Cancel(c) ==
  /\ phase[c] # "new" /\ ret[c] = "none"
  /\ ret' = [ret EXCEPT ![c] = "canceled"]
  /\ UNCHANGED <<on, phase, answer, late, life, closing>>

Close(k) ==
  /\ life[k] # "none"
  /\ closing' = [closing EXCEPT ![k] = TRUE]
  /\ UNCHANGED <<on, callState, life>>

PromiseNext ==
  \/ \E c \in Calls :
       \/ Begin(c) \/ Hold(c) \/ Fail(c) \/ Return(c) \/ Cancel(c)
       \/ \E x \in {"reply", "err"} : Settle(c, x)
       \/ \E k \in Conns : Take(c, k)
  \/ \E k \in Conns :
       \/ Open(k) \/ Close(k)
       \/ \E x \in {"nil", "err"} : End(k, x)

PromiseSpec == PromiseInit /\ [][PromiseNext]_promiseVars
=============================================================================
