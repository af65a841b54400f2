------------------------------ MODULE RpcConn ------------------------------
(***************************************************************************)
(* A client and a server of package rpc on one connection.                 *)
(***************************************************************************)
EXTENDS RpcClient, RpcServer

CONSTANTS
  Options,    \* the options NewClient may send: "good", or "badMagic"
  Env         \* what the environment may do: see AllEnv

AllEnv == {"cancel",   \* a caller's context ends
           "close",    \* the user calls Close
           "cut",      \* the network breaks the connection
           "eager",    \* calls begin before the server has read the options
           "overlap"}  \* callers write without waiting for each other

ASSUME OptionsAssumption == Options \subseteq {"good", "badMagic"}
ASSUME EnvAssumption == Env \subseteq AllEnv

vars == <<clientVars, serverVars, connVars>>

Init ==
  /\ ClientInit
  /\ ServerInit
  /\ \E o \in Options : ConnInit(o)

(***************************************************************************)
(* Two habits of the repository's callers keep them out of trouble: the    *)
(* tests and examples sleep before the first call, and a caller that is    *)
(* alone never overlaps with another.  Without "eager" and "overlap" the   *)
(* environment keeps to them.                                              *)
(***************************************************************************)
MayRegister == "eager" \in Env \/ srv # "options"
MayWrite(c) == "overlap" \in Env \/ \A d \in Calls \ {c} : cpc[d] = "header" \/ ~Writing(d)

Caller(c) ==
  \/ /\ MayWrite(c)
     /\ EncodeHeader(c)
     /\ UNCHANGED serverVars
  \/ /\ EncodeBody(c) \/ FlushWrite(c) \/ FlushEnd(c) \/ SendFail(c) \/ AwaitDone(c)
     /\ UNCHANGED serverVars

Receive ==
  /\ RecvHeader \/ RecvReply \/ RecvDiscard \/ TerminateCalls
  /\ UNCHANGED serverVars

Serve ==
  /\ ServeOptions \/ ReadHeader \/ ReadBody \/ Drain
  /\ UNCHANGED clientVars

Returns == \E i \in DOMAIN handlers, o \in Outcomes :
  HandleReturns(i, o) /\ UNCHANGED clientVars
TimesOut == \E i \in DOMAIN handlers :
  HandleTimesOut(i) /\ UNCHANGED clientVars

Begin(c) == MayRegister /\ RegisterCall(c) /\ UNCHANGED serverVars

Disturb ==
  \/ \E c \in Calls : "cancel" \in Env /\ AwaitCancel(c) /\ UNCHANGED serverVars
  \/ "close" \in Env /\ Close /\ UNCHANGED serverVars
  \/ "cut" \in Env /\ Cut /\ UNCHANGED <<clientVars, serverVars>>

Next ==
  \/ \E c \in Calls : Begin(c) \/ Caller(c)
  \/ Receive
  \/ Serve
  \/ Returns
  \/ TimesOut
  \/ Disturb

Spec == Init /\ [][Next]_vars

(***************************************************************************)
(* Goroutines that can run do run, and the handle timeout ends requests;   *)
(* a service method may never return.  Nothing makes a caller begin, and   *)
(* no disturbance has to happen.                                           *)
(***************************************************************************)
TimeoutSpec ==
  /\ Spec
  /\ \A c \in Calls : WF_vars(Caller(c))
  /\ WF_vars(Receive) /\ WF_vars(Serve) /\ WF_vars(TimesOut)

-----------------------------------------------------------------------------
Values ==
  [kind : {"hdr", "body"}, seq : Seqs, tag : AllKinds \cup AllOutcomes]
    \cup [kind : {"opt", "junk"}, seq : {0}, tag : {"good", "badMagic", "junk"}]

ClientTypeOK ==
  /\ kind \in [Calls -> Kinds]
  /\ cpc \in [Calls -> {"idle", "header", "body", "flush", "flushing",
                        "fail", "wait", "returned", "stuck"}]
  /\ call \in [Calls -> [Seq : 0..MaxSeq, Error : {"nil", "err"},
                         Reply : 0..MaxSeq, Done : {0, 1}]]
  /\ wn \in [Calls -> Nat]
  /\ wbad \in [Calls -> BOOLEAN]
  /\ ret \in [Calls -> {"none", "ok", "err", "canceled"}]
  /\ seq \in 1..(MaxSeq + 1)
  /\ pending \in [Seqs -> Calls \cup {NoCall}]
  /\ closing \in BOOLEAN /\ shutdown \in BOOLEAN
  /\ rcv \in {"header", "reply", "discard", "terminate", "dead"}
  /\ rcall \in Calls \cup {NoCall}
  /\ rerr \in {"nil", "err"}
  /\ late \in SUBSET Calls

ServerTypeOK ==
  /\ srv \in {"options", "header", "body", "drain", "closed"}
  /\ req \in 0..MaxSeq
  /\ garbled \in BOOLEAN
  /\ handlers \in Seq([seq : Seqs, args : Seqs])

ConnTypeOK ==
  /\ buf \in Seq(Values) /\ c2s \in Seq(Values) /\ s2c \in Seq(Values)
  /\ werr \in BOOLEAN /\ cOpen \in BOOLEAN /\ sOpen \in BOOLEAN /\ link \in BOOLEAN

\* Every variable keeps its type: every record on the wire is one that a
\* GobCodec wrote, and every sequence number one that registerCall gave out.
TypeOK == ClientTypeOK /\ ServerTypeOK /\ ConnTypeOK

-----------------------------------------------------------------------------
\* terminateCalls leaves no caller behind: once receive has ended, every call
\* that is waiting, and was registered before the shutdown, has been completed.
NoOrphanedCall ==
  rcv = "dead" =>
    \A c \in Calls : cpc[c] = "wait" => call[c].Done = 1 \/ c \in late

\* done() never blocks the receive goroutine, which would hold client.mu in
\* terminateCalls: the calls it is about to complete have not been completed
\* by send or by an earlier response.
DoneHasRoom ==
  rcv # "dead" =>
    /\ rcall # NoCall => call[rcall].Done = 0
    /\ \A s \in Seqs : pending[s] # NoCall => call[pending[s]].Done = 0

\* send blocks in done() only once receive has ended: terminateCalls leaves the
\* calls it completes in pending, where a failed Write finds them again.
StuckOnlyAfterShutdown == \A c \in Calls : cpc[c] = "stuck" => shutdown

\* Call returns nil without a reply only after receive has left its loop with
\* a nil error, that is on an unknown sequence number or an error response.
SilentOnlyAfterBreak ==
  \A c \in Calls :
    ret[c] = "ok" /\ call[c].Reply = 0 => shutdown /\ rerr = "nil"

\* A reply was computed from the arguments of the call it is handed to.
NoForeignReply ==
  \A c \in Calls : call[c].Reply # 0 => call[c].Reply = call[c].Seq

\* The body the server is about to read as arguments is the one that was
\* written behind the header it has just read.
BodyMatchesHeader ==
  srv = "body" /\ c2s # <<>> => Head(c2s).kind = "body" /\ Head(c2s).seq = req

\* A method runs with the arguments of the call that asked for it.
OwnArguments == \A i \in DOMAIN handlers : handlers[i].args = handlers[i].seq

Count(q, s) == Cardinality({i \in DOMAIN q : q[i].seq = s /\ q[i].kind = "hdr"})

\* A request exists once: as header on its way to the server, in the hands of
\* the server, or as a response on its way back.
AtMostOnce ==
  \A s \in Seqs :
    Count(c2s, s) + (IF req = s THEN 1 ELSE 0)
      + Cardinality({i \in DOMAIN handlers : handlers[i].seq = s})
      + Count(s2c, s) <= 1

\* What Call has returned is settled: neither receive nor terminateCalls
\* touches the Call of a caller that has its answer.
AnswerIsSettled ==
  [][\A c \in Calls : ret[c] \in {"ok", "err"} => call'[c] = call[c]]_vars

\* A call that waits, and was registered before the shutdown, returns.
OnTimeReturns ==
  \A c \in Calls : (cpc[c] = "wait" /\ c \notin late) ~> (cpc[c] = "returned")

\* The server closes its end after the client has closed its own, although
\* service methods may run forever: the handle timeout ends their requests.
ServerDrains == ~cOpen ~> (srv = "closed")

-----------------------------------------------------------------------------
(* The inductive invariant behind NoOrphanedCall, DoneHasRoom,             *)
(* StuckOnlyAfterShutdown, SilentOnlyAfterBreak and AnswerIsSettled.       *)

\* A call that has begun has a number of its own below client.seq, and one
\* that has not is known to nobody.
SeqInv ==
  /\ \A c \in Calls : cpc[c] # "idle" => call[c].Seq \in 1..(seq - 1)
  /\ \A c, d \in Calls :
       cpc[c] # "idle" /\ cpc[d] # "idle" /\ call[c].Seq = call[d].Seq => c = d
  /\ \A c \in Calls : cpc[c] = "idle" => call[c].Done = 0 /\ c \notin late

\* pending files a call under its own number.
PendingInv ==
  \A s \in Seqs : pending[s] # NoCall =>
    cpc[pending[s]] # "idle" /\ call[pending[s]].Seq = s

\* What the receive goroutine holds is not in pending, and only it will
\* complete it.
ReceiveInv ==
  /\ rcv = "reply" => rcall # NoCall
  /\ rcv \in {"header", "terminate", "dead"} => rcall = NoCall
  /\ rcall # NoCall => /\ cpc[rcall] # "idle"
                       /\ call[rcall].Done = 0
                       /\ pending[call[rcall].Seq] = NoCall
                       /\ rcv = "discard" => call[rcall].Error = "err"
  /\ shutdown <=> rcv = "dead"
  /\ shutdown \/ late = {}

\* Somebody answers for a call that waits: it is filed, held by receive, or
\* complete; and while receive lives, what is filed is not complete.
CompletionInv ==
  /\ \A c \in Calls :
       cpc[c] \in {"header", "body", "flush", "flushing", "fail", "wait"} =>
         pending[call[c].Seq] = c \/ rcall = c \/ call[c].Done = 1
  /\ \A s \in Seqs : pending[s] # NoCall =>
       IF rcv = "dead" THEN call[pending[s]].Done = 1 \/ pending[s] \in late
                       ELSE call[pending[s]].Done = 0

\* A completed call has an error or a reply, or receive ended without one.
AnswerInv ==
  \A c \in Calls :
    /\ call[c].Done = 1 /\ call[c].Error = "nil" /\ call[c].Reply = 0 => shutdown /\ rerr = "nil"
    /\ ret[c] # "none" => cpc[c] = "returned"
    /\ ret[c] \in {"ok", "err"} => call[c].Done = 1
    /\ ret[c] = "ok" => call[c].Error = "nil"

ClientInv == SeqInv /\ PendingInv /\ ReceiveInv /\ CompletionInv /\ AnswerInv

\* The parts together, as RpcConn_proof shows them to hold: what the client's
\* table, its receive goroutine and its callers know of a call agrees.
IInv == TypeOK /\ (srv = "body" => req \in Seqs) /\ ClientInv

-----------------------------------------------------------------------------
(* The inductive invariant behind BodyMatchesHeader, NoForeignReply and    *)
(* AtMostOnce, for callers that write one after the other: without         *)
(* "overlap" in Env.                                                       *)

\* The connection takes and delivers whole values; once down it stays down.
Up == cOpen /\ sOpen /\ link

\* c is past the header of its Write: it owns the writer.
Owns(c) == cpc[c] \in {"body", "flush", "flushing"}

\* Write of c has put its header on the wire alone, and is about to Close.
Abandons(c) == cpc[c] = "flushing" /\ wbad[c]

HdrOf(c) == Hdr(call[c].Seq, kind[c])
BodyOf(c) == Body(call[c].Seq, kind[c])

\* One caller owns the writer, and the buffer holds what that caller has encoded.
WriterInv ==
  /\ \A c, d \in Calls : Owns(c) /\ Owns(d) => c = d
  /\ \A c \in Calls : wbad[c] => cpc[c] \notin {"idle", "header", "body"}
  /\ ~werr =>
       /\ (\A c \in Calls : ~Owns(c)) => buf = <<>>
       /\ \A c \in Calls :
            /\ cpc[c] = "body" => buf = <<HdrOf(c)>>
            /\ cpc[c] = "flush" =>
                 buf = IF wbad[c] THEN <<HdrOf(c)>> ELSE <<HdrOf(c), BodyOf(c)>>
  /\ \A c \in Calls : cpc[c] = "flushing" => wn[c] = Len(buf) \/ (wn[c] = 0 /\ werr)
  /\ \A c \in Calls : cpc[c] = "flushing" /\ ~werr => wn[c] > 0

\* In stream q the body of a header comes right behind it.  A header without a
\* body is the last value, and then nothing follows: ended.
Paired(q, ended) ==
  \A i \in DOMAIN q : q[i].kind = "hdr" =>
    IF i < Len(q) THEN q[i + 1].kind = "body" /\ q[i + 1].seq = q[i].seq ELSE ended

\* What stream q has for the reader of header s is the body of s, or nothing ever.
Answers(q, s, ended) ==
  IF q = <<>> THEN ended ELSE Head(q).kind = "body" /\ Head(q).seq = s

\* No caller will add to c2s, and no handler to s2c.
RequestsEnded == ~Up \/ \E c \in Calls : Abandons(c)
ResponsesEnded == ~Up

\* The arguments of a request follow its header.
RequestInv ==
  /\ Paired(c2s, RequestsEnded)
  /\ srv = "body" => Answers(c2s, req, RequestsEnded)

\* The reply to a request follows its header, and was computed from its arguments.
ResponseInv ==
  /\ OwnArguments
  /\ Paired(s2c, ResponsesEnded)
  /\ rcv = "reply" => Answers(s2c, call[rcall].Seq, ResponsesEnded)

\* A call that has not begun has no reply, and any other has its own.
ReplyInv ==
  /\ \A c \in Calls : cpc[c] = "idle" => call[c].Reply = 0
  /\ NoForeignReply

\* Where the number of a request can be.
Carries(q, s) == \E i \in DOMAIN q : q[i].kind = "hdr" /\ q[i].seq = s
Handled(s) == \E i \in DOMAIN handlers : handlers[i].seq = s

CarriesOnce(q) ==
  \A i, j \in DOMAIN q :
    q[i].kind = "hdr" /\ q[j].kind = "hdr" /\ q[i].seq = q[j].seq => i = j

\* A caller has handed the request of number s to the connection.
Sent(s) ==
  \E c \in Calls :
    call[c].Seq = s /\ cpc[c] \notin {"idle", "header", "body", "flush"}

\* A number is at one place at most, and only after its request was sent.
OnceInv ==
  /\ CarriesOnce(c2s) /\ CarriesOnce(s2c)
  /\ \A i, j \in DOMAIN handlers : handlers[i].seq = handlers[j].seq => i = j
  /\ \A s \in Seqs :
       /\ Carries(c2s, s) => req # s /\ ~Handled(s) /\ ~Carries(s2c, s)
       /\ req = s => ~Handled(s) /\ ~Carries(s2c, s)
       /\ Handled(s) => ~Carries(s2c, s)
       /\ Carries(c2s, s) \/ req = s \/ Handled(s) \/ Carries(s2c, s) => Sent(s)

\* The parts together: every value on the connection belongs to the one that
\* stands before it.
StreamInv == WriterInv /\ RequestInv /\ ResponseInv /\ ReplyInv /\ OnceInv

-----------------------------------------------------------------------------
(* The client as its users see it.                                         *)

\* receive has taken the call out of pending and not completed it.
PhaseOf(c) ==
  IF cpc[c] = "idle" THEN "new"
  ELSE IF call[c].Done = 1 THEN "settled"
  ELSE IF rcall = c THEN "held" ELSE "open"

AnswerOf(c) ==
  IF call[c].Done = 0 THEN "none"
  ELSE IF call[c].Error = "err" THEN "err"
  ELSE IF call[c].Reply = 0 THEN "silent" ELSE "reply"

Promise == INSTANCE RpcPromise WITH
  Conns <- {"client"}, NoConn <- "nil",
  on <- [c \in Calls |-> "client"],
  phase <- [c \in Calls |-> PhaseOf(c)],
  answer <- [c \in Calls |-> AnswerOf(c)],
  ret <- [c \in Calls |-> IF ret[c] = "ok" THEN AnswerOf(c) ELSE ret[c]],
  life <- [k \in {"client"} |-> IF shutdown THEN "over" ELSE "up"],
  closing <- [k \in {"client"} |-> closing]

\* What the refinement needs beside IInv: a call is taken out of pending when it
\* is cancelled, and has neither reply nor error before receive comes to it.
PromiseInv ==
  \A c \in Calls :
    /\ ret[c] = "canceled" => pending[call[c].Seq] # c
    /\ cpc[c] = "returned" => ret[c] # "none"
    /\ cpc[c] = "stuck" => call[c].Done = 1
    /\ call[c].Done = 0 => call[c].Reply = 0
    /\ call[c].Done = 0 /\ ~(rcall = c /\ rcv = "discard") => call[c].Error = "nil"

\* Whatever happens on the stream, the client of rpc/client.go behaves as
\* RpcPromise says: receive completes only calls that nobody has given up,
\* terminateCalls completes every call that is waiting, and with the error
\* receive ended with, and what Call returns is what was put into Done.
KeepsPromise == Promise!PromiseSpec

-----------------------------------------------------------------------------
(* What a comment promises, and the code does not keep.                    *)

\* "Call invokes the named function, waits for it to complete, and returns
\* its error status": a nil error means that the reply is there.
NilMeansReply == \A c \in Calls : ret[c] = "ok" => call[c].Reply # 0
=============================================================================
