----------------------------- MODULE RpcClient -----------------------------
(***************************************************************************)
(* The client of rpc/client.go: callers that each run Client.Call once,    *)
(* the receive goroutine, and the state they share.  client.mu makes       *)
(* registerCall, removeCall and terminateCalls atomic; nothing orders the  *)
(* writes of two callers, so Write is the steps of GobCodec.Write.         *)
(***************************************************************************)
EXTENDS GobConn, FiniteSets

CONSTANTS
  Calls,      \* the calls, each made by a goroutine of its own
  NoCall,     \* the nil *Call
  Kinds,      \* what the caller passes: see AllKinds
  MaxSeq      \* bound on client.seq

AllKinds == {"good",         \* a registered method, arguments it accepts
             "noMethod",     \* a service or method the server does not know
             "badArgs",      \* arguments of a type the method cannot take
             "unencodable"}  \* arguments gob refuses to encode

Seqs == 1..MaxSeq

ASSUME CallsAssumption == NoCall \notin Calls
ASSUME KindsAssumption == Kinds \subseteq AllKinds
ASSUME MaxSeqAssumption == MaxSeq \in Nat

VARIABLES
  kind,      \* kind[c]: the arguments of call c, fixed from the start
  cpc,       \* cpc[c]: where the goroutine running call c is
  call,      \* call[c]: the fields of the Call
  wn,        \* wn[c]: values its Flush has handed to conn.Write
  wbad,      \* wbad[c]: its Write will return an error
  ret,       \* ret[c]: what Call returned
  seq,       \* client.seq
  pending,   \* client.pending
  closing,   \* client.closing
  shutdown,  \* client.shutdown
  rcv,       \* where the receive goroutine is
  rcall,     \* the call whose body it is about to read
  rerr,      \* its local err
  late       \* history: the calls registered after shutdown was set

callVars == <<kind, cpc, call, wn, wbad, ret>>
tableVars == <<seq, pending, closing, shutdown, late>>
recvVars == <<rcv, rcall, rerr>>
clientVars == <<callVars, tableVars, recvVars>>

(***************************************************************************)
(* Done is 1 once done() has been called.  Reply is 0 while the caller's   *)
(* reply is untouched, and otherwise the call whose arguments it was       *)
(* computed from, by sequence number.                                      *)
(***************************************************************************)
NewCall == [Seq |-> 0, Error |-> "nil", Reply |-> 0, Done |-> 0]

\* A Call given its number, given an error, and completed with an error or
\* with a reply.
Numbered(r, s) == [Seq |-> s, Error |-> r.Error, Reply |-> r.Reply, Done |-> r.Done]
Failed(r) == [Seq |-> r.Seq, Error |-> "err", Reply |-> r.Reply, Done |-> r.Done]
Completed(r, err) == [Seq |-> r.Seq, Error |-> err, Reply |-> r.Reply, Done |-> 1]
Replied(r, v) == [Seq |-> r.Seq, Error |-> r.Error, Reply |-> v, Done |-> 1]

ClientInit ==
  /\ kind \in [Calls -> Kinds]
  /\ cpc = [c \in Calls |-> "idle"]
  /\ call = [c \in Calls |-> NewCall]
  /\ wn = [c \in Calls |-> 0]
  /\ wbad = [c \in Calls |-> FALSE]
  /\ ret = [c \in Calls |-> "none"]
  /\ seq = 1
  /\ pending = [s \in Seqs |-> NoCall]
  /\ closing = FALSE /\ shutdown = FALSE
  /\ rcv = "header" /\ rcall = NoCall /\ rerr = "nil"
  /\ late = {}

Writing(c) == cpc[c] \in {"header", "body", "flush", "flushing"}

-----------------------------------------------------------------------------
(* registerCall, removeCall and terminateCalls, under client.mu.           *)

\* Mutant: client.seq is read only once.
RegisteredFirst(c) == [pending EXCEPT ![1] = c]
Registered(c) == [pending EXCEPT ![seq] = c]

\* Mutant: removeCall does not delete.
RemovedKept(s) == pending
Removed(s) == [pending EXCEPT ![s] = NoCall]

IsPending(c) == \E s \in Seqs : pending[s] = c

\* Mutants: terminateCalls sets the flag only; or forgets the error.
TerminatedSparing(err) == call
TerminatedOk(err) ==
  [c \in Calls |-> IF IsPending(c)
                     THEN Completed(call[c], "nil")
                     ELSE call[c]]
Terminated(err) ==
  [c \in Calls |-> IF IsPending(c)
                     THEN Completed(call[c], err)
                     ELSE call[c]]

-----------------------------------------------------------------------------
(* The goroutine of a caller: Call, Go, send and GobCodec.Write.           *)

\* Go and send up to registerCall, which looks at neither flag.
RegisterCall(c) ==
  /\ cpc[c] = "idle"
  /\ seq \in Seqs
  /\ call' = [call EXCEPT ![c] = Numbered(@, seq)]
  /\ pending' = Registered(c)
  /\ seq' = seq + 1
  /\ late' = IF shutdown THEN late \cup {c} ELSE late
  /\ cpc' = [cpc EXCEPT ![c] = "header"]
  /\ UNCHANGED <<kind, wn, wbad, ret, closing, shutdown, recvVars, connVars>>

(***************************************************************************)
(* enc.Encode puts value v into the bufio.Writer.  When another caller is  *)
(* inside Flush the two race on the writer's length: the value may be      *)
(* placed behind the bytes being flushed, or the flush may reset the       *)
(* length first, and then the bytes at the front of the buffer, whole or   *)
(* cut short, stand where v should be.                                     *)
(***************************************************************************)
Encode(c, v) ==
  \/ /\ buf' = Append(buf, v)
     /\ UNCHANGED wn
  \/ \E d \in Calls \ {c} :
       /\ cpc[d] = "flushing" /\ wn[d] > 0
       /\ \E x \in {Junk} \cup {buf[i] : i \in 1..Len(buf)} : buf' = <<x>>
       /\ wn' = [wn EXCEPT ![d] = 0]

EncodeFails(c) ==
  /\ wbad' = [wbad EXCEPT ![c] = TRUE]
  /\ cpc' = [cpc EXCEPT ![c] = "flush"]
  /\ UNCHANGED <<buf, wn>>

EncodeHeader(c) ==
  /\ cpc[c] = "header"
  /\ \/ werr /\ EncodeFails(c)
     \/ /\ ~werr
        /\ Encode(c, Hdr(call[c].Seq, kind[c]))
        /\ cpc' = [cpc EXCEPT ![c] = "body"]
        /\ UNCHANGED wbad
  /\ UNCHANGED <<kind, call, ret, tableVars, recvVars,
                 werr, c2s, s2c, cOpen, sOpen, link>>

EncodeBody(c) ==
  /\ cpc[c] = "body"
  /\ \/ (werr \/ kind[c] = "unencodable") /\ EncodeFails(c)
     \/ /\ ~werr /\ kind[c] # "unencodable"
        /\ Encode(c, Body(call[c].Seq, kind[c]))
        /\ cpc' = [cpc EXCEPT ![c] = "flush"]
        /\ UNCHANGED wbad
  /\ UNCHANGED <<kind, call, ret, tableVars, recvVars,
                 werr, c2s, s2c, cOpen, sOpen, link>>

\* Flush up to the return of conn.Write; it does nothing after an error.
FlushWrite(c) ==
  /\ cpc[c] = "flush"
  /\ cpc' = [cpc EXCEPT ![c] = "flushing"]
  /\ IF werr \/ buf = <<>>
       THEN wn' = [wn EXCEPT ![c] = 0] /\ UNCHANGED <<werr, c2s>>
       ELSE wn' = [wn EXCEPT ![c] = Len(buf)] /\ Transmit
  /\ UNCHANGED <<kind, call, wbad, ret, tableVars, recvVars,
                 buf, s2c, cOpen, sOpen, link>>

(***************************************************************************)
(* The rest of Flush, whose result Write drops.  A buffer that grew        *)
(* meanwhile is a short write, unless the race hides it.                   *)
(***************************************************************************)
ResetForgotten(c) == UNCHANGED <<buf, werr>>   \* mutant: the length is kept
ResetBuffer(c) ==
  \/ wn[c] = 0 /\ UNCHANGED <<buf, werr>>
  \/ wn[c] > 0 /\ buf' = <<>> /\ UNCHANGED werr
  \/ wn[c] > 0 /\ Len(buf) > wn[c] /\ werr' = TRUE /\ UNCHANGED buf

\* Write closes the connection when an Encode failed.
CloseForgotten(c) == UNCHANGED cOpen           \* mutant
CloseOnError(c) == cOpen' = (cOpen /\ ~wbad[c])

FlushEnd(c) ==
  /\ cpc[c] = "flushing"
  /\ ResetBuffer(c)
  /\ CloseOnError(c)
  /\ wn' = [wn EXCEPT ![c] = 0]
  /\ cpc' = [cpc EXCEPT ![c] = IF wbad[c] THEN "fail" ELSE "wait"]
  /\ UNCHANGED <<kind, call, wbad, ret, tableVars, recvVars,
                 c2s, s2c, sOpen, link>>

(***************************************************************************)
(* send after a failed Write.  A call that is gone from pending belongs to *)
(* the receive goroutine.  A call that is still there gets the error and   *)
(* done(), which blocks when the channel of capacity 1 holds the call      *)
(* already: its only reader is this goroutine.                             *)
(***************************************************************************)
SendFail(c) ==
  LET s == call[c].Seq
      p == pending[s]
  IN
  /\ cpc[c] = "fail"
  /\ pending' = Removed(s)
  /\ IF p = NoCall
       THEN cpc' = [cpc EXCEPT ![c] = "wait"] /\ UNCHANGED call
       ELSE /\ call' = [call EXCEPT ![p] = Completed(@, "err")]
            /\ cpc' = [cpc EXCEPT ![c] = IF call[p].Done = 1 THEN "stuck" ELSE "wait"]
  /\ UNCHANGED <<kind, wn, wbad, ret, seq, closing, shutdown, late,
                 recvVars, connVars>>

AwaitDone(c) ==
  /\ cpc[c] = "wait" /\ call[c].Done = 1
  /\ ret' = [ret EXCEPT ![c] = IF call[c].Error = "nil" THEN "ok" ELSE "err"]
  /\ cpc' = [cpc EXCEPT ![c] = "returned"]
  /\ UNCHANGED <<kind, call, wn, wbad, tableVars, recvVars, connVars>>

AwaitCancel(c) ==
  /\ cpc[c] = "wait"
  /\ pending' = Removed(call[c].Seq)
  /\ ret' = [ret EXCEPT ![c] = "canceled"]
  /\ cpc' = [cpc EXCEPT ![c] = "returned"]
  /\ UNCHANGED <<kind, call, wn, wbad, seq, closing, shutdown, late,
                 recvVars, connVars>>

\* Client.Close; a second Close only returns ErrShutdown.
Close ==
  /\ ~closing
  /\ closing' = TRUE
  /\ cOpen' = FALSE
  /\ UNCHANGED <<callVars, seq, pending, shutdown, late, recvVars,
                 buf, werr, c2s, s2c, sOpen, link>>

-----------------------------------------------------------------------------
(* The goroutine running receive.                                          *)

ReadFails ==
  /\ ClientFails
  /\ rerr' = "err" /\ rcv' = "terminate" /\ rcall' = NoCall
  /\ UNCHANGED s2c

\* ReadHeader, and removeCall on the number it carries.
RecvHeader ==
  /\ rcv = "header"
  /\ \/ ReadFails /\ UNCHANGED <<call, pending>>
     \/ /\ ClientHas /\ s2c' = Tail(s2c)
        /\ LET h == Head(s2c) IN
           IF h.kind # "hdr"
             THEN /\ rerr' = "err" /\ rcv' = "terminate"
                  /\ UNCHANGED <<call, pending, rcall>>
             ELSE /\ rcall' = pending[h.seq]
                  /\ pending' = Removed(h.seq)
                  /\ IF rcall' = NoCall \/ h.tag # "err"
                       THEN UNCHANGED call
                       ELSE call' = [call EXCEPT ![rcall'] = Failed(@)]
                  /\ rcv' = IF rcall' = NoCall \/ h.tag = "err"
                              THEN "discard" ELSE "reply"
                  /\ UNCHANGED rerr
  /\ UNCHANGED <<kind, cpc, wn, wbad, ret, seq, closing, shutdown, late,
                 buf, werr, c2s, cOpen, sOpen, link>>

\* ReadBody into call.Reply, then done(); an error also ends the loop.
RecvReply ==
  /\ rcv = "reply"
  /\ \/ /\ ReadFails
        /\ call' = [call EXCEPT ![rcall] = Completed(@, "err")]
     \/ /\ ClientHas /\ s2c' = Tail(s2c) /\ rcall' = NoCall
        /\ LET b == Head(s2c) IN
           IF b.kind = "body"
             THEN /\ call' = [call EXCEPT ![rcall] = Replied(@, b.seq)]
                  /\ rcv' = "header" /\ UNCHANGED rerr
             ELSE /\ call' = [call EXCEPT ![rcall] = Completed(@, "err")]
                  /\ rcv' = "terminate" /\ rerr' = "err"
  /\ UNCHANGED <<kind, cpc, wn, wbad, ret, tableVars,
                 buf, werr, c2s, cOpen, sOpen, link>>

(***************************************************************************)
(* ReadBody(nil), for a header that names no pending call or carries an    *)
(* error.  Either way the loop is left, and with err nil when the body     *)
(* could be read.                                                          *)
(***************************************************************************)
RecvDiscard ==
  /\ rcv = "discard"
  /\ \/ ReadFails
     \/ /\ ClientHas /\ s2c' = Tail(s2c)
        /\ rcall' = NoCall /\ rcv' = "terminate" /\ UNCHANGED rerr
  /\ call' = IF rcall = NoCall THEN call ELSE [call EXCEPT ![rcall] = Completed(@, @.Error)]
  /\ UNCHANGED <<kind, cpc, wn, wbad, ret, tableVars,
                 buf, werr, c2s, cOpen, sOpen, link>>

TerminateCalls ==
  /\ rcv = "terminate"
  /\ shutdown' = TRUE
  /\ call' = Terminated(rerr)
  /\ rcv' = "dead"
  /\ UNCHANGED <<kind, cpc, wn, wbad, ret, seq, pending, closing, late,
                 rcall, rerr, connVars>>
=============================================================================
