--------------------------- MODULE RpcConn_proof ---------------------------
(***************************************************************************)
(* Proofs about RpcConn, for any set of calls, any bound on the sequence   *)
(* numbers and any environment, overlapping writers included; and, in the  *)
(* second half, about the stream, without overlapping writers.             *)
(***************************************************************************)
EXTENDS RpcConn, SequenceTheorems, FiniteSetTheorems, TLAPS

\* The constants are what the modules assume of them.
LEMMA Constants ==
  /\ NoCall \notin Calls
  /\ Kinds \subseteq AllKinds
  /\ MaxSeq \in Nat
  /\ Seqs = 1..MaxSeq
  /\ Outcomes \subseteq AllOutcomes
  /\ Options \subseteq {"good", "badMagic"}
BY CallsAssumption, KindsAssumption, MaxSeqAssumption, OutcomesAssumption,
   OptionsAssumption DEF Seqs

\* The records that Hdr, Body, Opt and Junk build are values of the wire.
LEMMA ValueTypes ==
  /\ \A s \in Seqs, t \in AllKinds \cup AllOutcomes :
       Hdr(s, t) \in Values /\ Body(s, t) \in Values
  /\ \A o \in {"good", "badMagic"} : Opt(o) \in Values
  /\ Junk \in Values
BY DEF Values, Hdr, Body, Opt, Junk

\* A header or a body carries a number that was given out.
LEMMA WireSeq ==
  ASSUME NEW v \in Values, v.kind \in {"hdr", "body"}
  PROVE  v.seq \in Seqs
BY DEF Values

\* Taking one value from the wire leaves values on the wire.
LEMMA HeadTail ==
  ASSUME NEW q \in Seq(Values), q # <<>>
  PROVE  Head(q) \in Values /\ Tail(q) \in Seq(Values)
OBVIOUS

\* The parts of IInv that server steps leave alone.
LEMMA ClientUnchanged ==
  ASSUME ClientTypeOK, ClientInv, UNCHANGED clientVars
  PROVE  ClientTypeOK' /\ ClientInv'
BY DEF clientVars, callVars, tableVars, recvVars, ClientTypeOK, ClientInv, SeqInv,
       PendingInv, ReceiveInv, CompletionInv, AnswerInv

\* The wire and the server's side of IInv.
WireInv == ServerTypeOK /\ ConnTypeOK /\ (srv = "body" => req \in Seqs)

\* The inductive invariant is that of the client, and that of what is on the
\* wire and at the server.
LEMMA SplitIInv == IInv <=> ClientTypeOK /\ WireInv /\ ClientInv
BY DEF IInv, TypeOK, WireInv

\* A step that leaves the connection and the server alone keeps the second.
LEMMA WireUnchanged ==
  ASSUME WireInv, UNCHANGED serverVars, UNCHANGED connVars
  PROVE  WireInv'
BY DEF WireInv, ServerTypeOK, ConnTypeOK, serverVars, connVars

\* The initial states satisfy the inductive invariant.
LEMMA InitIInv == Init => IInv
<1> SUFFICES ASSUME Init PROVE IInv
  OBVIOUS
<1> USE MaxSeqAssumption, OptionsAssumption
<1>1. PICK o \in Options : ConnInit(o)
  BY DEF Init
<1>2. ConnTypeOK
  <2>1. Opt(o) \in Values
    BY ValueTypes
  <2>2. <<Opt(o)>> \in Seq(Values) /\ <<>> \in Seq(Values)
    BY <2>1
  <2>3. buf \in Seq(Values) /\ c2s \in Seq(Values) /\ s2c \in Seq(Values)
    BY <1>1, <2>2 DEF ConnInit
  <2>4. werr \in BOOLEAN /\ cOpen \in BOOLEAN /\ sOpen \in BOOLEAN /\ link \in BOOLEAN
    BY <1>1, Zenon DEF ConnInit
  <2> QED
    BY <2>3, <2>4 DEF ConnTypeOK
<1>3. ServerTypeOK /\ srv # "body"
  <2>1. garbled \in BOOLEAN
    BY Zenon DEF Init, ServerInit
  <2>2. srv = "options" /\ req = 0 /\ handlers = <<>>
    BY DEF Init, ServerInit
  <2> QED
    BY <2>1, <2>2 DEF ServerTypeOK
<1>4. ClientTypeOK
  <2>1. closing \in BOOLEAN /\ shutdown \in BOOLEAN
    BY Zenon DEF Init, ClientInit
  <2>2. wbad \in [Calls -> BOOLEAN]
    BY DEF Init, ClientInit
  <2>3. call \in [Calls -> [Seq : 0..MaxSeq, Error : {"nil", "err"},
                           Reply : 0..MaxSeq, Done : {0, 1}]]
    BY DEF Init, ClientInit, NewCall
  <2> QED
    BY <2>1, <2>2, <2>3 DEF Init, ClientInit, ClientTypeOK
<1>5. ClientInv
  BY DEF Init, ClientInit, NewCall, ClientInv, SeqInv, PendingInv, ReceiveInv,
         CompletionInv, AnswerInv
<1> QED
  BY <1>2, <1>3, <1>4, <1>5 DEF IInv, TypeOK

-----------------------------------------------------------------------------
\* registerCall gives a number that no other call has.
LEMMA RegisterCallStep ==
  ASSUME ClientTypeOK, WireInv, ClientInv, NEW c \in Calls, RegisterCall(c), UNCHANGED serverVars
  PROVE  ClientTypeOK' /\ WireInv' /\ ClientInv'
<1> USE MaxSeqAssumption, CallsAssumption DEF Seqs
<1>1. WireInv'
  BY WireUnchanged DEF RegisterCall
<1>2. ClientTypeOK'
  <2>1. call' \in [Calls -> [Seq : 0..MaxSeq, Error : {"nil", "err"},
                            Reply : 0..MaxSeq, Done : {0, 1}]]
    BY DEF RegisterCall, ClientTypeOK, Numbered
  <2>2. pending' \in [Seqs -> Calls \cup {NoCall}]
    BY DEF RegisterCall, ClientTypeOK, Registered
  <2>3. seq' \in 1..(MaxSeq + 1) /\ late' \in SUBSET Calls
    BY DEF RegisterCall, ClientTypeOK
  <2> QED
    BY <2>1, <2>2, <2>3 DEF RegisterCall, ClientTypeOK, recvVars
<1>3. SeqInv'
  BY DEF RegisterCall, ClientTypeOK, ClientInv, SeqInv, Registered, Numbered, recvVars
<1>4. PendingInv'
  BY DEF RegisterCall, ClientTypeOK, ClientInv, SeqInv, PendingInv, Registered, Numbered, recvVars
<1>5. ReceiveInv'
  BY DEF RegisterCall, ClientTypeOK, ClientInv, SeqInv, PendingInv, ReceiveInv, Registered, Numbered, recvVars
<1>6. CompletionInv'
  BY DEF RegisterCall, ClientTypeOK, ClientInv, SeqInv, PendingInv, ReceiveInv, CompletionInv, Registered, Numbered, recvVars
<1>7. AnswerInv'
  BY DEF RegisterCall, ClientTypeOK, ClientInv, SeqInv, PendingInv, ReceiveInv, CompletionInv, AnswerInv, Registered, Numbered, recvVars
<1> QED
  BY <1>1, <1>2, <1>3, <1>4, <1>5, <1>6, <1>7 DEF ClientInv

-----------------------------------------------------------------------------
\* send after a failed Write completes its own call, if it is still filed.
LEMMA SendFailStep ==
  ASSUME ClientTypeOK, WireInv, ClientInv, NEW c \in Calls, SendFail(c), UNCHANGED serverVars
  PROVE  ClientTypeOK' /\ WireInv' /\ ClientInv'
<1> USE MaxSeqAssumption, CallsAssumption DEF Seqs, Removed
<1> DEFINE s == call[c].Seq
<1>1. WireInv'
  BY WireUnchanged DEF SendFail
<1>2. s \in Seqs /\ (pending[s] = NoCall \/ pending[s] = c)
  BY DEF SendFail, ClientTypeOK, ClientInv, SeqInv, PendingInv
<1>3. pending' = [pending EXCEPT ![s] = NoCall]
  BY DEF SendFail
<1>4. UNCHANGED <<kind, wn, wbad, ret, seq, closing, shutdown, late, rcv, rcall, rerr>>
  BY DEF SendFail, recvVars
<1>5. CASE pending[s] = NoCall
  <2>1. call' = call /\ cpc' = [cpc EXCEPT ![c] = "wait"] /\ cpc[c] = "fail"
    BY <1>5 DEF SendFail
  <2> QED
    BY <1>1, <1>2, <1>3, <1>4, <1>5, <2>1 DEF ClientTypeOK, ClientInv, SeqInv, PendingInv,
       ReceiveInv, CompletionInv, AnswerInv
<1>6. CASE pending[s] = c
  <2>1. /\ cpc[c] = "fail"
        /\ call' = [call EXCEPT ![c] = Completed(call[c], "err")]
        /\ \/ cpc' = [cpc EXCEPT ![c] = "stuck"]
           \/ cpc' = [cpc EXCEPT ![c] = "wait"]
    BY <1>6 DEF SendFail
  <2>2. ClientTypeOK'
    BY <1>2, <1>3, <1>4, <2>1 DEF ClientTypeOK, Completed
  <2>3. /\ \A d \in Calls : call'[d].Seq = call[d].Seq /\ call'[d].Reply = call[d].Reply
        /\ \A d \in Calls \ {c} : call'[d] = call[d] /\ cpc'[d] = cpc[d]
        /\ call'[c].Done = 1 /\ call'[c].Error = "err" /\ cpc'[c] \in {"stuck", "wait"}
    BY <2>1 DEF ClientTypeOK, Completed
  <2>4. SeqInv' /\ PendingInv'
    BY <1>2, <1>3, <1>4, <2>1, <2>3 DEF ClientTypeOK, ClientInv, SeqInv, PendingInv
  <2>5. ReceiveInv'
    BY <1>2, <1>3, <1>4, <1>6, <2>1, <2>3 DEF ClientTypeOK, ClientInv, SeqInv, PendingInv, ReceiveInv
  <2>6. CompletionInv'
    BY <1>2, <1>3, <1>4, <1>6, <2>1, <2>3 DEF ClientTypeOK, ClientInv, SeqInv, PendingInv,
       CompletionInv
  <2>7. AnswerInv'
    BY <1>4, <2>1, <2>3 DEF ClientTypeOK, ClientInv, AnswerInv
  <2> QED
    BY <1>1, <2>2, <2>4, <2>5, <2>6, <2>7 DEF ClientInv
<1> QED
  BY <1>2, <1>5, <1>6

-----------------------------------------------------------------------------
\* Call returns what its Call holds.
LEMMA AwaitDoneStep ==
  ASSUME ClientTypeOK, WireInv, ClientInv, NEW c \in Calls, AwaitDone(c), UNCHANGED serverVars
  PROVE  ClientTypeOK' /\ WireInv' /\ ClientInv'
<1> USE MaxSeqAssumption, CallsAssumption DEF Seqs
<1>1. WireInv'
  BY WireUnchanged DEF AwaitDone
<1>2. ClientTypeOK'
  BY DEF AwaitDone, ClientTypeOK, tableVars, recvVars
<1>3. SeqInv'
  BY DEF AwaitDone, ClientTypeOK, ClientInv, SeqInv, tableVars, recvVars
<1>4. PendingInv'
  BY DEF AwaitDone, ClientTypeOK, ClientInv, SeqInv, PendingInv, tableVars, recvVars
<1>5. ReceiveInv'
  BY DEF AwaitDone, ClientTypeOK, ClientInv, SeqInv, PendingInv, ReceiveInv, tableVars, recvVars
<1>6. CompletionInv'
  BY DEF AwaitDone, ClientTypeOK, ClientInv, SeqInv, PendingInv, ReceiveInv, CompletionInv, tableVars, recvVars
<1>7. AnswerInv'
  BY DEF AwaitDone, ClientTypeOK, ClientInv, SeqInv, PendingInv, ReceiveInv, CompletionInv, AnswerInv, tableVars, recvVars
<1> QED
  BY <1>1, <1>2, <1>3, <1>4, <1>5, <1>6, <1>7 DEF ClientInv

-----------------------------------------------------------------------------
\* A cancelled call leaves pending before it returns.
LEMMA AwaitCancelStep ==
  ASSUME ClientTypeOK, WireInv, ClientInv, NEW c \in Calls, AwaitCancel(c), UNCHANGED serverVars
  PROVE  ClientTypeOK' /\ WireInv' /\ ClientInv'
<1> USE MaxSeqAssumption, CallsAssumption DEF Seqs
<1>1. WireInv'
  BY WireUnchanged DEF AwaitCancel
<1>2. ClientTypeOK'
  BY DEF AwaitCancel, ClientTypeOK, Removed, Completed, tableVars, recvVars
<1>3. SeqInv'
  BY DEF AwaitCancel, ClientTypeOK, ClientInv, SeqInv, Removed, Completed, tableVars, recvVars
<1>4. PendingInv'
  BY DEF AwaitCancel, ClientTypeOK, ClientInv, SeqInv, PendingInv, Removed, Completed, tableVars, recvVars
<1>5. ReceiveInv'
  BY DEF AwaitCancel, ClientTypeOK, ClientInv, SeqInv, PendingInv, ReceiveInv, Removed, Completed, tableVars, recvVars
<1>6. CompletionInv'
  BY DEF AwaitCancel, ClientTypeOK, ClientInv, SeqInv, PendingInv, ReceiveInv, CompletionInv, Removed, Completed, tableVars, recvVars
<1>7. AnswerInv'
  BY DEF AwaitCancel, ClientTypeOK, ClientInv, SeqInv, PendingInv, ReceiveInv, CompletionInv, AnswerInv, Removed, Completed, tableVars, recvVars
<1> QED
  BY <1>1, <1>2, <1>3, <1>4, <1>5, <1>6, <1>7 DEF ClientInv

-----------------------------------------------------------------------------
\* terminateCalls completes all that is filed.
LEMMA TerminateCallsStep ==
  ASSUME ClientTypeOK, WireInv, ClientInv, TerminateCalls, UNCHANGED serverVars
  PROVE  ClientTypeOK' /\ WireInv' /\ ClientInv'
<1> USE MaxSeqAssumption, CallsAssumption DEF Seqs
<1>1. WireInv'
  BY WireUnchanged DEF TerminateCalls
<1>2. ClientTypeOK'
  BY DEF TerminateCalls, ClientTypeOK, Terminated, Completed, IsPending, tableVars, recvVars
<1>3. SeqInv'
  <2>1. \A d \in Calls : call'[d].Seq = call[d].Seq
    BY DEF TerminateCalls, Terminated, Completed
  <2>2. \A d \in Calls : cpc[d] = "idle" => call'[d] = call[d]
    BY DEF TerminateCalls, Terminated, IsPending, ClientTypeOK, ClientInv, PendingInv
  <2> QED
    BY <2>1, <2>2 DEF TerminateCalls, ClientTypeOK, ClientInv, SeqInv
<1>4. PendingInv'
  BY DEF TerminateCalls, ClientTypeOK, ClientInv, SeqInv, PendingInv, Terminated, Completed, IsPending, tableVars, recvVars
<1>5. ReceiveInv'
  BY DEF TerminateCalls, ClientTypeOK, ClientInv, SeqInv, PendingInv, ReceiveInv, Terminated, Completed, IsPending, tableVars, recvVars
<1>6. CompletionInv'
  BY DEF TerminateCalls, ClientTypeOK, ClientInv, SeqInv, PendingInv, ReceiveInv, CompletionInv, Terminated, Completed, IsPending, tableVars, recvVars
<1>7. AnswerInv'
  BY DEF TerminateCalls, ClientTypeOK, ClientInv, SeqInv, PendingInv, ReceiveInv, CompletionInv, AnswerInv, Terminated, Completed, IsPending, tableVars, recvVars
<1> QED
  BY <1>1, <1>2, <1>3, <1>4, <1>5, <1>6, <1>7 DEF ClientInv

-----------------------------------------------------------------------------
(* The steps of GobCodec.Write only move the caller and fill the wire.     *)

\* A caller that moves within Write keeps the invariant of the client: its
\* call stays filed, held or complete.
LEMMA WriteProgress ==
  ASSUME ClientTypeOK, ClientInv, NEW c \in Calls,
         cpc[c] \in {"header", "body", "flush", "flushing"},
         NEW x \in {"body", "flush", "flushing", "fail", "wait"},
         cpc' = [cpc EXCEPT ![c] = x],
         wn' \in [Calls -> Nat], wbad' \in [Calls -> BOOLEAN],
         UNCHANGED <<kind, call, ret, tableVars, recvVars>>
  PROVE  ClientTypeOK' /\ ClientInv'
<1> USE DEF tableVars, recvVars
<1>1. ClientTypeOK'
  BY DEF ClientTypeOK
<1>2. SeqInv' /\ PendingInv' /\ ReceiveInv'
  BY DEF ClientTypeOK, ClientInv, SeqInv, PendingInv, ReceiveInv
<1>3. CompletionInv' /\ AnswerInv'
  BY DEF ClientTypeOK, ClientInv, CompletionInv, AnswerInv
<1> QED
  BY <1>1, <1>2, <1>3 DEF ClientInv

\* What Encode leaves in the buffer is a value of the stream.
LEMMA EncodeType ==
  ASSUME ClientTypeOK, WireInv, NEW c \in Calls, NEW v \in Values, Encode(c, v)
  PROVE  buf' \in Seq(Values) /\ wn' \in [Calls -> Nat]
<1>1. CASE buf' = Append(buf, v) /\ UNCHANGED wn
  BY <1>1 DEF WireInv, ConnTypeOK, ClientTypeOK
<1>2. CASE \E d \in Calls \ {c} :
             /\ \E x \in {Junk} \cup {buf[i] : i \in 1..Len(buf)} : buf' = <<x>>
             /\ wn' = [wn EXCEPT ![d] = 0]
  <2>1. PICK x \in {Junk} \cup {buf[i] : i \in 1..Len(buf)} : buf' = <<x>>
    BY <1>2
  <2>2. x \in Values
    BY <2>1, ValueTypes DEF WireInv, ConnTypeOK
  <2>3. wn' \in [Calls -> Nat]
    BY <1>2 DEF ClientTypeOK
  <2> QED
    BY <2>1, <2>2, <2>3
<1> QED
  BY <1>1, <1>2 DEF Encode

\* The values a caller puts on the wire.
LEMMA RequestTypes ==
  ASSUME ClientTypeOK, ClientInv, NEW c \in Calls, cpc[c] # "idle"
  PROVE  Hdr(call[c].Seq, kind[c]) \in Values /\ Body(call[c].Seq, kind[c]) \in Values
<1>1. call[c].Seq \in Seqs
  BY MaxSeqAssumption DEF ClientTypeOK, ClientInv, SeqInv, Seqs
<1>2. kind[c] \in AllKinds
  BY KindsAssumption DEF ClientTypeOK
<1> QED
  BY <1>1, <1>2, ValueTypes

\* The first Encode of Write.
LEMMA EncodeHeaderStep ==
  ASSUME ClientTypeOK, WireInv, ClientInv, NEW c \in Calls, EncodeHeader(c),
         UNCHANGED serverVars
  PROVE  ClientTypeOK' /\ WireInv' /\ ClientInv'
<1>1. cpc[c] = "header" /\ UNCHANGED <<kind, call, ret, tableVars, recvVars>>
  BY DEF EncodeHeader
<1>2. UNCHANGED <<werr, c2s, s2c, cOpen, sOpen, link>>
  BY DEF EncodeHeader
<1>3. buf' \in Seq(Values) /\ wn' \in [Calls -> Nat] /\ wbad' \in [Calls -> BOOLEAN]
  <2>1. CASE EncodeFails(c)
    BY <2>1 DEF EncodeFails, WireInv, ConnTypeOK, ClientTypeOK
  <2>2. CASE Encode(c, Hdr(call[c].Seq, kind[c])) /\ UNCHANGED wbad
    BY <1>1, <2>2, RequestTypes, EncodeType DEF ClientTypeOK
  <2> QED
    BY <2>1, <2>2 DEF EncodeHeader
<1>4. \E x \in {"body", "flush"} : cpc' = [cpc EXCEPT ![c] = x]
  BY DEF EncodeHeader, EncodeFails
<1>5. ClientTypeOK' /\ ClientInv'
  BY <1>1, <1>3, <1>4, WriteProgress
<1>6. WireInv'
  BY <1>2, <1>3 DEF WireInv, ServerTypeOK, ConnTypeOK, serverVars
<1> QED
  BY <1>5, <1>6

\* The second Encode of Write.
LEMMA EncodeBodyStep ==
  ASSUME ClientTypeOK, WireInv, ClientInv, NEW c \in Calls, EncodeBody(c),
         UNCHANGED serverVars
  PROVE  ClientTypeOK' /\ WireInv' /\ ClientInv'
<1>1. cpc[c] = "body" /\ UNCHANGED <<kind, call, ret, tableVars, recvVars>>
  BY DEF EncodeBody
<1>2. UNCHANGED <<werr, c2s, s2c, cOpen, sOpen, link>>
  BY DEF EncodeBody
<1>3. buf' \in Seq(Values) /\ wn' \in [Calls -> Nat] /\ wbad' \in [Calls -> BOOLEAN]
  <2>1. CASE EncodeFails(c)
    BY <2>1 DEF EncodeFails, WireInv, ConnTypeOK, ClientTypeOK
  <2>2. CASE Encode(c, Body(call[c].Seq, kind[c])) /\ UNCHANGED wbad
    BY <1>1, <2>2, RequestTypes, EncodeType DEF ClientTypeOK
  <2> QED
    BY <2>1, <2>2 DEF EncodeBody
<1>4. cpc' = [cpc EXCEPT ![c] = "flush"]
  BY DEF EncodeBody, EncodeFails
<1>5. ClientTypeOK' /\ ClientInv'
  BY <1>1, <1>3, <1>4, WriteProgress
<1>6. WireInv'
  BY <1>2, <1>3 DEF WireInv, ServerTypeOK, ConnTypeOK, serverVars
<1> QED
  BY <1>5, <1>6

\* Flush hands the buffer to the connection.
LEMMA FlushWriteStep ==
  ASSUME ClientTypeOK, WireInv, ClientInv, NEW c \in Calls, FlushWrite(c),
         UNCHANGED serverVars
  PROVE  ClientTypeOK' /\ WireInv' /\ ClientInv'
<1>1. /\ cpc[c] = "flush" /\ cpc' = [cpc EXCEPT ![c] = "flushing"]
      /\ UNCHANGED <<kind, call, wbad, ret, tableVars, recvVars>>
      /\ UNCHANGED <<buf, s2c, cOpen, sOpen, link>>
  BY DEF FlushWrite
<1>2. wn' \in [Calls -> Nat]
  <2>1. Len(buf) \in Nat
    BY DEF WireInv, ConnTypeOK
  <2>2. \E n \in {0, Len(buf)} : wn' = [wn EXCEPT ![c] = n]
    BY Zenon DEF FlushWrite
  <2> QED
    BY <2>1, <2>2 DEF ClientTypeOK
<1>3. c2s' \in Seq(Values) /\ werr' \in BOOLEAN
  <2>1. CASE UNCHANGED <<werr, c2s>>
    BY <2>1 DEF WireInv, ConnTypeOK
  <2>2. CASE Transmit
    <3>1. c2s' = c2s \/ c2s' = c2s \o buf
      BY <2>2 DEF Transmit
    <3>2. c2s' \in Seq(Values)
      BY <3>1, ConcatProperties DEF WireInv, ConnTypeOK
    <3>3. werr' \in BOOLEAN
      BY <2>2, Zenon DEF Transmit, WireInv, ConnTypeOK
    <3> QED
      BY <3>2, <3>3
  <2> QED
    BY <2>1, <2>2 DEF FlushWrite
<1>4. ClientTypeOK' /\ ClientInv'
  <2>1. wbad' \in [Calls -> BOOLEAN]
    BY <1>1 DEF ClientTypeOK
  <2> QED
    BY <1>1, <1>2, <2>1, WriteProgress
<1>5. WireInv'
  BY <1>1, <1>3 DEF WireInv, ServerTypeOK, ConnTypeOK, serverVars
<1> QED
  BY <1>4, <1>5

\* The end of Flush, and the Close after a failed Encode.
LEMMA FlushEndStep ==
  ASSUME ClientTypeOK, WireInv, ClientInv, NEW c \in Calls, FlushEnd(c),
         UNCHANGED serverVars
  PROVE  ClientTypeOK' /\ WireInv' /\ ClientInv'
<1>1. /\ cpc[c] = "flushing"
      /\ UNCHANGED <<kind, call, wbad, ret, tableVars, recvVars>>
      /\ UNCHANGED <<c2s, s2c, sOpen, link>>
  BY DEF FlushEnd
<1>2. wn' \in [Calls -> Nat] /\ wbad' \in [Calls -> BOOLEAN]
  BY <1>1 DEF FlushEnd, ClientTypeOK
<1>3. \E x \in {"fail", "wait"} : cpc' = [cpc EXCEPT ![c] = x]
  BY DEF FlushEnd
<1>4. buf' \in Seq(Values)
  <2>1. buf' = <<>> \/ buf' = buf
    BY Zenon DEF FlushEnd, ResetBuffer
  <2>2. <<>> \in Seq(Values)
    OBVIOUS
  <2> QED
    BY <2>1, <2>2 DEF WireInv, ConnTypeOK
<1>5. werr' \in BOOLEAN
  BY Zenon DEF FlushEnd, ResetBuffer, WireInv, ConnTypeOK
<1>6. cOpen' \in BOOLEAN
  BY DEF FlushEnd, CloseOnError
<1>7. ClientTypeOK' /\ ClientInv'
  BY <1>1, <1>2, <1>3, WriteProgress
<1>8. WireInv'
  BY <1>1, <1>4, <1>5, <1>6 DEF WireInv, ServerTypeOK, ConnTypeOK, serverVars
<1> QED
  BY <1>7, <1>8

\* Close touches no call.
LEMMA CloseStep ==
  ASSUME ClientTypeOK, WireInv, ClientInv, Close, UNCHANGED serverVars
  PROVE  ClientTypeOK' /\ WireInv' /\ ClientInv'
<1>1. UNCHANGED <<kind, cpc, call, wn, wbad, ret, seq, pending, shutdown, late, rcv, rcall, rerr>>
  BY DEF Close, callVars, recvVars
<1>2. closing' \in BOOLEAN /\ cOpen' \in BOOLEAN
  BY Zenon DEF Close
<1>3. UNCHANGED <<buf, werr, c2s, s2c, sOpen, link>>
  BY DEF Close
<1>4. ClientTypeOK'
  BY <1>1, <1>2 DEF ClientTypeOK
<1>5. ClientInv'
  BY <1>1 DEF ClientInv, SeqInv, PendingInv, ReceiveInv, CompletionInv, AnswerInv
<1>6. WireInv'
  BY <1>2, <1>3 DEF WireInv, ServerTypeOK, ConnTypeOK, serverVars
<1> QED
  BY <1>4, <1>5, <1>6

-----------------------------------------------------------------------------
(* The steps of receive.                                                   *)

\* Reading takes at most the first value from the wire.
LEMMA ReceiveWire ==
  ASSUME WireInv, UNCHANGED serverVars,
         \/ UNCHANGED s2c
         \/ ClientHas /\ s2c' = Tail(s2c),
         UNCHANGED <<buf, werr, c2s, cOpen, sOpen, link>>
  PROVE  WireInv'
<1>1. s2c' \in Seq(Values)
  BY HeadTail DEF ClientHas, WireInv, ConnTypeOK
<1> QED
  BY <1>1 DEF WireInv, ServerTypeOK, ConnTypeOK, serverVars

\* receive completes the call it holds.
LEMMA ReceiveCompletes ==
  ASSUME ClientTypeOK, ClientInv, rcall # NoCall, rcv \in {"reply", "discard"},
         NEW r \in [Seq : 0..MaxSeq, Error : {"nil", "err"},
                    Reply : 0..MaxSeq, Done : {0, 1}],
         r.Seq = call[rcall].Seq, r.Done = 1, r.Error = "err" \/ r.Reply # 0,
         call' = [call EXCEPT ![rcall] = r],
         rcall' = NoCall, rcv' \in {"header", "terminate"}, rerr' \in {"nil", "err"},
         UNCHANGED <<kind, cpc, wn, wbad, ret, tableVars>>
  PROVE  ClientTypeOK' /\ ClientInv'
<1> USE CallsAssumption DEF tableVars
<1> DEFINE c == rcall
<1>1. c \in Calls /\ call'[c] = r /\ \A d \in Calls \ {c} : call'[d] = call[d]
  BY DEF ClientTypeOK
<1>2. ClientTypeOK'
  BY DEF ClientTypeOK
<1>3. SeqInv'
  BY <1>1 DEF ClientTypeOK, ClientInv, SeqInv, ReceiveInv
<1>4. PendingInv'
  BY <1>1 DEF ClientTypeOK, ClientInv, PendingInv
<1>5. ReceiveInv'
  BY <1>1 DEF ClientTypeOK, ClientInv, ReceiveInv
<1>6. CompletionInv'
  BY <1>1 DEF ClientTypeOK, ClientInv, PendingInv, ReceiveInv, CompletionInv
<1>7. AnswerInv'
  BY <1>1 DEF ClientTypeOK, ClientInv, ReceiveInv, AnswerInv
<1> QED
  BY <1>2, <1>3, <1>4, <1>5, <1>6, <1>7 DEF ClientInv

\* receive leaves its loop without holding a call.
LEMMA ReceiveLeaves ==
  ASSUME ClientTypeOK, ClientInv, rcall = NoCall, rcv # "dead",
         rcall' = NoCall, rcv' = "terminate", rerr' \in {"nil", "err"},
         UNCHANGED <<kind, cpc, call, wn, wbad, ret, tableVars>>
  PROVE  ClientTypeOK' /\ ClientInv'
BY DEF ClientTypeOK, ClientInv, SeqInv, PendingInv, ReceiveInv, CompletionInv,
       AnswerInv, tableVars

\* receive completes the call it holds with the body it reads.
LEMMA RecvReplyStep ==
  ASSUME ClientTypeOK, WireInv, ClientInv, RecvReply, UNCHANGED serverVars
  PROVE  ClientTypeOK' /\ WireInv' /\ ClientInv'
<1>1. /\ rcv = "reply" /\ rcall \in Calls /\ rcall # NoCall
      /\ UNCHANGED <<kind, cpc, wn, wbad, ret, tableVars>>
  BY CallsAssumption DEF RecvReply, ClientTypeOK, ClientInv, ReceiveInv
<1>2. WireInv'
  BY ReceiveWire DEF RecvReply, ReadFails
<1>3. rcall' = NoCall /\ rcv' \in {"header", "terminate"} /\ rerr' \in {"nil", "err"}
  BY DEF RecvReply, ReadFails, ClientTypeOK
<1>4. CASE call' = [call EXCEPT ![rcall] = Completed(call[rcall], "err")]
  <2>1. /\ Completed(call[rcall], "err") \in [Seq : 0..MaxSeq, Error : {"nil", "err"},
                                              Reply : 0..MaxSeq, Done : {0, 1}]
        /\ Completed(call[rcall], "err").Seq = call[rcall].Seq
        /\ Completed(call[rcall], "err").Done = 1
        /\ Completed(call[rcall], "err").Error = "err"
    BY <1>1 DEF ClientTypeOK, Completed
  <2> QED
    BY <1>1, <1>2, <1>3, <1>4, <2>1, ReceiveCompletes
<1>5. CASE ClientHas /\ Head(s2c).kind = "body"
           /\ call' = [call EXCEPT ![rcall] = Replied(call[rcall], Head(s2c).seq)]
  <2>1. Head(s2c).seq \in Seqs
    BY <1>5, HeadTail, WireSeq DEF ClientHas, WireInv, ConnTypeOK
  <2>2. /\ Replied(call[rcall], Head(s2c).seq) \in [Seq : 0..MaxSeq, Error : {"nil", "err"},
                                                    Reply : 0..MaxSeq, Done : {0, 1}]
        /\ Replied(call[rcall], Head(s2c).seq).Seq = call[rcall].Seq
        /\ Replied(call[rcall], Head(s2c).seq).Done = 1
        /\ Replied(call[rcall], Head(s2c).seq).Reply # 0
    BY <1>1, <2>1, MaxSeqAssumption DEF ClientTypeOK, Replied, Seqs
  <2> QED
    BY <1>1, <1>2, <1>3, <1>5, <2>2, ReceiveCompletes
<1> QED
  BY <1>4, <1>5 DEF RecvReply

\* receive drops a body, completes the call it holds, if any, and ends.
LEMMA RecvDiscardStep ==
  ASSUME ClientTypeOK, WireInv, ClientInv, RecvDiscard, UNCHANGED serverVars
  PROVE  ClientTypeOK' /\ WireInv' /\ ClientInv'
<1>1. rcv = "discard" /\ UNCHANGED <<kind, cpc, wn, wbad, ret, tableVars>>
  BY DEF RecvDiscard
<1>2. WireInv'
  BY ReceiveWire DEF RecvDiscard, ReadFails
<1>3. rcall' = NoCall /\ rcv' = "terminate" /\ rerr' \in {"nil", "err"}
  BY DEF RecvDiscard, ReadFails, ClientTypeOK
<1>4. CASE rcall = NoCall
  BY <1>1, <1>2, <1>3, <1>4, ReceiveLeaves DEF RecvDiscard
<1>5. CASE rcall # NoCall
  <2> DEFINE r == Completed(call[rcall], call[rcall].Error)
  <2>1. call' = [call EXCEPT ![rcall] = r]
    BY <1>5 DEF RecvDiscard
  <2>2. /\ r \in [Seq : 0..MaxSeq, Error : {"nil", "err"}, Reply : 0..MaxSeq, Done : {0, 1}]
        /\ r.Seq = call[rcall].Seq /\ r.Done = 1 /\ r.Error = "err"
    BY <1>1, <1>5 DEF ClientTypeOK, ClientInv, ReceiveInv, Completed
  <2> QED
    BY <1>1, <1>2, <1>3, <1>5, <2>1, <2>2, ReceiveCompletes
<1> QED
  BY <1>4, <1>5

\* receive takes the call out of pending that the header names.
LEMMA RecvHeaderStep ==
  ASSUME ClientTypeOK, WireInv, ClientInv, RecvHeader, UNCHANGED serverVars
  PROVE  ClientTypeOK' /\ WireInv' /\ ClientInv'
<1> USE CallsAssumption
<1>1. /\ rcv = "header" /\ rcall = NoCall
      /\ UNCHANGED <<kind, cpc, wn, wbad, ret, seq, closing, shutdown, late>>
  BY DEF RecvHeader, ClientInv, ReceiveInv
<1>2. WireInv'
  BY ReceiveWire DEF RecvHeader, ReadFails
<1>3. CASE rcall' = NoCall /\ rcv' = "terminate" /\ rerr' = "err" /\ UNCHANGED <<call, pending>>
  BY <1>1, <1>2, <1>3, ReceiveLeaves DEF tableVars
<1>4. CASE rcv' \in {"discard", "reply"}
  <2> DEFINE s == Head(s2c).seq
             p == pending[s]
  <2>0. ClientHas /\ Head(s2c).kind = "hdr"
    BY <1>4 DEF RecvHeader, ReadFails
  <2>1. s \in Seqs
    BY <2>0, HeadTail, WireSeq DEF ClientHas, WireInv, ConnTypeOK
  <2>2. /\ rcall' = p /\ pending' = [pending EXCEPT ![s] = NoCall] /\ rerr' = rerr
        /\ rcv' \in {"discard", "reply"}
        /\ p = NoCall => rcv' = "discard"
    BY <1>4, <2>0 DEF RecvHeader, Removed, ReadFails
  <2>3. /\ p = NoCall => call' = call
        /\ p # NoCall /\ rcv' = "discard" => call' = [call EXCEPT ![p] = Failed(call[p])]
        /\ p # NoCall /\ rcv' = "reply" => call' = call
    BY <1>4, <2>0, <2>2 DEF RecvHeader, ReadFails
  <2>4. /\ call' \in [Calls -> [Seq : 0..MaxSeq, Error : {"nil", "err"},
                               Reply : 0..MaxSeq, Done : {0, 1}]]
        /\ \A d \in Calls : /\ call'[d].Seq = call[d].Seq
                            /\ call'[d].Done = call[d].Done
                            /\ call'[d].Reply = call[d].Reply
                            /\ d # p => call'[d] = call[d]
                            /\ d = p /\ rcv' = "discard" => call'[d].Error = "err"
    <3>1. CASE call' = call /\ (p = NoCall \/ rcv' = "reply")
      BY <3>1 DEF ClientTypeOK
    <3>2. CASE p # NoCall /\ call' = [call EXCEPT ![p] = Failed(call[p])]
      <4>1. p \in Calls
        BY <2>1, <3>2 DEF ClientTypeOK
      <4> QED
        BY <3>2, <4>1 DEF ClientTypeOK, Failed
    <3> QED
      BY <2>2, <2>3, <3>1, <3>2
  <2>5. ClientTypeOK'
    BY <1>1, <2>1, <2>2, <2>4 DEF ClientTypeOK
  <2>6. SeqInv' /\ PendingInv'
    BY <1>1, <2>1, <2>2, <2>4 DEF ClientTypeOK, ClientInv, SeqInv, PendingInv
  <2>7. ReceiveInv'
    BY <1>1, <2>1, <2>2, <2>4 DEF ClientTypeOK, ClientInv, PendingInv, ReceiveInv, CompletionInv
  <2>8. CompletionInv'
    BY <1>1, <2>1, <2>2, <2>4 DEF ClientTypeOK, ClientInv, SeqInv, PendingInv, CompletionInv
  <2>9. AnswerInv'
    BY <1>1, <2>1, <2>2, <2>4 DEF ClientTypeOK, ClientInv, PendingInv, CompletionInv, AnswerInv
  <2> QED
    BY <1>2, <2>5, <2>6, <2>7, <2>8, <2>9 DEF ClientInv
<1> QED
  BY <1>1, <1>3, <1>4 DEF RecvHeader, ReadFails

-----------------------------------------------------------------------------
(* The steps of the server and of the network.                             *)

\* What a response adds to the wire.
LEMMA ResponseType ==
  ASSUME WireInv, NEW h \in Values, NEW b \in Values, NEW e \in BOOLEAN,
         WriteResponse(h, b, e)
  PROVE  s2c' \in Seq(Values) /\ sOpen' \in BOOLEAN
<1>1. \/ s2c' = s2c \o <<h, b>>
      \/ s2c' = Append(s2c, h)
      \/ s2c' = s2c
  BY DEF WriteResponse
<1>2. <<h, b>> \in Seq(Values)
  OBVIOUS
<1>3. s2c' \in Seq(Values)
  <2>1. s2c \in Seq(Values)
    BY DEF WireInv, ConnTypeOK
  <2>2. s2c \o <<h, b>> \in Seq(Values)
    BY <1>2, <2>1, ConcatProperties
  <2>3. Append(s2c, h) \in Seq(Values)
    BY <2>1, AppendProperties
  <2> QED
    BY <1>1, <2>1, <2>2, <2>3
<1>4. sOpen' \in BOOLEAN
  BY Zenon DEF WriteResponse, WireInv, ConnTypeOK
<1> QED
  BY <1>3, <1>4

\* An error response is two values of the stream.
LEMMA SendErrorType ==
  ASSUME WireInv, NEW s \in Seqs, SendError(s)
  PROVE  s2c' \in Seq(Values) /\ sOpen' \in BOOLEAN
<1>1. Hdr(s, "err") \in Values /\ Body(s, "err") \in Values
  BY ValueTypes DEF AllOutcomes
<1> QED
  BY <1>1, ResponseType DEF SendError

\* The handshake changes only what the server has yet to read.
LEMMA ServeOptionsStep ==
  ASSUME WireInv, ServeOptions
  PROVE  WireInv'
<1>1. /\ UNCHANGED <<req, handlers, s2c, buf, werr, cOpen, link>>
      /\ srv' \in {"header", "closed"}
  BY Zenon DEF ServeOptions
<1>2. c2s' \in Seq(Values) /\ garbled' \in BOOLEAN
  <2>1. CASE ServerReadFails /\ UNCHANGED garbled
    BY <2>1, EmptySeq DEF ServerReadFails, WireInv, ServerTypeOK
  <2>2. CASE \E k \in 0..(Len(c2s) - 1) :
               /\ c2s' = SubSeq(c2s, k + 2, Len(c2s))
               /\ garbled' = (k > 0)
    BY <2>2, SubSeqProperties DEF WireInv, ConnTypeOK
  <2> QED
    BY <2>1, <2>2 DEF ServeOptions
<1>3. sOpen' \in BOOLEAN
  BY Zenon DEF ServeOptions, WireInv, ConnTypeOK
<1> QED
  BY <1>1, <1>2, <1>3 DEF WireInv, ServerTypeOK, ConnTypeOK

\* The server reads a header, and answers an unknown method.
LEMMA ReadHeaderStep ==
  ASSUME WireInv, ReadHeader
  PROVE  WireInv'
<1>1. /\ srv = "header"
      /\ UNCHANGED <<garbled, handlers, buf, werr, cOpen, link>>
  BY DEF ReadHeader
<1>2. CASE srv' = "drain" /\ UNCHANGED <<req, s2c, sOpen>> /\ c2s' = <<>>
  BY <1>1, <1>2, EmptySeq DEF WireInv, ServerTypeOK, ConnTypeOK
<1>3. CASE ServerHas /\ c2s' = Tail(c2s)
  <2> DEFINE h == Head(c2s)
  <2>1. h \in Values /\ c2s' \in Seq(Values)
    BY <1>3, HeadTail DEF ServerHas, WireInv, ConnTypeOK
  <2>2. CASE srv' = "drain" /\ UNCHANGED <<req, s2c, sOpen>>
    BY <1>1, <2>1, <2>2 DEF WireInv, ServerTypeOK, ConnTypeOK
  <2>3. CASE h.kind = "hdr" /\ SendError(h.seq) /\ UNCHANGED <<srv, req>>
    <3>1. s2c' \in Seq(Values) /\ sOpen' \in BOOLEAN
      BY <2>1, <2>3, WireSeq, SendErrorType
    <3> QED
      BY <1>1, <2>1, <2>3, <3>1 DEF WireInv, ServerTypeOK, ConnTypeOK
  <2>4. CASE h.kind = "hdr" /\ srv' = "body" /\ req' = h.seq /\ UNCHANGED <<s2c, sOpen>>
    <3>1. h.seq \in Seqs
      BY <2>1, <2>4, WireSeq
    <3> QED
      BY <1>1, <2>1, <2>4, <3>1, MaxSeqAssumption DEF WireInv, ServerTypeOK, ConnTypeOK, Seqs
  <2> QED
    BY <1>2, <1>3, <2>2, <2>3, <2>4 DEF ReadHeader, ServerReadFails
<1> QED
  BY <1>2, <1>3 DEF ReadHeader, ServerReadFails

\* The server reads a body, and starts a handler or answers.
LEMMA ReadBodyStep ==
  ASSUME WireInv, ReadBody
  PROVE  WireInv'
<1>1. /\ srv = "body" /\ srv' = "header" /\ req' = 0 /\ req \in Seqs
      /\ UNCHANGED <<garbled, buf, werr, cOpen, link>>
  BY DEF ReadBody, WireInv
<1>2. c2s' \in Seq(Values)
  BY HeadTail, EmptySeq DEF ReadBody, ServerReadFails, ServerHas, WireInv, ConnTypeOK
<1>3. CASE SendError(req) /\ UNCHANGED handlers
  <2>1. s2c' \in Seq(Values) /\ sOpen' \in BOOLEAN
    BY <1>1, <1>3, SendErrorType
  <2> QED
    BY <1>1, <1>2, <1>3, <2>1, MaxSeqAssumption DEF WireInv, ServerTypeOK, ConnTypeOK
<1>4. CASE /\ ServerHas /\ Head(c2s).kind = "body"
           /\ handlers' = Append(handlers, NewHandler(req, Head(c2s)))
           /\ UNCHANGED <<s2c, sOpen>>
  <2>1. Head(c2s).seq \in Seqs
    BY <1>4, HeadTail, WireSeq DEF ServerHas, WireInv, ConnTypeOK
  <2>2. NewHandler(req, Head(c2s)) \in [seq : Seqs, args : Seqs]
    BY <1>1, <2>1 DEF NewHandler
  <2>3. handlers' \in Seq([seq : Seqs, args : Seqs])
    BY <1>4, <2>2 DEF WireInv, ServerTypeOK
  <2> QED
    BY <1>1, <1>2, <1>4, <2>3, MaxSeqAssumption DEF WireInv, ServerTypeOK, ConnTypeOK
<1> QED
  BY <1>3, <1>4 DEF ReadBody

\* The handlers that go on when one has finished.
LEMMA FinishedType ==
  ASSUME WireInv, NEW i \in DOMAIN handlers
  PROVE  /\ Finished(i) \in Seq([seq : Seqs, args : Seqs])
         /\ handlers[i] \in [seq : Seqs, args : Seqs]
<1> DEFINE H == [seq : Seqs, args : Seqs]
<1>1. handlers \in Seq(H) /\ i \in 1..Len(handlers) /\ Len(handlers) \in Nat
  BY DEF WireInv, ServerTypeOK
<1> HIDE DEF H
<1>2. SubSeq(handlers, 1, i - 1) \in Seq(H) /\ SubSeq(handlers, i + 1, Len(handlers)) \in Seq(H)
  BY <1>1, SubSeqProperties
<1>3. Finished(i) \in Seq(H)
  BY <1>2, ConcatProperties DEF Finished
<1>4. handlers[i] \in H
  BY <1>1
<1> QED
  BY <1>3, <1>4 DEF H

\* A handler ends with a response.
LEMMA HandleStep ==
  ASSUME WireInv, NEW i \in DOMAIN handlers,
         \/ \E o \in Outcomes : HandleReturns(i, o)
         \/ HandleTimesOut(i)
  PROVE  WireInv'
<1>1. UNCHANGED <<srv, req, garbled, c2s, buf, werr, cOpen, link>> /\ handlers' = Finished(i)
  BY DEF HandleReturns, HandleTimesOut
<1>2. handlers[i].seq \in Seqs /\ handlers[i].args \in Seqs
  BY FinishedType
<1>3. s2c' \in Seq(Values) /\ sOpen' \in BOOLEAN
  <2>1. CASE SendError(handlers[i].seq)
    BY <1>2, <2>1, SendErrorType
  <2>2. CASE \E e \in BOOLEAN :
               WriteResponse(Hdr(handlers[i].seq, "ok"), Body(handlers[i].args, "ok"), e)
    <3>1. Hdr(handlers[i].seq, "ok") \in Values /\ Body(handlers[i].args, "ok") \in Values
      BY <1>2, ValueTypes DEF AllOutcomes
    <3> QED
      BY <2>2, <3>1, ResponseType
  <2> QED
    BY <2>1, <2>2 DEF HandleReturns, HandleTimesOut
<1> QED
  BY <1>1, <1>3, FinishedType DEF WireInv, ServerTypeOK, ConnTypeOK

\* The server closes its end.
LEMMA DrainStep ==
  ASSUME WireInv, Drain
  PROVE  WireInv'
<1>1. sOpen' \in BOOLEAN
  BY Zenon DEF Drain
<1>2. /\ srv' = "closed"
      /\ UNCHANGED <<req, garbled, handlers, c2s, s2c, buf, werr, cOpen, link>>
  BY DEF Drain
<1> QED
  BY <1>1, <1>2 DEF WireInv, ServerTypeOK, ConnTypeOK

\* The network breaks.
LEMMA CutStep ==
  ASSUME WireInv, Cut, UNCHANGED serverVars
  PROVE  WireInv'
<1>1. link' \in BOOLEAN
  BY Zenon DEF Cut
<1>2. (c2s' = c2s \/ c2s' = <<>>) /\ (s2c' = s2c \/ s2c' = <<>>)
  BY DEF Cut
<1>3. <<>> \in Seq(Values)
  OBVIOUS
<1>4. UNCHANGED <<buf, werr, cOpen, sOpen>>
  BY DEF Cut
<1> QED
  BY <1>1, <1>2, <1>3, <1>4 DEF WireInv, ServerTypeOK, ConnTypeOK, serverVars

-----------------------------------------------------------------------------
\* Every step keeps the invariant.
LEMMA NextIInv == IInv /\ [Next]_vars => IInv'
<1> SUFFICES ASSUME ClientTypeOK, WireInv, ClientInv, [Next]_vars
             PROVE  ClientTypeOK' /\ WireInv' /\ ClientInv'
  BY SplitIInv DEF IInv, TypeOK, WireInv
<1>1. ASSUME NEW c \in Calls, Begin(c) \/ Caller(c)
      PROVE  ClientTypeOK' /\ WireInv' /\ ClientInv'
  BY <1>1, RegisterCallStep, EncodeHeaderStep, EncodeBodyStep, FlushWriteStep,
     FlushEndStep, SendFailStep, AwaitDoneStep DEF Begin, Caller
<1>2. CASE Receive
  BY <1>2, RecvHeaderStep, RecvReplyStep, RecvDiscardStep, TerminateCallsStep DEF Receive
<1>3. CASE Serve
  BY <1>3, ClientUnchanged, ServeOptionsStep, ReadHeaderStep, ReadBodyStep, DrainStep DEF Serve
<1>4. CASE Returns \/ TimesOut
  BY <1>4, ClientUnchanged, HandleStep DEF Returns, TimesOut
<1>5. CASE Disturb
  BY <1>5, ClientUnchanged, AwaitCancelStep, CloseStep, CutStep DEF Disturb
<1>6. CASE UNCHANGED vars
  BY <1>6, ClientUnchanged, WireUnchanged DEF vars
<1> QED
  BY <1>1, <1>2, <1>3, <1>4, <1>5, <1>6 DEF Next

\* IInv holds in every reachable state.
THEOREM Invariance == Spec => []IInv
BY InitIInv, NextIInv, PTL DEF Spec

\* Every variable keeps its type: every record on the wire is one that a
\* GobCodec wrote, and every sequence number one that registerCall gave out.
THEOREM TypeCorrect == Spec => []TypeOK
<1>1. IInv => TypeOK
  BY DEF IInv
<1> QED
  BY <1>1, Invariance, PTL

\* terminateCalls leaves no caller behind that was registered in time.
THEOREM NoOrphans == Spec => []NoOrphanedCall
<1>1. IInv => NoOrphanedCall
  <2> SUFFICES ASSUME IInv, rcv = "dead", NEW c \in Calls, cpc[c] = "wait", c \notin late
               PROVE  call[c].Done = 1
    BY DEF NoOrphanedCall
  <2>1. call[c].Seq \in Seqs
    BY MaxSeqAssumption DEF IInv, TypeOK, ClientTypeOK, ClientInv, SeqInv, Seqs
  <2>2. pending[call[c].Seq] = c \/ rcall = c \/ call[c].Done = 1
    BY DEF IInv, ClientInv, CompletionInv
  <2>3. rcall # c
    BY CallsAssumption DEF IInv, ClientInv, ReceiveInv
  <2>4. pending[call[c].Seq] = c => call[c].Done = 1
    BY <2>1, CallsAssumption DEF IInv, ClientInv, CompletionInv
  <2> QED
    BY <2>2, <2>3, <2>4
<1> QED
  BY <1>1, Invariance, PTL

\* done() never blocks the receive goroutine.
THEOREM ReceiveNeverBlocks == Spec => []DoneHasRoom
<1>1. IInv => DoneHasRoom
  BY DEF IInv, ClientInv, ReceiveInv, CompletionInv, DoneHasRoom
<1> QED
  BY <1>1, Invariance, PTL

\* While receive lives, a call that send finds in pending has not been
\* completed, and its channel has room.
THEOREM SendBlocksLate == Spec => []StuckOnlyAfterShutdown
<1>1. Init => StuckOnlyAfterShutdown
  BY DEF Init, ClientInit, StuckOnlyAfterShutdown
<1>2. IInv /\ StuckOnlyAfterShutdown /\ [Next]_vars => StuckOnlyAfterShutdown'
  <2> SUFFICES ASSUME IInv, StuckOnlyAfterShutdown, [Next]_vars,
                      NEW c \in Calls, cpc'[c] = "stuck"
               PROVE  shutdown'
    BY DEF StuckOnlyAfterShutdown
  <2>1. cpc = [d \in Calls |-> cpc[d]]
    BY DEF IInv, TypeOK, ClientTypeOK
  <2>2. shutdown => shutdown'
    BY DEF Next, Begin, Caller, Receive, Serve, Returns, TimesOut, Disturb, vars, clientVars,
       tableVars, RegisterCall, EncodeHeader, EncodeBody, FlushWrite, FlushEnd, SendFail,
       AwaitDone, AwaitCancel, Close, Cut, RecvHeader, RecvReply, RecvDiscard, TerminateCalls
  <2>3. CASE cpc[c] = "stuck"
    BY <2>2, <2>3 DEF StuckOnlyAfterShutdown
  <2>4. CASE \E d \in Calls : SendFail(d)
    <3>1. PICK d \in Calls : SendFail(d)
      BY <2>4
    <3>2. CASE cpc[c] # "stuck"
      <4>1. d = c /\ pending[call[d].Seq] # NoCall /\ call[pending[call[d].Seq]].Done = 1
        BY <2>1, <3>1, <3>2 DEF SendFail
      <4>2. call[d].Seq \in Seqs
        BY <3>1, MaxSeqAssumption
           DEF SendFail, IInv, TypeOK, ClientTypeOK, ClientInv, SeqInv, Seqs
      <4>3. rcv = "dead"
        BY <4>1, <4>2 DEF IInv, ClientInv, CompletionInv
      <4> QED
        BY <2>2, <4>3 DEF IInv, ClientInv, ReceiveInv
    <3> QED
      BY <2>3, <3>2
  <2>5. CASE \A d \in Calls : ~SendFail(d)
    <3>1. cpc'[c] = cpc[c] \/ cpc'[c] # "stuck"
      BY <2>1, <2>5 DEF Next, Begin, Caller, Receive, Serve, Returns, TimesOut, Disturb, vars,
         clientVars, callVars, RegisterCall, EncodeHeader, EncodeBody, EncodeFails, FlushWrite,
         FlushEnd, AwaitDone, AwaitCancel, Close, Cut, RecvHeader, RecvReply, RecvDiscard,
         TerminateCalls
    <3> QED
      BY <2>3, <3>1
  <2> QED
    BY <2>4, <2>5
<1> QED
  BY <1>1, <1>2, Invariance, PTL DEF Spec

\* A nil error without a reply comes only from a receive loop that was left
\* without an error.
THEOREM SilenceExplained == Spec => []SilentOnlyAfterBreak
<1>1. IInv => SilentOnlyAfterBreak
  BY DEF IInv, ClientInv, AnswerInv, SilentOnlyAfterBreak
<1> QED
  BY <1>1, Invariance, PTL

\* The same invariant makes the answer of a call final.
THEOREM AnswersAreFinal == Spec => AnswerIsSettled
<1> DEFINE Settled == \A c \in Calls : ret[c] \in {"ok", "err"} => call'[c] = call[c]
<1>1. IInv /\ [Next]_vars => [Settled]_vars
  <2> SUFFICES ASSUME IInv, Next PROVE Settled
    OBVIOUS
  <2> SUFFICES ASSUME NEW c \in Calls, ret[c] \in {"ok", "err"} PROVE call'[c] = call[c]
    OBVIOUS
  <2>1. /\ call \in [Calls -> [Seq : 0..MaxSeq, Error : {"nil", "err"},
                               Reply : 0..MaxSeq, Done : {0, 1}]]
        /\ pending \in [Seqs -> Calls \cup {NoCall}]
        /\ cpc[c] = "returned" /\ call[c].Done = 1 /\ rcall # c
    BY CallsAssumption DEF IInv, TypeOK, ClientTypeOK, ClientInv, ReceiveInv, AnswerInv
  <2>2. ASSUME NEW d \in Calls, Begin(d) PROVE call'[c] = call[c]
    BY <2>1, <2>2 DEF Begin, RegisterCall
  <2>3. ASSUME NEW d \in Calls, SendFail(d) PROVE call'[c] = call[c]
    <3>1. call[d].Seq \in Seqs
      BY <2>3, MaxSeqAssumption DEF IInv, TypeOK, ClientTypeOK, ClientInv, SeqInv, SendFail, Seqs
    <3>2. pending[call[d].Seq] # c
      BY <2>1, <2>3, <3>1, CallsAssumption
         DEF IInv, ClientInv, SeqInv, PendingInv, SendFail
    <3> QED
      BY <2>1, <2>3, <3>1, <3>2 DEF SendFail
  <2>4. ASSUME NEW d \in Calls, Caller(d) PROVE call'[c] = call[c]
    BY <2>3, <2>4 DEF Caller, EncodeHeader, EncodeBody, FlushWrite, FlushEnd, AwaitDone
  <2>5. ASSUME RecvHeader PROVE call'[c] = call[c]
    <3>1. CASE UNCHANGED call
      BY <3>1
    <3>2. CASE /\ ClientHas /\ Head(s2c).kind = "hdr" /\ rcall' = pending[Head(s2c).seq]
               /\ rcall' # NoCall /\ call' = [call EXCEPT ![rcall'] = Failed(call[rcall'])]
      <4>1. Head(s2c).seq \in Seqs
        BY <3>2, HeadTail, WireSeq DEF ClientHas, IInv, TypeOK, ConnTypeOK
      <4>2. rcall' # c
        BY <2>1, <2>5, <3>2, <4>1 DEF RecvHeader, IInv, ClientInv, CompletionInv
      <4> QED
        BY <2>1, <3>2, <4>2
    <3> QED
      BY <2>5, <3>1, <3>2 DEF RecvHeader
  <2>6. ASSUME RecvReply \/ RecvDiscard PROVE call'[c] = call[c]
    BY <2>1, <2>6 DEF RecvReply, RecvDiscard
  <2>7. ASSUME TerminateCalls PROVE call'[c] = call[c]
    <3>1. ~IsPending(c)
      BY <2>1, <2>7, CallsAssumption DEF IsPending, TerminateCalls, IInv, ClientInv, CompletionInv
    <3> QED
      BY <2>7, <3>1 DEF TerminateCalls, Terminated
  <2>8. ASSUME Serve \/ Returns \/ TimesOut \/ Disturb PROVE call'[c] = call[c]
    BY <2>8 DEF Serve, Returns, TimesOut, Disturb, AwaitCancel, Close, Cut, clientVars, callVars
  <2> QED
    BY <2>2, <2>4, <2>5, <2>6, <2>7, <2>8 DEF Next, Receive
<1> QED
  BY <1>1, Invariance, PTL DEF Spec, AnswerIsSettled

-----------------------------------------------------------------------------
(* The stream, when no two callers overlap in Write.                       *)

\* t is what is left of q after some values have been read or dropped.
Suffix(t, q) ==
  \E m \in 0..Len(q) :
    Len(t) = Len(q) - m /\ \A i \in 1..Len(t) : t[i] = q[i + m]

\* Reading keeps the pairs of a stream together and brings no new number.
LEMMA SuffixFacts ==
  ASSUME NEW q \in Seq(Values), NEW t \in Seq(Values), Suffix(t, q),
         NEW x \in BOOLEAN
  PROVE  /\ Paired(q, x) => Paired(t, x)
         /\ CarriesOnce(q) => CarriesOnce(t)
         /\ \A s : Carries(t, s) => Carries(q, s)
<1>1. PICK m \in 0..Len(q) :
        Len(t) = Len(q) - m /\ \A i \in 1..Len(t) : t[i] = q[i + m]
  BY DEF Suffix
<1>2. /\ Len(q) \in Nat /\ Len(t) \in Nat /\ DOMAIN q = 1..Len(q) /\ DOMAIN t = 1..Len(t)
      /\ \A i \in DOMAIN t : i + m \in DOMAIN q /\ t[i] = q[i + m]
  BY <1>1
<1>3. ASSUME Paired(q, x) PROVE Paired(t, x)
  <2> SUFFICES ASSUME NEW i \in DOMAIN t, t[i].kind = "hdr"
               PROVE  IF i < Len(t) THEN t[i + 1].kind = "body" /\ t[i + 1].seq = t[i].seq ELSE x
    BY DEF Paired
  <2>1. i + m \in DOMAIN q /\ q[i + m].kind = "hdr" /\ q[i + m].seq = t[i].seq
    BY <1>2
  <2>2. IF i + m < Len(q) THEN q[(i + m) + 1].kind = "body" /\ q[(i + m) + 1].seq = t[i].seq
                          ELSE x
    BY <1>3, <2>1 DEF Paired
  <2>3. CASE i < Len(t)
    <3>1. i + m < Len(q) /\ i + 1 \in DOMAIN t /\ (i + 1) + m = (i + m) + 1
      BY <1>1, <1>2, <2>3
    <3> QED
      BY <1>2, <2>2, <2>3, <3>1
  <2>4. CASE ~(i < Len(t))
    <3>1. ~(i + m < Len(q))
      BY <1>1, <1>2, <2>4
    <3> QED
      BY <2>2, <2>4, <3>1
  <2> QED
    BY <2>3, <2>4
<1>4. ASSUME CarriesOnce(q) PROVE CarriesOnce(t)
  <2> SUFFICES ASSUME NEW i \in DOMAIN t, NEW j \in DOMAIN t,
                      t[i].kind = "hdr", t[j].kind = "hdr", t[i].seq = t[j].seq
               PROVE  i = j
    BY DEF CarriesOnce
  <2>1. i + m = j + m
    BY <1>2, <1>4 DEF CarriesOnce
  <2> QED
    BY <1>1, <1>2, <2>1
<1>5. \A s : Carries(t, s) => Carries(q, s)
  BY <1>2 DEF Carries
<1> QED
  BY <1>3, <1>4, <1>5

\* What Tail, SubSeq and a loss leave of a stream.
LEMMA Suffixes ==
  ASSUME NEW q \in Seq(Values)
  PROVE  /\ Suffix(q, q) /\ Suffix(<<>>, q)
         /\ q # <<>> => Suffix(Tail(q), q)
         /\ \A k \in 0..(Len(q) - 1) : Suffix(SubSeq(q, k + 2, Len(q)), q)
<1>1. Suffix(q, q)
  <2>1. 0 \in 0..Len(q) /\ Len(q) = Len(q) - 0 /\ \A i \in 1..Len(q) : q[i] = q[i + 0]
    OBVIOUS
  <2> QED
    BY <2>1 DEF Suffix
<1>2. Suffix(<<>>, q)
  <2>1. Len(q) \in 0..Len(q) /\ Len(<<>>) = Len(q) - Len(q) /\ 1..Len(<<>>) = {}
    OBVIOUS
  <2> QED
    BY <2>1 DEF Suffix
<1>3. ASSUME q # <<>> PROVE Suffix(Tail(q), q)
  <2>1. /\ 1 \in 0..Len(q) /\ Len(Tail(q)) = Len(q) - 1
        /\ \A i \in 1..Len(Tail(q)) : Tail(q)[i] = q[i + 1]
    BY <1>3
  <2> QED
    BY <2>1 DEF Suffix
<1>4. ASSUME NEW k \in 0..(Len(q) - 1) PROVE Suffix(SubSeq(q, k + 2, Len(q)), q)
  <2> DEFINE t == SubSeq(q, k + 2, Len(q))
  <2>1. /\ k + 1 \in 0..Len(q) /\ Len(t) = Len(q) - (k + 1)
        /\ \A i \in 1..Len(t) : t[i] = q[i + (k + 1)]
    OBVIOUS
  <2> HIDE DEF t
  <2>2. Suffix(t, q)
    BY <2>1 DEF Suffix
  <2> QED
    BY <2>2 DEF t
<1> QED
  BY <1>1, <1>2, <1>3, <1>4

\* Reading a header leaves its body in front, and its number nowhere else.
LEMMA ReadFacts ==
  ASSUME NEW q \in Seq(Values), q # <<>>, Head(q).kind = "hdr", NEW x \in BOOLEAN
  PROVE  /\ Paired(q, x) => Answers(Tail(q), Head(q).seq, x)
         /\ Carries(q, Head(q).seq)
         /\ CarriesOnce(q) => ~Carries(Tail(q), Head(q).seq)
<1>1. /\ Len(q) \in Nat /\ 1 \in DOMAIN q /\ q[1] = Head(q) /\ DOMAIN q = 1..Len(q)
      /\ Tail(q) \in Seq(Values) /\ Len(Tail(q)) = Len(q) - 1
      /\ DOMAIN Tail(q) = 1..Len(Tail(q))
      /\ \A i \in DOMAIN Tail(q) : i + 1 \in DOMAIN q /\ Tail(q)[i] = q[i + 1]
  OBVIOUS
<1>2. ASSUME Paired(q, x) PROVE Answers(Tail(q), Head(q).seq, x)
  <2>1. IF 1 < Len(q) THEN q[1 + 1].kind = "body" /\ q[1 + 1].seq = Head(q).seq ELSE x
    BY <1>1, <1>2 DEF Paired
  <2>2. CASE 1 < Len(q)
    <3> DEFINE t == Tail(q)
    <3>1. t \in Seq(Values) /\ Len(t) > 0 /\ t[1] = q[1 + 1]
      BY <1>1, <2>2
    <3> HIDE DEF t
    <3>2. t # <<>> /\ Head(t) = q[1 + 1]
      BY <3>1
    <3> QED
      BY <2>1, <2>2, <3>2 DEF Answers, t
  <2>3. CASE Len(q) = 1
    <3>1. Tail(q) = <<>> /\ x
      BY <1>1, <2>1, <2>3
    <3> QED
      BY <3>1 DEF Answers
  <2> QED
    BY <1>1, <2>2, <2>3
<1>3. Carries(q, Head(q).seq)
  BY <1>1 DEF Carries
<1>4. ASSUME CarriesOnce(q), Carries(Tail(q), Head(q).seq) PROVE FALSE
  <2>1. PICK i \in DOMAIN Tail(q) : Tail(q)[i].kind = "hdr" /\ Tail(q)[i].seq = Head(q).seq
    BY <1>4 DEF Carries
  <2>2. i + 1 = 1
    BY <1>1, <1>4, <2>1 DEF CarriesOnce
  <2> QED
    BY <1>1, <2>2
<1> QED
  BY <1>2, <1>3, <1>4

\* t is q with a header and, if there is one, its body behind it.
Extended(t, q, h, b, whole) ==
  /\ Len(t) = IF whole THEN Len(q) + 2 ELSE Len(q) + 1
  /\ \A i \in 1..Len(q) : t[i] = q[i]
  /\ t[Len(q) + 1] = h
  /\ whole => t[Len(q) + 2] = b

\* Both forms of a write extend the stream.
LEMMA Extensions ==
  ASSUME NEW q \in Seq(Values), NEW h \in Values, NEW b \in Values
  PROVE  /\ Extended(q \o <<h, b>>, q, h, b, TRUE)
         /\ Extended(Append(q, h), q, h, b, FALSE)
         /\ Extended(q \o <<h>>, q, h, b, FALSE)
         /\ q \o <<h, b>> \in Seq(Values) /\ Append(q, h) \in Seq(Values)
         /\ q \o <<h>> \in Seq(Values)
<1>1. Extended(q \o <<h, b>>, q, h, b, TRUE) /\ q \o <<h, b>> \in Seq(Values)
  <2>1. <<h, b>> \in Seq(Values) /\ Len(<<h, b>>) = 2
    OBVIOUS
  <2> QED
    BY <2>1, ConcatProperties DEF Extended
<1>2. Extended(Append(q, h), q, h, b, FALSE) /\ Append(q, h) \in Seq(Values)
  BY AppendProperties DEF Extended
<1>3. Extended(q \o <<h>>, q, h, b, FALSE) /\ q \o <<h>> \in Seq(Values)
  <2>1. <<h>> \in Seq(Values) /\ Len(<<h>>) = 1
    OBVIOUS
  <2> QED
    BY <2>1, ConcatProperties DEF Extended
<1> QED
  BY <1>1, <1>2, <1>3

\* t is q and a request or response of number n, in pairs as far as x demands.
Grown(t, q, n, x) ==
  /\ Paired(t, x)
  /\ \A s : Carries(t, s) <=> Carries(q, s) \/ s = n
  /\ CarriesOnce(q) /\ ~Carries(q, n) => CarriesOnce(t)
  /\ \A s : q # <<>> /\ Answers(q, s, x) => Answers(t, s, x)

\* A write keeps a stream in pairs, and adds the number of its header.
LEMMA ExtendFacts ==
  ASSUME NEW q \in Seq(Values), NEW t \in Seq(Values), NEW h \in Values, NEW b \in Values,
         NEW whole \in BOOLEAN, Extended(t, q, h, b, whole),
         h.kind = "hdr", b.kind = "body", b.seq = h.seq,
         NEW x \in BOOLEAN, ~whole => x, Paired(q, FALSE)
  PROVE  Grown(t, q, h.seq, x)
<1> DEFINE n == Len(q)
<1>1. /\ n \in Nat /\ DOMAIN q = 1..n /\ DOMAIN t = 1..Len(t)
      /\ Len(t) = IF whole THEN n + 2 ELSE n + 1
  BY DEF Extended
<1>2. /\ \A i \in 1..n : t[i] = q[i]
      /\ t[n + 1] = h /\ (whole => t[n + 2] = b)
  BY DEF Extended
<1>3. \A i \in DOMAIN t : i \in 1..n \/ i = n + 1 \/ (whole /\ i = n + 2)
  BY <1>1
<1>4. \A i \in DOMAIN t : t[i].kind = "hdr" => i \in 1..n \/ i = n + 1
  BY <1>2, <1>3
<1>5. n + 1 \in DOMAIN t /\ 1..n \subseteq DOMAIN t
  BY <1>1
<1> HIDE DEF n
<1>6. Paired(t, x)
  <2> SUFFICES ASSUME NEW i \in DOMAIN t, t[i].kind = "hdr"
               PROVE  IF i < Len(t) THEN t[i + 1].kind = "body" /\ t[i + 1].seq = t[i].seq ELSE x
    BY DEF Paired
  <2>1. CASE i \in 1..n
    <3>1. i < n /\ q[i + 1].kind = "body" /\ q[i + 1].seq = q[i].seq
      BY <1>1, <1>2, <2>1 DEF Paired, n
    <3>2. i + 1 \in 1..n /\ i < Len(t)
      BY <1>1, <2>1, <3>1
    <3> QED
      BY <1>2, <2>1, <3>1, <3>2
  <2>2. CASE i = n + 1
    <3>1. CASE whole
      BY <1>1, <1>2, <2>2, <3>1
    <3>2. CASE ~whole
      BY <1>1, <2>2, <3>2
    <3> QED
      BY <3>1, <3>2
  <2> QED
    BY <1>4, <2>1, <2>2
<1>7. \A s : Carries(t, s) <=> Carries(q, s) \/ s = h.seq
  BY <1>1, <1>2, <1>4, <1>5 DEF Carries
<1>8. ASSUME CarriesOnce(q), ~Carries(q, h.seq) PROVE CarriesOnce(t)
  BY <1>1, <1>2, <1>4, <1>8 DEF Carries, CarriesOnce
<1>9. ASSUME q # <<>> PROVE Head(t) = Head(q) /\ t # <<>>
  BY <1>1, <1>2, <1>9 DEF n
<1>10. \A s : q # <<>> /\ Answers(q, s, x) => Answers(t, s, x)
  BY <1>9 DEF Answers
<1> QED
  BY <1>6, <1>7, <1>8, <1>10 DEF Grown

\* What ends a stream keeps it ended.
LEMMA EndedMono ==
  ASSUME NEW q \in Seq(Values), NEW x \in BOOLEAN, NEW y \in BOOLEAN, x => y, NEW s
  PROVE  /\ Paired(q, x) => Paired(q, y)
         /\ Answers(q, s, x) => Answers(q, s, y)
BY DEF Paired, Answers

-----------------------------------------------------------------------------
\* Before a caller has handed its request to the connection.
Unsent == {"idle", "header", "body", "flush"}

\* What no step takes back: the number of a call, that its request was sent,
\* and that a connection or a stream has ended.
Forward ==
  /\ \A d \in Calls : cpc[d] # "idle" => call'[d].Seq = call[d].Seq
  /\ \A d \in Calls : cpc'[d] \in Unsent => cpc[d] \in Unsent
  /\ \A d \in Calls : cpc'[d] = "idle" => cpc[d] = "idle"
  /\ Up' => Up
  /\ RequestsEnded => RequestsEnded'

\* No step but the reading of a reply puts one into a call.
RepliesKept == \A d \in Calls : call'[d].Reply = call[d].Reply

\* The steps of a caller that leave the connection and wbad alone.
LEMMA MoveForward ==
  ASSUME ClientTypeOK, NEW c \in Calls,
         NEW x \in {"header", "body", "flush", "flushing", "wait", "stuck", "returned"},
         cpc[c] # "flushing", x \in Unsent => cpc[c] \in Unsent,
         cpc' = [cpc EXCEPT ![c] = x],
         \A d \in Calls : cpc[d] # "idle" => call'[d].Seq = call[d].Seq,
         \A d \in Calls : d # c => wbad'[d] = wbad[d],
         UNCHANGED <<cOpen, sOpen, link>>
  PROVE  Forward
<1>1. \A d \in Calls : cpc'[d] = IF d = c THEN x ELSE cpc[d]
  BY DEF ClientTypeOK
<1>2. \A d \in Calls : Abandons(d) => Abandons(d)'
  BY <1>1 DEF Abandons
<1>3. (Up' => Up) /\ (RequestsEnded => RequestsEnded')
  BY <1>2 DEF Up, RequestsEnded
<1> QED
  BY <1>1, <1>3 DEF Forward, Unsent

\* The steps in which no caller moves.
LEMMA StayForward ==
  ASSUME ClientTypeOK, UNCHANGED <<cpc, wbad>>,
         \A d \in Calls : call'[d].Seq = call[d].Seq,
         cOpen' => cOpen, sOpen' => sOpen, link' => link
  PROVE  Forward
<1>1. \A d \in Calls : Abandons(d) => Abandons(d)'
  BY DEF Abandons
<1>2. (Up' => Up) /\ (RequestsEnded => RequestsEnded')
  BY <1>1 DEF Up, RequestsEnded
<1> QED
  BY <1>2 DEF Forward

\* A call that is completed or failed keeps its number and its reply.
LEMMA CallKept ==
  /\ \A r, e : Completed(r, e).Seq = r.Seq /\ Completed(r, e).Reply = r.Reply
  /\ \A r : Failed(r).Seq = r.Seq /\ Failed(r).Reply = r.Reply
  /\ \A r, v : Replied(r, v).Seq = r.Seq /\ Replied(r, v).Reply = v
  /\ \A r, s : Numbered(r, s).Seq = s /\ Numbered(r, s).Reply = r.Reply
BY DEF Completed, Failed, Replied, Numbered

\* The steps of a caller only go forward.
LEMMA CallerForward ==
  ASSUME ClientTypeOK, WireInv, ClientInv, NEW c \in Calls,
         Begin(c) \/ Caller(c) \/ AwaitCancel(c)
  PROVE  Forward /\ RepliesKept
<1> USE DEF ClientTypeOK
<1>1. CASE Begin(c)
  <2>1. /\ cpc[c] = "idle" /\ cpc' = [cpc EXCEPT ![c] = "header"]
        /\ call' = [call EXCEPT ![c] = Numbered(call[c], seq)]
        /\ UNCHANGED <<wbad, connVars>>
    BY <1>1 DEF Begin, RegisterCall
  <2>2. /\ \A d \in Calls : cpc[d] # "idle" => call'[d].Seq = call[d].Seq
        /\ RepliesKept
    BY <2>1, CallKept DEF RepliesKept
  <2> QED
    BY <2>1, <2>2, MoveForward DEF connVars, Unsent
<1>2. CASE SendFail(c)
  <2> DEFINE p == pending[call[c].Seq]
  <2>1. /\ cpc[c] = "fail"
        /\ \E x \in {"wait", "stuck"} : cpc' = [cpc EXCEPT ![c] = x]
        /\ call' = call \/ (p # NoCall /\ call' = [call EXCEPT ![p] = Completed(call[p], "err")])
        /\ UNCHANGED <<wbad, connVars>>
    BY <1>2 DEF SendFail
  <2>2. \A d \in Calls : call'[d].Seq = call[d].Seq /\ call'[d].Reply = call[d].Reply
    BY <2>1, CallKept
  <2> QED
    BY <2>1, <2>2, MoveForward DEF connVars, Unsent, RepliesKept
<1>3. CASE AwaitDone(c) \/ AwaitCancel(c)
  <2>1. /\ cpc[c] = "wait" /\ cpc' = [cpc EXCEPT ![c] = "returned"]
        /\ UNCHANGED <<call, wbad, connVars>>
    BY <1>3 DEF AwaitDone, AwaitCancel
  <2> QED
    BY <2>1, MoveForward DEF connVars, Unsent, RepliesKept
<1>4. CASE EncodeHeader(c) \/ EncodeBody(c) \/ FlushWrite(c)
  <2>1. /\ cpc[c] \in {"header", "body", "flush"} /\ UNCHANGED <<call, cOpen, sOpen, link>>
        /\ \E x \in {"body", "flush", "flushing"} : cpc' = [cpc EXCEPT ![c] = x]
    BY <1>4 DEF EncodeHeader, EncodeBody, EncodeFails, FlushWrite
  <2>2. \A d \in Calls : d # c => wbad'[d] = wbad[d]
    BY <1>4 DEF EncodeHeader, EncodeBody, EncodeFails, FlushWrite
  <2> QED
    BY <2>1, <2>2, MoveForward DEF Unsent, RepliesKept
<1>5. CASE FlushEnd(c)
  <2>1. /\ cpc[c] = "flushing" /\ cOpen' = (cOpen /\ ~wbad[c])
        /\ cpc' = [cpc EXCEPT ![c] = IF wbad[c] THEN "fail" ELSE "wait"]
        /\ UNCHANGED <<call, wbad, sOpen, link>>
    BY <1>5 DEF FlushEnd, CloseOnError
  <2>2. \A d \in Calls : Abandons(d) => Abandons(d)' \/ ~cOpen'
    BY <2>1 DEF Abandons
  <2>3. (Up' => Up) /\ (RequestsEnded => RequestsEnded')
    BY <2>1, <2>2 DEF Up, RequestsEnded
  <2> QED
    BY <2>1, <2>3 DEF Forward, Unsent, RepliesKept
<1> QED
  BY <1>1, <1>2, <1>3, <1>4, <1>5 DEF Caller

\* The steps of receive only go forward.
LEMMA ReceiveForward ==
  ASSUME ClientTypeOK, WireInv, ClientInv, Receive
  PROVE  Forward /\ (~RecvReply => RepliesKept)
<1> USE DEF ClientTypeOK
<1>1. UNCHANGED <<cpc, wbad, cOpen, sOpen, link>>
  BY DEF Receive, RecvHeader, RecvReply, RecvDiscard, TerminateCalls, connVars
<1>2. CASE RecvHeader
  <2>1. \/ call' = call
        \/ call' = [call EXCEPT ![rcall'] = Failed(call[rcall'])]
    BY <1>2 DEF RecvHeader
  <2>2. \A d \in Calls : call'[d].Seq = call[d].Seq /\ call'[d].Reply = call[d].Reply
    BY <2>1, CallKept
  <2> QED
    BY <1>1, <2>2, StayForward DEF RepliesKept
<1>3. CASE RecvReply
  <2>1. \/ call' = [call EXCEPT ![rcall] = Completed(call[rcall], "err")]
        \/ call' = [call EXCEPT ![rcall] = Replied(call[rcall], Head(s2c).seq)]
    BY <1>3 DEF RecvReply
  <2>2. \A d \in Calls : call'[d].Seq = call[d].Seq
    BY <2>1, CallKept
  <2> QED
    BY <1>1, <1>3, <2>2, StayForward
<1>4. CASE RecvDiscard
  <2>1. \/ call' = call
        \/ call' = [call EXCEPT ![rcall] = Completed(call[rcall], call[rcall].Error)]
    BY <1>4 DEF RecvDiscard
  <2>2. \A d \in Calls : call'[d].Seq = call[d].Seq /\ call'[d].Reply = call[d].Reply
    BY <2>1, CallKept
  <2> QED
    BY <1>1, <2>2, StayForward DEF RepliesKept
<1>5. CASE TerminateCalls
  <2>1. \A d \in Calls : call'[d] = call[d] \/ call'[d] = Completed(call[d], rerr)
    BY <1>5 DEF TerminateCalls, Terminated
  <2>2. \A d \in Calls : call'[d].Seq = call[d].Seq /\ call'[d].Reply = call[d].Reply
    BY <2>1, CallKept
  <2> QED
    BY <1>1, <2>2, StayForward DEF RepliesKept
<1> QED
  BY <1>2, <1>3, <1>4, <1>5 DEF Receive

\* The steps of the server, Close and the network only go forward.
LEMMA OtherForward ==
  ASSUME ClientTypeOK, WireInv,
         Serve \/ Returns \/ TimesOut \/ (Close /\ UNCHANGED serverVars)
           \/ (Cut /\ UNCHANGED <<clientVars, serverVars>>) \/ UNCHANGED vars
  PROVE  Forward /\ RepliesKept /\ UNCHANGED <<cpc, wbad, wn, kind, call, rcv, rcall, buf, werr>>
<1>1. UNCHANGED <<cpc, wbad, wn, kind, call, rcv, rcall>>
  BY DEF Serve, Returns, TimesOut, Close, vars, clientVars, callVars, recvVars
<1>2. UNCHANGED <<buf, werr>>
  BY DEF Serve, Returns, TimesOut, Close, Cut, vars, connVars, ServeOptions, ReadHeader, ReadBody,
     HandleReturns, HandleTimesOut, Drain
<1>3. (cOpen' => cOpen) /\ (link' => link)
  BY DEF Serve, Returns, TimesOut, Close, Cut, vars, connVars, ServeOptions, ReadHeader, ReadBody,
     HandleReturns, HandleTimesOut, Drain
<1>4. sOpen' => sOpen
  BY DEF Serve, Returns, TimesOut, Close, Cut, vars, connVars, ServeOptions, ReadHeader, ReadBody,
     HandleReturns, HandleTimesOut, Drain, SendError, WriteResponse, WireInv, ConnTypeOK
<1> QED
  BY <1>1, <1>2, <1>3, <1>4, StayForward DEF RepliesKept

-----------------------------------------------------------------------------
(* The writer belongs to one caller at a time.                             *)

\* Steps in which no caller moves leave the writer alone.
LEMMA WriterStays ==
  ASSUME ClientTypeOK, WriterInv, Forward, UNCHANGED <<cpc, wbad, wn, kind, buf, werr>>
  PROVE  WriterInv'
<1>1. \A d \in Calls : Owns(d)' <=> Owns(d)
  BY DEF Owns
<1>2. \A d \in Calls : Owns(d) => HdrOf(d)' = HdrOf(d) /\ BodyOf(d)' = BodyOf(d)
  BY DEF Owns, Forward, HdrOf, BodyOf, Hdr, Body
<1> QED
  BY <1>1, <1>2 DEF WriterInv, Owns

\* So do the steps of a caller outside Write, and registerCall.
LEMMA WriterSpared ==
  ASSUME ClientTypeOK, WriterInv, Forward, NEW c \in Calls, ~Owns(c),
         NEW x \in {"header", "wait", "stuck", "returned"}, x = "header" => cpc[c] = "idle",
         cpc' = [cpc EXCEPT ![c] = x], UNCHANGED <<wbad, wn, kind, buf, werr>>
  PROVE  WriterInv'
<1>1. \A d \in Calls : cpc'[d] = IF d = c THEN x ELSE cpc[d]
  BY DEF ClientTypeOK
<1>2. \A d \in Calls : Owns(d)' <=> Owns(d)
  BY <1>1 DEF Owns
<1>3. \A d \in Calls : Owns(d) => HdrOf(d)' = HdrOf(d) /\ BodyOf(d)' = BodyOf(d)
  BY DEF Owns, Forward, HdrOf, BodyOf, Hdr, Body
<1>4. \A d \in Calls : wbad[d] => cpc'[d] \notin {"idle", "header", "body"}
  BY <1>1 DEF WriterInv
<1> QED
  BY <1>1, <1>2, <1>3, <1>4 DEF WriterInv, Owns

\* A caller that comes to own the writer, or goes on with it, owns it alone.
LEMMA WriterOwned ==
  ASSUME ClientTypeOK, WriterInv, NEW c \in Calls,
         \A d \in Calls : Owns(d) => d = c,
         NEW x \in {"body", "flush", "flushing", "fail", "wait"},
         cpc' = [cpc EXCEPT ![c] = x],
         \A d \in Calls : d # c => wbad'[d] = wbad[d],
         wbad'[c] => x # "body",
         ~werr' /\ x \in {"fail", "wait"} => buf' = <<>>,
         ~werr' /\ x = "body" => buf' = <<HdrOf(c)'>>,
         ~werr' /\ x = "flush" =>
           buf' = IF wbad'[c] THEN <<HdrOf(c)'>> ELSE <<HdrOf(c)', BodyOf(c)'>>,
         x = "flushing" => wn'[c] = Len(buf') \/ (wn'[c] = 0 /\ werr'),
         x = "flushing" /\ ~werr' => wn'[c] > 0
  PROVE  WriterInv'
<1>1. \A d \in Calls : cpc'[d] = IF d = c THEN x ELSE cpc[d]
  BY DEF ClientTypeOK
<1>2. \A d \in Calls : Owns(d)' => d = c
  BY <1>1 DEF Owns
<1>3. \A d \in Calls : wbad'[d] => cpc'[d] \notin {"idle", "header", "body"}
  BY <1>1 DEF WriterInv
<1>4. ASSUME ~werr', \A d \in Calls : ~Owns(d)' PROVE buf' = <<>>
  BY <1>1, <1>4 DEF Owns
<1>5. \A d \in Calls : cpc'[d] \in {"body", "flush", "flushing"} => d = c
  BY <1>2 DEF Owns
<1>6. ASSUME NEW d \in Calls, ~werr'
      PROVE  /\ cpc'[d] = "body" => buf' = <<HdrOf(d)'>>
             /\ cpc'[d] = "flush" =>
                  buf' = IF wbad'[d] THEN <<HdrOf(d)'>> ELSE <<HdrOf(d)', BodyOf(d)'>>
  BY <1>1, <1>5, <1>6
<1>7. \A d \in Calls : cpc'[d] = "flushing" =>
        /\ wn'[d] = Len(buf') \/ (wn'[d] = 0 /\ werr')
        /\ ~werr' => wn'[d] > 0
  BY <1>1, <1>5
<1> QED
  BY <1>2, <1>3, <1>4, <1>6, <1>7 DEF WriterInv

\* The first Encode finds the writer free, and its buffer empty.
LEMMA EncodeHeaderWriter ==
  ASSUME ClientTypeOK, WriterInv, "overlap" \notin Env,
         NEW c \in Calls, MayWrite(c), EncodeHeader(c)
  PROVE  WriterInv'
<1>1. \A d \in Calls : ~Owns(d)
  BY DEF MayWrite, EncodeHeader, Writing, Owns
<1>2. UNCHANGED <<kind, call, werr>> /\ HdrOf(c)' = HdrOf(c)
  BY DEF EncodeHeader, HdrOf, Hdr
<1>3. CASE werr /\ EncodeFails(c)
  BY <1>1, <1>2, <1>3, WriterOwned DEF EncodeFails, ClientTypeOK
<1>4. CASE /\ ~werr /\ Encode(c, HdrOf(c)) /\ UNCHANGED wbad
           /\ cpc' = [cpc EXCEPT ![c] = "body"]
  <2>1. buf = <<>> /\ buf' = Append(buf, HdrOf(c))
    BY <1>1, <1>4 DEF Encode, WriterInv, Owns
  <2>2. buf' = <<HdrOf(c)'>>
    BY <1>2, <2>1
  <2>3. ~wbad'[c]
    BY <1>4 DEF EncodeHeader, WriterInv, ClientTypeOK
  <2> QED
    BY <1>1, <1>4, <2>2, <2>3, WriterOwned
<1> QED
  BY <1>3, <1>4 DEF EncodeHeader, HdrOf

\* A header and the body encoded behind it.
LEMMA PairOfTwo ==
  ASSUME NEW h, NEW b
  PROVE  Append(<<h>>, b) = <<h, b>>
<1> DEFINE S == {h, b}
           t == Append(<<h>>, b)
           u == <<h, b>>
<1>1. <<h>> \in Seq(S) /\ b \in S /\ Len(<<h>>) = 1 /\ <<h>>[1] = h
  OBVIOUS
<1>2. t \in Seq(S) /\ Len(t) = 2 /\ t[1] = h /\ t[2] = b
  BY <1>1, AppendProperties
<1>3. u \in Seq(S) /\ Len(u) = 2 /\ u[1] = h /\ u[2] = b
  OBVIOUS
<1> HIDE DEF S, t, u
<1>4. \A i \in 1..Len(t) : t[i] = u[i]
  BY <1>2, <1>3
<1>5. t = u
  BY <1>2, <1>3, <1>4, SeqEqual
<1> QED
  BY <1>5 DEF t, u

\* The second Encode goes behind the header of the same caller.
LEMMA EncodeBodyWriter ==
  ASSUME ClientTypeOK, WriterInv, NEW c \in Calls, EncodeBody(c)
  PROVE  WriterInv'
<1>1. cpc[c] = "body" /\ (\A d \in Calls : Owns(d) => d = c)
  BY DEF EncodeBody, WriterInv, Owns
<1>2. /\ UNCHANGED <<kind, call, werr>>
      /\ HdrOf(c)' = HdrOf(c) /\ BodyOf(c)' = BodyOf(c)
  BY DEF EncodeBody, HdrOf, BodyOf, Hdr, Body
<1>3. ~werr => buf = <<HdrOf(c)>>
  BY <1>1 DEF WriterInv
<1>4. CASE EncodeFails(c)
  <2>1. cpc' = [cpc EXCEPT ![c] = "flush"] /\ wbad' = [wbad EXCEPT ![c] = TRUE] /\ buf' = buf
    BY <1>4 DEF EncodeFails
  <2>2. wbad'[c] /\ \A d \in Calls : d # c => wbad'[d] = wbad[d]
    BY <2>1 DEF ClientTypeOK
  <2> QED
    BY <1>1, <1>2, <1>3, <2>1, <2>2, WriterOwned
<1>5. CASE /\ ~werr /\ Encode(c, BodyOf(c)) /\ UNCHANGED wbad
           /\ cpc' = [cpc EXCEPT ![c] = "flush"]
  <2>1. buf' = Append(buf, BodyOf(c))
    BY <1>1, <1>5 DEF Encode, Owns
  <2>2. buf' = <<HdrOf(c)', BodyOf(c)'>>
    BY <1>2, <1>3, <1>5, <2>1, PairOfTwo
  <2>3. ~wbad'[c]
    BY <1>1, <1>5 DEF WriterInv, ClientTypeOK
  <2> QED
    BY <1>1, <1>5, <2>2, <2>3, WriterOwned
<1> QED
  BY <1>4, <1>5 DEF EncodeBody, BodyOf

\* Flush hands over the whole buffer.
LEMMA FlushWriteWriter ==
  ASSUME ClientTypeOK, WireInv, WriterInv, NEW c \in Calls, FlushWrite(c)
  PROVE  WriterInv'
<1>1. /\ cpc[c] = "flush" /\ (\A d \in Calls : Owns(d) => d = c)
      /\ cpc' = [cpc EXCEPT ![c] = "flushing"] /\ UNCHANGED <<wbad, buf>>
  BY DEF FlushWrite, WriterInv, Owns
<1>2. CASE werr /\ wn' = [wn EXCEPT ![c] = 0] /\ UNCHANGED werr
  <2>1. wn'[c] = 0 /\ werr'
    BY <1>2 DEF ClientTypeOK
  <2> QED
    BY <1>1, <2>1, WriterOwned
<1>3. CASE ~werr /\ wn' = [wn EXCEPT ![c] = Len(buf)]
  <2>1. buf # <<>>
    BY <1>1, <1>3 DEF WriterInv
  <2>2. wn'[c] = Len(buf') /\ wn'[c] > 0
    BY <1>1, <1>3, <2>1 DEF ClientTypeOK, WireInv, ConnTypeOK
  <2> QED
    BY <1>1, <2>2, WriterOwned
<1>4. ~werr => buf # <<>>
  BY <1>1 DEF WriterInv
<1> QED
  BY <1>2, <1>3, <1>4 DEF FlushWrite

\* The end of Flush leaves the buffer empty, for nobody else has written.
LEMMA FlushEndWriter ==
  ASSUME ClientTypeOK, WireInv, WriterInv, NEW c \in Calls, FlushEnd(c)
  PROVE  WriterInv'
<1>1. /\ cpc[c] = "flushing" /\ (\A d \in Calls : Owns(d) => d = c)
      /\ \E x \in {"fail", "wait"} : cpc' = [cpc EXCEPT ![c] = x]
      /\ UNCHANGED wbad
  BY DEF FlushEnd, WriterInv, Owns
<1>2. ~werr => wn[c] > 0
  BY <1>1 DEF WriterInv
<1>3. wn[c] \in Nat
  BY DEF ClientTypeOK
<1>4. ~werr' => buf' = <<>>
  <2>1. ResetBuffer(c)
    BY DEF FlushEnd
  <2> QED
    BY <1>2, <1>3, <2>1 DEF ResetBuffer
<1> QED
  BY <1>1, <1>4, WriterOwned

\* Every step keeps the writer in one hand.
LEMMA NextWriter ==
  ASSUME ClientTypeOK, WireInv, ClientInv, WriterInv, "overlap" \notin Env, [Next]_vars
  PROVE  WriterInv' /\ Forward
<1>1. ASSUME NEW c \in Calls, Begin(c) \/ Caller(c) \/ AwaitCancel(c)
      PROVE  WriterInv' /\ Forward
  <2>1. Forward
    BY <1>1, CallerForward
  <2>2. CASE Begin(c) \/ SendFail(c) \/ AwaitDone(c) \/ AwaitCancel(c)
    <3>1. /\ ~Owns(c) /\ UNCHANGED <<wbad, wn, kind, buf, werr>>
          /\ \E x \in {"header", "wait", "stuck", "returned"} :
               cpc' = [cpc EXCEPT ![c] = x] /\ (x = "header" => cpc[c] = "idle")
      BY <2>2 DEF Begin, RegisterCall, SendFail, AwaitDone, AwaitCancel, connVars, Owns
    <3> QED
      BY <2>1, <3>1, WriterSpared
  <2>3. CASE Caller(c) /\ ~SendFail(c) /\ ~AwaitDone(c)
    <3>1. CASE MayWrite(c) /\ EncodeHeader(c)
      BY <3>1, <2>1, EncodeHeaderWriter
    <3>2. CASE EncodeBody(c)
      BY <3>2, <2>1, EncodeBodyWriter
    <3>3. CASE FlushWrite(c)
      BY <3>3, <2>1, FlushWriteWriter
    <3>4. CASE FlushEnd(c)
      BY <3>4, <2>1, FlushEndWriter
    <3> QED
      BY <2>3, <3>1, <3>2, <3>3, <3>4 DEF Caller
  <2> QED
    BY <1>1, <2>1, <2>2, <2>3
<1>2. CASE Receive
  <2>1. UNCHANGED <<cpc, wbad, wn, kind, buf, werr>>
    BY <1>2 DEF Receive, RecvHeader, RecvReply, RecvDiscard, TerminateCalls, connVars
  <2> QED
    BY <1>2, <2>1, ReceiveForward, WriterStays
<1>3. CASE Serve \/ Returns \/ TimesOut \/ (Close /\ UNCHANGED serverVars)
             \/ (Cut /\ UNCHANGED <<clientVars, serverVars>>) \/ UNCHANGED vars
  BY <1>3, OtherForward, WriterStays
<1> QED
  BY <1>1, <1>2, <1>3 DEF Next, Disturb

-----------------------------------------------------------------------------
(* Steps that add nothing to a stream.                                     *)

\* The ends of the streams are truth values.
LEMMA EndedType ==
  /\ RequestsEnded \in BOOLEAN /\ ResponsesEnded \in BOOLEAN
  /\ RequestsEnded' \in BOOLEAN /\ ResponsesEnded' \in BOOLEAN
BY DEF RequestsEnded, ResponsesEnded

\* What was sent stays sent, and an ended stream ended.
LEMMA ForwardFacts ==
  ASSUME Forward
  PROVE  /\ \A s : Sent(s) => Sent(s)'
         /\ RequestsEnded => RequestsEnded'
         /\ ResponsesEnded => ResponsesEnded'
BY DEF Forward, Sent, Unsent, ResponsesEnded

\* What the server has still to read, after it has read or lost some of it.
LEMMA RequestRead ==
  ASSUME WireInv, WireInv', RequestInv, Forward, Suffix(c2s', c2s),
         srv' = "body" => srv = "body" /\ req' = req /\ (c2s' = c2s \/ (c2s' = <<>> /\ RequestsEnded'))
  PROVE  RequestInv'
<1> DEFINE x == RequestsEnded
           y == RequestsEnded'
<1>1. x \in BOOLEAN /\ y \in BOOLEAN /\ (x => y)
  BY EndedType, ForwardFacts
<1>2. c2s \in Seq(Values) /\ c2s' \in Seq(Values)
  BY DEF WireInv, ConnTypeOK
<1>3. Paired(c2s, x) /\ (srv = "body" => Answers(c2s, req, x))
  BY DEF RequestInv
<1> HIDE DEF x, y
<1>4. Paired(c2s, y) /\ (srv = "body" => Answers(c2s, req, y))
  BY <1>1, <1>2, <1>3, EndedMono
<1>5. Paired(c2s', y)
  BY <1>1, <1>2, <1>4, SuffixFacts
<1>6. srv' = "body" => Answers(c2s', req', y)
  <2>1. CASE c2s' = c2s
    BY <1>4, <2>1
  <2>2. CASE c2s' = <<>> /\ RequestsEnded'
    BY <2>2 DEF Answers, y
  <2> QED
    BY <2>1, <2>2
<1> QED
  BY <1>5, <1>6 DEF RequestInv, y

\* What the client has still to read, after it has read or lost some of it.
LEMMA ResponseRead ==
  ASSUME ClientTypeOK, ClientInv, WireInv, WireInv', ResponseInv, Forward, Suffix(s2c', s2c),
         UNCHANGED handlers,
         rcv' = "reply" =>
           rcv = "reply" /\ rcall' = rcall /\ (s2c' = s2c \/ (s2c' = <<>> /\ ResponsesEnded'))
  PROVE  ResponseInv'
<1> DEFINE x == ResponsesEnded
           y == ResponsesEnded'
           n == call[rcall].Seq
<1>1. x \in BOOLEAN /\ y \in BOOLEAN /\ (x => y)
  BY EndedType, ForwardFacts
<1>2. s2c \in Seq(Values) /\ s2c' \in Seq(Values)
  BY DEF WireInv, ConnTypeOK
<1>3. Paired(s2c, x) /\ (rcv = "reply" => Answers(s2c, n, x))
  BY DEF ResponseInv
<1>4. rcv' = "reply" => call'[rcall'].Seq = n
  BY CallsAssumption DEF Forward, ClientTypeOK, ClientInv, ReceiveInv
<1> HIDE DEF x, y, n
<1>5. Paired(s2c, y) /\ (rcv = "reply" => Answers(s2c, n, y))
  BY <1>1, <1>2, <1>3, EndedMono
<1>6. Paired(s2c', y)
  BY <1>1, <1>2, <1>5, SuffixFacts
<1>7. rcv' = "reply" => Answers(s2c', n, y)
  <2>1. CASE s2c' = s2c
    BY <1>5, <2>1
  <2>2. CASE s2c' = <<>> /\ ResponsesEnded'
    BY <2>2 DEF Answers, y
  <2> QED
    BY <2>1, <2>2
<1>8. OwnArguments'
  BY DEF ResponseInv, OwnArguments
<1> QED
  BY <1>4, <1>6, <1>7, <1>8 DEF ResponseInv, y

\* Calls keep the replies they have.
LEMMA ReplyStays ==
  ASSUME ReplyInv, Forward, RepliesKept
  PROVE  ReplyInv'
BY DEF ReplyInv, NoForeignReply, Forward, RepliesKept

\* Numbers are not multiplied by reading or by a loss.
LEMMA OnceRead ==
  ASSUME WireInv, WireInv', OnceInv, Forward, Suffix(c2s', c2s), Suffix(s2c', s2c),
         UNCHANGED <<req, handlers>>
  PROVE  OnceInv'
<1>1. /\ c2s \in Seq(Values) /\ c2s' \in Seq(Values)
      /\ s2c \in Seq(Values) /\ s2c' \in Seq(Values)
  BY DEF WireInv, ConnTypeOK
<1>2. /\ CarriesOnce(c2s') /\ CarriesOnce(s2c')
      /\ \A s : Carries(c2s', s) => Carries(c2s, s)
      /\ \A s : Carries(s2c', s) => Carries(s2c, s)
  BY <1>1, SuffixFacts DEF OnceInv
<1>3. \A s : Handled(s)' <=> Handled(s)
  BY DEF Handled
<1>4. \A i, j \in DOMAIN handlers' : handlers'[i].seq = handlers'[j].seq => i = j
  BY DEF OnceInv
<1>5. \A s : Sent(s) => Sent(s)'
  BY ForwardFacts
<1> QED
  BY <1>2, <1>3, <1>4, <1>5 DEF OnceInv

\* The parts of StreamInv that are not about the writer.
TrafficInv == RequestInv /\ ResponseInv /\ ReplyInv /\ OnceInv

\* Steps that touch neither stream.
LEMMA TrafficStays ==
  ASSUME ClientTypeOK, ClientInv, WireInv, WireInv', TrafficInv, Forward, RepliesKept,
         UNCHANGED <<c2s, s2c, req, handlers>>, srv' = "body" => srv = "body",
         rcv' = "reply" => rcv = "reply" /\ rcall' = rcall
  PROVE  TrafficInv'
<1>1. Suffix(c2s', c2s) /\ Suffix(s2c', s2c)
  BY Suffixes DEF WireInv, ConnTypeOK
<1> QED
  BY <1>1, RequestRead, ResponseRead, ReplyStays, OnceRead DEF TrafficInv

\* The network breaks, and what is in flight may be lost.
LEMMA CutTraffic ==
  ASSUME ClientTypeOK, ClientInv, WireInv, WireInv', TrafficInv, Forward, RepliesKept,
         Cut, UNCHANGED <<clientVars, serverVars>>
  PROVE  TrafficInv'
<1>1. /\ c2s' = c2s \/ c2s' = <<>>
      /\ s2c' = s2c \/ s2c' = <<>>
      /\ ~link'
  BY DEF Cut
<1>2. RequestsEnded' /\ ResponsesEnded'
  BY <1>1 DEF RequestsEnded, ResponsesEnded, Up
<1>3. Suffix(c2s', c2s) /\ Suffix(s2c', s2c)
  BY <1>1, Suffixes DEF WireInv, ConnTypeOK
<1>4. UNCHANGED <<srv, req, handlers, rcv, rcall>>
  BY DEF serverVars, clientVars, recvVars
<1> QED
  BY <1>1, <1>2, <1>3, <1>4, RequestRead, ResponseRead, ReplyStays, OnceRead DEF TrafficInv

\* The server reads the options, and may drop what came with them.
LEMMA ServeOptionsTraffic ==
  ASSUME ClientTypeOK, ClientInv, WireInv, WireInv', TrafficInv, Forward, RepliesKept,
         ServeOptions, UNCHANGED clientVars
  PROVE  TrafficInv'
<1>1. UNCHANGED <<req, handlers, s2c, rcv, rcall>> /\ srv' # "body"
  BY DEF ServeOptions, clientVars, recvVars
<1>2. Suffix(c2s', c2s)
  <2>1. c2s \in Seq(Values)
    BY DEF WireInv, ConnTypeOK
  <2> QED
    BY <2>1, Suffixes DEF ServeOptions, ServerReadFails
<1>3. Suffix(s2c', s2c)
  BY <1>1, Suffixes DEF WireInv, ConnTypeOK
<1> QED
  BY <1>1, <1>2, <1>3, RequestRead, ResponseRead, ReplyStays, OnceRead DEF TrafficInv

-----------------------------------------------------------------------------
(* The steps of receive.                                                   *)

\* receive reads a header: the body behind it is that of the call it takes.
LEMMA RecvHeaderTraffic ==
  ASSUME ClientTypeOK, ClientInv, WireInv, WireInv', TrafficInv, Forward, RepliesKept,
         RecvHeader, UNCHANGED serverVars
  PROVE  TrafficInv'
<1>1. /\ rcv = "header"
      /\ UNCHANGED <<c2s, srv, req, handlers>>
  BY DEF RecvHeader, serverVars
<1>2. s2c' = s2c \/ (s2c # <<>> /\ s2c' = Tail(s2c))
  BY DEF RecvHeader, ReadFails, ClientHas
<1>3. s2c \in Seq(Values) /\ s2c' \in Seq(Values) /\ c2s \in Seq(Values)
  BY DEF WireInv, ConnTypeOK
<1>4. Suffix(c2s', c2s) /\ Suffix(s2c', s2c)
  BY <1>1, <1>2, <1>3, Suffixes
<1>5. RequestInv' /\ ReplyInv' /\ OnceInv'
  BY <1>1, <1>4, RequestRead, ReplyStays, OnceRead DEF TrafficInv
<1>6. CASE rcv' # "reply"
  BY <1>1, <1>4, <1>5, <1>6, ResponseRead DEF TrafficInv
<1>7. CASE rcv' = "reply"
  <2> DEFINE h == Head(s2c)
             y == ResponsesEnded'
  <2>1. /\ s2c # <<>> /\ s2c' = Tail(s2c) /\ h.kind = "hdr"
        /\ rcall' = pending[h.seq] /\ rcall' # NoCall
    BY <1>1, <1>7 DEF RecvHeader, ReadFails, ClientHas
  <2>2. h.seq \in Seqs
    BY <1>3, <2>1, HeadTail, WireSeq
  <2>3. rcall' \in Calls /\ cpc[rcall'] # "idle" /\ call[rcall'].Seq = h.seq
    BY <2>1, <2>2 DEF ClientTypeOK, ClientInv, PendingInv
  <2>4. call'[rcall'].Seq = h.seq
    BY <2>3 DEF Forward
  <2>5. y \in BOOLEAN /\ Paired(s2c, y)
    BY <1>3, EndedType, ForwardFacts, EndedMono DEF TrafficInv, ResponseInv
  <2> HIDE DEF y
  <2>6. Paired(s2c', y) /\ Answers(s2c', h.seq, y)
    <3>1. Paired(s2c', y)
      BY <1>3, <1>4, <2>5, SuffixFacts
    <3>2. Answers(Tail(s2c), Head(s2c).seq, y)
      BY <1>3, <2>1, <2>5, ReadFacts
    <3> QED
      BY <2>1, <3>1, <3>2
  <2>7. OwnArguments'
    BY <1>1 DEF TrafficInv, ResponseInv, OwnArguments
  <2>8. ResponseInv'
    BY <2>4, <2>6, <2>7 DEF ResponseInv, y
  <2> QED
    BY <1>5, <2>8 DEF TrafficInv
<1> QED
  BY <1>6, <1>7

\* receive reads the body behind a header it dropped, or gives up.
LEMMA RecvDiscardTraffic ==
  ASSUME ClientTypeOK, ClientInv, WireInv, WireInv', TrafficInv, Forward, RepliesKept,
         RecvDiscard, UNCHANGED serverVars
  PROVE  TrafficInv'
<1>1. UNCHANGED <<c2s, srv, req, handlers>> /\ rcv' # "reply"
  BY DEF RecvDiscard, ReadFails, serverVars
<1>2. s2c' = s2c \/ (s2c # <<>> /\ s2c' = Tail(s2c))
  BY DEF RecvDiscard, ReadFails, ClientHas
<1>3. Suffix(c2s', c2s) /\ Suffix(s2c', s2c)
  BY <1>1, <1>2, Suffixes DEF WireInv, ConnTypeOK
<1> QED
  BY <1>1, <1>3, RequestRead, ResponseRead, ReplyStays, OnceRead DEF TrafficInv

\* The reply that receive reads into a call is that call's own.
LEMMA RecvReplyTraffic ==
  ASSUME ClientTypeOK, ClientInv, WireInv, WireInv', TrafficInv, Forward,
         RecvReply, UNCHANGED serverVars
  PROVE  TrafficInv'
<1>1. UNCHANGED <<c2s, srv, req, handlers, cpc>> /\ rcv = "reply" /\ rcv' # "reply"
  BY DEF RecvReply, ReadFails, serverVars
<1>2. s2c' = s2c \/ (s2c # <<>> /\ s2c' = Tail(s2c))
  BY DEF RecvReply, ReadFails, ClientHas
<1>3. Suffix(c2s', c2s) /\ Suffix(s2c', s2c)
  BY <1>1, <1>2, Suffixes DEF WireInv, ConnTypeOK
<1>4. RequestInv' /\ ResponseInv' /\ OnceInv'
  BY <1>1, <1>3, RequestRead, ResponseRead, OnceRead DEF TrafficInv
<1>5. rcall \in Calls /\ cpc[rcall] # "idle"
  BY <1>1, CallsAssumption DEF ClientTypeOK, ClientInv, ReceiveInv
<1>6. ReplyInv'
  <2>1. CASE call' = [call EXCEPT ![rcall] = Completed(call[rcall], "err")]
    <3>1. RepliesKept
      BY <1>5, <2>1, CallKept DEF ClientTypeOK, RepliesKept
    <3> QED
      BY <3>1, ReplyStays DEF TrafficInv
  <2>2. CASE /\ s2c # <<>> /\ Head(s2c).kind = "body"
             /\ call' = [call EXCEPT ![rcall] = Replied(call[rcall], Head(s2c).seq)]
    <3>1. Head(s2c).seq = call[rcall].Seq
      BY <1>1, <2>2 DEF TrafficInv, ResponseInv, Answers
    <3>2. call'[rcall].Reply = call'[rcall].Seq
      BY <1>5, <2>2, <3>1, CallKept DEF ClientTypeOK
    <3>3. \A d \in Calls : d # rcall => call'[d] = call[d]
      BY <2>2 DEF ClientTypeOK
    <3> QED
      BY <1>1, <1>5, <3>2, <3>3 DEF TrafficInv, ReplyInv, NoForeignReply
  <2> QED
    BY <2>1, <2>2 DEF RecvReply, ClientHas
<1> QED
  BY <1>4, <1>6 DEF TrafficInv

-----------------------------------------------------------------------------
(* The steps that add to a stream.                                         *)

\* Flush puts one request on the wire, whose number is nowhere yet.
LEMMA FlushWriteTraffic ==
  ASSUME ClientTypeOK, ClientInv, WireInv, WireInv', WriterInv, TrafficInv, Forward, RepliesKept,
         NEW c \in Calls, FlushWrite(c), UNCHANGED serverVars
  PROVE  TrafficInv'
<1>1. /\ UNCHANGED <<s2c, srv, req, handlers, rcv, rcall, call, kind, wbad, cOpen, sOpen, link>>
      /\ cpc[c] = "flush" /\ cpc' = [cpc EXCEPT ![c] = "flushing"]
  BY DEF FlushWrite, serverVars, recvVars
<1>2. CASE c2s' = c2s
  BY <1>1, <1>2, TrafficStays
<1>3. CASE Up /\ ~werr /\ c2s' = c2s \o buf
  <2> DEFINE h == HdrOf(c)
             b == BodyOf(c)
             whole == ~wbad[c]
             y == RequestsEnded'
  <2>1. /\ c2s \in Seq(Values) /\ c2s' \in Seq(Values) /\ s2c \in Seq(Values)
        /\ s2c' = s2c
    BY <1>1 DEF WireInv, ConnTypeOK
  <2>0. PICK s \in Seqs : s = call[c].Seq
    <3>1. call[c].Seq \in Seqs
      BY <1>1, MaxSeqAssumption DEF ClientTypeOK, ClientInv, SeqInv, Seqs
    <3> QED
      BY <3>1
  <2>2. h \in Values /\ b \in Values
    BY <1>1, RequestTypes, MaxSeqAssumption
       DEF HdrOf, BodyOf, ClientTypeOK, ClientInv, SeqInv, Seqs
  <2>3. h.kind = "hdr" /\ b.kind = "body" /\ h.seq = s /\ b.seq = s
    BY <2>0 DEF HdrOf, BodyOf, Hdr, Body
  <2>4. buf = IF wbad[c] THEN <<h>> ELSE <<h, b>>
    BY <1>1, <1>3 DEF WriterInv
  <2>5. ~RequestsEnded
    BY <1>1, <1>3 DEF RequestsEnded, WriterInv, Owns, Abandons
  <2>6. y \in BOOLEAN /\ whole \in BOOLEAN /\ (~whole => y)
    <3>1. wbad[c] => Abandons(c)'
      BY <1>1 DEF Abandons, ClientTypeOK
    <3> QED
      BY <3>1, EndedType DEF RequestsEnded
  <2>7. Paired(c2s, FALSE) /\ (srv = "body" => c2s # <<>> /\ \A z : Answers(c2s, req, z))
    BY <2>5 DEF TrafficInv, RequestInv, Paired, Answers
  <2> HIDE DEF h, b, y
  <2>8. Extended(c2s', c2s, h, b, whole)
    BY <1>3, <2>1, <2>2, <2>4, Extensions
  <2> HIDE DEF whole
  <2>9. /\ Paired(c2s', y)
        /\ \A r : Carries(c2s', r) <=> Carries(c2s, r) \/ r = s
        /\ CarriesOnce(c2s) /\ ~Carries(c2s, s) => CarriesOnce(c2s')
        /\ c2s # <<>> /\ Answers(c2s, req, y) => Answers(c2s', req, y)
    <3>1. Grown(c2s', c2s, h.seq, y)
      BY <2>1, <2>2, <2>3, <2>6, <2>7, <2>8, ExtendFacts
    <3> QED
      BY <2>3, <3>1 DEF Grown
  <2>10. RequestInv'
    BY <1>1, <2>7, <2>9 DEF RequestInv, y
  <2>11. ~Sent(s)
    BY <1>1, <2>0 DEF Sent, ClientInv, SeqInv
  <2>12. Sent(s)' /\ \A r : Sent(r) => Sent(r)'
    <3>1. Sent(s)'
      BY <1>1, <2>0 DEF Sent, ClientTypeOK
    <3> QED
      BY <3>1, ForwardFacts
  <2>13. ~Carries(c2s, s) /\ req # s /\ ~Handled(s) /\ ~Carries(s2c, s)
    BY <2>11 DEF TrafficInv, OnceInv
  <2>14. \A r : Handled(r)' <=> Handled(r)
    BY <1>1 DEF Handled
  <2>15. OnceInv'
    <3>1. CarriesOnce(c2s') /\ CarriesOnce(s2c')
      BY <2>1, <2>9, <2>13 DEF TrafficInv, OnceInv
    <3>2. \A i, j \in DOMAIN handlers' : handlers'[i].seq = handlers'[j].seq => i = j
      BY <1>1 DEF TrafficInv, OnceInv
    <3>3. ASSUME NEW r \in Seqs
          PROVE  /\ Carries(c2s', r) => req' # r /\ ~Handled(r)' /\ ~Carries(s2c', r)
                 /\ req' = r => ~Handled(r)' /\ ~Carries(s2c', r)
                 /\ Handled(r)' => ~Carries(s2c', r)
                 /\ Carries(c2s', r) \/ req' = r \/ Handled(r)' \/ Carries(s2c', r) => Sent(r)'
      <4>1. /\ Carries(c2s', r) <=> Carries(c2s, r) \/ r = s
            /\ Carries(s2c', r) <=> Carries(s2c, r)
            /\ Handled(r)' <=> Handled(r)
            /\ req' = req
            /\ (Sent(r) => Sent(r)') /\ (r = s => Sent(r)')
        BY <1>1, <2>1, <2>9, <2>12, <2>14
      <4>2. /\ Carries(c2s, r) => req # r /\ ~Handled(r) /\ ~Carries(s2c, r)
            /\ req = r => ~Handled(r) /\ ~Carries(s2c, r)
            /\ Handled(r) => ~Carries(s2c, r)
            /\ Carries(c2s, r) \/ req = r \/ Handled(r) \/ Carries(s2c, r) => Sent(r)
        BY <3>3 DEF TrafficInv, OnceInv
      <4> QED
        BY <2>13, <4>1, <4>2
    <3> QED
      BY <3>1, <3>2, <3>3 DEF OnceInv
  <2>16. ResponseInv' /\ ReplyInv'
    BY <1>1, <2>1, Suffixes, ResponseRead, ReplyStays DEF TrafficInv
  <2> QED
    BY <2>10, <2>15, <2>16 DEF TrafficInv
<1> QED
  BY <1>2, <1>3 DEF FlushWrite, Transmit, Up

\* A response of the server: s2c grows by the answer to s, or not at all.
LEMMA Respond ==
  ASSUME WireInv, WireInv', TrafficInv, Forward, NEW s \in Seqs,
         NEW t \in AllOutcomes, NEW e \in BOOLEAN,
         WriteResponse(Hdr(s, t), Body(s, t), e),
         UNCHANGED <<cOpen, link>>
  PROVE  /\ Paired(s2c', ResponsesEnded')
         /\ rcv = "reply" => Answers(s2c', call[rcall].Seq, ResponsesEnded')
         /\ \A r : Carries(s2c', r) => Carries(s2c, r) \/ r = s
         /\ ~Carries(s2c, s) => CarriesOnce(s2c')
<1> DEFINE h == Hdr(s, t)
           b == Body(s, t)
           x == ResponsesEnded
           y == ResponsesEnded'
           n == call[rcall].Seq
<1>1. s2c \in Seq(Values) /\ s2c' \in Seq(Values)
  BY DEF WireInv, ConnTypeOK
<1>2. x \in BOOLEAN /\ y \in BOOLEAN /\ (x => y)
  BY EndedType, ForwardFacts
<1>3. Paired(s2c, x) /\ (rcv = "reply" => Answers(s2c, n, x)) /\ CarriesOnce(s2c)
  BY DEF TrafficInv, ResponseInv, OnceInv
<1>4. h \in Values /\ b \in Values
  BY ValueTypes
<1>5. h.kind = "hdr" /\ b.kind = "body" /\ h.seq = s /\ b.seq = s
  BY DEF Hdr, Body
<1> HIDE DEF h, b, y, n
<1>6. CASE s2c' = s2c
  BY <1>1, <1>2, <1>3, <1>6, EndedMono DEF y, n
<1>7. CASE Up /\ \E w \in BOOLEAN : Extended(s2c', s2c, h, b, w) /\ (~w => y)
  <2>1. PICK w \in BOOLEAN : Extended(s2c', s2c, h, b, w) /\ (~w => y)
    BY <1>7
  <2>2. x = FALSE
    BY <1>7 DEF ResponsesEnded
  <2>3. Paired(s2c, FALSE) /\ (rcv = "reply" => s2c # <<>> /\ \A z : Answers(s2c, n, z))
    BY <1>3, <2>2 DEF Answers
  <2>4. /\ Paired(s2c', y)
        /\ \A r : Carries(s2c', r) <=> Carries(s2c, r) \/ r = s
        /\ CarriesOnce(s2c) /\ ~Carries(s2c, s) => CarriesOnce(s2c')
        /\ s2c # <<>> /\ Answers(s2c, n, y) => Answers(s2c', n, y)
    <3>1. Grown(s2c', s2c, h.seq, y)
      BY <1>1, <1>2, <1>4, <1>5, <2>1, <2>3, ExtendFacts
    <3> QED
      BY <1>5, <3>1 DEF Grown
  <2> QED
    BY <1>3, <2>3, <2>4 DEF y, n
<1>8. CASE Up /\ s2c' = s2c \o <<h, b>>
  BY <1>1, <1>4, <1>7, <1>8, Extensions
<1>9. CASE Up /\ s2c' = Append(s2c, h) /\ ~sOpen'
  BY <1>1, <1>4, <1>7, <1>9, Extensions DEF y, ResponsesEnded, Up
<1> QED
  BY <1>6, <1>8, <1>9 DEF WriteResponse, Up, h, b

\* The number s of a request moves on to the client: what must hold before and
\* after for no other request to be concerned.
LEMMA OnceResponds ==
  ASSUME OnceInv, Forward, NEW s \in Seqs,
         CarriesOnce(c2s'), CarriesOnce(s2c'),
         \A i, j \in DOMAIN handlers' : handlers'[i].seq = handlers'[j].seq => i = j,
         \A r : Carries(c2s', r) => Carries(c2s, r),
         \A r : Carries(s2c', r) => Carries(s2c, r) \/ r = s,
         \A r : Handled(r)' => Handled(r),
         req' = req \/ req' = 0, Sent(s),
         ~Carries(c2s', s), ~Handled(s)', req' # s
  PROVE  OnceInv'
<1>1. ASSUME NEW r \in Seqs
      PROVE  /\ Carries(c2s', r) => req' # r /\ ~Handled(r)' /\ ~Carries(s2c', r)
             /\ req' = r => ~Handled(r)' /\ ~Carries(s2c', r)
             /\ Handled(r)' => ~Carries(s2c', r)
             /\ Carries(c2s', r) \/ req' = r \/ Handled(r)' \/ Carries(s2c', r) => Sent(r)'
  <2>1. /\ Carries(c2s', r) => Carries(c2s, r) /\ r # s
        /\ Carries(s2c', r) => Carries(s2c, r) \/ r = s
        /\ Handled(r)' => Handled(r) /\ r # s
        /\ req' = r => req = r /\ r # s
        /\ (Sent(r) => Sent(r)') /\ (r = s => Sent(r)')
    <3>1. r # 0
      BY MaxSeqAssumption DEF Seqs
    <3> QED
      BY <3>1, ForwardFacts
  <2>2. /\ Carries(c2s, r) => req # r /\ ~Handled(r) /\ ~Carries(s2c, r)
        /\ req = r => ~Handled(r) /\ ~Carries(s2c, r)
        /\ Handled(r) => ~Carries(s2c, r)
        /\ Carries(c2s, r) \/ req = r \/ Handled(r) \/ Carries(s2c, r) => Sent(r)
    BY <1>1 DEF OnceInv
  <2> QED
    BY <2>1, <2>2
<1> QED
  BY <1>1 DEF OnceInv

\* The server reads a header: it keeps the number, or answers it.
LEMMA ReadHeaderTraffic ==
  ASSUME ClientTypeOK, ClientInv, WireInv, WireInv', TrafficInv, Forward, RepliesKept,
         ReadHeader, UNCHANGED clientVars
  PROVE  TrafficInv'
<1>1. UNCHANGED <<handlers, rcv, rcall, call, cOpen, link>> /\ srv = "header"
  BY DEF ReadHeader, clientVars, callVars, recvVars
<1>2. /\ c2s \in Seq(Values) /\ c2s' \in Seq(Values) /\ s2c \in Seq(Values) /\ s2c' \in Seq(Values)
  BY DEF WireInv, ConnTypeOK
<1>3. c2s' = <<>> \/ (c2s # <<>> /\ c2s' = Tail(c2s))
  BY DEF ReadHeader, ServerReadFails, ServerHas
<1>4. Suffix(c2s', c2s) /\ ReplyInv'
  BY <1>2, <1>3, Suffixes, ReplyStays DEF TrafficInv
<1>5. /\ CarriesOnce(c2s') /\ \A r : Carries(c2s', r) => Carries(c2s, r)
      /\ CarriesOnce(s2c)
  BY <1>2, <1>4, SuffixFacts DEF TrafficInv, OnceInv
<1>6. \A r : Handled(r)' <=> Handled(r)
  BY <1>1 DEF Handled
<1>7. CASE srv' = "drain" /\ UNCHANGED <<req, s2c>>
  <2>1. Suffix(s2c', s2c)
    BY <1>2, <1>7, Suffixes
  <2> QED
    BY <1>1, <1>4, <1>7, <2>1, RequestRead, ResponseRead, OnceRead DEF TrafficInv
<1>8. CASE c2s # <<>> /\ c2s' = Tail(c2s) /\ Head(c2s).kind = "hdr"
  <2>1. PICK s \in Seqs : s = Head(c2s).seq
    BY <1>2, <1>8, HeadTail, WireSeq
  <2>2. Carries(c2s, s) /\ ~Carries(c2s', s)
    BY <1>2, <1>8, <2>1, ReadFacts DEF TrafficInv, OnceInv
  <2>3. req # s /\ ~Handled(s) /\ ~Carries(s2c, s) /\ Sent(s)
    BY <2>1, <2>2 DEF TrafficInv, OnceInv
  <2>4. ~Handled(s)'
    BY <1>6, <2>3
  <2>5. CASE SendError(s) /\ UNCHANGED <<srv, req>>
    <3>1. "err" \in AllOutcomes /\ WriteResponse(Hdr(s, "err"), Body(s, "err"), TRUE)
      BY <2>5 DEF SendError, AllOutcomes
    <3>2. /\ Paired(s2c', ResponsesEnded')
          /\ rcv = "reply" => Answers(s2c', call[rcall].Seq, ResponsesEnded')
          /\ \A r : Carries(s2c', r) => Carries(s2c, r) \/ r = s
          /\ ~Carries(s2c, s) => CarriesOnce(s2c')
      BY <1>1, <2>1, <3>1, Respond
    <3>3. ResponseInv'
      BY <1>1, <3>2 DEF TrafficInv, ResponseInv, OwnArguments
    <3>4. RequestInv'
      BY <1>1, <1>4, <2>5, RequestRead DEF TrafficInv
    <3>5. OnceInv'
      <4>1. \A i, j \in DOMAIN handlers' : handlers'[i].seq = handlers'[j].seq => i = j
        BY <1>1 DEF TrafficInv, OnceInv
      <4> QED
        BY <1>5, <1>6, <2>1, <2>2, <2>3, <2>4, <2>5, <3>2, <4>1, OnceResponds DEF TrafficInv
    <3> QED
      BY <1>4, <3>3, <3>4, <3>5 DEF TrafficInv
  <2>6. CASE srv' = "body" /\ req' = s /\ UNCHANGED s2c
    <3> DEFINE y == RequestsEnded'
    <3>1. y \in BOOLEAN /\ Paired(c2s, y)
      BY <1>2, EndedType, ForwardFacts, EndedMono DEF TrafficInv, RequestInv
    <3> HIDE DEF y
    <3>2. Paired(c2s', y) /\ Answers(c2s', req', y)
      <4>1. Paired(c2s', y)
        BY <1>2, <1>4, <3>1, SuffixFacts
      <4>2. Answers(Tail(c2s), Head(c2s).seq, y)
        BY <1>2, <1>8, <3>1, ReadFacts
      <4> QED
        BY <1>8, <2>1, <2>6, <4>1, <4>2
    <3>3. RequestInv'
      BY <3>2 DEF RequestInv, y
    <3>4. ResponseInv'
      <4>1. Suffix(s2c', s2c)
        BY <1>2, <2>6, Suffixes
      <4> QED
        BY <1>1, <2>6, <4>1, ResponseRead DEF TrafficInv
    <3>5. OnceInv'
      <4>1. /\ CarriesOnce(c2s') /\ CarriesOnce(s2c')
            /\ \A i, j \in DOMAIN handlers' : handlers'[i].seq = handlers'[j].seq => i = j
        BY <1>1, <1>5, <2>6 DEF TrafficInv, OnceInv
      <4>2. ASSUME NEW r \in Seqs
            PROVE  /\ Carries(c2s', r) => req' # r /\ ~Handled(r)' /\ ~Carries(s2c', r)
                   /\ req' = r => ~Handled(r)' /\ ~Carries(s2c', r)
                   /\ Handled(r)' => ~Carries(s2c', r)
                   /\ Carries(c2s', r) \/ req' = r \/ Handled(r)' \/ Carries(s2c', r) => Sent(r)'
        <5>1. /\ Carries(c2s', r) => Carries(c2s, r) /\ r # s
              /\ Carries(s2c', r) <=> Carries(s2c, r)
              /\ Handled(r)' <=> Handled(r)
              /\ req' = s
              /\ Sent(r) => Sent(r)'
          BY <1>5, <1>6, <2>2, <2>6, ForwardFacts
        <5>2. /\ Carries(c2s, r) => ~Handled(r) /\ ~Carries(s2c, r)
              /\ Handled(r) => ~Carries(s2c, r)
              /\ Carries(c2s, r) \/ Handled(r) \/ Carries(s2c, r) => Sent(r)
          BY <4>2 DEF TrafficInv, OnceInv
        <5> QED
          BY <2>3, <5>1, <5>2
      <4> QED
        BY <4>1, <4>2 DEF OnceInv
    <3> QED
      BY <1>4, <3>3, <3>4, <3>5 DEF TrafficInv
  <2> QED
    BY <1>7, <1>8, <2>1, <2>5, <2>6 DEF ReadHeader
<1> QED
  BY <1>7, <1>8 DEF ReadHeader, ServerHas

\* The server reads a body: a handler gets the arguments that belong to the
\* header, or an error answers it.
LEMMA ReadBodyTraffic ==
  ASSUME ClientTypeOK, ClientInv, WireInv, WireInv', TrafficInv, Forward, RepliesKept,
         ReadBody, UNCHANGED clientVars
  PROVE  TrafficInv'
<1>1. UNCHANGED <<rcv, rcall, call, cOpen, link>> /\ srv = "body" /\ srv' # "body" /\ req' = 0
  BY DEF ReadBody, clientVars, callVars, recvVars
<1>2. /\ c2s \in Seq(Values) /\ c2s' \in Seq(Values) /\ s2c \in Seq(Values) /\ s2c' \in Seq(Values)
      /\ handlers \in Seq([seq : Seqs, args : Seqs])
  BY DEF WireInv, ConnTypeOK, ServerTypeOK
<1>3. c2s' = <<>> \/ (c2s # <<>> /\ c2s' = Tail(c2s))
  BY DEF ReadBody, ServerReadFails, ServerHas
<1>4. Suffix(c2s', c2s) /\ ReplyInv'
  BY <1>2, <1>3, Suffixes, ReplyStays DEF TrafficInv
<1>5. /\ CarriesOnce(c2s') /\ \A r : Carries(c2s', r) => Carries(c2s, r)
      /\ CarriesOnce(s2c)
  BY <1>2, <1>4, SuffixFacts DEF TrafficInv, OnceInv
<1>6. RequestInv'
  BY <1>1, <1>4, RequestRead DEF TrafficInv
<1>7. req \in Seqs /\ req # 0
  BY <1>1, MaxSeqAssumption DEF WireInv, Seqs
<1>8. ~Carries(c2s, req) /\ ~Handled(req) /\ ~Carries(s2c, req) /\ Sent(req)
  BY <1>7 DEF TrafficInv, OnceInv
<1>9. CASE SendError(req) /\ UNCHANGED handlers
  <2>0. PICK s \in Seqs : s = req
    BY <1>7
  <2>1. "err" \in AllOutcomes /\ WriteResponse(Hdr(s, "err"), Body(s, "err"), TRUE)
    BY <1>9, <2>0 DEF SendError, AllOutcomes
  <2>2. /\ Paired(s2c', ResponsesEnded')
        /\ rcv = "reply" => Answers(s2c', call[rcall].Seq, ResponsesEnded')
        /\ \A r : Carries(s2c', r) => Carries(s2c, r) \/ r = s
        /\ ~Carries(s2c, s) => CarriesOnce(s2c')
    BY <1>1, <1>7, <2>1, Respond
  <2>3. ResponseInv'
    BY <1>1, <1>9, <2>2 DEF TrafficInv, ResponseInv, OwnArguments
  <2>4. \A r : Handled(r)' <=> Handled(r)
    BY <1>9 DEF Handled
  <2>5. OnceInv'
    <3>1. \A i, j \in DOMAIN handlers' : handlers'[i].seq = handlers'[j].seq => i = j
      BY <1>9 DEF TrafficInv, OnceInv
    <3>2. ~Carries(c2s', s) /\ ~Handled(s)' /\ req' # s /\ CarriesOnce(s2c')
      BY <1>1, <1>5, <1>7, <1>8, <2>0, <2>2, <2>4
    <3> QED
      BY <1>1, <1>5, <1>8, <2>0, <2>2, <2>4, <3>1, <3>2, OnceResponds DEF TrafficInv
  <2> QED
    BY <1>4, <1>6, <2>3, <2>5 DEF TrafficInv
<1>10. CASE /\ c2s # <<>> /\ Head(c2s).kind = "body"
            /\ handlers' = Append(handlers, NewHandler(req, Head(c2s)))
            /\ UNCHANGED s2c
  <2> DEFINE v == NewHandler(req, Head(c2s))
             n == Len(handlers)
  <2>1. v.seq = req /\ v.args = req
    BY <1>1, <1>10 DEF TrafficInv, RequestInv, Answers, NewHandler
  <2>2. v \in [seq : Seqs, args : Seqs]
    BY <1>7, <2>1 DEF NewHandler
  <2> HIDE DEF v
  <2>3. /\ n \in Nat /\ DOMAIN handlers = 1..n /\ DOMAIN handlers' = 1..(n + 1)
        /\ \A i \in 1..n : handlers'[i] = handlers[i]
        /\ handlers'[n + 1] = v
    BY <1>2, <1>10, <2>2 DEF v
  <2> HIDE DEF n
  <2>4. \A r : Handled(r)' => Handled(r) \/ r = req
    BY <2>1, <2>3 DEF Handled
  <2>5. \A i, j \in DOMAIN handlers' : handlers'[i].seq = handlers'[j].seq => i = j
    <3>1. \A i \in 1..n : handlers[i].seq # req
      BY <1>8, <2>3 DEF Handled
    <3>2. \A i, j \in 1..n : handlers[i].seq = handlers[j].seq => i = j
      BY <2>3 DEF TrafficInv, OnceInv
    <3> QED
      BY <2>1, <2>3, <3>1, <3>2
  <2>6. OwnArguments'
    BY <2>1, <2>3 DEF TrafficInv, ResponseInv, OwnArguments
  <2>7. ResponseInv'
    <3> DEFINE y == ResponsesEnded'
    <3>1. y \in BOOLEAN /\ (ResponsesEnded => y) /\ ResponsesEnded \in BOOLEAN
      BY EndedType, ForwardFacts
    <3> HIDE DEF y
    <3>2. /\ Paired(s2c, y)
          /\ rcv = "reply" => Answers(s2c, call[rcall].Seq, y)
      BY <1>2, <3>1, EndedMono DEF TrafficInv, ResponseInv
    <3> QED
      BY <1>1, <1>10, <2>6, <3>2 DEF ResponseInv, y
  <2>8. OnceInv'
    <3>1. CarriesOnce(c2s') /\ CarriesOnce(s2c')
      BY <1>5, <1>10
    <3>2. ASSUME NEW r \in Seqs
          PROVE  /\ Carries(c2s', r) => req' # r /\ ~Handled(r)' /\ ~Carries(s2c', r)
                 /\ req' = r => ~Handled(r)' /\ ~Carries(s2c', r)
                 /\ Handled(r)' => ~Carries(s2c', r)
                 /\ Carries(c2s', r) \/ req' = r \/ Handled(r)' \/ Carries(s2c', r) => Sent(r)'
      <4>1. /\ Carries(c2s', r) => Carries(c2s, r)
            /\ Carries(s2c', r) <=> Carries(s2c, r)
            /\ Handled(r)' => Handled(r) \/ r = req
            /\ req' # r
            /\ Sent(r) => Sent(r)'
        <5>1. r # 0
          BY MaxSeqAssumption DEF Seqs
        <5> QED
          BY <1>1, <1>5, <1>10, <2>4, <5>1, ForwardFacts
      <4>2. /\ Carries(c2s, r) => req # r /\ ~Handled(r) /\ ~Carries(s2c, r)
            /\ Handled(r) => ~Carries(s2c, r)
            /\ Carries(c2s, r) \/ Handled(r) \/ Carries(s2c, r) => Sent(r)
        BY <3>2 DEF TrafficInv, OnceInv
      <4> QED
        BY <1>8, <4>1, <4>2
    <3> QED
      BY <2>5, <3>1, <3>2 DEF OnceInv
  <2> QED
    BY <1>4, <1>6, <2>7, <2>8 DEF TrafficInv
<1> QED
  BY <1>9, <1>10 DEF ReadBody, ServerHas

\* What is left of the handlers is what was there, but the one that finished.
LEMMA FinishedFacts ==
  ASSUME WireInv, TrafficInv, NEW i \in DOMAIN handlers, handlers' = Finished(i)
  PROVE  /\ \A j, k \in DOMAIN handlers' : handlers'[j].seq = handlers'[k].seq => j = k
         /\ OwnArguments'
         /\ \A r : Handled(r)' => Handled(r) /\ r # handlers[i].seq
<1> DEFINE H == [seq : Seqs, args : Seqs]
           n == Len(handlers)
           At(j) == IF j < i THEN j ELSE j + 1
           p == SubSeq(handlers, 1, i - 1)
           t == SubSeq(handlers, i + 1, n)
<1>1. handlers \in Seq(H) /\ n \in Nat /\ i \in 1..n /\ DOMAIN handlers = 1..n
  BY DEF WireInv, ServerTypeOK
<1> HIDE DEF H
<1>2. p \in Seq(H) /\ Len(p) = i - 1 /\ \A j \in 1..(i - 1) : p[j] = handlers[j]
  BY <1>1, SubSeqProperties
<1>3. t \in Seq(H) /\ Len(t) = n - i /\ \A j \in 1..(n - i) : t[j] = handlers[j + i]
  BY <1>1, SubSeqProperties
<1>4. handlers' = p \o t
  BY DEF Finished
<1> HIDE DEF p, t, n
<1>5. /\ DOMAIN handlers' = 1..(n - 1)
      /\ \A j \in 1..(n - 1) : At(j) \in 1..n /\ At(j) # i /\ handlers'[j] = handlers[At(j)]
  <2>1. /\ p \o t \in Seq(H) /\ Len(p \o t) = n - 1
        /\ \A j \in 1..(n - 1) : (p \o t)[j] = IF j <= i - 1 THEN p[j] ELSE t[j - (i - 1)]
    <3>1. /\ p \o t \in Seq(H) /\ Len(p \o t) = Len(p) + Len(t)
          /\ \A j \in 1..(Len(p) + Len(t)) :
               (p \o t)[j] = IF j <= Len(p) THEN p[j] ELSE t[j - Len(p)]
      BY <1>2, <1>3, ConcatProperties
    <3>2. Len(p) = i - 1 /\ Len(p) + Len(t) = n - 1
      BY <1>1, <1>2, <1>3
    <3> QED
      BY <3>1, <3>2
  <2>2. DOMAIN (p \o t) = 1..(n - 1)
    BY <2>1
  <2>3. ASSUME NEW j \in 1..(n - 1)
        PROVE  At(j) \in 1..n /\ At(j) # i /\ (p \o t)[j] = handlers[At(j)]
    <3>1. CASE j < i
      BY <1>1, <1>2, <2>1, <3>1
    <3>2. CASE ~(j < i)
      <4>1. j - (i - 1) \in 1..(n - i) /\ (j - (i - 1)) + i = j + 1
        BY <1>1, <3>2
      <4>2. (p \o t)[j] = t[j - (i - 1)]
        BY <1>1, <2>1, <3>2
      <4>3. t[j - (i - 1)] = handlers[j + 1]
        BY <1>3, <4>1
      <4>4. At(j) = j + 1 /\ j + 1 \in 1..n /\ j + 1 # i
        BY <1>1, <3>2
      <4> QED
        BY <4>2, <4>3, <4>4
    <3> QED
      BY <3>1, <3>2
  <2> QED
    BY <1>4, <2>2, <2>3
<1>6. \A j, k \in 1..(n - 1) : At(j) = At(k) => j = k
  BY <1>1
<1> HIDE DEF At
<1>7. \A j, k \in 1..n : handlers[j].seq = handlers[k].seq => j = k
  BY <1>1 DEF TrafficInv, OnceInv
<1>8. \A j, k \in DOMAIN handlers' : handlers'[j].seq = handlers'[k].seq => j = k
  BY <1>5, <1>6, <1>7
<1>9. OwnArguments'
  BY <1>1, <1>5 DEF TrafficInv, ResponseInv, OwnArguments
<1>10. \A r : Handled(r)' => Handled(r) /\ r # handlers[i].seq
  BY <1>1, <1>5, <1>7 DEF Handled
<1> QED
  BY <1>8, <1>9, <1>10

\* A handler answers its request, from the arguments of that request.
LEMMA HandleTraffic ==
  ASSUME ClientTypeOK, ClientInv, WireInv, WireInv', TrafficInv, Forward, RepliesKept,
         NEW i \in DOMAIN handlers,
         \/ \E o \in Outcomes : HandleReturns(i, o)
         \/ HandleTimesOut(i),
         UNCHANGED clientVars
  PROVE  TrafficInv'
<1>1. /\ UNCHANGED <<rcv, rcall, call>>
      /\ UNCHANGED <<srv, req, c2s, cOpen, link>> /\ handlers' = Finished(i)
  BY DEF HandleReturns, HandleTimesOut, clientVars, callVars, recvVars
<1>2. PICK s \in Seqs : s = handlers[i].seq
  <2>1. handlers[i].seq \in Seqs
    BY FinishedType
  <2> QED
    BY <2>1
<1>3. handlers[i].args = s
  BY <1>2 DEF TrafficInv, ResponseInv, OwnArguments
<1>4. \E t \in AllOutcomes, e \in BOOLEAN : WriteResponse(Hdr(s, t), Body(s, t), e)
  <2>1. CASE SendError(s)
    BY <2>1 DEF SendError, AllOutcomes
  <2>2. CASE \E o \in Outcomes : WriteResponse(Hdr(s, "ok"), Body(s, "ok"), o = "ok")
    BY <2>2 DEF AllOutcomes
  <2> QED
    BY <1>2, <1>3, <2>1, <2>2 DEF HandleReturns, HandleTimesOut
<1>5. PICK t \in AllOutcomes, e \in BOOLEAN : WriteResponse(Hdr(s, t), Body(s, t), e)
  BY <1>4
<1>6. /\ Paired(s2c', ResponsesEnded')
      /\ rcv = "reply" => Answers(s2c', call[rcall].Seq, ResponsesEnded')
      /\ \A r : Carries(s2c', r) => Carries(s2c, r) \/ r = s
      /\ ~Carries(s2c, s) => CarriesOnce(s2c')
  BY <1>1, <1>5, Respond
<1>7. /\ \A j, k \in DOMAIN handlers' : handlers'[j].seq = handlers'[k].seq => j = k
      /\ OwnArguments'
      /\ \A r : Handled(r)' => Handled(r) /\ r # s
  BY <1>1, <1>2, FinishedFacts
<1>8. ResponseInv'
  BY <1>1, <1>6, <1>7 DEF ResponseInv
<1>9. Suffix(c2s', c2s)
  BY <1>1, Suffixes DEF WireInv, ConnTypeOK
<1>10. RequestInv' /\ ReplyInv'
  BY <1>1, <1>9, RequestRead, ReplyStays DEF TrafficInv
<1>11. Handled(s)
  BY <1>2 DEF Handled
<1>12. ~Carries(c2s, s) /\ req # s /\ ~Carries(s2c, s) /\ Sent(s)
  BY <1>11 DEF TrafficInv, OnceInv
<1>13. OnceInv'
  <2>1. CarriesOnce(c2s') /\ \A r : Carries(c2s', r) => Carries(c2s, r)
    BY <1>1 DEF TrafficInv, OnceInv
  <2>2. CarriesOnce(s2c') /\ ~Carries(c2s', s) /\ ~Handled(s)' /\ req' = req /\ req' # s
    BY <1>1, <1>6, <1>7, <1>12
  <2> QED
    BY <1>6, <1>7, <1>12, <2>1, <2>2, OnceResponds DEF TrafficInv
<1> QED
  BY <1>8, <1>10, <1>13 DEF TrafficInv

-----------------------------------------------------------------------------
\* The initial states satisfy StreamInv.
LEMMA InitStream == Init => StreamInv
<1> SUFFICES ASSUME Init PROVE StreamInv
  OBVIOUS
<1>1. PICK o \in Options : ConnInit(o)
  BY DEF Init
<1>2. /\ buf = <<>> /\ s2c = <<>> /\ handlers = <<>> /\ c2s = <<Opt(o)>>
      /\ srv = "options" /\ req = 0 /\ rcv = "header"
      /\ \A c \in Calls : cpc[c] = "idle" /\ ~wbad[c] /\ call[c].Reply = 0
  BY <1>1 DEF ConnInit, Init, ServerInit, ClientInit, NewCall
<1>3. WriterInv
  BY <1>2 DEF WriterInv, Owns
<1>4. /\ DOMAIN s2c = {} /\ DOMAIN handlers = {}
      /\ \A i \in DOMAIN c2s : c2s[i].kind # "hdr"
  <2>1. \A i \in DOMAIN c2s : c2s[i] = Opt(o)
    BY <1>2
  <2> QED
    BY <1>2, <2>1 DEF Opt
<1>5. RequestInv /\ ResponseInv
  BY <1>2, <1>4 DEF RequestInv, ResponseInv, OwnArguments, Paired
<1>6. ReplyInv
  BY <1>2 DEF ReplyInv, NoForeignReply
<1>7. OnceInv
  <2>1. 0 \notin Seqs
    BY MaxSeqAssumption DEF Seqs
  <2> QED
    BY <1>2, <1>4, <2>1 DEF OnceInv, CarriesOnce, Carries, Handled
<1> QED
  BY <1>3, <1>5, <1>6, <1>7 DEF StreamInv

\* Every step keeps StreamInv, when callers do not overlap.
LEMMA NextStream ==
  ASSUME "overlap" \notin Env
  PROVE  IInv /\ StreamInv /\ [Next]_vars => StreamInv'
<1> SUFFICES ASSUME IInv, StreamInv, [Next]_vars PROVE StreamInv'
  OBVIOUS
<1>1. IInv'
  BY NextIInv
<1>2. ClientTypeOK /\ ClientInv /\ WireInv /\ WireInv' /\ WriterInv /\ TrafficInv
  BY <1>1 DEF IInv, TypeOK, WireInv, StreamInv, TrafficInv
<1>3. WriterInv' /\ Forward
  BY <1>2, NextWriter
<1> SUFFICES TrafficInv'
  BY <1>3 DEF StreamInv, TrafficInv
<1>4. ASSUME NEW c \in Calls,
             Begin(c) \/ Caller(c) \/ (AwaitCancel(c) /\ UNCHANGED serverVars)
      PROVE  TrafficInv'
  <2>1. RepliesKept
    BY <1>2, <1>4, CallerForward
  <2>2. CASE FlushWrite(c) /\ UNCHANGED serverVars
    BY <1>2, <1>3, <2>1, <2>2, FlushWriteTraffic
  <2>3. CASE UNCHANGED <<c2s, s2c, srv, req, handlers, rcv, rcall>>
    BY <1>2, <1>3, <2>1, <2>3, TrafficStays
  <2> QED
    BY <1>4, <2>2, <2>3 DEF Begin, Caller, RegisterCall, EncodeHeader, EncodeBody, FlushEnd,
       SendFail, AwaitDone, AwaitCancel, recvVars, connVars, serverVars
<1>5. CASE Receive
  <2>1. ~RecvReply => RepliesKept
    BY <1>2, <1>5, ReceiveForward
  <2>2. CASE RecvReply
    BY <1>2, <1>3, <1>5, <2>2, RecvReplyTraffic DEF Receive
  <2>3. CASE RecvHeader
    <3>1. ~RecvReply
      BY <2>3 DEF RecvHeader, RecvReply
    <3> QED
      BY <1>2, <1>3, <1>5, <2>1, <2>3, <3>1, RecvHeaderTraffic DEF Receive
  <2>4. CASE RecvDiscard
    <3>1. ~RecvReply
      BY <2>4 DEF RecvDiscard, RecvReply
    <3> QED
      BY <1>2, <1>3, <1>5, <2>1, <2>4, <3>1, RecvDiscardTraffic DEF Receive
  <2>5. CASE TerminateCalls
    <3>1. /\ ~RecvReply /\ rcv' # "reply"
          /\ UNCHANGED <<c2s, s2c, srv, req, handlers>>
      BY <1>5, <2>5 DEF TerminateCalls, RecvReply, Receive, connVars, serverVars
    <3> QED
      BY <1>2, <1>3, <2>1, <3>1, TrafficStays
  <2> QED
    BY <1>5, <2>2, <2>3, <2>4, <2>5 DEF Receive
<1>6. CASE Serve \/ Returns \/ TimesOut \/ (Close /\ UNCHANGED serverVars)
             \/ (Cut /\ UNCHANGED <<clientVars, serverVars>>) \/ UNCHANGED vars
  <2>1. RepliesKept /\ UNCHANGED <<rcv, rcall>>
    BY <1>2, <1>6, OtherForward
  <2>2. CASE ServeOptions /\ UNCHANGED clientVars
    BY <1>2, <1>3, <2>1, <2>2, ServeOptionsTraffic
  <2>3. CASE ReadHeader /\ UNCHANGED clientVars
    BY <1>2, <1>3, <2>1, <2>3, ReadHeaderTraffic
  <2>4. CASE ReadBody /\ UNCHANGED clientVars
    BY <1>2, <1>3, <2>1, <2>4, ReadBodyTraffic
  <2>5. CASE Returns \/ TimesOut
    BY <1>2, <1>3, <2>1, <2>5, HandleTraffic DEF Returns, TimesOut
  <2>6. CASE Cut /\ UNCHANGED <<clientVars, serverVars>>
    BY <1>2, <1>3, <2>1, <2>6, CutTraffic
  <2>7. CASE UNCHANGED <<c2s, s2c, req, handlers>> /\ srv' \in {srv, "closed"}
    BY <1>2, <1>3, <2>1, <2>7, TrafficStays
  <2> QED
    BY <1>6, <2>2, <2>3, <2>4, <2>5, <2>6, <2>7 DEF Serve, Drain, Close, vars, connVars, serverVars
<1> QED
  BY <1>4, <1>5, <1>6 DEF Next, Disturb

\* When callers write one after the other, every value on the connection
\* belongs to the one that stands before it, whatever is cut, closed, cancelled,
\* dropped by the options decoder or refused by an encoder.
THEOREM StreamInvariance ==
  ASSUME "overlap" \notin Env
  PROVE  Spec => []StreamInv
<1>1. IInv /\ StreamInv /\ [Next]_vars => StreamInv'
  BY NextStream
<1> QED
  BY <1>1, InitStream, Invariance, PTL DEF Spec

\* The server never takes the body of one request for the arguments of another:
\* readRequest finds behind a header what Write put there.
THEOREM BodiesMatch ==
  ASSUME "overlap" \notin Env
  PROVE  Spec => []BodyMatchesHeader
<1>1. StreamInv => BodyMatchesHeader
  BY DEF StreamInv, RequestInv, Answers, BodyMatchesHeader
<1> QED
  BY <1>1, StreamInvariance, PTL

\* A method runs with the arguments of the call that asked for it: what Write
\* promises its callers holds whenever they do not write at the same time.
THEOREM ArgumentsAreOwn ==
  ASSUME "overlap" \notin Env
  PROVE  Spec => []OwnArguments
<1>1. StreamInv => OwnArguments
  BY DEF StreamInv, ResponseInv
<1> QED
  BY <1>1, StreamInvariance, PTL

\* No reply reaches a call other than the one whose arguments it was computed from.
THEOREM RepliesAreOwn ==
  ASSUME "overlap" \notin Env
  PROVE  Spec => []NoForeignReply
<1>1. StreamInv => NoForeignReply
  BY DEF StreamInv, ReplyInv
<1> QED
  BY <1>1, StreamInvariance, PTL

\* A stream that carries a number at most once has at most one header of it.
LEMMA CountOnce ==
  ASSUME NEW q, CarriesOnce(q), NEW s
  PROVE  Count(q, s) = IF Carries(q, s) THEN 1 ELSE 0
<1> DEFINE T == {i \in DOMAIN q : q[i].seq = s /\ q[i].kind = "hdr"}
<1>1. CASE Carries(q, s)
  <2>1. PICK i \in T : TRUE
    BY <1>1 DEF Carries
  <2>2. T = {i}
    BY <2>1 DEF CarriesOnce
  <2> QED
    BY <1>1, <2>2, FS_Singleton DEF Count
<1>2. CASE ~Carries(q, s)
  <2>1. T = {}
    BY <1>2 DEF Carries
  <2> QED
    BY <1>2, <2>1, FS_EmptySet DEF Count
<1> QED
  BY <1>1, <1>2

\* A request is in one place at a time: no header is read twice, no request is
\* handled twice, and no handler answers twice.
THEOREM RequestsOnce ==
  ASSUME "overlap" \notin Env
  PROVE  Spec => []AtMostOnce
<1>1. StreamInv => AtMostOnce
  <2> SUFFICES ASSUME OnceInv, NEW s \in Seqs
               PROVE  Count(c2s, s) + (IF req = s THEN 1 ELSE 0)
                        + Cardinality({i \in DOMAIN handlers : handlers[i].seq = s})
                        + Count(s2c, s) <= 1
    BY DEF StreamInv, AtMostOnce
  <2>1. /\ Count(c2s, s) = IF Carries(c2s, s) THEN 1 ELSE 0
        /\ Count(s2c, s) = IF Carries(s2c, s) THEN 1 ELSE 0
    BY CountOnce DEF OnceInv
  <2> DEFINE T == {i \in DOMAIN handlers : handlers[i].seq = s}
  <2>2. Cardinality(T) = IF Handled(s) THEN 1 ELSE 0
    <3>1. CASE Handled(s)
      <4>1. PICK i \in T : TRUE
        BY <3>1 DEF Handled
      <4>2. T = {i}
        BY <4>1 DEF OnceInv
      <4> QED
        BY <3>1, <4>2, FS_Singleton
    <3>2. CASE ~Handled(s)
      <4>1. T = {}
        BY <3>2 DEF Handled
      <4> QED
        BY <3>2, <4>1, FS_EmptySet
    <3> QED
      BY <3>1, <3>2
  <2>3. /\ Carries(c2s, s) => req # s /\ ~Handled(s) /\ ~Carries(s2c, s)
        /\ req = s => ~Handled(s) /\ ~Carries(s2c, s)
        /\ Handled(s) => ~Carries(s2c, s)
    BY DEF OnceInv
  <2> HIDE DEF T
  <2>4. Count(c2s, s) + (IF req = s THEN 1 ELSE 0) + Cardinality(T) + Count(s2c, s) <= 1
    BY <2>1, <2>2, <2>3
  <2> QED
    BY <2>4 DEF T
<1> QED
  BY <1>1, StreamInvariance, PTL
=============================================================================
