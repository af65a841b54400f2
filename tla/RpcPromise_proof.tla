-------------------------- MODULE RpcPromise_proof --------------------------
(***************************************************************************)
(* The proof that RpcConn implements RpcPromise, for any calls, faults and *)
(* interleavings: initial states map to initial states, and every step     *)
(* maps to a step or changes nothing that RpcPromise sees.                 *)
(***************************************************************************)
EXTENDS RpcConn_proof

\* What send and receive know of a call that is not the one at hand.
LEMMA PendingFacts ==
  ASSUME IInv, PromiseInv, NEW c \in Calls, IsPending(c)
  PROVE  /\ cpc[c] # "idle" /\ pending[call[c].Seq] = c /\ rcall # c
         /\ ret[c] # "canceled"
         /\ rcv # "dead" => call[c].Done = 0 /\ ret[c] = "none"
<1>1. PICK s \in Seqs : pending[s] = c
  BY DEF IsPending
<1>2. c # NoCall
  BY CallsAssumption
<1>3. cpc[c] # "idle" /\ call[c].Seq = s
  BY <1>1, <1>2 DEF IInv, ClientInv, PendingInv
<1>4. rcall # c
  BY <1>1, <1>2, <1>3 DEF IInv, ClientInv, ReceiveInv
<1>5. ret[c] # "canceled"
  BY <1>1, <1>3 DEF PromiseInv
<1>6. rcv # "dead" => call[c].Done = 0
  BY <1>1, <1>2 DEF IInv, ClientInv, CompletionInv
<1>7. rcv # "dead" => ret[c] = "none"
  BY <1>5, <1>6 DEF IInv, TypeOK, ClientTypeOK, ClientInv, AnswerInv
<1> QED
  BY <1>1, <1>3, <1>4, <1>5, <1>6, <1>7

\* A call that nobody has given up and that is open is pending, and conversely.
LEMMA OpenIsPending ==
  ASSUME IInv, PromiseInv, rcv # "dead", NEW c \in Calls
  PROVE  IsPending(c) <=> PhaseOf(c) = "open" /\ ret[c] = "none"
<1>1. ASSUME IsPending(c) PROVE PhaseOf(c) = "open" /\ ret[c] = "none"
  BY <1>1, PendingFacts DEF PhaseOf
<1>2. ASSUME PhaseOf(c) = "open", ret[c] = "none" PROVE IsPending(c)
  <2>1. cpc[c] # "idle" /\ call[c].Done = 0 /\ rcall # c
    BY <1>2 DEF PhaseOf, IInv, TypeOK, ClientTypeOK
  <2>2. cpc[c] \in {"header", "body", "flush", "flushing", "fail", "wait"}
    BY <1>2, <2>1 DEF IInv, TypeOK, ClientTypeOK, PromiseInv
  <2>3. pending[call[c].Seq] = c
    BY <2>1, <2>2 DEF IInv, ClientInv, CompletionInv
  <2>4. call[c].Seq \in Seqs
    BY <2>1, MaxSeqAssumption DEF IInv, TypeOK, ClientTypeOK, ClientInv, SeqInv, Seqs
  <2> QED
    BY <2>3, <2>4 DEF IsPending
<1> QED
  BY <1>1, <1>2

-----------------------------------------------------------------------------
\* The part of the state that PromiseInv and RpcPromise look at.
LEMMA WriteSteps ==
  ASSUME NEW c \in Calls, ClientTypeOK,
         EncodeHeader(c) \/ EncodeBody(c) \/ FlushWrite(c) \/ FlushEnd(c)
  PROVE  /\ UNCHANGED <<call, ret, pending, closing, shutdown, late, rcv, rcall>>
         /\ \A d \in Calls : cpc'[d] = cpc[d] \/ (cpc[d] # "idle" /\ cpc'[d] \in
              {"body", "flush", "flushing", "fail", "wait"})
<1> USE DEF ClientTypeOK, tableVars, recvVars
<1>1. CASE EncodeHeader(c)
  BY <1>1 DEF EncodeHeader, EncodeFails
<1>2. CASE EncodeBody(c)
  BY <1>2 DEF EncodeBody, EncodeFails
<1>3. CASE FlushWrite(c)
  BY <1>3 DEF FlushWrite
<1>4. CASE FlushEnd(c)
  BY <1>4 DEF FlushEnd
<1> QED
  BY <1>1, <1>2, <1>3, <1>4

\* It holds initially.
LEMMA InitPromise == Init => PromiseInv
BY DEF Init, ClientInit, NewCall, PromiseInv

\* Every step preserves PromiseInv.
LEMMA NextPromise ==
  ASSUME IInv, PromiseInv, [Next]_vars
  PROVE  PromiseInv'
<1> USE CallsAssumption
<1> DEFINE seen == <<call, ret, pending, rcv, rcall>>
<1>0. ClientTypeOK /\ SeqInv /\ PendingInv /\ ReceiveInv /\ CompletionInv /\ AnswerInv
  BY DEF IInv, TypeOK, ClientInv
<1>1. ASSUME UNCHANGED seen, UNCHANGED cpc PROVE PromiseInv'
  BY <1>1 DEF PromiseInv
<1>2. ASSUME NEW c \in Calls, RegisterCall(c) PROVE PromiseInv'
  <2>1. /\ cpc[c] = "idle" /\ seq \in Seqs /\ UNCHANGED <<ret, rcv, rcall>>
        /\ call' = [call EXCEPT ![c] = Numbered(@, seq)] /\ pending' = [pending EXCEPT ![seq] = c]
        /\ cpc' = [cpc EXCEPT ![c] = "header"]
    BY <1>2 DEF RegisterCall, Registered, recvVars
  <2>2. ret[c] = "none"
    BY <1>0, <2>1 DEF ClientTypeOK, AnswerInv
  <2>3. ASSUME NEW d \in Calls, d # c
        PROVE  call'[d] = call[d] /\ cpc'[d] = cpc[d] /\ (pending'[call[d].Seq] = d => pending[call[d].Seq] = d)
    BY <1>0, <2>1, <2>3, MaxSeqAssumption DEF ClientTypeOK, Seqs
  <2>4. /\ call'[c].Done = call[c].Done /\ call'[c].Reply = call[c].Reply
        /\ call'[c].Error = call[c].Error /\ cpc'[c] = "header"
    BY <1>0, <2>1 DEF ClientTypeOK, Numbered
  <2> QED
    BY <2>1, <2>2, <2>3, <2>4 DEF PromiseInv
<1>3. ASSUME NEW c \in Calls, EncodeHeader(c) \/ EncodeBody(c) \/ FlushWrite(c) \/ FlushEnd(c)
      PROVE  PromiseInv'
  BY <1>0, <1>3, WriteSteps DEF PromiseInv
<1>4. ASSUME NEW c \in Calls, SendFail(c) PROVE PromiseInv'
  <2>1. call[c].Seq \in Seqs /\ pending[call[c].Seq] \in {NoCall, c}
    BY <1>0, <1>4, MaxSeqAssumption DEF SendFail, ClientTypeOK, SeqInv, PendingInv, Seqs
  <2>2. /\ cpc[c] = "fail" /\ UNCHANGED <<ret, rcv, rcall>>
        /\ pending' = [pending EXCEPT ![call[c].Seq] = NoCall]
    BY <1>4 DEF SendFail, Removed, recvVars
  <2>3. CASE pending[call[c].Seq] = NoCall
    <3>1. UNCHANGED call /\ cpc' = [cpc EXCEPT ![c] = "wait"]
      BY <1>4, <2>3 DEF SendFail
    <3> QED
      BY <1>0, <2>1, <2>2, <3>1 DEF PromiseInv, ClientTypeOK
  <2>4. CASE pending[call[c].Seq] = c
    <3>1. /\ call' = [call EXCEPT ![c] = Completed(@, "err")]
          /\ \E l \in {"stuck", "wait"} : cpc' = [cpc EXCEPT ![c] = l]
      BY <1>4, <2>4 DEF SendFail
    <3>2. call'[c].Done = 1 /\ call'[c].Seq = call[c].Seq
      BY <1>0, <3>1 DEF ClientTypeOK, Completed
    <3> QED
      BY <1>0, <2>1, <2>2, <3>1, <3>2 DEF PromiseInv, ClientTypeOK
  <2> QED
    BY <2>1, <2>3, <2>4
<1>5. ASSUME NEW c \in Calls, AwaitDone(c) PROVE PromiseInv'
  BY <1>0, <1>5 DEF AwaitDone, tableVars, recvVars, PromiseInv, ClientTypeOK
<1>6. ASSUME NEW c \in Calls, AwaitCancel(c) PROVE PromiseInv'
  <2>1. call[c].Seq \in Seqs
    BY <1>0, <1>6, MaxSeqAssumption DEF AwaitCancel, ClientTypeOK, SeqInv, Seqs
  <2> QED
    BY <1>0, <1>6, <2>1 DEF AwaitCancel, Removed, recvVars, PromiseInv, ClientTypeOK
<1>7. ASSUME RecvHeader PROVE PromiseInv'
  <2>1. rcv = "header" /\ rcall = NoCall /\ UNCHANGED <<cpc, ret>>
    BY <1>0, <1>7 DEF RecvHeader, ReceiveInv
  <2>2. CASE UNCHANGED <<call, pending>> /\ rcall' \in {rcall, NoCall}
    BY <2>1, <2>2 DEF PromiseInv
  <2>3. CASE \E n \in Seqs : /\ rcall' = pending[n] /\ pending' = Removed(n)
                            /\ \/ rcall' = NoCall /\ UNCHANGED call
                               \/ rcall' # NoCall /\ rcv' = "reply" /\ UNCHANGED call
                               \/ /\ rcall' # NoCall /\ rcv' = "discard"
                                  /\ call' = [call EXCEPT ![rcall'] = Failed(@)]
    <3>1. PICK n \in Seqs : /\ rcall' = pending[n] /\ pending' = Removed(n)
                            /\ \/ rcall' = NoCall /\ UNCHANGED call
                               \/ rcall' # NoCall /\ rcv' = "reply" /\ UNCHANGED call
                               \/ /\ rcall' # NoCall /\ rcv' = "discard"
                                  /\ call' = [call EXCEPT ![rcall'] = Failed(@)]
      BY <2>3
    <3>2. \A d \in Calls : /\ call'[d].Seq = call[d].Seq /\ call'[d].Done = call[d].Done
                           /\ call'[d].Reply = call[d].Reply
                           /\ call'[d].Error = call[d].Error \/ (rcall' = d /\ rcv' = "discard")
      BY <1>0, <3>1 DEF ClientTypeOK, Failed
    <3>3. \A d \in Calls : pending'[call[d].Seq] = d => pending[call[d].Seq] = d
      BY <1>0, <3>1 DEF ClientTypeOK, Removed
    <3> QED
      BY <2>1, <3>2, <3>3 DEF PromiseInv
  <2>4. ASSUME s2c # <<>>, Head(s2c).kind = "hdr" PROVE Head(s2c).seq \in Seqs
    BY <2>4, HeadTail, WireSeq DEF IInv, TypeOK, ConnTypeOK
  <2> QED
    BY <1>7, <2>2, <2>3, <2>4 DEF RecvHeader, ReadFails, ClientHas
<1>8. ASSUME RecvReply \/ RecvDiscard PROVE PromiseInv'
  <2>1. /\ UNCHANGED <<cpc, ret, pending>> /\ rcall' = NoCall /\ rcv \in {"reply", "discard"}
        /\ \/ rcall = NoCall /\ call' = call
           \/ /\ rcall \in Calls
              /\ \E r : /\ call' = [call EXCEPT ![rcall] = r]
                        /\ r.Done = 1 /\ r.Seq = call[rcall].Seq
    <3>1. CASE RecvReply
      <4>1. rcv = "reply" /\ rcall \in Calls /\ UNCHANGED <<cpc, ret, pending>>
        BY <1>0, <3>1 DEF RecvReply, tableVars, ReceiveInv, ClientTypeOK
      <4>2. /\ rcall' = NoCall
            /\ \/ call' = [call EXCEPT ![rcall] = Completed(@, "err")]
               \/ \E v : call' = [call EXCEPT ![rcall] = Replied(@, v)]
        BY <3>1 DEF RecvReply, ReadFails
      <4>3. \A r, v : /\ Completed(r, v).Done = 1 /\ Completed(r, v).Seq = r.Seq
                     /\ Replied(r, v).Done = 1 /\ Replied(r, v).Seq = r.Seq
        BY DEF Completed, Replied
      <4> QED
        BY <4>1, <4>2, <4>3
    <3>2. CASE RecvDiscard
      <4>1. /\ rcv = "discard" /\ rcall \in Calls \cup {NoCall} /\ rcall' = NoCall
            /\ UNCHANGED <<cpc, ret, pending>>
        BY <1>0, <3>2 DEF RecvDiscard, ReadFails, tableVars, ClientTypeOK
      <4>2. call' = IF rcall = NoCall THEN call ELSE [call EXCEPT ![rcall] = Completed(@, @.Error)]
        BY <3>2 DEF RecvDiscard
      <4> DEFINE r == Completed(call[rcall], call[rcall].Error)
      <4>3. r.Done = 1 /\ r.Seq = call[rcall].Seq
        BY DEF Completed
      <4>4. rcall # NoCall => call' = [call EXCEPT ![rcall] = r]
        BY <4>2
      <4> HIDE DEF r
      <4> QED
        BY <4>1, <4>2, <4>3, <4>4
    <3> QED
      BY <1>8, <3>1, <3>2
  <2> QED
    BY <1>0, <2>1 DEF PromiseInv, ClientTypeOK
<1>9. ASSUME TerminateCalls PROVE PromiseInv'
  <2>1. /\ UNCHANGED <<cpc, ret, pending>> /\ rcall' = NoCall /\ rcall = NoCall
        /\ \A d \in Calls : call'[d] = call[d] \/ (call'[d].Done = 1 /\ call'[d].Seq = call[d].Seq)
    BY <1>0, <1>9 DEF TerminateCalls, Terminated, Completed, ReceiveInv
  <2> QED
    BY <2>1 DEF PromiseInv
<1>10. ASSUME Close PROVE PromiseInv'
  BY <1>1, <1>10 DEF Close, callVars, recvVars
<1> QED
  BY <1>1, <1>2, <1>3, <1>4, <1>5, <1>6, <1>7, <1>8, <1>9, <1>10
     DEF Next, vars, clientVars, callVars, tableVars, recvVars, Begin, Caller, Receive, Serve, Returns, TimesOut, Disturb

-----------------------------------------------------------------------------
\* A step that changes none of these is a stutter of RpcPromise.
LEMMA Stutters ==
  ASSUME UNCHANGED <<call, ret, late, shutdown, closing, rcall>>,
         \A c \in Calls : cpc[c] = "idle" <=> cpc'[c] = "idle"
  PROVE  UNCHANGED Promise!promiseVars
BY DEF Promise!promiseVars, Promise!callState, PhaseOf, AnswerOf

\* registerCall.
LEMMA RegisterCallMaps ==
  ASSUME IInv, PromiseInv, NEW c \in Calls, RegisterCall(c)
  PROVE  Promise!Begin(c)
<1> USE CallsAssumption
<1>0. ClientTypeOK /\ SeqInv /\ ReceiveInv
  BY DEF IInv, TypeOK, ClientInv
<1>1. /\ cpc[c] = "idle" /\ UNCHANGED <<ret, rcall, shutdown, closing>>
      /\ call' = [call EXCEPT ![c] = Numbered(@, seq)]
      /\ cpc' = [cpc EXCEPT ![c] = "header"]
      /\ late' = IF shutdown THEN late \cup {c} ELSE late
  BY DEF RegisterCall, recvVars
<1>2. call[c].Done = 0 /\ rcall # c
  BY <1>0, <1>1 DEF SeqInv, ReceiveInv
<1>3. /\ call'[c].Done = 0 /\ cpc'[c] = "header"
      /\ \A d \in Calls : d # c => call'[d] = call[d] /\ cpc'[d] = cpc[d]
  BY <1>0, <1>1, <1>2 DEF ClientTypeOK, Numbered
<1>4. PhaseOf(c) = "new" /\ PhaseOf(c)' = "open" /\ AnswerOf(c)' = AnswerOf(c)
  BY <1>1, <1>2, <1>3 DEF PhaseOf, AnswerOf
<1>5. \A d \in Calls : d # c => PhaseOf(d)' = PhaseOf(d) /\ AnswerOf(d)' = AnswerOf(d)
  BY <1>1, <1>3 DEF PhaseOf, AnswerOf
<1> QED
  BY <1>1, <1>4, <1>5 DEF Promise!Begin

\* send after a failed Write.
LEMMA SendFailMaps ==
  ASSUME IInv, PromiseInv, NEW c \in Calls, SendFail(c)
  PROVE  Promise!Fail(c) \/ UNCHANGED Promise!promiseVars
<1> USE CallsAssumption
<1>0. ClientTypeOK /\ SeqInv /\ PendingInv /\ ReceiveInv /\ CompletionInv /\ AnswerInv
  BY DEF IInv, TypeOK, ClientInv
<1>1. call[c].Seq \in Seqs /\ pending[call[c].Seq] \in {NoCall, c}
  BY <1>0, MaxSeqAssumption DEF SendFail, ClientTypeOK, SeqInv, PendingInv, Seqs
<1>2. cpc[c] = "fail" /\ UNCHANGED <<ret, rcv, rcall, late, shutdown, closing>>
  BY DEF SendFail, recvVars
<1>3. CASE pending[call[c].Seq] = NoCall
  <2>1. UNCHANGED call /\ cpc' = [cpc EXCEPT ![c] = "wait"]
    BY <1>3 DEF SendFail
  <2> QED
    BY <1>0, <1>2, <2>1, Stutters DEF ClientTypeOK
<1>4. CASE pending[call[c].Seq] = c
  <2>1. /\ call' = [call EXCEPT ![c] = Completed(@, "err")]
        /\ \E l \in {"stuck", "wait"} : cpc' = [cpc EXCEPT ![c] = l]
    BY <1>4 DEF SendFail
  <2>2. /\ call'[c].Done = 1 /\ call'[c].Error = "err" /\ cpc'[c] # "idle"
        /\ \A d \in Calls : d # c => call'[d] = call[d] /\ cpc'[d] = cpc[d]
    BY <1>0, <2>1 DEF ClientTypeOK, Completed
  <2>3. IsPending(c)
    BY <1>1, <1>4 DEF IsPending
  <2>4. rcall # c /\ ret[c] = "none"
    BY <1>0, <1>2, <2>3, PendingFacts DEF AnswerInv, ClientTypeOK
  <2>5. PhaseOf(c) = "open" \/ (PhaseOf(c) = "settled" /\ shutdown)
    BY <1>0, <1>2, <2>3, <2>4, PendingFacts DEF PhaseOf, ReceiveInv
  <2>6. PhaseOf(c)' = "settled" /\ AnswerOf(c)' = "err"
    BY <2>2 DEF PhaseOf, AnswerOf
  <2>7. \A d \in Calls : d # c => PhaseOf(d)' = PhaseOf(d) /\ AnswerOf(d)' = AnswerOf(d)
    BY <1>2, <2>2 DEF PhaseOf, AnswerOf
  <2> QED
    BY <1>2, <2>4, <2>5, <2>6, <2>7 DEF Promise!Fail
<1> QED
  BY <1>1, <1>3, <1>4

\* Call returns.
LEMMA AwaitMaps ==
  ASSUME IInv, PromiseInv, NEW c \in Calls
  PROVE  /\ AwaitDone(c) => Promise!Return(c)
         /\ AwaitCancel(c) => Promise!Cancel(c)
<1>0. ClientTypeOK /\ AnswerInv
  BY DEF IInv, TypeOK, ClientInv
<1>1. ASSUME AwaitDone(c) PROVE Promise!Return(c)
  <2>1. /\ cpc[c] = "wait" /\ call[c].Done = 1
        /\ UNCHANGED <<call, late, shutdown, closing, rcall>>
        /\ ret' = [ret EXCEPT ![c] = IF call[c].Error = "nil" THEN "ok" ELSE "err"]
        /\ cpc' = [cpc EXCEPT ![c] = "returned"]
    BY <1>1 DEF AwaitDone, tableVars, recvVars
  <2>2. ret[c] = "none" /\ PhaseOf(c) = "settled"
    BY <1>0, <2>1 DEF AnswerInv, PhaseOf
  <2>3. \A d \in Calls : PhaseOf(d)' = PhaseOf(d) /\ AnswerOf(d)' = AnswerOf(d)
    BY <1>0, <2>1 DEF PhaseOf, AnswerOf, ClientTypeOK
  <2>4. (IF ret'[c] = "ok" THEN AnswerOf(c) ELSE ret'[c]) = AnswerOf(c)
    BY <1>0, <2>1 DEF AnswerOf, ClientTypeOK
  <2>5. \A d \in Calls : d # c => ret'[d] = ret[d]
    BY <1>0, <2>1 DEF ClientTypeOK
  <2> QED
    BY <2>1, <2>2, <2>3, <2>4, <2>5 DEF Promise!Return
<1>2. ASSUME AwaitCancel(c) PROVE Promise!Cancel(c)
  <2>1. /\ cpc[c] = "wait" /\ UNCHANGED <<call, late, shutdown, closing, rcall>>
        /\ ret' = [ret EXCEPT ![c] = "canceled"]
        /\ cpc' = [cpc EXCEPT ![c] = "returned"]
    BY <1>2 DEF AwaitCancel, recvVars
  <2>2. ret[c] = "none" /\ PhaseOf(c) # "new"
    BY <1>0, <2>1 DEF AnswerInv, PhaseOf
  <2>3. \A d \in Calls : PhaseOf(d)' = PhaseOf(d) /\ AnswerOf(d)' = AnswerOf(d)
    BY <1>0, <2>1 DEF PhaseOf, AnswerOf, ClientTypeOK
  <2>4. ret'[c] = "canceled" /\ \A d \in Calls : d # c => ret'[d] = ret[d]
    BY <1>0, <2>1 DEF ClientTypeOK
  <2> QED
    BY <2>1, <2>2, <2>3, <2>4 DEF Promise!Cancel
<1> QED
  BY <1>1, <1>2

-----------------------------------------------------------------------------
\* The loop of receive.
LEMMA RecvHeaderMaps ==
  ASSUME IInv, PromiseInv, RecvHeader
  PROVE  (\E c \in Calls : Promise!Hold(c)) \/ UNCHANGED Promise!promiseVars
<1> USE CallsAssumption
<1>0. ClientTypeOK /\ ReceiveInv
  BY DEF IInv, TypeOK, ClientInv
<1>1. /\ rcv = "header" /\ rcall = NoCall /\ ~shutdown
      /\ UNCHANGED <<cpc, ret, late, shutdown, closing>>
  BY <1>0 DEF RecvHeader, ReceiveInv
<1>2. CASE UNCHANGED call /\ rcall' = NoCall
  BY <1>1, <1>2, Stutters
<1>3. ASSUME NEW n \in Seqs, rcall' = pending[n], rcall' # NoCall,
             UNCHANGED call \/ call' = [call EXCEPT ![rcall'] = Failed(@)]
      PROVE  \E c \in Calls : Promise!Hold(c)
  <2>1. PICK c \in Calls : c = rcall'
    BY <1>0, <1>3 DEF ClientTypeOK
  <2>2. IsPending(c)
    BY <1>3, <2>1 DEF IsPending
  <2>3. PhaseOf(c) = "open" /\ ret[c] = "none" /\ call[c].Done = 0 /\ cpc[c] # "idle"
    BY <1>1, <2>2, OpenIsPending, PendingFacts
  <2>4. /\ call'[c].Done = 0
        /\ \A d \in Calls : d # c => call'[d] = call[d]
    BY <1>0, <1>3, <2>1, <2>3 DEF ClientTypeOK, Failed
  <2>5. PhaseOf(c)' = "held" /\ AnswerOf(c)' = AnswerOf(c)
    BY <1>1, <2>1, <2>3, <2>4 DEF PhaseOf, AnswerOf
  <2>6. \A d \in Calls : d # c => PhaseOf(d)' = PhaseOf(d) /\ AnswerOf(d)' = AnswerOf(d)
    BY <1>1, <2>1, <2>4 DEF PhaseOf, AnswerOf
  <2>7. Promise!Hold(c)
    BY <1>1, <2>3, <2>5, <2>6 DEF Promise!Hold
  <2> QED
    BY <2>7
<1>4. ASSUME s2c # <<>>, Head(s2c).kind = "hdr" PROVE Head(s2c).seq \in Seqs
  BY <1>4, HeadTail, WireSeq DEF IInv, TypeOK, ConnTypeOK
<1>5. CASE ReadFails /\ UNCHANGED <<call, pending>>
  BY <1>2, <1>5 DEF ReadFails
<1>6. CASE ClientHas /\ Head(s2c).kind # "hdr"
  BY <1>1, <1>2, <1>5, <1>6 DEF RecvHeader
<1>7. CASE ClientHas /\ Head(s2c).kind = "hdr"
           /\ ~(ReadFails /\ UNCHANGED <<call, pending>>)
  <2>1. Head(s2c).seq \in Seqs
    BY <1>4, <1>7 DEF ClientHas
  <2>2. /\ rcall' = pending[Head(s2c).seq]
        /\ rcall' = NoCall => UNCHANGED call
        /\ UNCHANGED call \/ call' = [call EXCEPT ![rcall'] = Failed(@)]
    BY <1>7 DEF RecvHeader
  <2> QED
    BY <1>2, <1>3, <2>1, <2>2
<1> QED
  BY <1>5, <1>6, <1>7 DEF RecvHeader

\* receive completes the call that it holds.
LEMMA CompletionMaps ==
  ASSUME IInv, PromiseInv, NEW c \in Calls, rcall = c, NEW r, NEW x \in {"reply", "err"},
         call' = [call EXCEPT ![c] = r], rcall' = NoCall,
         r.Done = 1, IF x = "err" THEN r.Error = "err" ELSE r.Error = "nil" /\ r.Reply # 0,
         UNCHANGED <<cpc, ret, late, shutdown, closing>>
  PROVE  Promise!Settle(c, x)
<1> USE CallsAssumption
<1>0. ClientTypeOK /\ ReceiveInv /\ AnswerInv
  BY DEF IInv, TypeOK, ClientInv
<1>1. cpc[c] # "idle" /\ call[c].Done = 0 /\ ret[c] \in {"none", "canceled"}
  BY <1>0 DEF ReceiveInv, AnswerInv, ClientTypeOK
<1>2. call'[c] = r /\ \A d \in Calls : d # c => call'[d] = call[d]
  BY <1>0 DEF ClientTypeOK
<1>3. PhaseOf(c) = "held"
  BY <1>1 DEF PhaseOf
<1>4. PhaseOf(c)' = "settled"
  <2>1. cpc'[c] # "idle" /\ call'[c].Done = 1
    BY <1>1, <1>2
  <2> QED
    BY <2>1 DEF PhaseOf
<1>5. AnswerOf(c)' = x
  <2>1. call'[c].Done = 1 /\ IF x = "err" THEN call'[c].Error = "err"
                             ELSE call'[c].Error = "nil" /\ call'[c].Reply # 0
    BY <1>2
  <2> QED
    BY <2>1 DEF AnswerOf
<1>6. \A d \in Calls : d # c => PhaseOf(d)' = PhaseOf(d) /\ AnswerOf(d)' = AnswerOf(d)
  BY <1>2 DEF PhaseOf, AnswerOf
<1> QED
  BY <1>1, <1>3, <1>4, <1>5, <1>6 DEF Promise!Settle

LEMMA RecvReplyMaps ==
  ASSUME IInv, PromiseInv, RecvReply
  PROVE  \E c \in Calls, x \in {"reply", "err"} : Promise!Settle(c, x)
<1>0. ClientTypeOK /\ ReceiveInv
  BY DEF IInv, TypeOK, ClientInv
<1>1. PICK c \in Calls : rcall = c
  BY <1>0, CallsAssumption DEF RecvReply, ReceiveInv, ClientTypeOK
<1>2. /\ rcv = "reply" /\ rcall' = NoCall
      /\ UNCHANGED <<cpc, ret, late, shutdown, closing>>
  BY DEF RecvReply, ReadFails, tableVars
<1>3. CASE call' = [call EXCEPT ![c] = Completed(@, "err")]
  <2> DEFINE r == Completed(call[c], "err")
  <2>1. r.Done = 1 /\ r.Error = "err" /\ call' = [call EXCEPT ![c] = r]
    BY <1>3 DEF Completed
  <2> HIDE DEF r
  <2> QED
    BY <1>1, <1>2, <2>1, CompletionMaps
<1>4. CASE \E v \in Seqs : call' = [call EXCEPT ![c] = Replied(@, v)]
  <2>1. PICK v \in Seqs : call' = [call EXCEPT ![c] = Replied(@, v)]
    BY <1>4
  <2> DEFINE r == Replied(call[c], v)
  <2>2. call[c].Error = "nil"
    BY <1>0, <1>1, <1>2, CallsAssumption DEF ReceiveInv, PromiseInv
  <2>3. r.Done = 1 /\ r.Error = "nil" /\ r.Reply # 0 /\ call' = [call EXCEPT ![c] = r]
    BY <2>1, <2>2, MaxSeqAssumption DEF Replied, Seqs
  <2> HIDE DEF r
  <2> QED
    BY <1>1, <1>2, <2>3, CompletionMaps
<1>5. ASSUME s2c # <<>>, Head(s2c).kind = "body" PROVE Head(s2c).seq \in Seqs
  BY <1>5, HeadTail, WireSeq DEF IInv, TypeOK, ConnTypeOK
<1> QED
  BY <1>1, <1>3, <1>4, <1>5 DEF RecvReply, ReadFails, ClientHas

LEMMA RecvDiscardMaps ==
  ASSUME IInv, PromiseInv, RecvDiscard
  PROVE  (\E c \in Calls : Promise!Settle(c, "err")) \/ UNCHANGED Promise!promiseVars
<1>0. ClientTypeOK /\ ReceiveInv
  BY DEF IInv, TypeOK, ClientInv
<1>1. /\ rcv = "discard" /\ rcall' = NoCall
      /\ UNCHANGED <<cpc, ret, late, shutdown, closing>>
      /\ call' = IF rcall = NoCall THEN call ELSE [call EXCEPT ![rcall] = Completed(@, @.Error)]
  BY DEF RecvDiscard, ReadFails, tableVars
<1>2. CASE rcall = NoCall
  BY <1>1, <1>2, Stutters
<1>3. ASSUME NEW c \in Calls, rcall = c PROVE Promise!Settle(c, "err")
  <2> DEFINE r == Completed(call[c], call[c].Error)
  <2>1. call[c].Error = "err"
    BY <1>0, <1>1, <1>3, CallsAssumption DEF ReceiveInv
  <2>2. r.Done = 1 /\ r.Error = "err" /\ call' = [call EXCEPT ![c] = r]
    BY <1>1, <1>3, <2>1, CallsAssumption DEF Completed
  <2> HIDE DEF r
  <2> QED
    BY <1>1, <1>3, <2>2, CompletionMaps
<1> QED
  BY <1>0, <1>2, <1>3 DEF ClientTypeOK

\* terminateCalls completes what is open, with the error that receive has.
LEMMA TerminateCallsMaps ==
  ASSUME IInv, PromiseInv, TerminateCalls
  PROVE  Promise!End("client", rerr)
<1>0. ClientTypeOK /\ ReceiveInv
  BY DEF IInv, TypeOK, ClientInv
<1>1. /\ rcv = "terminate" /\ rcall = NoCall /\ ~shutdown /\ rerr \in {"nil", "err"}
      /\ shutdown' = TRUE /\ UNCHANGED <<cpc, ret, late, closing, rcall>>
      /\ call' = Terminated(rerr)
  BY <1>0 DEF TerminateCalls, ReceiveInv, ClientTypeOK
<1>2. \A c \in Calls : PhaseOf(c) # "held"
  BY <1>1, CallsAssumption DEF PhaseOf
<1>3. ASSUME NEW c \in Calls
      PROVE  IF PhaseOf(c) = "open" /\ ret[c] = "none"
               THEN /\ PhaseOf(c)' = "settled"
                    /\ AnswerOf(c)' = IF rerr = "nil" THEN "silent" ELSE "err"
               ELSE PhaseOf(c)' = PhaseOf(c) /\ AnswerOf(c)' = AnswerOf(c)
  <2>1. CASE IsPending(c)
    <3>1. cpc[c] # "idle" /\ call[c].Done = 0 /\ PhaseOf(c) = "open" /\ ret[c] = "none"
      BY <1>1, <2>1, PendingFacts, OpenIsPending
    <3>2. call'[c].Done = 1 /\ call'[c].Error = rerr /\ call'[c].Reply = 0 /\ cpc'[c] # "idle"
      BY <1>1, <2>1, <3>1 DEF Terminated, Completed, PromiseInv
    <3>3. PhaseOf(c)' = "settled"
      BY <3>2 DEF PhaseOf
    <3>4. AnswerOf(c)' = IF rerr = "nil" THEN "silent" ELSE "err"
      BY <1>1, <3>2 DEF AnswerOf
    <3> QED
      BY <3>1, <3>3, <3>4
  <2>2. CASE ~IsPending(c)
    <3>1. ~(PhaseOf(c) = "open" /\ ret[c] = "none")
      BY <1>1, <2>2, OpenIsPending
    <3>2. call'[c] = call[c]
      BY <1>1, <2>2 DEF Terminated
    <3>3. PhaseOf(c)' = PhaseOf(c) /\ AnswerOf(c)' = AnswerOf(c)
      BY <1>1, <3>2 DEF PhaseOf, AnswerOf
    <3> QED
      BY <3>1, <3>3
  <2> QED
    BY <2>1, <2>2
<1>4. ASSUME NEW c \in Calls, ret[c] = "ok" PROVE AnswerOf(c)' = AnswerOf(c)
  BY <1>3, <1>4
<1>5. ASSUME NEW c \in Calls
      PROVE  (IF ret[c] = "ok" THEN AnswerOf(c) ELSE ret[c]) = "none" <=> ret[c] = "none"
  <2>1. ret[c] = "ok" => AnswerOf(c) # "none"
    BY <1>0 DEF IInv, ClientInv, AnswerInv, AnswerOf
  <2> QED
    BY <2>1
<1> QED
  BY <1>1, <1>2, <1>3, <1>4, <1>5 DEF Promise!End, Promise!Owed

LEMMA CloseMaps ==
  ASSUME Close
  PROVE  Promise!Close("client")
<1>1. UNCHANGED <<cpc, call, ret, late, shutdown, rcall>> /\ closing' = TRUE
  BY DEF Close, callVars, recvVars
<1>2. \A c \in Calls : PhaseOf(c)' = PhaseOf(c) /\ AnswerOf(c)' = AnswerOf(c)
  BY <1>1 DEF PhaseOf, AnswerOf
<1>3. [k \in {"client"} |-> closing'] = [[k \in {"client"} |-> closing] EXCEPT !["client"] = TRUE]
  BY <1>1
<1> QED
  BY <1>1, <1>2, <1>3 DEF Promise!Close, Promise!callState

\* The initial states map to an initial state.
LEMMA InitMaps == Init => Promise!PromiseInit
<1> SUFFICES ASSUME Init PROVE Promise!PromiseInit
  OBVIOUS
<1>1. late = {} /\ shutdown = FALSE /\ closing = FALSE
  BY DEF Init, ClientInit
<1>2. ASSUME NEW c \in Calls
      PROVE  cpc[c] = "idle" /\ ret[c] = "none" /\ call[c].Done = 0
  BY <1>2 DEF Init, ClientInit, NewCall
<1>3. \A c \in Calls : PhaseOf(c) = "new" /\ AnswerOf(c) = "none"
  BY <1>2 DEF PhaseOf, AnswerOf
<1>4. [c \in Calls |-> "client"] \in [Calls -> {"client"} \cup {"nil"}]
  OBVIOUS
<1>5. [k \in {"client"} |-> IF shutdown THEN "over" ELSE "up"]
        \in [{"client"} -> {"none", "up"}]
  BY <1>1
<1>6. \A c \in Calls : (IF ret[c] = "ok" THEN AnswerOf(c) ELSE ret[c]) = "none"
  BY <1>2
<1>7. [k \in {"client"} |-> closing] = [k \in {"client"} |-> FALSE]
  BY <1>1
<1> QED
  BY <1>1, <1>3, <1>4, <1>5, <1>6, <1>7 DEF Promise!PromiseInit

\* Every step maps to a step of RpcPromise or to a stutter.
LEMMA NextMaps ==
  ASSUME IInv, PromiseInv, [Next]_vars
  PROVE  [Promise!PromiseNext]_Promise!promiseVars
<1> USE DEF Promise!PromiseNext
<1>0. ClientTypeOK
  BY DEF IInv, TypeOK
<1>1. ASSUME UNCHANGED clientVars PROVE UNCHANGED Promise!promiseVars
  BY <1>1, Stutters DEF clientVars, callVars, tableVars, recvVars
<1>2. ASSUME NEW c \in Calls, Begin(c) PROVE Promise!PromiseNext
  BY <1>2, RegisterCallMaps DEF Begin
<1>3. ASSUME NEW c \in Calls, Caller(c) PROVE [Promise!PromiseNext]_Promise!promiseVars
  <2>1. CASE EncodeHeader(c) \/ EncodeBody(c) \/ FlushWrite(c) \/ FlushEnd(c)
    <3>1. UNCHANGED <<call, ret, late, shutdown, closing, rcall>>
      BY <1>0, <2>1, WriteSteps
    <3>2. \A d \in Calls : cpc[d] = "idle" <=> cpc'[d] = "idle"
      BY <1>0, <2>1, WriteSteps
    <3> QED
      BY <3>1, <3>2, Stutters
  <2>2. CASE SendFail(c)
    BY <2>2, SendFailMaps
  <2>3. CASE AwaitDone(c)
    BY <2>3, AwaitMaps
  <2> QED
    BY <1>3, <2>1, <2>2, <2>3 DEF Caller
<1>4. ASSUME Receive PROVE [Promise!PromiseNext]_Promise!promiseVars
  <2>1. CASE RecvHeader
    BY <2>1, RecvHeaderMaps
  <2>2. CASE RecvReply
    BY <2>2, RecvReplyMaps
  <2>3. CASE RecvDiscard
    BY <2>3, RecvDiscardMaps
  <2>4. CASE TerminateCalls
    <3>1. rerr \in {"nil", "err"}
      BY <1>0 DEF ClientTypeOK
    <3> QED
      BY <2>4, <3>1, TerminateCallsMaps
  <2> QED
    BY <1>4, <2>1, <2>2, <2>3, <2>4 DEF Receive
<1>5. ASSUME Disturb PROVE [Promise!PromiseNext]_Promise!promiseVars
  BY <1>1, <1>5, AwaitMaps, CloseMaps DEF Disturb
<1> QED
  BY <1>1, <1>2, <1>3, <1>4, <1>5 DEF Next, vars, Serve, Returns, TimesOut

\* The client on its connection implements what its users see: RpcConn
\* implements RpcPromise.
THEOREM Refinement == Spec => KeepsPromise
<1>1. Init => PromiseInv /\ Promise!PromiseInit
  BY InitPromise, InitMaps
<1>2. IInv /\ PromiseInv /\ [Next]_vars => PromiseInv'
  BY NextPromise
<1>3. IInv /\ PromiseInv /\ [Next]_vars => [Promise!PromiseNext]_Promise!promiseVars
  BY NextMaps
<1> QED
  BY <1>1, <1>2, <1>3, Invariance, PTL DEF Spec, KeepsPromise, Promise!PromiseSpec
=============================================================================
