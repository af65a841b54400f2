------------------------------ MODULE RpcxConn ------------------------------
(***************************************************************************)
(* A client and a server of package rpcx on one connection.                *)
(*                                                                         *)
(* rpcx/client.go has the call table and the receive loop of rpc/client.go *)
(* line by line, so this module takes over the actions of RpcConn for them *)
(* and states what is different: there is no handshake; WriteRequest and   *)
(* WriteResponse return the error of Flush, and close the connection only  *)
(* after a Flush that worked; and the loop of the server ends at the end   *)
(* of the stream only, not at a header it cannot decode.                   *)
(***************************************************************************)
EXTENDS RpcConn

VARIABLE unread   \* the client's end was closed with data that nobody had read,
                  \*   or got some later: the server's next read is a reset

rpcxVars == <<vars, unread>>

RpcxInit ==
  /\ unread = FALSE
  /\ ClientInit
  /\ buf = <<>> /\ werr = FALSE /\ c2s = <<>> /\ s2c = <<>>
  /\ cOpen = TRUE /\ sOpen = TRUE /\ link = TRUE
  /\ srv = "header" /\ req = 0 /\ garbled = FALSE /\ handlers = <<>>

-----------------------------------------------------------------------------
(* clientCodec.WriteRequest: EncodeHeader and EncodeBody, then Flush.      *)

FlushErrorDropped(c) == FlushWrite(c) /\ UNCHANGED unread   \* mutant: as in package rpc
\* Flush up to the return of conn.Write; its error is that of WriteRequest.
FlushRequest(c) ==
  /\ cpc[c] = "flush"
  /\ \/ /\ werr \/ buf = <<>>
        /\ cpc' = [cpc EXCEPT ![c] = IF werr THEN "fail" ELSE "flushing"]
        /\ UNCHANGED <<wn, werr, c2s>>
     \/ /\ ~werr /\ buf # <<>>
        /\ Transmit
        /\ cpc' = [cpc EXCEPT ![c] = IF werr' THEN "fail" ELSE "flushing"]
        /\ wn' = [wn EXCEPT ![c] = IF werr' THEN 0 ELSE Len(buf)]
  /\ UNCHANGED <<kind, call, wbad, ret, tableVars, recvVars,
                 buf, s2c, cOpen, sOpen, link, unread>>

\* What has arrived when the client closes is in the buffer of its decoder, all
\* of it, or some of it is not.
ClientCloses == unread' \in {unread, unread \/ (cOpen /\ ~cOpen' /\ s2c # <<>>)}

\* The rest of Flush, and Close when an Encode had failed; or a short write,
\* which is an error of Flush, and closes nothing.
FlushedRequest(c) ==
  /\ cpc[c] = "flushing"
  /\ wn' = [wn EXCEPT ![c] = 0]
  /\ \/ /\ buf' = IF wn[c] > 0 THEN <<>> ELSE buf
        /\ CloseOnError(c)
        /\ cpc' = [cpc EXCEPT ![c] = IF wbad[c] THEN "fail" ELSE "wait"]
        /\ UNCHANGED werr
     \/ /\ wn[c] > 0 /\ Len(buf) > wn[c]
        /\ werr' = TRUE
        /\ cpc' = [cpc EXCEPT ![c] = "fail"]
        /\ UNCHANGED <<buf, cOpen>>
  /\ ClientCloses
  /\ UNCHANGED <<kind, call, wbad, ret, tableVars, recvVars,
                 c2s, s2c, sOpen, link>>

RpcxCaller(c) ==
  \/ /\ MayWrite(c)
     /\ EncodeHeader(c)
     /\ UNCHANGED <<serverVars, unread>>
  \/ /\ FlushRequest(c) \/ FlushedRequest(c)
     /\ UNCHANGED serverVars
  \/ /\ EncodeBody(c) \/ SendFail(c) \/ AwaitDone(c)
     /\ UNCHANGED <<serverVars, unread>>

-----------------------------------------------------------------------------
(* receive, which may now meet a response with the number 0.               *)

Stray == ClientHas /\ Head(s2c).kind = "hdr" /\ Head(s2c).seq = 0

\* No call has the number 0: the body is discarded, and the loop is left.
RecvStray ==
  /\ rcv = "header" /\ Stray
  /\ s2c' = Tail(s2c)
  /\ rcv' = "discard" /\ rcall' = NoCall
  /\ UNCHANGED <<callVars, tableVars, rerr, buf, werr, c2s, cOpen, sOpen, link>>

RpcxReceive ==
  /\ RecvStray \/ (~Stray /\ RecvHeader) \/ RecvReply \/ RecvDiscard \/ TerminateCalls
  /\ UNCHANGED <<serverVars, unread>>

-----------------------------------------------------------------------------
(* The server.                                                             *)

AtEOFMissed == FALSE                       \* mutant: the test for io.EOF is left out
\* io.EOF: the client has closed, and everything it sent has been read.
AtEOF == sOpen /\ c2s = <<>> /\ ~cOpen /\ link

\* Any other error of a read: the server has closed its own end, or the
\* connection was reset, as it is by a client that closes before it has read
\* all that was sent to it.
ReadReset == ~sOpen \/ (c2s = <<>> /\ (~link \/ (~cOpen /\ unread)))

(***************************************************************************)
(* serverCodec.WriteResponse.  A body that cannot be encoded leaves the    *)
(* header alone on the wire, and the connection closed when Flush could    *)
(* send it.  What is sent to a client that has closed is never read, and   *)
(* resets the connection.                                                  *)
(***************************************************************************)
SendResponse(header, body, encodes) ==
  \/ /\ sOpen /\ cOpen /\ link
     /\ s2c' = s2c \o (IF encodes THEN <<header, body>> ELSE <<header>>)
     /\ sOpen' = encodes
     /\ UNCHANGED unread
  \/ /\ ~(sOpen /\ cOpen /\ link)
     /\ unread' = (unread \/ (sOpen /\ link))
     /\ UNCHANGED s2c
     /\ \/ UNCHANGED sOpen
        \/ ~encodes /\ sOpen' = FALSE

SendInvalid(s) == SendResponse(Hdr(s, "err"), Body(s, "err"), TRUE)

\* readRequest up to findService.  An unknown method is answered by
\* ServeCodec, and its body stays in the stream.
ReadRequestHeader ==
  /\ srv = "header"
  /\ \/ /\ AtEOF
        /\ srv' = "drain"
        /\ UNCHANGED <<req, c2s, s2c, sOpen, unread>>
     \/ /\ ReadReset /\ c2s' = <<>>
        /\ srv' = "discard"
        /\ UNCHANGED <<req, s2c, sOpen, unread>>
     \/ /\ ServerHas
        /\ c2s' = Tail(c2s)
        /\ LET h == Head(c2s) IN
           \/ /\ h.kind # "hdr"
              /\ srv' = "discard"
              /\ UNCHANGED <<req, s2c, sOpen, unread>>
           \/ /\ h.kind = "hdr" /\ h.tag = "noMethod"
              /\ SendInvalid(h.seq)
              /\ UNCHANGED <<srv, req>>
           \/ /\ h.kind = "hdr" /\ h.tag # "noMethod"
              /\ srv' = "body" /\ req' = h.seq
              /\ UNCHANGED <<s2c, sOpen, unread>>
  /\ UNCHANGED <<garbled, handlers, buf, werr, cOpen, link>>

\* After a header that could not be read: ReadRequestBody(nil), whatever comes
\* of it, and a response for the number 0.
DiscardRequestBody ==
  /\ srv = "discard"
  /\ \/ ServerHas /\ c2s' = Tail(c2s)
     \/ (AtEOF \/ ReadReset) /\ c2s' = <<>>
  /\ SendInvalid(0)
  /\ srv' = "header"
  /\ UNCHANGED <<req, garbled, handlers, buf, werr, cOpen, link>>

\* The rest of readRequest: the arguments.  The end of the stream ends the
\* loop; any other error is answered.
ReadRequestBody ==
  /\ srv = "body"
  /\ req' = 0
  /\ \/ /\ AtEOF
        /\ srv' = "drain"
        /\ UNCHANGED <<handlers, c2s, s2c, sOpen, unread>>
     \/ /\ ReadReset /\ c2s' = <<>>
        /\ srv' = "header"
        /\ SendInvalid(req)
        /\ UNCHANGED handlers
     \/ /\ ServerHas
        /\ c2s' = Tail(c2s)
        /\ srv' = "header"
        /\ LET b == Head(c2s) IN
           IF b.kind = "body" /\ b.tag # "badArgs"
             THEN /\ handlers' = Append(handlers, NewHandler(req, b))
                  /\ UNCHANGED <<s2c, sOpen, unread>>
             ELSE /\ SendInvalid(req)
                  /\ UNCHANGED handlers
  /\ UNCHANGED <<garbled, buf, werr, cOpen, link>>

\* handleRequest: the method returns.  There is no timeout, since send leaves
\* the Timeout of its Request at 0.
HandleRequest(i, o) ==
  LET h == handlers[i] IN
  /\ IF o = "err"
       THEN SendInvalid(h.seq)
       ELSE SendResponse(Hdr(h.seq, "ok"), Body(h.args, "ok"), o = "ok")
  /\ handlers' = Finished(i)
  /\ UNCHANGED <<srv, req, garbled, c2s, buf, werr, cOpen, link>>

RpcxServe ==
  /\ \/ ReadRequestHeader \/ DiscardRequestBody \/ ReadRequestBody
     \/ Drain /\ UNCHANGED unread
  /\ UNCHANGED clientVars

RpcxReturns == \E i \in DOMAIN handlers, o \in Outcomes :
  HandleRequest(i, o) /\ UNCHANGED clientVars

-----------------------------------------------------------------------------
RpcxNext ==
  \/ \E c \in Calls : (Begin(c) /\ UNCHANGED unread) \/ RpcxCaller(c)
  \/ RpcxReceive
  \/ RpcxServe
  \/ RpcxReturns
  \/ Disturb /\ ClientCloses

RpcxSpec == RpcxInit /\ [][RpcxNext]_rpcxVars

\* Goroutines that can run do run, and service methods return.
RpcxFairSpec ==
  /\ RpcxSpec
  /\ \A c \in Calls : WF_rpcxVars(RpcxCaller(c))
  /\ WF_rpcxVars(RpcxReceive) /\ WF_rpcxVars(RpcxServe) /\ WF_rpcxVars(RpcxReturns)

-----------------------------------------------------------------------------
\* A call that is made when receive has ended, on a client that was closed,
\* returns: the Write to a closed connection fails, and WriteRequest says so.
LateReturnsAfterClose ==
  \A c \in Calls : (c \in late /\ closing /\ cpc[c] = "header") ~> (cpc[c] = "returned")

\* The server ends the connection after a client that closes in good order.
\* After a reset, and after it has closed its own end in WriteResponse, it
\* does not: the loop of ServeCodec reads errors that are not io.EOF for ever.
ServerEnds == ~cOpen ~> (srv = "closed" \/ ReadReset)
=============================================================================
