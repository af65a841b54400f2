----------------------------- MODULE RpcServer -----------------------------
(***************************************************************************)
(* One connection of the server of rpc/server.go: the goroutine running    *)
(* ServeConn and serveCodec, and the handleRequest goroutines it starts.   *)
(***************************************************************************)
EXTENDS GobConn

CONSTANTS
  Outcomes,       \* how a service method may end: see AllOutcomes
  HandleTimeout   \* Option.HandleTimeout is not zero

AllOutcomes == {"ok",           \* it returns nil
                "err",          \* it returns an error
                "unencodable"}  \* it returns nil and a reply gob refuses

ASSUME OutcomesAssumption == Outcomes \subseteq AllOutcomes
ASSUME HandleTimeoutAssumption == HandleTimeout \in BOOLEAN

VARIABLES
  srv,       \* where the connection goroutine is
  req,       \* the sequence number of the header just read
  garbled,   \* the options decoder took bytes of the gob stream
  handlers   \* the running handleRequest goroutines, as a sequence

serverVars == <<srv, req, garbled, handlers>>

ServerInit ==
  /\ srv = "options" /\ req = 0 /\ garbled = FALSE
  /\ handlers = <<>>

-----------------------------------------------------------------------------
(* sendResponse with an error in the header and invalidRequest as body.    *)

SendError(s) == WriteResponse(Hdr(s, "err"), Body(s, "err"), TRUE)

(***************************************************************************)
(* ServeConn.  The JSON decoder reads the connection in blocks and is then *)
(* dropped: what it read beyond the options never reaches the gob decoder, *)
(* which misses the type definitions and fails on whatever comes next.     *)
(* Options without the magic number, or with an unknown codec, end the     *)
(* connection.                                                             *)
(***************************************************************************)
ServeOptions ==
  /\ srv = "options"
  /\ \/ /\ ServerHas
        /\ \E k \in 0..(Len(c2s) - 1) :
             /\ c2s' = SubSeq(c2s, k + 2, Len(c2s))
             /\ garbled' = (k > 0)
        /\ IF Head(c2s) = Opt("good")
             THEN srv' = "header" /\ UNCHANGED sOpen
             ELSE srv' = "closed" /\ sOpen' = FALSE
     \/ /\ ServerReadFails
        /\ srv' = "closed" /\ sOpen' = FALSE
        /\ UNCHANGED garbled
  /\ UNCHANGED <<req, handlers, s2c, buf, werr, cOpen, link>>

(***************************************************************************)
(* readRequest up to findService.  A header that cannot be decoded ends    *)
(* the loop.  An unknown method is answered at once, and its body stays in *)
(* the stream.                                                             *)
(***************************************************************************)
ReadHeader ==
  /\ srv = "header"
  /\ \/ /\ ServerReadFails
        /\ srv' = "drain"
        /\ UNCHANGED <<req, s2c, sOpen>>
     \/ /\ ServerHas
        /\ c2s' = Tail(c2s)
        /\ LET h == Head(c2s) IN
           \/ /\ garbled \/ h.kind # "hdr"
              /\ srv' = "drain"
              /\ UNCHANGED <<req, s2c, sOpen>>
           \/ /\ ~garbled /\ h.kind = "hdr" /\ h.tag = "noMethod"
              /\ SendError(h.seq)
              /\ UNCHANGED <<srv, req>>
           \/ /\ ~garbled /\ h.kind = "hdr" /\ h.tag # "noMethod"
              /\ srv' = "body" /\ req' = h.seq
              /\ UNCHANGED <<s2c, sOpen>>
  /\ UNCHANGED <<garbled, handlers, buf, werr, cOpen, link>>

NewHandler(s, b) == [seq |-> s, args |-> b.seq]

(***************************************************************************)
(* The rest of readRequest.  Good arguments start a handler; a body that   *)
(* does not decode, or does not come, is answered with an error, and the   *)
(* loop goes on.                                                           *)
(***************************************************************************)
ReadBody ==
  /\ srv = "body"
  /\ srv' = "header" /\ req' = 0
  /\ \/ /\ ServerReadFails
        /\ SendError(req)
        /\ UNCHANGED handlers
     \/ /\ ServerHas
        /\ c2s' = Tail(c2s)
        /\ LET b == Head(c2s) IN
           IF b.kind = "body" /\ b.tag # "badArgs"
             THEN /\ handlers' = Append(handlers, NewHandler(req, b))
                  /\ UNCHANGED <<s2c, sOpen>>
             ELSE /\ SendError(req)
                  /\ UNCHANGED handlers
  /\ UNCHANGED <<garbled, buf, werr, cOpen, link>>

-----------------------------------------------------------------------------
(* handleRequest and handleCallError of the i-th running handler.          *)

\* Mutant: wg.Done is forgotten.
FinishedKept(i) == handlers
Finished(i) == SubSeq(handlers, 1, i - 1) \o SubSeq(handlers, i + 1, Len(handlers))

\* service.call returns before the timeout, if there is one.
HandleReturns(i, o) ==
  LET h == handlers[i] IN
  /\ IF o = "err"
       THEN SendError(h.seq)
       ELSE WriteResponse(Hdr(h.seq, "ok"), Body(h.args, "ok"), o = "ok")
  /\ handlers' = Finished(i)
  /\ UNCHANGED <<srv, req, garbled, c2s, buf, werr, cOpen, link>>

\* The timeout fires first.  The service goroutine stays behind: nobody
\* receives from `result' any more.
HandleTimesOut(i) ==
  /\ HandleTimeout
  /\ SendError(handlers[i].seq)
  /\ handlers' = Finished(i)
  /\ UNCHANGED <<srv, req, garbled, c2s, buf, werr, cOpen, link>>

\* wg.Wait, then cc.Close.
Drain ==
  /\ srv = "drain" /\ handlers = <<>>
  /\ srv' = "closed" /\ sOpen' = FALSE
  /\ UNCHANGED <<req, garbled, handlers, c2s, s2c, buf, werr, cOpen, link>>
=============================================================================
