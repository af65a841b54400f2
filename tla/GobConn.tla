------------------------------ MODULE GobConn ------------------------------
(***************************************************************************)
(* One TCP connection with a GobCodec at each end (rpc/codec/gob.go).      *)
(*                                                                         *)
(* A gob stream is a sequence of self-delimiting values, and every Decode  *)
(* consumes exactly one of them, also when its type does not match.  A     *)
(* value is abstracted to its kind (a Header, a body, the JSON options of  *)
(* the handshake, or bytes no decoder accepts), the sequence number it     *)
(* carries or was computed from, and a tag.                                *)
(*                                                                         *)
(* The client's writer is modelled in detail, since the client shares it   *)
(* between goroutines without a lock.  The server writes under its         *)
(* `sending' mutex, so a response is written in one step.                  *)
(***************************************************************************)
EXTENDS Naturals, Sequences

VARIABLES
  buf,    \* c.buf of the client: values encoded and not yet flushed
  werr,   \* the sticky error of that bufio.Writer
  c2s,    \* values in flight to the server, oldest first
  s2c,    \* values in flight to the client, oldest first
  cOpen,  \* the client has not closed its end
  sOpen,  \* the server has not closed its end
  link    \* the network still carries the connection

connVars == <<buf, werr, c2s, s2c, cOpen, sOpen, link>>

Hdr(s, tag)  == [kind |-> "hdr",  seq |-> s, tag |-> tag]
Body(s, tag) == [kind |-> "body", seq |-> s, tag |-> tag]
Opt(tag)     == [kind |-> "opt",  seq |-> 0, tag |-> tag]
Junk         == [kind |-> "junk", seq |-> 0, tag |-> "junk"]

ConnInit(options) ==
  /\ buf = <<>> /\ werr = FALSE
  /\ c2s = <<Opt(options)>>         \* NewClient has sent the JSON options
  /\ s2c = <<>>
  /\ cOpen = TRUE /\ sOpen = TRUE /\ link = TRUE

(***************************************************************************)
(* Reading.  A read fails when everything that arrived has been read and   *)
(* the peer closed or the network broke; it blocks when neither a value    *)
(* nor a failure is there.  gob.Decoder reads ahead: when this end has     *)
(* been closed, a value that had arrived may be in its buffer, and is      *)
(* decoded, or it is not, and the read fails.                              *)
(***************************************************************************)
ClientHas   == s2c # <<>>
ClientFails == ~cOpen \/ (s2c = <<>> /\ ~(sOpen /\ link))
ServerHas   == c2s # <<>>
ServerFails == ~sOpen \/ (c2s = <<>> /\ ~(cOpen /\ link))

\* The server may read again after a failure.  What was not in the buffer then
\* never will be.
ServerReadFails == ServerFails /\ c2s' = <<>>

(***************************************************************************)
(* conn.Write of the client's buffer.  A healthy connection takes it; a    *)
(* connection closed on this side refuses it; a connection closed by the   *)
(* peer or broken in the network may still accept bytes nobody will read.  *)
(***************************************************************************)
Transmit ==
  \/ /\ cOpen /\ sOpen /\ link
     /\ c2s' = c2s \o buf
     /\ UNCHANGED werr
  \/ /\ cOpen /\ ~(sOpen /\ link)
     /\ werr' \in BOOLEAN
     /\ UNCHANGED c2s
  \/ /\ ~cOpen
     /\ werr' = TRUE
     /\ UNCHANGED c2s

(***************************************************************************)
(* Write of a response: header and body are encoded and flushed in one     *)
(* step.  A body gob cannot encode leaves the header alone on the wire and *)
(* closes the connection.  On a broken connection the flush error is       *)
(* dropped, and the sticky error it leaves closes the codec in a later     *)
(* Write, which the free choice of sOpen' covers.                          *)
(***************************************************************************)
WriteResponse(header, body, encodes) ==
  \/ /\ sOpen /\ cOpen /\ link /\ encodes
     /\ s2c' = s2c \o <<header, body>>
     /\ UNCHANGED sOpen
  \/ /\ sOpen /\ cOpen /\ link /\ ~encodes
     /\ s2c' = Append(s2c, header)
     /\ sOpen' = FALSE
  \/ /\ ~(sOpen /\ cOpen /\ link)
     /\ UNCHANGED s2c
     /\ sOpen' \in {sOpen, FALSE}

\* The network gives up the connection; what is in flight may be lost.
Cut ==
  /\ link
  /\ link' = FALSE
  /\ \E lost \in BOOLEAN :
       /\ c2s' = IF lost THEN <<>> ELSE c2s
       /\ s2c' = IF lost THEN <<>> ELSE s2c
  /\ UNCHANGED <<buf, werr, cOpen, sOpen>>
=============================================================================
