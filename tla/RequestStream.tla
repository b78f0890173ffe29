---------------------------- MODULE RequestStream ----------------------------
(***************************************************************************)
(* One request and one response on a libp2p stream of its own, as the      *)
(* Merkle protocol (internal/network/libp2p_merklesync.go), the team-key   *)
(* challenge (libp2p_connect.go) and the browse request (libp2p_file.go)   *)
(* make them.  The server reads the stream to its end before it serves the *)
(* request, and the client reads the stream to its end for the response;   *)
(* the browse request closes the client's write side first, the other two  *)
(* close nothing until they return.  A timeout covers the opening of the   *)
(* stream and nothing after it.                                            *)
(*                                                                         *)
(* A stream ends for its reader when the other side closed it, and with an *)
(* error when the connection is lost.                                      *)
(***************************************************************************)

CONSTANTS
  Request,     \* the requests made over one connection
  HalfClosing  \* those that close the write side before they read

ASSUME StreamAssumption == HalfClosing \subseteq Request

VARIABLES
  connected,  \* whether the connection is there
  client,     \* how far the caller of every request is
  server,     \* how far the stream handler of every request is
  sent,       \* what the client's side of the stream carries, and its end
  reply,      \* what the server's side of the stream carries, and its end
  applied     \* whether the handler took effect

vars == <<connected, client, server, sent, reply, applied>>

Ended == {"ok", "failed"}

\* Empty, part of the data, all of it; each may be closed.
Pipe == [data : {"none", "part", "all"}, closed : BOOLEAN]

TypeOK ==
  /\ connected \in BOOLEAN
  /\ client \in [Request -> {"idle", "open", "written", "reading"} \cup Ended]
  /\ server \in [Request -> {"none", "reading", "served", "refused", "closed"}]
  /\ sent \in [Request -> Pipe] /\ reply \in [Request -> Pipe]
  /\ applied \in [Request -> BOOLEAN]

Init ==
  /\ connected = TRUE
  /\ client = [r \in Request |-> "idle"]
  /\ server = [r \in Request |-> "none"]
  /\ sent = [r \in Request |-> [data |-> "none", closed |-> FALSE]]
  /\ reply = [r \in Request |-> [data |-> "none", closed |-> FALSE]]
  /\ applied = [r \in Request |-> FALSE]

\* NewStream, which may fail or time out.
OpenStream(r) ==
  /\ client[r] = "idle"
  /\ \/ /\ connected
        /\ client' = [client EXCEPT ![r] = "open"]
        /\ server' = [server EXCEPT ![r] = "reading"]
     \/ /\ client' = [client EXCEPT ![r] = "failed"]
        /\ UNCHANGED server
  /\ UNCHANGED <<connected, sent, reply, applied>>

\* A bug ReturnFrom could have: the caller gets what was read, and no error.
ReturnWhatWasRead(r, result) ==
  /\ client' = [client EXCEPT ![r] = reply[r].data]
  /\ sent' = [sent EXCEPT ![r].closed = TRUE]

\* The caller returns; its deferred Close ends its side of the stream.
ReturnFrom(r, result) ==
  /\ client' = [client EXCEPT ![r] = result]
  /\ sent' = [sent EXCEPT ![r].closed = TRUE]

WriteRequest(r) ==
  /\ client[r] = "open" /\ connected
  /\ client' = [client EXCEPT ![r] = "written"]
  /\ sent' = [sent EXCEPT ![r].data = "all"]
  /\ UNCHANGED <<connected, server, reply, applied>>

\* A write that fails may have sent a part.
WriteFails(r) ==
  /\ client[r] = "open"
  /\ \E d \in {"none", "part"} :
       sent' = [sent EXCEPT ![r] = [data |-> d, closed |-> TRUE]]
  /\ client' = [client EXCEPT ![r] = "failed"]
  /\ UNCHANGED <<connected, server, reply, applied>>

\* A bug StartReading could have: no request closes its write side.
ReadWithoutClosing(r) ==
  /\ client[r] = "written"
  /\ client' = [client EXCEPT ![r] = "reading"]
  /\ UNCHANGED <<connected, server, sent, reply, applied>>

StartReading(r) ==
  /\ client[r] = "written"
  /\ client' = [client EXCEPT ![r] = "reading"]
  /\ sent' = [sent EXCEPT ![r].closed = (r \in HalfClosing)]
  /\ UNCHANGED <<connected, server, reply, applied>>

\* io.ReadAll returns at the end of the response, or with an error.  What a
\* handler that refused the request leaves does not parse as a response.
ReadResponse(r) ==
  /\ client[r] = "reading"
  /\ \/ /\ reply[r].closed
        /\ ReturnFrom(r, IF reply[r].data = "all" THEN "ok" ELSE "failed")
     \/ /\ ~connected
        /\ ReturnFrom(r, "failed")
  /\ UNCHANGED <<connected, server, reply, applied>>

\* A bug ServeRequest could have: it serves what it has read when the read
\* fails.
ServeAnything(r) ==
  /\ server[r] = "reading" /\ (sent[r].closed \/ ~connected)
  /\ server' = [server EXCEPT ![r] = "served"]
  /\ applied' = [applied EXCEPT ![r] = TRUE]
  /\ UNCHANGED <<connected, client, sent, reply>>

\* What was received is a request: a part of a JSON message or of a ciphertext
\* is none, but the browse request is a bare path, and so is a part of it.
Parses(r) == sent[r].data = "all" \/ r \in HalfClosing

\* io.ReadAll returns at the end of the request; its handler takes effect or
\* fails.
ServeRequest(r) ==
  /\ server[r] = "reading"
  /\ \/ /\ sent[r].closed /\ Parses(r)
        /\ server' = [server EXCEPT ![r] = "served"]
        /\ applied' = [applied EXCEPT ![r] = TRUE]
     \/ /\ sent[r].closed \/ ~connected
        /\ server' = [server EXCEPT ![r] = "refused"]
        /\ UNCHANGED applied
  /\ UNCHANGED <<connected, client, sent, reply>>

\* The response is written, if there is one, and the deferred Close ends the
\* stream; nothing arrives over a lost connection.
CloseStream(r) ==
  /\ server[r] \in {"served", "refused"}
  /\ server' = [server EXCEPT ![r] = "closed"]
  /\ reply' = [reply EXCEPT ![r] =
       IF connected
         THEN [data |-> IF server[r] = "served" THEN "all" ELSE "none", closed |-> TRUE]
         ELSE @]
  /\ UNCHANGED <<connected, client, sent, applied>>

LoseConnection ==
  /\ connected
  /\ connected' = FALSE
  /\ UNCHANGED <<client, server, sent, reply, applied>>

ClientStep(r) == WriteRequest(r) \/ WriteFails(r) \/ StartReading(r) \/ ReadResponse(r)

ServerStep(r) == ServeRequest(r) \/ CloseStream(r)

Next ==
  \/ \E r \in Request : OpenStream(r) \/ ClientStep(r) \/ ServerStep(r)
  \/ LoseConnection

Spec == Init /\ [][Next]_vars

\* The goroutines of both sides run and handlers return; nothing makes a
\* connection fail, or a request be made.
FairSpec == Spec /\ \A r \in Request : WF_vars(ClientStep(r)) /\ WF_vars(ServerStep(r))
-----------------------------------------------------------------------------
\* A response that was read in whole means that the handler took effect on the
\* whole request, and no part of a request that is not a bare path ever takes
\* effect, although both sides only see how a stream ends.
AnswerMeansApplied ==
  \A r \in Request :
    /\ client[r] = "ok" => applied[r] /\ sent[r].data = "all"
    /\ applied[r] /\ r \notin HalfClosing => sent[r].data = "all"

\* A request that closes its write side returns; one that does not returns if
\* the connection is lost.
RequestsReturn ==
  \A r \in Request :
    client[r] # "idle" /\ (r \in HalfClosing \/ ~connected) ~> client[r] \in Ended

\* Every request returns within a bounded time.
EveryRequestReturns == \A r \in Request : client[r] # "idle" ~> client[r] \in Ended
=============================================================================
