------------------------ MODULE RequestStreamProofs ------------------------
(***************************************************************************)
(* Proofs about RequestStream, for any set of requests and any choice of   *)
(* the half-closing ones.  The argument: the caller has written the whole  *)
(* request before it reads, and a response exists only once the handler    *)
(* took effect; how the streams end does not matter.                       *)
(***************************************************************************)
EXTENDS RequestStream, TLAPS

\* What a stream carries agrees with where its two ends are.
Carried ==
  \A r \in Request :
    /\ client[r] \in {"idle", "open"} => sent[r].data = "none"
    /\ client[r] \in {"written", "reading", "ok"} => sent[r].data = "all"
    /\ server[r] = "served" \/ reply[r].data = "all" => applied[r]

Inv == TypeOK /\ Carried /\ AnswerMeansApplied

LEMMA InitInv == Init => Inv
  BY DEF Init, Inv, TypeOK, Carried, AnswerMeansApplied, Pipe, Ended

LEMMA TypeStep == TypeOK /\ [Next]_vars => TypeOK'
  <1> SUFFICES ASSUME TypeOK, [Next]_vars PROVE TypeOK'
    OBVIOUS
  <1> USE DEF TypeOK, Ended
  <1>1. ASSUME NEW r \in Request, WriteRequest(r) PROVE TypeOK'
    BY <1>1 DEF WriteRequest, Pipe
  <1>2. ASSUME NEW r \in Request, WriteFails(r) PROVE TypeOK'
    BY <1>2 DEF WriteFails, Pipe
  <1>3. ASSUME NEW r \in Request, StartReading(r) PROVE TypeOK'
    <2>1. (r \in HalfClosing) \in BOOLEAN
      OBVIOUS
    <2> QED
      BY <1>3, <2>1 DEF StartReading, Pipe
  <1>4. ASSUME NEW r \in Request, ReadResponse(r) PROVE TypeOK'
    <2>1. sent' = [sent EXCEPT ![r].closed = TRUE] /\ UNCHANGED <<connected, server, reply, applied>>
      BY <1>4 DEF ReadResponse, ReturnFrom
    <2>2. sent' \in [Request -> Pipe]
      BY <2>1 DEF Pipe
    <2>3. client' = [client EXCEPT ![r] = "ok"] \/ client' = [client EXCEPT ![r] = "failed"]
      BY <1>4 DEF ReadResponse, ReturnFrom
    <2> QED
      BY <2>1, <2>2, <2>3
  <1>5. ASSUME NEW r \in Request, ServeRequest(r) PROVE TypeOK'
    BY <1>5 DEF ServeRequest
  <1>6. ASSUME NEW r \in Request, CloseStream(r) PROVE TypeOK'
    BY <1>6 DEF CloseStream, Pipe
  <1>7. ASSUME NEW r \in Request, OpenStream(r) PROVE TypeOK'
    BY <1>7 DEF OpenStream
  <1>8. ASSUME LoseConnection \/ UNCHANGED vars PROVE TypeOK'
    BY <1>8 DEF LoseConnection, vars
  <1> QED
    BY <1>1, <1>2, <1>3, <1>4, <1>5, <1>6, <1>7, <1>8 DEF Next, ClientStep, ServerStep

LEMMA CarriedStep == Inv /\ [Next]_vars => Carried' /\ AnswerMeansApplied'
  <1> SUFFICES ASSUME Inv, [Next]_vars PROVE Carried' /\ AnswerMeansApplied'
    OBVIOUS
  <1> USE DEF Inv, TypeOK, Carried, AnswerMeansApplied, Ended
  <1>1. ASSUME NEW r \in Request, WriteRequest(r) PROVE Carried' /\ AnswerMeansApplied'
    <2>1. \A q \in Request : sent'[q].data = IF q = r THEN "all" ELSE sent[q].data
      BY <1>1 DEF WriteRequest, Pipe
    <2> QED
      BY <1>1, <2>1 DEF WriteRequest
  <1>2. ASSUME NEW r \in Request, WriteFails(r) PROVE Carried' /\ AnswerMeansApplied'
    <2>1. \A q \in Request \ {r} : sent'[q].data = sent[q].data
      BY <1>2 DEF WriteFails, Pipe
    <2> QED
      BY <1>2, <2>1 DEF WriteFails
  <1>3. ASSUME NEW r \in Request, StartReading(r) PROVE Carried' /\ AnswerMeansApplied'
    <2>1. \A q \in Request : sent'[q].data = sent[q].data
      BY <1>3 DEF StartReading, Pipe
    <2> QED
      BY <1>3, <2>1 DEF StartReading
  <1>4. ASSUME NEW r \in Request, ReadResponse(r) PROVE Carried' /\ AnswerMeansApplied'
    <2>1. \A q \in Request : sent'[q].data = sent[q].data
      <3>1. sent' = [sent EXCEPT ![r].closed = TRUE]
        BY <1>4 DEF ReadResponse, ReturnFrom
      <3> QED
        BY <3>1 DEF Pipe
    <2> QED
      BY <1>4, <2>1 DEF ReadResponse, ReturnFrom
  <1>5. ASSUME NEW r \in Request, ServeRequest(r) PROVE Carried' /\ AnswerMeansApplied'
    BY <1>5 DEF ServeRequest, Parses
  <1>6. ASSUME NEW r \in Request, CloseStream(r) PROVE Carried' /\ AnswerMeansApplied'
    <2>1. \A q \in Request :
            reply'[q].data = "all" => reply[q].data = "all" \/ server[q] = "served"
      BY <1>6 DEF CloseStream
    <2> QED
      BY <1>6, <2>1 DEF CloseStream
  <1>7. ASSUME NEW r \in Request, OpenStream(r) PROVE Carried' /\ AnswerMeansApplied'
    BY <1>7 DEF OpenStream
  <1>8. ASSUME LoseConnection \/ UNCHANGED vars PROVE Carried' /\ AnswerMeansApplied'
    BY <1>8 DEF LoseConnection, vars
  <1> QED
    BY <1>1, <1>2, <1>3, <1>4, <1>5, <1>6, <1>7, <1>8 DEF Next, ClientStep, ServerStep

LEMMA Invariant == Spec => []Inv
  <1>1. Inv /\ [Next]_vars => Inv'
    BY TypeStep, CarriedStep DEF Inv
  <1> QED
    BY InitInv, <1>1, PTL DEF Spec

\* The types of all variables.
THEOREM TypeCorrect == Spec => []TypeOK
  <1>1. Inv => TypeOK
    BY DEF Inv
  <1> QED
    BY <1>1, Invariant, PTL

\* A caller that gets a response gets it from a handler that took effect on
\* the whole request, and no part of a request takes effect.
THEOREM AnswersApplied == Spec => []AnswerMeansApplied
  <1>1. Inv => AnswerMeansApplied
    BY DEF Inv
  <1> QED
    BY <1>1, Invariant, PTL
=============================================================================
