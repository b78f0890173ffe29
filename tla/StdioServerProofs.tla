------------------------- MODULE StdioServerProofs -------------------------
(***************************************************************************)
(* Proofs about StdioServer, for every finite set of requests and every    *)
(* set of callers of Stop.  The argument: a call of Stop that has passed   *)
(* through dispatchMu after done was closed meets no reader that is about  *)
(* to call wg.Add, so the counter it waits for can only fall.              *)
(***************************************************************************)
EXTENDS StdioServer, FiniteSetTheorems, TLAPS

\* What holds between the places the reader, the handlers and Stop are at.
Places ==
  /\ dispatchMu = Reader <=> reader \in {"check", "add"}
  /\ \A c \in Caller : stop[c] # "idle" => done
  /\ \A c \in Caller : stop[c] \in {"wait", "returned"} => reader # "add"

\* The wait group counts, and what it waits for stays over.
Counts ==
  /\ wg = Cardinality(Counted)
  /\ \A c \in Caller : stop[c] = "returned" => Counted = {}
  /\ reader = "exited" => Counted = {}
  /\ daemon = "closed" => stop[Daemon] = "returned"

\* A response is in the buffer from its write to its flush, then on stdout.
Written ==
  \A r \in Request :
    /\ dispatch[r] = "written" => buffer = {r}
    /\ dispatch[r] \in {"answered", "finished"} => r \in out

Inv == TypeOK /\ Places /\ Counts /\ Written

LEMMA CountedFinite == IsFiniteSet(Counted) /\ Cardinality(Counted) \in Nat
  <1>1. Counted \in SUBSET Request
    BY DEF Counted, Running
  <1>2. IsFiniteSet(Counted)
    BY <1>1, StdioAssumption, FS_Subset
  <1> QED
    BY <1>2, FS_CardinalityType

LEMMA InitInv == Init => Inv
  <1> SUFFICES ASSUME Init PROVE Inv
    OBVIOUS
  <1>1. Counted = {}
    BY DEF Init, Counted, Running
  <1>2. Cardinality(Counted) = 0
    BY <1>1, FS_EmptySet
  <1>3. TypeOK
    <2>1. done \in BOOLEAN
      BY DEF Init
    <2>2. wg \in Nat
      BY DEF Init
    <2> QED
      BY <2>1, <2>2 DEF Init, TypeOK
  <1>4. Places
    <2>1. dispatchMu = Free /\ reader = "scan"
      BY DEF Init
    <2>2. \A c \in Caller : stop[c] = "idle"
      BY DEF Init
    <2> QED
      BY <2>1, <2>2 DEF Places, Free, Reader
  <1>5. Counts
    BY <1>2 DEF Init, Counts
  <1>6. Written
    BY DEF Init, Written
  <1> QED
    BY <1>3, <1>4, <1>5, <1>6 DEF Inv

\* In particular the counter never falls below zero, which would panic.
LEMMA TypeStep ==
  ASSUME TypeOK, Counts, [Next]_vars
  PROVE  TypeOK'
  <1>1. ASSUME ReaderStep PROVE TypeOK'
    BY <1>1 DEF TypeOK, ReaderStep, LockDispatch, CheckDone, Drain, AddDispatch,
                GoDispatch, Free, Reader
  <1>2. ASSUME NEW r \in Request, Scan(r) \/ DispatchStep(r) PROVE TypeOK'
    <2>1. CASE FinishDispatch(r)
      <3>1. r \in Counted
        BY <2>1 DEF FinishDispatch, Counted, Running
      <3>2. wg # 0
        BY <3>1, CountedFinite, FS_EmptySet DEF Counts
      <3>3. wg - 1 \in Nat
        BY <3>2 DEF TypeOK
      <3> QED
        BY <2>1, <3>3 DEF TypeOK, FinishDispatch
    <2>2. CASE Scan(r) \/ Handle(r) \/ WriteResponse(r) \/ FlushResponse(r)
      BY <2>2 DEF TypeOK, Scan, Handle, WriteResponse, FlushResponse
    <2> QED
      BY <1>2, <2>1, <2>2 DEF DispatchStep
  <1>3. ASSUME NEW e \in Event, Broadcast(e) PROVE TypeOK'
    BY <1>3 DEF TypeOK, Broadcast
  <1>4. ASSUME NEW c \in Caller, CloseDone(c) \/ StopStep(c) PROVE TypeOK'
    BY <1>4 DEF TypeOK, CloseDone, StopStep, PassDispatchMu, WaitDispatches
  <1>5. ASSUME EndOfInput \/ FlushBroadcast \/ Shutdown \/ CloseEngines \/ UNCHANGED vars
        PROVE  TypeOK'
    BY <1>5 DEF TypeOK, EndOfInput, FlushBroadcast, Shutdown, CloseEngines, vars
  <1> QED
    BY <1>1, <1>2, <1>3, <1>4, <1>5 DEF Next

\* The lock decides: no reader is past its check once a Stop has passed.
LEMMA PlacesStep ==
  ASSUME TypeOK, Places, [Next]_vars
  PROVE  Places'
  <1>1. ASSUME ReaderStep PROVE Places'
    BY <1>1 DEF TypeOK, Places, ReaderStep, LockDispatch, CheckDone, Drain, AddDispatch,
                GoDispatch, Free, Reader
  <1>2. ASSUME NEW r \in Request, Scan(r) \/ DispatchStep(r) PROVE Places'
    BY <1>2 DEF TypeOK, Places, Scan, DispatchStep, Handle, WriteResponse, FlushResponse,
                FinishDispatch
  <1>3. ASSUME NEW e \in Event, Broadcast(e) PROVE Places'
    BY <1>3 DEF Places, Broadcast
  <1>4. ASSUME NEW c \in Caller, CloseDone(c) \/ StopStep(c) PROVE Places'
    BY <1>4 DEF TypeOK, Places, CloseDone, StopStep, PassDispatchMu, WaitDispatches,
                Free, Reader
  <1>5. ASSUME EndOfInput \/ FlushBroadcast \/ Shutdown \/ CloseEngines \/ UNCHANGED vars
        PROVE  Places'
    BY <1>5 DEF TypeOK, Places, EndOfInput, FlushBroadcast, Shutdown, CloseEngines, vars
  <1> QED
    BY <1>1, <1>2, <1>3, <1>4, <1>5 DEF Next

\* Only wg.Add and wg.Done change what is counted, each by one.
LEMMA CountedStep ==
  ASSUME TypeOK, [Next]_vars
  PROVE  \/ Counted' = Counted /\ wg' = wg
         \/ reader = "add" /\ \E r \in Request \ Counted : Counted' = Counted \cup {r} /\ wg' = wg + 1
         \/ \E r \in Counted : Counted' = Counted \ {r} /\ wg' = wg - 1
  <1>1. ASSUME NEW r \in Request, AddDispatch(r)
        PROVE  reader = "add" /\ r \notin Counted /\ Counted' = Counted \cup {r} /\ wg' = wg + 1
    BY <1>1 DEF TypeOK, AddDispatch, Counted, Running
  <1>2. ASSUME NEW r \in Request, FinishDispatch(r)
        PROVE  r \in Counted /\ Counted' = Counted \ {r} /\ wg' = wg - 1
    BY <1>2 DEF TypeOK, FinishDispatch, Counted, Running
  <1>3. ASSUME NEW r \in Request,
               \/ GoDispatch(r) \/ Scan(r) \/ Handle(r) \/ WriteResponse(r) \/ FlushResponse(r)
        PROVE  Counted' = Counted /\ wg' = wg
    BY <1>3 DEF TypeOK, GoDispatch, Scan, Handle, WriteResponse, FlushResponse, Counted, Running
  <1>4. CASE CheckDone
    BY <1>4 DEF TypeOK, CheckDone, Counted, Running
  <1>5. ASSUME \/ LockDispatch \/ Drain \/ EndOfInput \/ FlushBroadcast
               \/ \E e \in Event : Broadcast(e)
               \/ \E c \in Caller : CloseDone(c) \/ PassDispatchMu(c) \/ WaitDispatches(c)
               \/ Shutdown \/ CloseEngines \/ UNCHANGED vars
        PROVE  Counted' = Counted /\ wg' = wg
    BY <1>5 DEF LockDispatch, Drain, EndOfInput, FlushBroadcast, Broadcast, CloseDone,
                PassDispatchMu, WaitDispatches, Shutdown, CloseEngines, vars, Counted, Running
  <1> QED
    BY <1>1, <1>2, <1>3, <1>4, <1>5 DEF Next, ReaderStep, DispatchStep, StopStep

\* Who can change the three facts that say that a wait is over.
LEMMA OverStep ==
  ASSUME TypeOK, [Next]_vars
  PROVE  /\ \A c \in Caller : stop'[c] = "returned" => stop[c] = "returned" \/ (wg = 0 /\ UNCHANGED dispatch)
         /\ \A c \in Caller : stop[c] = "returned" => stop'[c] = "returned"
         /\ reader' = "exited" => reader = "exited" \/ (wg = 0 /\ UNCHANGED dispatch)
         /\ daemon' = "closed" => daemon = "closed" \/ stop[Daemon] = "returned"
  <1>1. ASSUME NEW c \in Caller, CloseDone(c) \/ StopStep(c)
        PROVE  /\ \A d \in Caller : stop'[d] = "returned" => stop[d] = "returned" \/ (wg = 0 /\ UNCHANGED dispatch)
               /\ \A d \in Caller : stop[d] = "returned" => stop'[d] = "returned"
               /\ UNCHANGED <<reader, daemon>>
    BY <1>1 DEF TypeOK, CloseDone, StopStep, PassDispatchMu, WaitDispatches
  <1>2. ASSUME ReaderStep \/ EndOfInput \/ \E r \in Request : Scan(r)
        PROVE  /\ UNCHANGED <<stop, daemon>>
               /\ reader' = "exited" => wg = 0 /\ UNCHANGED dispatch
    BY <1>2 DEF ReaderStep, LockDispatch, CheckDone, Drain, AddDispatch, GoDispatch,
                EndOfInput, Scan
  <1>3. ASSUME \/ FlushBroadcast \/ UNCHANGED vars
               \/ \E e \in Event : Broadcast(e)
               \/ \E r \in Request : DispatchStep(r)
        PROVE  UNCHANGED <<stop, reader, daemon>>
    BY <1>3 DEF FlushBroadcast, Broadcast, DispatchStep, Handle, WriteResponse,
                FlushResponse, FinishDispatch, vars
  <1>4. ASSUME Shutdown \/ CloseEngines
        PROVE  /\ UNCHANGED <<stop, reader>>
               /\ daemon' = "closed" => stop[Daemon] = "returned"
    BY <1>4 DEF Shutdown, CloseEngines
  <1> QED
    BY <1>1, <1>2, <1>3, <1>4 DEF Next

LEMMA CountsStep ==
  ASSUME TypeOK, Places, Counts, [Next]_vars
  PROVE  Counts'
  <1>0. IsFiniteSet(Counted) /\ Cardinality(Counted) \in Nat /\ wg = Cardinality(Counted)
    BY CountedFinite DEF Counts
  <1>1. wg' = Cardinality(Counted')
    <2>1. CASE Counted' = Counted /\ wg' = wg
      BY <1>0, <2>1
    <2>2. ASSUME NEW r \in Request \ Counted, Counted' = Counted \cup {r}, wg' = wg + 1
          PROVE  wg' = Cardinality(Counted')
      BY <1>0, <2>2, FS_AddElement
    <2>3. ASSUME NEW r \in Counted, Counted' = Counted \ {r}, wg' = wg - 1
          PROVE  wg' = Cardinality(Counted')
      BY <1>0, <2>3, FS_RemoveElement
    <2> QED
      BY <2>1, <2>2, <2>3, CountedStep
  <1>2. ASSUME wg = 0, UNCHANGED dispatch
        PROVE  Counted' = {}
    <2>1. Counted = {}
      BY <1>0, <1>2, FS_EmptySet
    <2> QED
      BY <1>2, <2>1 DEF Counted, Running
  <1>3. ASSUME Counted = {}, reader # "add"
        PROVE  Counted' = {}
    BY <1>3, CountedStep
  <1>4. ASSUME NEW c \in Caller, stop'[c] = "returned"
        PROVE  Counted' = {}
    <2>1. CASE stop[c] = "returned"
      BY <1>3, <2>1 DEF Counts, Places
    <2>2. CASE stop[c] # "returned"
      BY <1>2, <1>4, <2>2, OverStep
    <2> QED
      BY <2>1, <2>2
  <1>5. ASSUME reader' = "exited"
        PROVE  Counted' = {}
    <2>1. CASE reader = "exited"
      BY <1>3, <2>1 DEF Counts
    <2>2. CASE reader # "exited"
      BY <1>2, <1>5, <2>2, OverStep
    <2> QED
      BY <2>1, <2>2
  <1>6. daemon' = "closed" => stop'[Daemon] = "returned"
    BY StdioAssumption, OverStep DEF Counts
  <1> QED
    BY <1>1, <1>4, <1>5, <1>6 DEF Counts

\* The writer's lock: from its write to its flush a response is alone in the
\* buffer.
LEMMA WrittenStep ==
  ASSUME TypeOK, Written, [Next]_vars
  PROVE  Written'
  <1>1. ASSUME ReaderStep PROVE Written'
    BY <1>1 DEF TypeOK, Written, ReaderStep, LockDispatch, CheckDone, Drain, AddDispatch,
                GoDispatch
  <1>2. ASSUME NEW r \in Request, Scan(r) \/ Handle(r) \/ FinishDispatch(r) PROVE Written'
    BY <1>2 DEF TypeOK, Written, Scan, Handle, FinishDispatch
  <1>3. ASSUME NEW r \in Request, WriteResponse(r) PROVE Written'
    BY <1>3 DEF TypeOK, Written, WriteResponse
  <1>4. ASSUME NEW r \in Request, FlushResponse(r) PROVE Written'
    BY <1>4 DEF TypeOK, Written, FlushResponse
  <1>5. ASSUME \/ FlushBroadcast \/ \E e \in Event : Broadcast(e)
        PROVE  Written'
    BY <1>5, StdioAssumption DEF TypeOK, Written, FlushBroadcast, Broadcast
  <1>6. ASSUME \/ \E c \in Caller : CloseDone(c) \/ StopStep(c)
               \/ EndOfInput \/ Shutdown \/ CloseEngines \/ UNCHANGED vars
        PROVE  Written'
    BY <1>6 DEF Written, CloseDone, StopStep, PassDispatchMu, WaitDispatches, EndOfInput,
                Shutdown, CloseEngines, vars
  <1> QED
    BY <1>1, <1>2, <1>3, <1>4, <1>5, <1>6 DEF Next, DispatchStep

LEMMA Invariant == Spec => []Inv
  <1>1. Inv /\ [Next]_vars => Inv'
    BY TypeStep, PlacesStep, CountsStep, WrittenStep DEF Inv
  <1> QED
    BY InitInv, <1>1, PTL DEF Spec

\* The types of all variables; the wait group's counter never falls below
\* zero, which would make Go panic.
THEOREM TypeCorrect == Spec => []TypeOK
  <1>1. Inv => TypeOK
    BY DEF Inv
  <1> QED
    BY <1>1, Invariant, PTL

\* When Stop has returned, or exited is closed, or the daemon has closed the
\* engines, no handler runs or will be started and every accepted request has
\* its response on stdout.
THEOREM StopDrains == Spec => []Drained
  <1>1. Inv => Drained
    <2> SUFFICES ASSUME Inv,
                        \/ \E c \in Caller : stop[c] = "returned"
                        \/ reader = "exited" \/ daemon = "closed"
                 PROVE  Counted = {} /\ Accepted \subseteq out
      BY DEF Drained
    <2>1. Counted = {}
      BY StdioAssumption DEF Inv, Counts
    <2> QED
      BY <2>1 DEF Inv, Written, Accepted
  <1> QED
    BY <1>1, Invariant, PTL
-----------------------------------------------------------------------------
(* StdioServer implements RequestServer.  A request is accepted by wg.Add, answered  *)
(* by the flush of its response; the server begins to close where the first Stop has *)
(* passed through dispatchMu or the reader has left its loop.                        *)

\* Once nobody may add to the wait group, nobody will.
Closing ==
  /\ \A c \in Caller : stop[c] \in {"wait", "returned"} => reader # "add"
  /\ Phase = "closed" => Counted = {} /\ Accepted \subseteq out

LEMMA InvClosing == Inv => Closing
  <1> SUFFICES ASSUME Inv PROVE Closing
    OBVIOUS
  <1>1. ASSUME Phase = "closed" PROVE Counted = {}
    BY <1>1 DEF Phase, Inv, Counts
  <1>2. ASSUME Phase = "closed" PROVE Accepted \subseteq out
    BY <1>1, <1>2 DEF Inv, Written, Accepted
  <1> QED
    BY <1>1, <1>2 DEF Closing, Inv, Places

\* What the steps do to the phase.
LEMMA PhaseStep ==
  ASSUME TypeOK, Places, [Next]_vars
  PROVE  /\ Phase = "closed" => Phase' = "closed"
         /\ Phase = "closing" => Phase' \in {"closing", "closed"}
         /\ Phase' = "closed" => Phase \in {"closing", "closed"}
         /\ Phase' # Phase => UNCHANGED <<out, Accepted>>
  <1>1. ASSUME \/ LockDispatch \/ FlushBroadcast \/ Shutdown \/ CloseEngines \/ UNCHANGED vars
               \/ \E e \in Event : Broadcast(e)
               \/ \E r \in Request : Scan(r) \/ DispatchStep(r) \/ AddDispatch(r) \/ GoDispatch(r)
        PROVE  Phase' = Phase
    <2>1. stop' = stop
      BY <1>1 DEF LockDispatch, FlushBroadcast, Shutdown, CloseEngines, vars, Broadcast, Scan,
                  DispatchStep, Handle, WriteResponse, FlushResponse, FinishDispatch, AddDispatch,
                  GoDispatch
    <2>2. \/ reader' = reader
          \/ reader \notin {"drain", "exited"} /\ reader' \notin {"drain", "exited"}
      BY <1>1 DEF LockDispatch, FlushBroadcast, Shutdown, CloseEngines, vars, Broadcast, Scan,
                  DispatchStep, Handle, WriteResponse, FlushResponse, FinishDispatch, AddDispatch,
                  GoDispatch
    <2> QED
      BY <2>1, <2>2 DEF Phase
  <1>2. ASSUME EndOfInput \/ CheckDone \/ Drain
        PROVE  /\ UNCHANGED <<stop, out, Accepted>> /\ reader # "exited"
               /\ reader' = "exited" => reader = "drain"
               /\ reader = "drain" => reader' = "exited"
    <2>1. UNCHANGED Accepted
      BY <1>2 DEF EndOfInput, CheckDone, Drain, Accepted, Counted, Running, TypeOK
    <2> QED
      BY <1>2, <2>1 DEF EndOfInput, CheckDone, Drain
  <1>3. ASSUME EndOfInput \/ CheckDone \/ Drain
        PROVE  /\ Phase = "closed" => Phase' = "closed"
               /\ Phase = "closing" => Phase' \in {"closing", "closed"}
               /\ Phase' = "closed" => Phase \in {"closing", "closed"}
               /\ UNCHANGED <<out, Accepted>>
    BY <1>2, <1>3 DEF Phase
  <1>4. ASSUME NEW c \in Caller, CloseDone(c) \/ StopStep(c)
        PROVE  /\ Phase = "closed" => Phase' = "closed"
               /\ Phase = "closing" => Phase' \in {"closing", "closed"}
               /\ Phase' = "closed" => Phase \in {"closing", "closed"}
               /\ UNCHANGED <<out, Accepted>>
    <2>1. UNCHANGED <<out, reader, dispatch>>
      BY <1>4 DEF CloseDone, StopStep, PassDispatchMu, WaitDispatches
    <2>2. /\ \A x \in Caller : stop[x] = "returned" => stop'[x] = "returned"
          /\ \A x \in Caller : stop[x] = "wait" => stop'[x] \in {"wait", "returned"}
          /\ \A x \in Caller : stop'[x] = "returned" => stop[x] \in {"wait", "returned"}
      BY <1>4 DEF CloseDone, StopStep, PassDispatchMu, WaitDispatches, TypeOK
    <2>3. UNCHANGED Accepted
      BY <2>1 DEF Accepted, Counted, Running
    <2> QED
      BY <2>1, <2>2, <2>3 DEF Phase
  <1> QED
    BY <1>1, <1>3, <1>4 DEF Next, ReaderStep

\* Requests are accepted one by one, and never before their handler exists.
LEMMA AcceptedStep ==
  ASSUME TypeOK, [Next]_vars
  PROVE  \/ Accepted' = Accepted
         \/ \E r \in Request \ Accepted :
              Accepted' = Accepted \cup {r} /\ reader = "add" /\ UNCHANGED <<out, stop>>
  <1>1. ASSUME NEW r \in Request, AddDispatch(r)
        PROVE  /\ r \notin Accepted /\ Accepted' = Accepted \cup {r} /\ reader = "add"
               /\ UNCHANGED <<out, stop>>
    BY <1>1 DEF TypeOK, AddDispatch, Accepted, Counted, Running
  <1>2. ASSUME NEW r \in Request,
               \/ GoDispatch(r) \/ Scan(r) \/ Handle(r) \/ WriteResponse(r) \/ FlushResponse(r)
               \/ FinishDispatch(r)
        PROVE  Accepted' = Accepted
    BY <1>2 DEF TypeOK, GoDispatch, Scan, Handle, WriteResponse, FlushResponse, FinishDispatch,
                Accepted, Counted, Running
  <1>3. CASE CheckDone
    BY <1>3 DEF TypeOK, CheckDone, Accepted, Counted, Running
  <1>4. ASSUME \/ LockDispatch \/ Drain \/ EndOfInput \/ FlushBroadcast
               \/ \E e \in Event : Broadcast(e)
               \/ \E c \in Caller : CloseDone(c) \/ PassDispatchMu(c) \/ WaitDispatches(c)
               \/ Shutdown \/ CloseEngines \/ UNCHANGED vars
        PROVE  Accepted' = Accepted
    BY <1>4 DEF LockDispatch, Drain, EndOfInput, FlushBroadcast, Broadcast, CloseDone,
                PassDispatchMu, WaitDispatches, Shutdown, CloseEngines, vars, Accepted, Counted,
                Running
  <1> QED
    BY <1>1, <1>2, <1>3, <1>4 DEF Next, ReaderStep, DispatchStep, StopStep

\* A flush carries one response, that of a request that is being handled, or an event.
LEMMA OutStep ==
  ASSUME TypeOK, Written, [Next]_vars
  PROVE  \/ out' = out
         \/ \E r \in Counted : out' = out \cup {r}
         \/ \E e \in SUBSET Event : out' = out \cup e
  <1>1. ASSUME NEW r \in Request, FlushResponse(r)
        PROVE  r \in Counted /\ out' = out \cup {r}
    BY <1>1 DEF FlushResponse, Written, Counted, Running
  <1>2. CASE FlushBroadcast
    BY <1>2 DEF FlushBroadcast
  <1>3. ASSUME \/ ReaderStep \/ EndOfInput \/ Shutdown \/ CloseEngines \/ UNCHANGED vars
               \/ \E r \in Request : Scan(r) \/ Handle(r) \/ WriteResponse(r) \/ FinishDispatch(r)
               \/ \E e \in Event : Broadcast(e)
               \/ \E c \in Caller : CloseDone(c) \/ StopStep(c)
        PROVE  out' = out
    BY <1>3 DEF ReaderStep, LockDispatch, CheckDone, Drain, AddDispatch, GoDispatch, EndOfInput,
                Shutdown, CloseEngines, vars, Scan, Handle, WriteResponse, FinishDispatch,
                Broadcast, CloseDone, StopStep, PassDispatchMu, WaitDispatches
  <1> QED
    BY <1>1, <1>2, <1>3 DEF Next, DispatchStep

LEMMA PhaseOpen ==
  ASSUME Places, Closing, reader = "add"
  PROVE  Phase = "open"
  BY DEF Phase, Places

\* Nothing but events and the responses of accepted requests is written.
OutAccepted == (out \cup buffer) \cap Request \subseteq Accepted

LEMMA OutAcceptedStep ==
  ASSUME TypeOK, OutAccepted, [Next]_vars
  PROVE  OutAccepted'
  <1>1. Accepted \subseteq Accepted'
    BY AcceptedStep
  <1>2. ASSUME NEW r \in Request, WriteResponse(r)
        PROVE  out' = out /\ buffer' = {r} /\ r \in Accepted
    BY <1>2 DEF WriteResponse, Accepted, Counted, Running
  <1>3. ASSUME NEW e \in Event, Broadcast(e)
        PROVE  out' = out /\ buffer' \cap Request = {}
    BY <1>3, StdioAssumption DEF Broadcast
  <1>4. ASSUME \/ ReaderStep \/ EndOfInput \/ Shutdown \/ CloseEngines \/ UNCHANGED vars
               \/ FlushBroadcast
               \/ \E r \in Request : Scan(r) \/ Handle(r) \/ FlushResponse(r) \/ FinishDispatch(r)
               \/ \E c \in Caller : CloseDone(c) \/ StopStep(c)
        PROVE  out' \cup buffer' \subseteq out \cup buffer
    BY <1>4 DEF ReaderStep, LockDispatch, CheckDone, Drain, AddDispatch, GoDispatch, EndOfInput,
                Shutdown, CloseEngines, vars, Scan, Handle, FlushResponse, FinishDispatch,
                FlushBroadcast, CloseDone, StopStep, PassDispatchMu, WaitDispatches
  <1> QED
    BY <1>1, <1>2, <1>3, <1>4 DEF Next, DispatchStep, OutAccepted

ServedInv == Inv /\ OutAccepted /\ Closing

LEMMA ServedInvariant == Spec => []ServedInv
  <1>1. Init => OutAccepted
    BY DEF Init, OutAccepted
  <1>2. Inv /\ OutAccepted /\ [Next]_vars => OutAccepted'
    BY OutAcceptedStep DEF Inv
  <1>3. Inv /\ OutAccepted => ServedInv
    BY InvClosing DEF ServedInv
  <1> QED
    BY <1>1, <1>2, <1>3, Invariant, PTL DEF Spec

LEMMA ServedStep == ServedInv /\ ServedInv' /\ [Next]_vars => [Served!Next]_Served!state
  <1> SUFFICES ASSUME ServedInv, ServedInv', [Next]_vars PROVE [Served!Next]_Served!state
    OBVIOUS
  <1>1. /\ TypeOK /\ Places /\ Written /\ Closing /\ Closing'
        /\ OutAccepted /\ OutAccepted'
    BY DEF ServedInv, Inv
  <1>2. /\ Accepted \subseteq Request
        /\ Phase \in {"open", "closing", "closed"} /\ Phase' \in {"open", "closing", "closed"}
    BY DEF Accepted, Counted, Running, Phase
  <1>3. CASE Phase' # Phase
    <2>1. UNCHANGED <<out, Accepted>>
      BY <1>1, <1>3, PhaseStep
    <2>2. \/ Phase = "open" /\ Phase' = "closing"
          \/ Phase = "closing" /\ Phase' = "closed"
      BY <1>1, <1>2, <1>3, PhaseStep
    <2>3. Phase' = "closed" => Accepted \cap out = Accepted
      BY <1>1, <2>1 DEF Closing
    <2> QED
      BY <2>1, <2>2, <2>3 DEF Served!Next, Served!BeginToClose, Served!Close
  <1>4. CASE Phase' = Phase
    <2>1. ASSUME NEW r \in Request \ Accepted, Accepted' = Accepted \cup {r}, reader = "add",
                 out' = out
          PROVE  Served!Accept(r)
      <3>1. Phase = "open"
        BY <1>1, <2>1, PhaseOpen
      <3>2. r \notin out
        BY <1>1, <2>1 DEF OutAccepted
      <3> QED
        BY <1>4, <2>1, <3>1, <3>2 DEF Served!Accept
    <2>2. ASSUME NEW r \in Counted, Accepted' = Accepted, out' = out \cup {r}
          PROVE  Served!Answer(r) \/ UNCHANGED Served!state
      <3>1. r \in Accepted /\ Phase # "closed"
        BY <1>1, <2>2 DEF Accepted, Closing
      <3>2. CASE r \in out
        BY <1>4, <2>2, <3>2 DEF Served!state
      <3>3. CASE r \notin out
        BY <1>4, <2>2, <3>1, <3>3 DEF Served!Answer
      <3> QED
        BY <3>2, <3>3
    <2>3. ASSUME NEW e \in SUBSET Event, Accepted' = Accepted, out' = out \cup e
          PROVE  UNCHANGED Served!state
      BY <1>2, <1>4, <2>3, StdioAssumption DEF Served!state
    <2>4. ASSUME Accepted' = Accepted, out' = out
          PROVE  UNCHANGED Served!state
      BY <1>4, <2>4 DEF Served!state
    <2>5. Counted \subseteq Request
      BY DEF Counted, Running
    <2> QED
      BY <1>1, <1>2, <2>1, <2>2, <2>3, <2>4, <2>5, AcceptedStep, OutStep DEF Served!Next
  <1> QED
    BY <1>3, <1>4

\* StdioServer implements RequestServer: readLoop, dispatch, the shared writer and
\* Stop together take requests while open, answer exactly what they took and close
\* when all of it is answered, for any requests and any callers of Stop.
THEOREM StdioServes == Spec => ServesRequests
  <1>1. Init => Served!Init
    BY DEF Init, Served!Init, Accepted, Counted, Running, Phase
  <1> QED
    BY <1>1, ServedStep, ServedInvariant, PTL DEF Spec, ServesRequests, Served!Spec
=============================================================================
