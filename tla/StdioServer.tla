---------------------------- MODULE StdioServer ----------------------------
(***************************************************************************)
(* The JSON-RPC server on stdin and stdout (internal/app/stdio_server.go)  *)
(* and the end of the daemon that runs it (cmd/parade/daemon/daemon.go).   *)
(*                                                                         *)
(* A read loop starts one goroutine per request.  Stop closes the done     *)
(* channel, passes once through dispatchMu and waits for the wait group,   *)
(* after which the daemon closes the engines that the handlers use.  The   *)
(* wait group is a plain counter here: that it counts the goroutines that  *)
(* run is not assumed.                                                     *)
(*                                                                         *)
(* Whatever a handler does (result, error, panic, unknown method, invalid  *)
(* JSON) dispatch writes exactly one response; responses and broadcast     *)
(* events share a buffered writer that is flushed after every write.       *)
(***************************************************************************)
EXTENDS Integers, FiniteSets

CONSTANTS
  Request,  \* the lines stdin will deliver
  Event,    \* the events that are broadcast
  Caller,   \* the goroutines that call Stop
  Daemon    \* the one of them that is the daemon's main goroutine

ASSUME StdioAssumption == IsFiniteSet(Request) /\ Daemon \in Caller /\ Request \cap Event = {}

Free   == "free"
Reader == "reader"

VARIABLES
  dispatch,    \* how far every request has come
  reader,      \* where the read loop is
  done,        \* whether the done channel is closed
  dispatchMu,  \* whether the reader holds dispatchMu
  wg,          \* the wait group's counter
  stop,        \* how far every call of Stop has come
  buffer,      \* written to the writer, not flushed; its lock is held meanwhile
  out,         \* what has reached stdout
  daemon       \* the daemon's main goroutine

vars == <<dispatch, reader, done, dispatchMu, wg, stop, buffer, out, daemon>>

\* The goroutines that exist.
Running == {r \in Request : dispatch[r] \in {"running", "handled", "written", "answered"}}

\* The requests that wg.Add was called for and wg.Done was not.
Counted == Running \cup {r \in Request : dispatch[r] = "added"}

Accepted == Counted \cup {r \in Request : dispatch[r] = "finished"}

TypeOK ==
  /\ dispatch \in [Request -> {"unread", "read", "dropped", "added", "running",
                               "handled", "written", "answered", "finished"}]
  /\ reader \in {"scan", "lock", "check", "add", "go", "drain", "exited"}
  /\ done \in BOOLEAN
  /\ dispatchMu \in {Free, Reader}
  /\ wg \in Nat
  /\ stop \in [Caller -> {"idle", "lock", "wait", "returned"}]
  /\ buffer \in SUBSET (Request \cup Event) /\ out \in SUBSET (Request \cup Event)
  /\ daemon \in {"select", "shut", "closed"}

Init ==
  /\ dispatch = [r \in Request |-> "unread"]
  /\ reader = "scan"
  /\ done = FALSE
  /\ dispatchMu = Free
  /\ wg = 0
  /\ stop = [c \in Caller |-> "idle"]
  /\ buffer = {} /\ out = {}
  /\ daemon = "select"
-----------------------------------------------------------------------------
(* The read loop. *)

Scan(r) ==
  /\ reader = "scan" /\ dispatch[r] = "unread"
  /\ reader' = "lock"
  /\ dispatch' = [dispatch EXCEPT ![r] = "read"]
  /\ UNCHANGED <<done, dispatchMu, wg, stop, buffer, out, daemon>>

\* End of input, or a line that does not fit the scanner's buffer.
EndOfInput ==
  /\ reader = "scan"
  /\ reader' = "drain"
  /\ UNCHANGED <<dispatch, done, dispatchMu, wg, stop, buffer, out, daemon>>

LockDispatch ==
  /\ reader = "lock" /\ dispatchMu = Free
  /\ reader' = "check"
  /\ dispatchMu' = Reader
  /\ UNCHANGED <<dispatch, done, wg, stop, buffer, out, daemon>>

\* A bug CheckDone could have: the break leaves dispatchMu locked.
CheckDoneKeepsLock ==
  /\ reader = "check"
  /\ \/ /\ done
        /\ reader' = "drain"
        /\ dispatch' = [r \in Request |-> IF dispatch[r] = "read" THEN "dropped" ELSE dispatch[r]]
     \/ /\ ~done
        /\ reader' = "add"
        /\ UNCHANGED dispatch
  /\ UNCHANGED <<done, dispatchMu, wg, stop, buffer, out, daemon>>

CheckDone ==
  /\ reader = "check"
  /\ \/ /\ done
        /\ reader' = "drain"
        /\ dispatchMu' = Free
        /\ dispatch' = [r \in Request |-> IF dispatch[r] = "read" THEN "dropped" ELSE dispatch[r]]
     \/ /\ ~done
        /\ reader' = "add"
        /\ UNCHANGED <<dispatch, dispatchMu>>
  /\ UNCHANGED <<done, wg, stop, buffer, out, daemon>>

AddDispatch(r) ==
  /\ reader = "add" /\ dispatch[r] = "read"
  /\ reader' = "go"
  /\ dispatchMu' = Free
  /\ wg' = wg + 1
  /\ dispatch' = [dispatch EXCEPT ![r] = "added"]
  /\ UNCHANGED <<done, stop, buffer, out, daemon>>

GoDispatch(r) ==
  /\ reader = "go" /\ dispatch[r] = "added"
  /\ reader' = "scan"
  /\ dispatch' = [dispatch EXCEPT ![r] = "running"]
  /\ UNCHANGED <<done, dispatchMu, wg, stop, buffer, out, daemon>>

\* The wait after the loop, and the close of exited.
Drain ==
  /\ reader = "drain" /\ wg = 0
  /\ reader' = "exited"
  /\ UNCHANGED <<dispatch, done, dispatchMu, wg, stop, buffer, out, daemon>>
-----------------------------------------------------------------------------
(* The goroutine of a request, and the writer. *)

Handle(r) ==
  /\ dispatch[r] = "running"
  /\ dispatch' = [dispatch EXCEPT ![r] = "handled"]
  /\ UNCHANGED <<reader, done, dispatchMu, wg, stop, buffer, out, daemon>>

WriteResponse(r) ==
  /\ dispatch[r] = "handled" /\ buffer = {}
  /\ buffer' = {r}
  /\ dispatch' = [dispatch EXCEPT ![r] = "written"]
  /\ UNCHANGED <<reader, done, dispatchMu, wg, stop, out, daemon>>

\* A bug FlushResponse could have: nothing is flushed.
ReturnWithoutFlush(r) ==
  /\ dispatch[r] = "written"
  /\ buffer' = {}
  /\ dispatch' = [dispatch EXCEPT ![r] = "answered"]
  /\ UNCHANGED <<reader, done, dispatchMu, wg, stop, out, daemon>>

FlushResponse(r) ==
  /\ dispatch[r] = "written"
  /\ out' = out \cup buffer
  /\ buffer' = {}
  /\ dispatch' = [dispatch EXCEPT ![r] = "answered"]
  /\ UNCHANGED <<reader, done, dispatchMu, wg, stop, daemon>>

\* A bug FinishDispatch could have: dispatch calls wg.Done as well.
FinishTwice(r) ==
  /\ dispatch[r] = "answered"
  /\ wg' = wg - 2
  /\ dispatch' = [dispatch EXCEPT ![r] = "finished"]
  /\ UNCHANGED <<reader, done, dispatchMu, stop, buffer, out, daemon>>

FinishDispatch(r) ==
  /\ dispatch[r] = "answered"
  /\ wg' = wg - 1
  /\ dispatch' = [dispatch EXCEPT ![r] = "finished"]
  /\ UNCHANGED <<reader, done, dispatchMu, stop, buffer, out, daemon>>

\* Events are written by other goroutines, at any time.
Broadcast(e) ==
  /\ buffer = {} /\ e \notin out
  /\ buffer' = {e}
  /\ UNCHANGED <<dispatch, reader, done, dispatchMu, wg, stop, out, daemon>>

FlushBroadcast ==
  /\ buffer \subseteq Event /\ buffer # {}
  /\ out' = out \cup buffer
  /\ buffer' = {}
  /\ UNCHANGED <<dispatch, reader, done, dispatchMu, wg, stop, daemon>>
-----------------------------------------------------------------------------
(* Stop, and the daemon. *)

\* A signal, or the close of exited, ends the daemon's select; it shuts the
\* application down before its deferred call of Stop.
Shutdown ==
  /\ daemon = "select"
  /\ daemon' = "shut"
  /\ UNCHANGED <<dispatch, reader, done, dispatchMu, wg, stop, buffer, out>>

CloseDone(c) ==
  /\ stop[c] = "idle"
  /\ c = Daemon => daemon = "shut"
  /\ done' = TRUE
  /\ stop' = [stop EXCEPT ![c] = "lock"]
  /\ UNCHANGED <<dispatch, reader, dispatchMu, wg, buffer, out, daemon>>

\* A bug PassDispatchMu could have: Stop does not wait for the reader.
SkipDispatchMu(c) ==
  /\ stop[c] = "lock"
  /\ stop' = [stop EXCEPT ![c] = "wait"]
  /\ UNCHANGED <<dispatch, reader, done, dispatchMu, wg, buffer, out, daemon>>

PassDispatchMu(c) ==
  /\ stop[c] = "lock" /\ dispatchMu = Free
  /\ stop' = [stop EXCEPT ![c] = "wait"]
  /\ UNCHANGED <<dispatch, reader, done, dispatchMu, wg, buffer, out, daemon>>

WaitDispatches(c) ==
  /\ stop[c] = "wait" /\ wg = 0
  /\ stop' = [stop EXCEPT ![c] = "returned"]
  /\ UNCHANGED <<dispatch, reader, done, dispatchMu, wg, buffer, out, daemon>>

\* The deferred calls that stop the network engine and close the file engine,
\* the log broker and the database.
CloseEngines ==
  /\ daemon = "shut" /\ stop[Daemon] = "returned"
  /\ daemon' = "closed"
  /\ UNCHANGED <<dispatch, reader, done, dispatchMu, wg, stop, buffer, out>>

ReaderStep ==
  \/ LockDispatch \/ CheckDone \/ Drain
  \/ \E r \in Request : AddDispatch(r) \/ GoDispatch(r)

DispatchStep(r) ==
  Handle(r) \/ WriteResponse(r) \/ FlushResponse(r) \/ FinishDispatch(r)

StopStep(c) == PassDispatchMu(c) \/ WaitDispatches(c)

Next ==
  \/ ReaderStep \/ EndOfInput \/ \E r \in Request : Scan(r) \/ DispatchStep(r)
  \/ FlushBroadcast \/ \E e \in Event : Broadcast(e)
  \/ \E c \in Caller : CloseDone(c) \/ StopStep(c)
  \/ Shutdown \/ CloseEngines

Spec == Init /\ [][Next]_vars

\* Handlers return; Go's scheduler runs every goroutine, and its mutexes are
\* free of starvation.  Nothing makes stdin deliver a line or end.
FairSpec ==
  /\ Spec
  /\ WF_vars(ReaderStep) /\ WF_vars(FlushBroadcast) /\ WF_vars(CloseEngines)
  /\ \A r \in Request : SF_vars(DispatchStep(r))
  /\ \A c \in Caller : SF_vars(StopStep(c))
-----------------------------------------------------------------------------
\* When a call of Stop has returned or exited is closed, and hence when the
\* engines are closed, no handler runs or will be started, and every request
\* that was accepted has its response on stdout ("so no response is lost on
\* shutdown"), although the read loop may still be blocked on stdin.
Drained ==
  (\E c \in Caller : stop[c] = "returned") \/ reader = "exited" \/ daemon = "closed"
    => Counted = {} /\ Accepted \subseteq out

\* Every accepted request is answered, and every call of Stop returns, if
\* handlers do, whatever stdin does.
StopsAndAnswers ==
  /\ \A r \in Request : r \in Accepted ~> r \in out
  /\ \A c \in Caller : stop[c] = "lock" ~> stop[c] = "returned"
-----------------------------------------------------------------------------
\* The server is closing once a Stop has met the reader at its lock, or the reader
\* has left its loop, and closed when one of them has waited to the end.
Phase ==
  IF (\E c \in Caller : stop[c] = "returned") \/ reader = "exited" THEN "closed"
  ELSE IF (\E c \in Caller : stop[c] = "wait") \/ reader = "drain" THEN "closing"
  ELSE "open"

Served == INSTANCE RequestServer WITH
            accepted <- Accepted, answered <- Accepted \cap out, phase <- Phase

\* The server is a request server: the goroutines, the wait group, dispatchMu and the
\* shared writer together answer what was accepted before they close, each request
\* once, and accept nothing from the moment a Stop has passed through dispatchMu.
ServesRequests == Served!Spec
=============================================================================
