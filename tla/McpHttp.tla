------------------------------ MODULE McpHttp ------------------------------
(***************************************************************************)
(* The MCP server over HTTP (cli/mcp_http_*.go).  Every POST and GET has a *)
(* goroutine of its own, so messages of one client overtake each other.    *)
(* Tool calls share a semaphore; a session ties a call to the GET stream   *)
(* that carries the server's requests and to the POSTs that bring the      *)
(* answers (ClientBridge, one connection per session).  Sessions end by    *)
(* DELETE or are evicted while calls and streams still use them.           *)
(***************************************************************************)
EXTENDS ClientBridge, SequencesExt

CONSTANTS
    Streams,        \* GET requests
    MaxSlots,       \* mcpHTTPMaxConcurrentTools
    MaxSessions     \* maxHTTPSessions

ASSUME StreamsAssumption == Nobody \notin Streams
ASSUME SlotsAssumption == MaxSlots \in Nat \ {0} /\ MaxSessions \in Nat \ {0}

VARIABLES
    header,     \* the session a call's POST names
    slots,      \* the calls that hold a place of mcpHTTPHandler.sem
    created,    \* the sessions there ever were
    sessions,   \* sessionRegistry.sessions
    order,      \* sessionRegistry.order, oldest first
    at,         \* where the handler of each GET is
    session,    \* the session it looked up
    stream      \* httpSession.stream: the handler whose response is written to

registryVars == <<created, sessions, order>>
streamVars   == <<at, session, stream>>
handlerVars  == <<header, slots, registryVars, streamVars>>
httpVars     == <<bridgeVars, handlerVars>>

HttpInit ==
    /\ BridgeInit
    /\ header = [c \in Calls |-> Nobody]
    /\ slots = {}
    /\ created = {}
    /\ sessions = {}
    /\ order = <<>>
    /\ at = [g \in Streams |-> "none"]
    /\ session = [g \in Streams |-> Nobody]
    /\ stream = [s \in Conns |-> Nobody]

----------------------------------------------------------------------------
\* The registry.

(* initialize: a session of its own, for which the oldest makes room.      *)
Create(s) ==
    /\ s \notin created
    /\ created' = created \cup {s}
    /\ LET full == Len(order) >= MaxSessions
       IN  /\ order' = Append(IF full THEN Tail(order) ELSE order, s)
           /\ sessions' = (IF full THEN sessions \ {Head(order)} ELSE sessions) \cup {s}
    /\ UNCHANGED <<bridgeVars, header, slots, streamVars>>

\* Mutant of RemoveSession: the order keeps the id of a session that was deleted.
RemoveFromMap(s) ==
    /\ s \in sessions
    /\ sessions' = sessions \ {s}
    /\ UNCHANGED <<bridgeVars, header, slots, created, order, streamVars>>

(* DELETE.                                                                 *)
RemoveSession(s) ==
    /\ s \in sessions
    /\ sessions' = sessions \ {s}
    /\ \E i \in 1 .. Len(order) : order[i] = s /\ order' = RemoveAt(order, i)
    /\ UNCHANGED <<bridgeVars, header, slots, created, streamVars>>

----------------------------------------------------------------------------
\* Tool calls.

(* A POST with the session the client was given; with none it would do     *)
(* without a client, as with one that is gone.                             *)
PostCall(c, s) ==
    /\ pc[c] = "idle"
    /\ s \in created
    /\ Goto(c, "queued")
    /\ header' = [header EXCEPT ![c] = s]
    /\ UNCHANGED <<conn, stopped, late, asking, chan, serverVars, clientVars,
                   slots, registryVars, streamVars>>

(* acquireRequestSlot, and then callerForRequest: by the time a place is   *)
(* free the session may be gone, and the call does without a client.       *)
Acquire(c) ==
    /\ pc[c] = "queued"
    /\ Cardinality(slots) < MaxSlots
    /\ slots' = slots \cup {c}
    /\ conn' = [conn EXCEPT ![c] = IF header[c] \in sessions THEN header[c] ELSE Nobody]
    /\ Goto(c, "started")
    /\ UNCHANGED <<stopped, late, asking, chan, serverVars, clientVars,
                   header, registryVars, streamVars>>

\* The client went away before there was a place.
ServerBusy(c) ==
    /\ pc[c] = "queued"
    /\ stopped[c]
    /\ Goto(c, "done")
    /\ UNCHANGED <<conn, stopped, late, asking, chan, serverVars, clientVars, handlerVars>>

(* The result or the error is written and the place given back.            *)
Return(c) ==
    /\ pc[c] = "working"
    /\ Goto(c, "done")
    /\ slots' = slots \ {c}
    /\ UNCHANGED <<conn, stopped, late, asking, chan, serverVars, clientVars,
                   header, registryVars, streamVars>>

(* net/http cancels the request's context, which is looked at only where   *)
(* the call waits.                                                         *)
ClientLeaves(c) ==
    /\ pc[c] \in {"queued", "fetching", "asking"}
    /\ stopped' = [stopped EXCEPT ![c] = TRUE]
    /\ UNCHANGED <<pc, conn, late, asking, chan, serverVars, clientVars, handlerVars>>

----------------------------------------------------------------------------
\* GET streams.

(* handleGetStream: the latest stream of a session is the one written to.  *)
Attach(g, s) ==
    /\ at[g] = "none"
    /\ s \in sessions
    /\ at' = [at EXCEPT ![g] = "open"]
    /\ session' = [session EXCEPT ![g] = s]
    /\ stream' = [stream EXCEPT ![s] = g]
    /\ UNCHANGED <<bridgeVars, header, slots, registryVars>>

\* Mutant of Detach: the session is looked up again, and may be gone.
DetachListed(g) ==
    /\ at[g] = "open"
    /\ at' = [at EXCEPT ![g] = "returned"]
    /\ stream' = IF session[g] \in sessions THEN [stream EXCEPT ![session[g]] = Nobody] ELSE stream
    /\ UNCHANGED <<bridgeVars, header, slots, registryVars, session>>

(* The client or the server's WriteTimeout ended the connection: the       *)
(* deferred detachStream, of whatever stream the session has now.          *)
Detach(g) ==
    /\ at[g] = "open"
    /\ at' = [at EXCEPT ![g] = "returned"]
    /\ stream' = [stream EXCEPT ![session[g]] = Nobody]
    /\ UNCHANGED <<bridgeVars, header, slots, registryVars, session>>

(* sendToClient.  The connection may have ended without the handler having *)
(* noticed yet; then, or when the write races the ": ready" of a new       *)
(* stream, the request is lost or fails.                                   *)
Fates(s) == IF stream[s] = Nobody THEN {"failed"} ELSE {"sent", "lost", "failed"}

----------------------------------------------------------------------------
\* What the clients post, each on a goroutine of its own: it arrives in any order,
\* late, or again (handleSpecialPost), and is accepted in any case.  It is for the
\* session its header names, if that is still there.

(* The answer holds the roots of some moment since the request was sent.   *)
ValuesFor(s, request) ==
    IF request.kind = "roots" THEN (request.since .. current[s]) \cup {Nobody} ELSE {0}

HandleReply(s, request, value) ==
    /\ s \in sessions
    /\ Deliver(s, AnswerOf(request, value))
    /\ UNCHANGED <<pc, conn, stopped, late, asking, serverVars, clientVars, handlerVars>>

RootsChange(s) ==
    /\ s \in created
    /\ ChangeRoots(s)
    /\ UNCHANGED <<callVars, serverVars, handlerVars>>

(* The list_changed of any of the versions there were.                     *)
HandleRootsChanged(s, version) ==
    /\ s \in sessions
    /\ Invalidate(s, version)
    /\ UNCHANGED <<callVars, counter, pending, lock, clientVars, handlerVars>>

----------------------------------------------------------------------------
\* A call of the requester, over the stream of the call's session.
Send(c) ==
    /\ conn[c] # Nobody
    /\ \E fate \in Fates(conn[c]) : FetchRoots(c, fate) \/ Ask(c, fate)

Step(c) ==
    \/ (BridgeStep(c) \/ Send(c)) /\ UNCHANGED handlerVars
    \/ Acquire(c) \/ ServerBusy(c) \/ Return(c)

DeadlinePasses(c) == Expire(c) /\ UNCHANGED handlerVars

Clients ==
    \/ \E c \in Calls : ClientLeaves(c) \/ \E s \in Conns : PostCall(c, s)
    \/ \E s \in Conns : RootsChange(s)

Handlers ==
    \/ \E s \in Conns :
          \/ Create(s) \/ RemoveSession(s)
          \/ \E request \in asked[s] : \E value \in ValuesFor(s, request) :
                HandleReply(s, request, value)
          \/ \E version \in 1 .. current[s] : HandleRootsChanged(s, version)
    \/ \E g \in Streams :
          \/ \E s \in Conns : Attach(g, s)
          \/ Detach(g)

HttpNext ==
    \/ Clients
    \/ Handlers
    \/ \E c \in Calls : Step(c) \/ DeadlinePasses(c)

HttpSpec == HttpInit /\ [][HttpNext]_httpVars

----------------------------------------------------------------------------
\* The variables stay in their shapes, the registry's order lists its sessions
\* once each and within its maximum, and the places of the semaphore are held by
\* the calls that run.
HttpTypeOK ==
    /\ BridgeTypeOK
    /\ header \in [Calls -> Conns \cup {Nobody}]
    /\ slots = {c \in Calls : pc[c] \notin {"idle", "queued", "done"}}
    /\ Cardinality(slots) <= MaxSlots
    /\ created \subseteq Conns
    /\ sessions \subseteq created
    /\ order \in Seq(Conns)
    /\ ToSet(order) = sessions
    /\ IsInjective(order)
    /\ Len(order) <= MaxSessions
    /\ at \in [Streams -> {"none", "open", "returned"}]
    /\ session \in [Streams -> Conns \cup {Nobody}]
    /\ stream \in [Conns -> Streams \cup {Nobody}]

\* The response of a stream is not written to once its handler returned, also not
\* by the calls of a session that was deleted or evicted (mcp_http_stream.go:33).
StreamOwned ==
    \A s \in Conns : stream[s] # Nobody =>
        at[stream[s]] = "open" /\ session[stream[s]] = s
=============================================================================
