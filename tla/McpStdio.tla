------------------------------ MODULE McpStdio ------------------------------
(***************************************************************************)
(* The MCP server on standard input and output (cli/mcp_run.go,            *)
(* cli/mcp_requests.go).  One reader takes the client's messages off the   *)
(* pipe and handles them in order; only tool calls run on goroutines of    *)
(* their own.  A call can be cancelled while it runs, the client answers   *)
(* the server's requests on the same pipe (ClientBridge), and after the    *)
(* end of input the server waits for the calls that still run.  It does    *)
(* not when it fails to write, and it reads nothing from a line on that is *)
(* longer than its buffer.                                                 *)
(*                                                                         *)
(* What both transports have is named apart in McpStdio and McpHttp, so    *)
(* that one module can speak of the two.                                   *)
(***************************************************************************)
EXTENDS ClientBridge

CONSTANTS
    Pipe,       \* the one connection
    MaxMishaps, \* bound: calls the client cancels, overlong lines and its end, together
    Capacity    \* bound: messages the client may have written ahead of the reader

ASSUME PipeAssumption == Pipe \in Conns
ASSUME CapacityAssumption == Capacity \in Nat \ {0} /\ MaxMishaps \in Nat

\* The messages of the client; an oversized one is a line of more than 10 MiB.
Message ==
    [type : {"initialize", "oversized"}] \cup [type : {"call", "cancel"}, call : Calls]
        \cup [type : {"changed"}, version : Versions] \cup [type : {"reply"}, reply : Reply]

VARIABLES
    wire,       \* what the client wrote and the reader has not handled
    closed,     \* the client closed its end
    broken,     \* nobody reads what the server writes any more
    greeted,    \* it sent initialize
    sent,       \* the calls it sent
    withdrawn,  \* the calls it sent a cancellation for
    serve,      \* where serve is
    initialized,    \* mcpServer.initializeSeen
    active,     \* mcpServer.active
    cancelled,  \* mcpServer.cancelled
    replied     \* what the client was told about each call

pipeVars  == <<wire, closed, broken, greeted, sent, withdrawn>>
mcpVars   == <<serve, initialized, active, cancelled, replied>>
stdioVars == <<bridgeVars, pipeVars, mcpVars>>

StdioInit ==
    /\ BridgeInit
    /\ wire = <<>>
    /\ closed = FALSE
    /\ broken = FALSE
    /\ greeted = FALSE
    /\ sent = {}
    /\ withdrawn = {}
    /\ serve = "reading"
    /\ initialized = FALSE
    /\ active = {}
    /\ cancelled = {}
    /\ replied = [c \in Calls |-> "nothing"]

----------------------------------------------------------------------------
\* The client.

\* The process ends, and nothing more is written to it.
Over == serve \in {"returned", "failed"}

Mishaps ==
    Cardinality(withdrawn) + (IF broken THEN 1 ELSE 0)
        + Cardinality({i \in DOMAIN wire : wire[i].type = "oversized"})

Writes(message) ==
    /\ ~closed
    /\ ~Over
    /\ Len(wire) < Capacity
    /\ wire' = Append(wire, message)

ClientGreets ==
    /\ ~greeted
    /\ greeted' = TRUE
    /\ Writes([type |-> "initialize"])
    /\ UNCHANGED <<bridgeVars, closed, broken, sent, withdrawn, mcpVars>>

\* It numbers its calls upwards.
ClientCalls(c) ==
    /\ c \notin sent
    /\ \A d \in Calls : d < c => d \in sent
    /\ sent' = sent \cup {c}
    /\ Writes([type |-> "call", call |-> c])
    /\ UNCHANGED <<bridgeVars, closed, broken, greeted, withdrawn, mcpVars>>

\* It may cancel a call that has been answered in the meantime.
ClientCancels(c) ==
    /\ c \in sent \ withdrawn
    /\ Mishaps < MaxMishaps
    /\ withdrawn' = withdrawn \cup {c}
    /\ Writes([type |-> "cancel", call |-> c])
    /\ UNCHANGED <<bridgeVars, closed, broken, greeted, sent, mcpVars>>

ClientChangesRoots ==
    /\ ChangeRoots(Pipe)
    /\ Writes([type |-> "changed", version |-> current[Pipe] + 1])
    /\ UNCHANGED <<callVars, serverVars, mcpVars>>
    /\ UNCHANGED <<closed, broken, greeted, sent, withdrawn>>

ClientAnswers(request, value) ==
    /\ request \in asked[Pipe]
    /\ Writes([type |-> "reply", reply |-> AnswerOf(request, value)])
    /\ UNCHANGED <<bridgeVars, closed, broken, greeted, sent, withdrawn, mcpVars>>

AnswersTo(request) == IF request.kind = "roots" THEN {current[Pipe], Nobody} ELSE {0}

ClientCloses ==
    /\ ~closed
    /\ closed' = TRUE
    /\ UNCHANGED <<bridgeVars, wire, broken, greeted, sent, withdrawn, mcpVars>>

\* It writes a line that never fits: nothing behind it is read.
ClientOverflows ==
    /\ Mishaps < MaxMishaps
    /\ Writes([type |-> "oversized"])
    /\ UNCHANGED <<bridgeVars, closed, broken, greeted, sent, withdrawn, mcpVars>>

\* Or it goes away, and with it both its ends.
ClientDies ==
    /\ ~broken
    /\ Mishaps < MaxMishaps
    /\ closed' = TRUE
    /\ broken' = TRUE
    /\ UNCHANGED <<bridgeVars, wire, greeted, sent, withdrawn, mcpVars>>

Client ==
    \/ ClientGreets \/ ClientChangesRoots \/ ClientOverflows
    \/ ClientCloses \/ ClientDies
    \/ \E c \in Calls : ClientCalls(c) \/ ClientCancels(c)
    \/ \E request \in asked[Pipe] : \E value \in AnswersTo(request) : ClientAnswers(request, value)

----------------------------------------------------------------------------
\* The reader (handleLine).

Reads(type) ==
    /\ serve = "reading"
    /\ wire # <<>>
    /\ Head(wire).type = type
    /\ wire' = Tail(wire)
    /\ UNCHANGED <<closed, broken, greeted, sent, withdrawn>>

(* handleLine answers: when the write fails, serve returns the error at    *)
(* once, without waiting for the calls, and the process ends.              *)
Responds == serve' = IF broken THEN "failed" ELSE serve

ReadInitialize ==
    /\ Reads("initialize")
    /\ initialized' = TRUE
    /\ Responds
    /\ UNCHANGED <<bridgeVars, active, cancelled, replied>>

\* What the client knows of the calls once c got this answer.
Told(c, answer) == IF broken THEN replied ELSE [replied EXCEPT ![c] = answer]

(* handleToolCall: a goroutine of its own, unless the client has not       *)
(* introduced itself.                                                      *)
ReadCall ==
    /\ Reads("call")
    /\ LET c == Head(wire).call
       IN  IF initialized
           THEN /\ Goto(c, "started")
                /\ conn' = [conn EXCEPT ![c] = Pipe]
                /\ active' = active \cup {c}
                /\ cancelled' = cancelled \ {c}
                /\ UNCHANGED <<serve, replied>>
           ELSE /\ Goto(c, "done")
                /\ Responds
                /\ replied' = Told(c, "refused")
                /\ UNCHANGED <<conn, active, cancelled>>
    /\ UNCHANGED <<stopped, late, asking, chan, serverVars, clientVars, initialized>>

\* Mutant of Cancellable: any call is marked, also one that has finished.
CancellableAlways(c) == TRUE

Cancellable(c) == c \in active

(* handleCancelledNotification: only a call that runs is marked.           *)
ReadCancel ==
    /\ Reads("cancel")
    /\ LET c == Head(wire).call
       IN  IF Cancellable(c)
           THEN /\ cancelled' = cancelled \cup {c}
                /\ stopped' = [stopped EXCEPT ![c] = TRUE]
           ELSE UNCHANGED <<cancelled, stopped>>
    /\ UNCHANGED <<pc, conn, late, asking, chan, serverVars, clientVars,
                   serve, initialized, active, replied>>

(* rootsCache.invalidate, on the reader itself.                            *)
ReadRootsChanged ==
    /\ Reads("changed")
    /\ Invalidate(Pipe, Head(wire).version)
    /\ UNCHANGED <<callVars, counter, pending, lock, clientVars, mcpVars>>

ReadReply ==
    /\ Reads("reply")
    /\ Deliver(Pipe, Head(wire).reply)
    /\ UNCHANGED <<pc, conn, stopped, late, asking, serverVars, clientVars, mcpVars>>

ReadMessage == ReadInitialize \/ ReadCall \/ ReadCancel \/ ReadRootsChanged \/ ReadReply

(* The scanner gives up on a line that does not fit into its buffer, and   *)
(* nothing behind it is read.                                              *)
Stalled == wire # <<>> /\ Head(wire).type = "oversized"

(* End of input: wg.Wait, then serve returns and the process ends.         *)
EndInput ==
    /\ serve = "reading"
    /\ (closed /\ wire = <<>>) \/ Stalled
    /\ serve' = "waiting"
    /\ UNCHANGED <<bridgeVars, pipeVars, initialized, active, cancelled, replied>>

\* Mutant of CallsReturned: serve returns without waiting for the calls.
CallsReturnedAlready == TRUE

CallsReturned == \A c \in Calls : pc[c] \in {"idle", "done"}

ServeReturns ==
    /\ serve = "waiting"
    /\ CallsReturned
    /\ serve' = "returned"
    /\ UNCHANGED <<bridgeVars, pipeVars, initialized, active, cancelled, replied>>

Reader == ReadMessage \/ EndInput \/ ServeReturns

----------------------------------------------------------------------------
\* A tool call's goroutine.

\* Mutant of CheckCancelled: a cancelled call's goroutine is dropped.
CheckCancelledDropping(c) ==
    /\ pc[c] = "working"
    /\ Goto(c, IF c \in cancelled THEN "dropped" ELSE "replying")
    /\ UNCHANGED <<conn, stopped, late, asking, chan, serverVars, clientVars>>
    /\ UNCHANGED <<pipeVars, mcpVars>>

\* The tool has returned: a cancelled call is not answered ...
CheckCancelled(c) ==
    /\ pc[c] = "working"
    /\ Goto(c, IF c \in cancelled THEN "finishing" ELSE "replying")
    /\ UNCHANGED <<conn, stopped, late, asking, chan, serverVars, clientVars>>
    /\ UNCHANGED <<pipeVars, mcpVars>>

\* A call ignores whether it could write, but a broken pipe may end the process.
Survives == serve' \in IF broken THEN {serve, "failed"} ELSE {serve}

\* ... and any other is, with a result or an error.
WriteReply(c) ==
    /\ pc[c] = "replying"
    /\ Goto(c, "finishing")
    /\ replied' = Told(c, "answered")
    /\ Survives
    /\ UNCHANGED <<conn, stopped, late, asking, chan, serverVars, clientVars, pipeVars,
                   initialized, active, cancelled>>

(* finishRequest and cancel, deferred.                                     *)
FinishRequest(c) ==
    /\ pc[c] = "finishing"
    /\ Goto(c, "done")
    /\ active' = active \ {c}
    /\ cancelled' = cancelled \ {c}
    /\ UNCHANGED <<conn, stopped, late, asking, chan, serverVars, clientVars, pipeVars,
                   serve, initialized, replied>>

\* What becomes of a request of the server's own.
Fate == IF broken THEN "failed" ELSE "sent"

\* While the process lives.
RunCall(c) ==
    /\ serve # "failed"
    /\ \/ BridgeStep(c) /\ UNCHANGED <<pipeVars, mcpVars>>
       \/ /\ FetchRoots(c, Fate) \/ Ask(c, Fate)
          /\ Survives
          /\ UNCHANGED <<pipeVars, initialized, active, cancelled, replied>>
       \/ CheckCancelled(c) \/ WriteReply(c) \/ FinishRequest(c)

TimerFires(c) ==
    /\ serve # "failed"
    /\ Expire(c)
    /\ UNCHANGED <<pipeVars, mcpVars>>

Terminated == Over /\ UNCHANGED stdioVars

StdioNext ==
    \/ Client
    \/ Reader
    \/ \E c \in Calls : RunCall(c) \/ TimerFires(c)
    \/ Terminated

(* The reader and the goroutines of calls move, by themselves or when a    *)
(* timer fires; the client owes nothing, not even an answer.               *)
Fairness ==
    /\ WF_stdioVars(Reader)
    /\ \A c \in Calls : WF_stdioVars(RunCall(c) \/ TimerFires(c))

StdioSpec == StdioInit /\ [][StdioNext]_stdioVars /\ Fairness

----------------------------------------------------------------------------
\* The variables stay in the shapes the code gives them.
StdioTypeOK ==
    /\ BridgeTypeOK
    /\ wire \in Seq(Message)
    /\ closed \in BOOLEAN
    /\ broken \in BOOLEAN
    /\ greeted \in BOOLEAN
    /\ sent \subseteq Calls
    /\ withdrawn \subseteq sent
    /\ serve \in {"reading", "waiting", "returned", "failed"}
    /\ initialized \in BOOLEAN
    /\ active \subseteq Calls
    /\ cancelled \subseteq Calls
    /\ replied \in [Calls -> {"nothing", "answered", "refused"}]

\* A call the reader never gets to.
NeverRead(c) ==
    /\ Stalled
    /\ \E i \in DOMAIN wire : wire[i] = [type |-> "call", call |-> c]

\* When serve returns without an error of its output, every call the client sent was
\* answered, unless the client cancelled it or no longer reads, or the call stands
\* behind a line longer than the buffer, where nothing is read (mcp_run.go, wg.Wait).
NoneForgotten ==
    serve = "returned" =>
        \A c \in sent : replied[c] = "nothing" => c \in withdrawn \/ broken \/ NeverRead(c)

\* A call that is over leaves nothing in the server's tables, whenever its
\* cancellation or a late answer arrives (mcp_requests.go, finishRequest).
NothingLeft ==
    \A c \in Calls : pc[c] \in {"idle", "done"} =>
        /\ c \notin active \cup cancelled
        /\ \A p \in pending[Pipe] : p.call # c
        /\ lock[Pipe] # c

\* Every call ends, although the client may never answer, and after the end of
\* input so does the server; only a process that failed to write leaves calls behind.
Termination ==
    /\ \A c \in Calls : pc[c] = "started" ~> pc[c] = "done" \/ serve = "failed"
    /\ closed ~> Over
=============================================================================
