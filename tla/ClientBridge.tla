---------------------------- MODULE ClientBridge ----------------------------
(***************************************************************************)
(* How a running tool call asks the MCP client something: the requester    *)
(* that matches the client's answers to the calls waiting for them         *)
(* (cli/mcp_client_requester.go), and the roots of each connection, asked  *)
(* for once and kept until the client says they changed                    *)
(* (cli/mcp_client_roots.go).  A tool call may first check a config path   *)
(* against the client's roots and may then ask for completions or          *)
(* confirmations (cli/mcp_client_bridge.go).                               *)
(*                                                                         *)
(* The transports extend this module: they start the calls, carry          *)
(* requests out and answers in, and say when a call's context is           *)
(* cancelled.  The client is part of the environment: it answers late,     *)
(* twice, with an error or never.                                          *)
(***************************************************************************)
EXTENDS Integers, FiniteSets, Sequences

CONSTANTS
    Calls,      \* tools/call requests
    Conns,      \* client connections: the stdio pipe, or the HTTP sessions
    Nobody,     \* no call, no connection, no value
    MaxAsks,    \* bound: requests a connection issues before its calls stop asking more
    MaxRoots    \* bound: no client changes its roots once one did so this often

ASSUME NobodyAssumption == Nobody \notin Calls \cup Conns \cup Nat
ASSUME BoundsAssumption == MaxAsks \in Nat /\ MaxRoots \in Nat

Kinds    == {"roots", "completion"}     \* roots/list; sampling or elicitation
Versions == 0 .. MaxRoots               \* of a client's roots

\* A request as it travels: the id is all the client's answer repeats of it.  Which
\* call sent it, for what, and since which version of the roots, is kept to say
\* what the answers may hold and to state RepliesMatch.
Request == [id : Nat, call : Calls, kind : Kinds, since : Versions]
Reply   == [id : Nat, call : Calls, kind : Kinds, value : Versions \cup {Nobody}]

VARIABLES
    pc,         \* where each tool call is
    conn,       \* the connection behind a call, Nobody without one
    stopped,    \* the call's context is cancelled
    late,       \* its ten seconds for the roots ran out while it waited for the lock
    asking,     \* the id of its outstanding request
    chan,       \* the channel of that request, with room for one answer
    counter,    \* serverRequester.counter
    pending,    \* serverRequester.pending: ids and the calls that wait for them
    lock,       \* the call that holds rootsCache.mu
    roots,      \* rootsCache.roots, Nobody while not loaded
    asked,      \* requests that reached the client of a connection
    current,    \* the version of the client's roots
    handled     \* the newest version whose list_changed the server has handled

callVars   == <<pc, conn, stopped, late, asking, chan>>
serverVars == <<counter, pending, lock, roots, handled>>
clientVars == <<asked, current>>
bridgeVars == <<callVars, serverVars, clientVars>>

Places == {"idle", "queued", "started", "locking", "fetching", "working", "asking",
           "replying", "finishing", "done"}

BridgeInit ==
    /\ pc = [c \in Calls |-> "idle"]
    /\ conn = [c \in Calls |-> Nobody]
    /\ stopped = [c \in Calls |-> FALSE]
    /\ late = [c \in Calls |-> FALSE]
    /\ asking = [c \in Calls |-> 0]
    /\ chan = [c \in Calls |-> Nobody]
    /\ counter = [s \in Conns |-> 0]
    /\ pending = [s \in Conns |-> {}]
    /\ lock = [s \in Conns |-> Nobody]
    /\ roots = [s \in Conns |-> Nobody]
    /\ asked = [s \in Conns |-> {}]
    /\ current = [s \in Conns |-> 0]
    /\ handled = [s \in Conns |-> 0]

Goto(c, place) == pc' = [pc EXCEPT ![c] = place]

----------------------------------------------------------------------------
(* serverRequester.call: a new id, registered before the request is sent.  *)
(* What becomes of the request is the transport's: "sent", "lost" on a     *)
(* stream nobody reads any more, or "failed", which ends the call of the   *)
(* requester and takes the id out again.                                   *)

\* Mutant of NewId: an id is as high as what is outstanding, so that ids
\* return once they are answered or given up.
NewIdReused(s) == Cardinality(pending[s]) + 1

NewId(s) == counter[s] + 1

Issue(c, kind, fate) ==
    LET s == conn[c]
    IN  /\ counter' = [counter EXCEPT ![s] = @ + 1]
        /\ chan' = [chan EXCEPT ![c] = Nobody]
        /\ asking' = [asking EXCEPT ![c] = IF fate = "failed" THEN 0 ELSE NewId(s)]
        /\ pending' = IF fate = "failed" THEN pending
                      ELSE [pending EXCEPT ![s] = {p \in @ : p.id # NewId(s)}
                                                  \cup {[id |-> NewId(s), call |-> c]}]
        /\ asked' = IF fate # "sent" THEN asked
                    ELSE [asked EXCEPT ![s] = @ \cup {[id |-> NewId(s), call |-> c, kind |-> kind,
                                                       since |-> current[s]]}]

(* The deferred delete: the call returns from the requester.               *)
Unregister(c) ==
    /\ pending' = [pending EXCEPT ![conn[c]] = {p \in @ : p.id # asking[c]}]
    /\ asking' = [asking EXCEPT ![c] = 0]
    /\ chan' = [chan EXCEPT ![c] = Nobody]

\* Mutant of Deliver: the id alone decides, whoever sent the answer.
DeliverById(s, reply) ==
    chan' = [c \in Calls |->
                IF (\E t \in Conns : [id |-> reply.id, call |-> c] \in pending[t]) /\ chan[c] = Nobody
                THEN reply ELSE chan[c]]

(* serverRequester.deliver: to the call that waits for the id, and only if *)
(* nothing was delivered to it before; dropped otherwise.                  *)
Deliver(s, reply) ==
    chan' = [c \in Calls |->
                IF [id |-> reply.id, call |-> c] \in pending[s] /\ chan[c] = Nobody
                THEN reply ELSE chan[c]]

----------------------------------------------------------------------------
(* allowedRoots, with its ten seconds running from before it waits for the *)
(* lock; a call whose tool takes no config path, or whose client has no    *)
(* roots, does without.                                                    *)
CheckRoots(c) ==
    /\ pc[c] = "started"
    /\ conn[c] # Nobody
    /\ Goto(c, "locking")
    /\ UNCHANGED <<conn, stopped, late, asking, chan, serverVars, clientVars>>

SkipRoots(c) ==
    /\ pc[c] = "started"
    /\ Goto(c, "working")
    /\ UNCHANGED <<conn, stopped, late, asking, chan, serverVars, clientVars>>

\* The check is over, with the client's roots or without.
EndCheck(c) ==
    /\ Goto(c, "working")
    /\ late' = [late EXCEPT ![c] = FALSE]
    /\ UNCHANGED <<conn, stopped>>

(* rootsCache.load: what is loaded is returned ...                         *)
LoadRoots(c) ==
    /\ pc[c] = "locking"
    /\ lock[conn[c]] = Nobody
    /\ roots[conn[c]] # Nobody
    /\ EndCheck(c)
    /\ UNCHANGED <<asking, chan, serverVars, clientVars>>

\* Mutant of HoldLock: the lock is not kept while the roots are fetched.
HoldLockBriefly(c) == UNCHANGED lock

HoldLock(c) == lock' = [lock EXCEPT ![conn[c]] = c]

(* ... and else fetched, the lock being held across the fetch.             *)
FetchRoots(c, fate) ==
    /\ pc[c] = "locking"
    /\ lock[conn[c]] = Nobody
    /\ roots[conn[c]] = Nobody
    /\ Issue(c, "roots", fate)
    /\ IF fate = "failed" THEN EndCheck(c) /\ UNCHANGED lock
       ELSE Goto(c, "fetching") /\ HoldLock(c) /\ UNCHANGED <<conn, stopped, late>>
    /\ UNCHANGED <<roots, handled, current>>

ReleaseLock(c) == lock' = [lock EXCEPT ![conn[c]] = Nobody]

(* The answer is stored, unless the client answered with an error.         *)
TakeRoots(c) ==
    /\ pc[c] = "fetching"
    /\ chan[c] # Nobody
    /\ roots' = [roots EXCEPT ![conn[c]] = chan[c].value]
    /\ Unregister(c)
    /\ ReleaseLock(c)
    /\ EndCheck(c)
    /\ UNCHANGED <<counter, handled, clientVars>>

\* Mutant of GiveUpRoots: the lock is not released on the error path.
GiveUpRootsLocked(c) ==
    /\ pc[c] = "fetching"
    /\ Unregister(c)
    /\ EndCheck(c)
    /\ UNCHANGED <<counter, lock, roots, handled, clientVars>>

(* No answer: the check goes on without the client's roots.                *)
GiveUpRoots(c) ==
    /\ pc[c] = "fetching"
    /\ Unregister(c)
    /\ ReleaseLock(c)
    /\ EndCheck(c)
    /\ UNCHANGED <<counter, roots, handled, clientVars>>

(* sampleMessage or elicit.                                                *)
Ask(c, fate) ==
    /\ pc[c] = "working"
    /\ conn[c] # Nobody
    /\ counter[conn[c]] < MaxAsks
    /\ Issue(c, "completion", fate)
    /\ Goto(c, IF fate = "failed" THEN "working" ELSE "asking")
    /\ UNCHANGED <<conn, stopped, late, lock, roots, handled, current>>

StopAsking(c) ==
    /\ pc[c] = "asking"
    /\ Unregister(c)
    /\ Goto(c, "working")
    /\ UNCHANGED <<conn, stopped, late, counter, lock, roots, handled, clientVars>>

TakeAnswer(c) == chan[c] # Nobody /\ StopAsking(c)

GiveUp(c) == GiveUpRoots(c) \/ StopAsking(c)

(* The context of the call is done already, and the select may see it.     *)
GiveUpEarly(c) == (late[c] \/ stopped[c]) /\ GiveUp(c)

(* rootsFetchTimeout or serverRequestTimeout passes; who waits for the     *)
(* lock goes on waiting.                                                   *)
Expire(c) ==
    \/ GiveUp(c)
    \/ /\ pc[c] = "locking"
       /\ ~late[c]
       /\ late' = [late EXCEPT ![c] = TRUE]
       /\ UNCHANGED <<pc, conn, stopped, asking, chan, serverVars, clientVars>>

\* What a call does with the client whatever the transport.
BridgeStep(c) ==
    \/ CheckRoots(c) \/ SkipRoots(c) \/ LoadRoots(c)
    \/ TakeRoots(c) \/ TakeAnswer(c) \/ GiveUpEarly(c)

(* rootsCache.invalidate, on a goroutine of the transport: waits for the   *)
(* lock.                                                                   *)
Invalidate(s, version) ==
    /\ lock[s] = Nobody
    /\ roots' = [roots EXCEPT ![s] = Nobody]
    /\ handled' = [handled EXCEPT ![s] = IF version > @ THEN version ELSE @]

----------------------------------------------------------------------------
\* The client.  It answers with the roots it has then, or with an error, late or
\* more than once: only the id says what it answers.
AnswerOf(request, value) ==
    [id |-> request.id, call |-> request.call, kind |-> request.kind, value |-> value]

ChangeRoots(s) ==
    /\ \A t \in Conns : current[t] < MaxRoots
    /\ current' = [current EXCEPT ![s] = @ + 1]
    /\ UNCHANGED asked

----------------------------------------------------------------------------
BridgeTypeOK ==
    /\ pc \in [Calls -> Places]
    /\ conn \in [Calls -> Conns \cup {Nobody}]
    /\ stopped \in [Calls -> BOOLEAN]
    /\ late \in [Calls -> BOOLEAN]
    /\ asking \in [Calls -> Nat]
    /\ chan \in [Calls -> Reply \cup {Nobody}]
    /\ counter \in [Conns -> Nat]
    /\ pending \in [Conns -> SUBSET [id : Nat, call : Calls]]
    /\ lock \in [Conns -> Calls \cup {Nobody}]
    /\ roots \in [Conns -> Versions \cup {Nobody}]
    /\ asked \in [Conns -> SUBSET Request]
    /\ current \in [Conns -> Versions]
    /\ handled \in [Conns -> Versions]

Awaited(c) == IF pc[c] = "fetching" THEN "roots" ELSE "completion"

\* An answer is handed to the call that sent the request it answers, and while
\* the call waits for that request: an answer that comes too late, or twice, is
\* never taken for the answer to another request (mcp_client_requester.go).
RepliesMatch ==
    \A c \in Calls : chan[c] # Nobody =>
        /\ pc[c] \in {"fetching", "asking"}
        /\ chan[c].call = c
        /\ chan[c].kind = Awaited(c)

\* Once a list_changed was handled, no roots from before it are kept or about to
\* be taken, although a fetch may have been under way (mcp_client_roots.go).
RootsFresh ==
    /\ \A s \in Conns : roots[s] # Nobody => roots[s] >= handled[s]
    /\ \A c \in Calls :
         pc[c] = "fetching" /\ chan[c] # Nobody /\ chan[c].value # Nobody =>
            chan[c].value >= handled[conn[c]]
=============================================================================
