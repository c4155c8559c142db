--------------------------- MODULE BridgeSession ---------------------------
(***************************************************************************)
(* One bridge session: the host side of `bridges` (src/src/bridge-host.mjs,*)
(* openSession()) and the client in the sandbox's runtime that it talks to *)
(* (src/src/bridge-client.mjs), over postMessage() in both directions.     *)
(* The sandbox calls methods of the bridge or of host objects it holds     *)
(* handles of; a method returns a value, a handle or a stream; functions   *)
(* in the arguments can be called back; the session ends with its Worker.  *)
(*                                                                         *)
(* Ids are random in the code.  Here a call names itself, the stream it    *)
(* opens, the handle it (or a chunk of its stream) creates and the         *)
(* function it passes: there is at most one of each per call.              *)
(***************************************************************************)
EXTENDS Integers, Sequences, FiniteSets

CONSTANTS
  Calls,        \* bridge calls the sandbox makes
  Kind,         \* Kind[c]: "handle" or "stream", by the method c calls
  WithFunction, \* the calls that pass a sandbox function
  Root,         \* stands for the handle of a call on the bridge itself
  MaxHandles, MaxStreams,   \* limits; 0 is unlimited
  HasTimeout    \* limits.timeoutMs > 0

ASSUME BridgeAssumption ==
  /\ IsFiniteSet(Calls) /\ Root \notin Calls
  /\ Kind \in [Calls -> {"handle", "stream"}]
  /\ WithFunction \subseteq Calls
  /\ MaxHandles \in Nat /\ MaxStreams \in Nat
  /\ HasTimeout \in BOOLEAN

VARIABLES
  \* the host's session
  closed,
  calls,        \* the calls it keeps a record of
  task,         \* task[c]: where onCall(c) is
  aborted,      \* the calls whose ctx.signal has aborted
  timers,       \* the calls whose limits.timeoutMs timer is armed
  streams,      \* the calls whose stream is open
  reading,      \* the streams with a puller.next() in progress
  handles,      \* the calls whose host object is registered
  owner,        \* owner[c]: what c's function lives as long as
  proxy,        \* proxy[c]: the reverse call of c's function
  made,         \* history: the calls that produced a host object
  destroyed,    \* history: destroyed[c]: times c's host object was destroyed
  \* the client in the sandbox
  call,         \* call[c]: "idle", "open" or "settled"
  on,           \* on[c]: the handle c is called on, or Root
  reader,       \* reader[c]: the ReadableStream of c: "none", "open" or "closed"
  waiting,      \* the streams whose pull() waits for a chunk
  object,       \* object[c]: the sandbox's handle: "none", "live" or "destroyed"
  functions,    \* the calls whose function is kept
  \* messages
  toHost, toSandbox

hostVars   == <<closed, calls, task, aborted, timers, streams, reading, handles,
                owner, made, destroyed>>
clientVars == <<call, on, reader, waiting, object, functions>>
vars == <<hostVars, proxy, clientVars, toHost, toSandbox>>

Msg(type, id) == [type |-> type, id |-> id]

Init ==
  /\ closed = FALSE /\ calls = {} /\ task = [c \in Calls |-> "none"]
  /\ aborted = {} /\ timers = {} /\ streams = {} /\ reading = {} /\ handles = {}
  /\ owner = [c \in Calls |-> "none"] /\ proxy = [c \in Calls |-> "none"]
  /\ made = {} /\ destroyed = [c \in Calls |-> 0]
  /\ call = [c \in Calls |-> "idle"] /\ on = [c \in Calls |-> Root]
  /\ reader = [c \in Calls |-> "none"] /\ waiting = {}
  /\ object = [c \in Calls |-> "none"] /\ functions = {}
  /\ toHost = <<>> /\ toSandbox = <<>>

-----------------------------------------------------------------------------
(* The client in the sandbox.                                              *)

Post(m) == toHost' = Append(toHost, m)

\* fail() and finish() for the calls in S: they settle, their streams fail.
Finish(S) ==
  /\ call' = [c \in Calls |-> IF c \in S THEN "settled" ELSE call[c]]
  /\ reader' = [c \in Calls |-> IF c \in S /\ Kind[c] = "stream" THEN "closed" ELSE reader[c]]
  /\ waiting' = waiting \ S

OpenOn(h) == {c \in Calls : call[c] = "open" /\ on[c] = h}

HandleState(h) == IF h = Root THEN "live" ELSE object[h]

\* startCall() on a live handle, or on one already destroyed.
StartCall(c, h) ==
  /\ ~closed /\ call[c] = "idle"
  /\ HandleState(h) # "none"
  /\ on' = [on EXCEPT ![c] = h]
  /\ \/ /\ HandleState(h) = "live"
        /\ call' = [call EXCEPT ![c] = "open"]
        /\ functions' = functions \cup ({c} \cap WithFunction)
        /\ Post(Msg("bridgeCall", c))
        /\ UNCHANGED reader
     \/ /\ HandleState(h) = "destroyed"
        /\ Finish({c})
        /\ UNCHANGED <<functions, toHost>>
  /\ UNCHANGED <<hostVars, proxy, waiting, object, toSandbox>>

\* An AbortSignal in the arguments fires.
AbortCall(c) ==
  /\ ~closed /\ call[c] = "open"
  /\ Finish({c})
  /\ Post(Msg("bridgeAbort", c))
  /\ UNCHANGED <<hostVars, proxy, on, object, functions, toSandbox>>

\* The sandbox cancels the stream it reads.
CancelStream(c) ==
  /\ ~closed /\ call[c] = "open" /\ Kind[c] = "stream"
  /\ Finish({c})
  /\ Post(Msg(IF reader[c] = "open" THEN "bridgeCancel" ELSE "bridgeAbort", c))
  /\ UNCHANGED <<hostVars, proxy, on, object, functions, toSandbox>>

PullStream(c) ==
  /\ ~closed /\ reader[c] = "open" /\ c \notin waiting
  /\ waiting' = waiting \cup {c}
  /\ Post(Msg("bridgePull", c))
  /\ UNCHANGED <<hostVars, proxy, call, on, reader, object, functions, toSandbox>>

\* destroy() of a handle: what is pending on it fails at once.
DestroyHandle(h) ==
  /\ ~closed /\ object[h] = "live"
  /\ object' = [object EXCEPT ![h] = "destroyed"]
  /\ Finish(OpenOn(h))
  /\ Post(Msg("bridgeRelease", h))
  /\ UNCHANGED <<hostVars, proxy, on, functions, toSandbox>>

\* The sandbox function of c returns or throws.
FunctionReturns(c) ==
  /\ ~closed /\ proxy[c] = "running"
  /\ proxy' = [proxy EXCEPT ![c] = "answered"]
  /\ Post(Msg("bridgeCallbackResult", c))
  /\ UNCHANGED <<hostVars, clientVars, toSandbox>>

Reading(c, types) ==
  /\ toSandbox # <<>>
  /\ Head(toSandbox) \in [type : types, id : {c}]
  /\ toSandbox' = Tail(toSandbox)

\* makeHandle() for a descriptor that came in.
NewObject(c) == object' = [object EXCEPT ![c] = "live"]

\* `bridgeResult`: only a call that is still open takes it.
TakesResult(c) ==
  /\ Reading(c, {"value", "handle", "stream", "error"})
  /\ \/ /\ call[c] = "open" /\ Head(toSandbox).type = "handle"
        /\ Finish({c}) /\ NewObject(c)
     \/ /\ call[c] = "open" /\ Head(toSandbox).type = "stream"
        /\ reader' = [reader EXCEPT ![c] = "open"]
        /\ UNCHANGED <<call, waiting, object>>
     \/ /\ call[c] = "open" /\ Head(toSandbox).type \in {"value", "error"}
        /\ Finish({c})
        /\ UNCHANGED object
     \/ /\ call[c] # "open"
        /\ UNCHANGED <<call, reader, waiting, object>>
  /\ UNCHANGED <<hostVars, proxy, on, functions, toHost>>

\* `bridgeChunk`: only a stream that is still read takes it.
TakesChunk(c) ==
  /\ Reading(c, {"chunk", "chunkHandle", "chunkDone", "chunkError"})
  /\ \/ /\ reader[c] = "open" /\ Head(toSandbox).type = "chunk"
        /\ waiting' = waiting \ {c}
        /\ UNCHANGED <<call, reader, object>>
     \/ /\ reader[c] = "open" /\ Head(toSandbox).type = "chunkHandle"
        /\ waiting' = waiting \ {c} /\ NewObject(c)
        /\ UNCHANGED <<call, reader>>
     \/ /\ reader[c] = "open" /\ Head(toSandbox).type \in {"chunkDone", "chunkError"}
        /\ Finish({c})
        /\ UNCHANGED object
     \/ /\ reader[c] # "open"
        /\ UNCHANGED <<call, reader, waiting, object>>
  /\ UNCHANGED <<hostVars, proxy, on, functions, toHost>>

\* `bridgeCallback`: a function that was let go answers with an error.
TakesCallback(c) ==
  /\ Reading(c, {"bridgeCallback"})
  /\ \/ /\ c \in functions
        /\ proxy' = [proxy EXCEPT ![c] = "running"]
        /\ UNCHANGED toHost
     \/ /\ c \notin functions
        /\ proxy' = [proxy EXCEPT ![c] = "answered"]
        /\ Post(Msg("bridgeCallbackResult", c))
  /\ UNCHANGED <<hostVars, clientVars>>

TakesForget ==
  /\ toSandbox # <<>>
  /\ Head(toSandbox).type = "bridgeForget"
  /\ functions' = functions \ Head(toSandbox).ids
  /\ toSandbox' = Tail(toSandbox)
  /\ UNCHANGED <<hostVars, proxy, call, on, reader, waiting, object, toHost>>

SandboxReceives(c) ==
  TakesResult(c) \/ TakesChunk(c) \/ TakesCallback(c) \/ TakesForget

-----------------------------------------------------------------------------
(* The host's session: what its steps do to the records in `calls`.        *)

\* The message that lets functions go.  Mutant: the host only remembers it.
OnlyRemembered(S) == <<>>
Forget(S) == IF S = {} THEN <<>> ELSE <<[type |-> "bridgeForget", ids |-> S]>>
Send(msgs) == toSandbox' = toSandbox \o msgs

\* The functions let go when the records of E end and the objects of H go.
\* Mutant: a function is let go with its call, though its object lives on.
ReleasedWithCall(E, H) == {c \in E \cup H : owner[c] # "none"}
Released(E, H) == {c \in E : owner[c] = "call"} \cup {c \in H : owner[c] = "handle"}

\* owner after that.  Mutant: the sandbox forgets, the host's proxy does not.
NotRevoked(S) == owner
Revoked(S) == [c \in Calls |-> IF c \in S THEN "released" ELSE owner[c]]

\* The timers left when the records of E end.  Mutant: endCall() leaves them.
TimersKept(E) == timers
TimersLeft(E) == timers \ E

\* endCall() for the records in E, sending msgs first.
EndCalls(E, msgs) ==
  /\ calls' = calls \ E
  /\ timers' = TimersLeft(E)
  /\ owner' = Revoked(Released(E, {}))
  /\ Send(msgs \o Forget(Released(E, {})))

\* A call that fails is answered, unless its record is gone.
CallFails(c) ==
  /\ task' = [task EXCEPT ![c] = "done"]
  /\ \/ c \in calls /\ EndCalls({c}, <<Msg("error", c)>>)
     \/ c \notin calls /\ UNCHANGED <<calls, timers, owner, toSandbox>>

\* closeStream(), or the end of a call that has none: c's signal aborts.
CloseCall(c, msgs) ==
  /\ aborted' = aborted \cup {c}
  /\ streams' = streams \ {c}
  /\ EndCalls({c}, msgs)

HasRoom(used, limit) == limit = 0 \/ Cardinality(used) < limit

\* The limits onCall() checks before the method runs.
Full(c) ==
  \/ Kind[c] = "handle" /\ ~HasRoom(handles, MaxHandles)
  \/ Kind[c] = "stream" /\ ~HasRoom(streams, MaxStreams)

\* registerHandle()'s own check, after the method.  Mutant: it trusts onCall()'s.
RoomBefore == TRUE
RoomNow == HasRoom(handles, MaxHandles)

Destroyed(H) == [c \in Calls |-> destroyed[c] + IF c \in H THEN 1 ELSE 0]

\* registerHandle() of the object c made: it takes c's function over.
Register(c) ==
  /\ made' = made \cup {c}
  /\ handles' = handles \cup {c}
  /\ owner' = [owner EXCEPT ![c] = IF @ = "call" THEN "handle" ELSE @]

-----------------------------------------------------------------------------
(* What the host receives.                                                 *)

Arrives(c, type) ==
  /\ toHost # <<>>
  /\ Head(toHost) = Msg(type, c)
  /\ toHost' = Tail(toHost)

\* onCall() up to the gate and onRequest.
OnCall(c) ==
  /\ Arrives(c, "bridgeCall")
  /\ \/ /\ on[c] # Root /\ on[c] \notin handles
        /\ Send(<<Msg("error", c)>>)
        /\ task' = [task EXCEPT ![c] = "refused"]
        /\ UNCHANGED <<calls, timers, owner>>
     \/ /\ on[c] = Root \/ on[c] \in handles   \* a limit, or the gate, refuses
        /\ owner' = [owner EXCEPT ![c] = IF c \in WithFunction THEN "released" ELSE @]
        /\ Send(<<Msg("error", c)>> \o Forget({c} \cap WithFunction))
        /\ task' = [task EXCEPT ![c] = "refused"]
        /\ UNCHANGED <<calls, timers>>
     \/ /\ on[c] = Root \/ on[c] \in handles
        /\ ~Full(c)
        /\ calls' = calls \cup {c}
        /\ timers' = timers \cup IF HasTimeout THEN {c} ELSE {}
        /\ owner' = [owner EXCEPT ![c] = IF c \in WithFunction THEN "call" ELSE @]
        /\ task' = [task EXCEPT ![c] = "consent"]
        /\ UNCHANGED toSandbox
  /\ UNCHANGED <<closed, aborted, streams, reading, handles, made, destroyed, proxy, clientVars>>

OnAbort(c) ==
  /\ Arrives(c, "bridgeAbort")
  /\ \/ c \in calls /\ CloseCall(c, <<>>)
     \/ c \notin calls /\ UNCHANGED <<calls, timers, owner, aborted, streams, toSandbox>>
  /\ UNCHANGED <<closed, task, reading, handles, made, destroyed, proxy, clientVars>>

OnCancel(c) ==
  /\ Arrives(c, "bridgeCancel")
  /\ \/ c \in streams /\ CloseCall(c, <<>>)
     \/ c \notin streams /\ UNCHANGED <<calls, timers, owner, aborted, streams, toSandbox>>
  /\ UNCHANGED <<closed, task, reading, handles, made, destroyed, proxy, clientVars>>

OnPull(c) ==
  /\ Arrives(c, "bridgePull")
  /\ reading' = reading \cup ({c} \cap streams)
  /\ UNCHANGED <<closed, calls, task, aborted, timers, streams, handles, owner,
                 made, destroyed, proxy, clientVars, toSandbox>>

CallsOn(h) == {c \in calls : on[c] = h}

\* The streams destroyHandleRecord() closes.  Mutant: it only aborts signals.
NoStreams(h) == {}
StreamsOn(h) == CallsOn(h) \cap streams

\* The calls whose signal it aborts.  Mutant: it closes streams only.
OnlyStreams(h) == StreamsOn(h)
AbortedOn(h) == CallsOn(h)

\* destroyHandleRecord(): the object's open streams end, its other calls abort.
OnRelease(h) ==
  /\ Arrives(h, "bridgeRelease")
  /\ \/ /\ h \in handles
        /\ LET S == StreamsOn(h)
               R == Released(S, {h})
           IN  /\ calls' = calls \ S
               /\ timers' = TimersLeft(S)
               /\ streams' = streams \ S
               /\ owner' = Revoked(R)
               /\ Send(Forget(R))
        /\ aborted' = aborted \cup AbortedOn(h)
        /\ handles' = handles \ {h}
        /\ destroyed' = Destroyed({h})
     \/ /\ h \notin handles
        /\ UNCHANGED <<calls, timers, streams, owner, toSandbox, aborted, handles, destroyed>>
  /\ UNCHANGED <<closed, task, reading, made, proxy, clientVars>>

OnCallbackResult(c) ==
  /\ Arrives(c, "bridgeCallbackResult")
  /\ proxy' = [proxy EXCEPT ![c] = "settled"]
  /\ UNCHANGED <<hostVars, clientVars, toSandbox>>

HostReceives(c) ==
  OnCall(c) \/ OnAbort(c) \/ OnCancel(c) \/ OnPull(c) \/ OnRelease(c) \/ OnCallbackResult(c)

-----------------------------------------------------------------------------
(* What the host's own functions and timers do.                            *)

\* runMethod() after onRequest: only a `true` for a live call lets it run.
Consent(c) ==
  /\ task[c] = "consent"
  /\ \/ /\ c \notin aborted
        /\ task' = [task EXCEPT ![c] = "method"]
        /\ UNCHANGED <<calls, timers, owner, toSandbox>>
     \/ CallFails(c)
  /\ UNCHANGED <<closed, aborted, streams, reading, handles, made, destroyed,
                 proxy, clientVars, toHost>>

\* The method throws, or returns what cannot be streamed.
MethodThrows(c) ==
  /\ task[c] = "method"
  /\ CallFails(c)
  /\ UNCHANGED <<closed, aborted, streams, reading, handles, made, destroyed,
                 proxy, clientVars, toHost>>

\* Nobody waits for what the method returns.
Late(c) == c \notin calls \/ closed \/ c \in aborted

\* What discardResult() destroys.  Mutant: a late result is only dropped.
NotDiscarded(c) == {}
Discarded(c) == {c}

ReturnsLate(c) ==
  /\ task[c] = "method" /\ Late(c)
  /\ CallFails(c)
  /\ \/ /\ Kind[c] = "handle"
        /\ made' = made \cup {c} /\ destroyed' = Destroyed(Discarded(c))
     \/ UNCHANGED <<made, destroyed>>   \* a stream, or no host object in it
  /\ UNCHANGED <<closed, aborted, streams, reading, handles, proxy, clientVars, toHost>>

ReturnsStream(c) ==
  /\ task[c] = "method" /\ ~Late(c) /\ Kind[c] = "stream"
  /\ task' = [task EXCEPT ![c] = "done"]
  /\ streams' = streams \cup {c}
  /\ Send(<<Msg("stream", c)>>)
  /\ UNCHANGED <<closed, calls, aborted, timers, reading, handles, owner, made, destroyed,
                 proxy, clientVars, toHost>>

ReturnsHandle(c) ==
  /\ task[c] = "method" /\ ~Late(c) /\ Kind[c] = "handle"
  /\ RoomNow
  /\ task' = [task EXCEPT ![c] = "done"]
  /\ Register(c)
  /\ calls' = calls \ {c}
  /\ timers' = TimersLeft({c})
  /\ Send(<<Msg("handle", c)>>)
  /\ UNCHANGED <<closed, aborted, streams, reading, destroyed, proxy, clientVars, toHost>>

\* A result without host objects.
ReturnsValue(c) ==
  /\ task[c] = "method" /\ ~Late(c) /\ Kind[c] = "handle"
  /\ task' = [task EXCEPT ![c] = "done"]
  /\ EndCalls({c}, <<Msg("value", c)>>)
  /\ UNCHANGED <<closed, aborted, streams, reading, handles, made, destroyed,
                 proxy, clientVars, toHost>>

\* The handle limit is reached meanwhile, or the registered result is too
\* large or cannot be cloned: the sandbox gets an error and the object goes.
ReturnsUnsendable(c) ==
  /\ task[c] = "method" /\ ~Late(c) /\ Kind[c] = "handle"
  /\ \/ /\ ~RoomNow
        /\ CallFails(c)
     \/ /\ RoomNow
        /\ task' = [task EXCEPT ![c] = "done"]
        /\ calls' = calls \ {c}
        /\ timers' = TimersLeft({c})
        /\ owner' = Revoked({c} \cap WithFunction)
        /\ Send(Forget({c} \cap WithFunction) \o <<Msg("error", c)>>)
  /\ made' = made \cup {c} /\ destroyed' = Destroyed({c})
  /\ UNCHANGED <<closed, aborted, streams, reading, handles, proxy, clientVars, toHost>>

\* Does a timed out stream tell the sandbox?  Mutant: it does not.
SilentEnd(c) == <<>>
TimeoutChunk(c) == <<Msg("chunkError", c)>>

\* limits.timeoutMs has passed: the signal aborts, and an open stream ends; a
\* method that is running is waited for.
LimitTimeout(c) ==
  /\ c \in timers
  /\ \/ c \in streams /\ CloseCall(c, TimeoutChunk(c))
     \/ /\ c \notin streams
        /\ aborted' = aborted \cup {c}
        /\ timers' = timers \ {c}
        /\ UNCHANGED <<calls, streams, owner, toSandbox>>
  /\ UNCHANGED <<closed, task, reading, handles, made, destroyed, proxy, clientVars, toHost>>

Pulled(c) == c \in reading /\ reading' = reading \ {c}

\* puller.next() settles for a stream that was closed meanwhile.
PullIsLate(c) ==
  /\ Pulled(c) /\ c \notin streams
  /\ UNCHANGED <<closed, calls, task, aborted, timers, streams, handles, owner, made,
                 destroyed, proxy, clientVars, toHost, toSandbox>>

\* A chunk of plain values, or with a new host object in it.
PullYields(c) ==
  /\ Pulled(c) /\ c \in streams
  /\ \/ Send(<<Msg("chunk", c)>>) /\ UNCHANGED <<handles, owner, made>>
     \/ /\ c \notin made /\ RoomNow
        /\ Register(c)
        /\ Send(<<Msg("chunkHandle", c)>>)
  /\ UNCHANGED <<closed, calls, task, aborted, timers, streams, destroyed,
                 proxy, clientVars, toHost>>

PullEnds(c) ==
  /\ Pulled(c) /\ c \in streams
  /\ streams' = streams \ {c}
  /\ EndCalls({c}, <<Msg("chunkDone", c)>>)
  /\ UNCHANGED <<closed, task, aborted, handles, made, destroyed, proxy, clientVars, toHost>>

\* The host's stream fails, or yields a chunk that cannot be sent; an object
\* in it is destroyed when it is over the limit, and otherwise stays registered.
PullFails(c) ==
  /\ Pulled(c) /\ c \in streams
  /\ \/ CloseCall(c, <<Msg("chunkError", c)>>) /\ UNCHANGED <<handles, made, destroyed>>
     \/ /\ c \notin made /\ ~RoomNow
        /\ made' = made \cup {c} /\ destroyed' = Destroyed({c})
        /\ CloseCall(c, <<Msg("chunkError", c)>>)
        /\ UNCHANGED handles
     \/ /\ c \notin made /\ RoomNow
        /\ Register(c)
        /\ aborted' = aborted \cup {c}
        /\ streams' = streams \ {c}
        /\ calls' = calls \ {c} /\ timers' = TimersLeft({c})
        /\ Send(<<Msg("chunkError", c)>>)
        /\ UNCHANGED destroyed
  /\ UNCHANGED <<closed, task, proxy, clientVars, toHost>>

\* The host calls the proxy of c's function.  Bound: once per function.
CallsFunction(c) ==
  /\ c \in WithFunction /\ task[c] \notin {"none", "refused"} /\ proxy[c] = "none"
  /\ \/ /\ closed \/ owner[c] = "released"
        /\ proxy' = [proxy EXCEPT ![c] = "settled"]
        /\ UNCHANGED toSandbox
     \/ /\ ~closed /\ owner[c] # "released"
        /\ proxy' = [proxy EXCEPT ![c] = "sent"]
        /\ Send(<<Msg("bridgeCallback", c)>>)
  /\ UNCHANGED <<hostVars, clientVars, toHost>>

\* close(): the Worker is terminated, and its messages with it.
Close ==
  /\ ~closed
  /\ closed' = TRUE
  /\ aborted' = aborted \cup calls
  /\ destroyed' = Destroyed(handles)
  /\ calls' = {} /\ timers' = {} /\ streams' = {} /\ handles' = {}
  /\ proxy' = [c \in Calls |-> IF proxy[c] = "none" THEN "none" ELSE "settled"]
  /\ toHost' = <<>> /\ toSandbox' = <<>>
  /\ UNCHANGED <<task, reading, owner, made, clientVars>>

HostRuns(c) ==
  \/ Consent(c) \/ MethodThrows(c) \/ LimitTimeout(c)
  \/ ReturnsLate(c) \/ ReturnsStream(c) \/ ReturnsHandle(c) \/ ReturnsValue(c)
  \/ ReturnsUnsendable(c)
  \/ PullIsLate(c) \/ PullYields(c) \/ PullEnds(c) \/ PullFails(c)
  \/ CallsFunction(c)

SandboxRuns(c) ==
  \/ \E h \in Calls \cup {Root} : StartCall(c, h)
  \/ AbortCall(c) \/ CancelStream(c) \/ PullStream(c) \/ DestroyHandle(c)
  \/ FunctionReturns(c)

Next ==
  \/ \E c \in Calls : SandboxRuns(c) \/ SandboxReceives(c) \/ HostReceives(c) \/ HostRuns(c)
  \/ Close

Spec == Init /\ [][Next]_vars

\* Messages are delivered.  Nothing is assumed of the host's methods, of the
\* sandbox, or of timers.
Fairness ==
  /\ WF_vars(\E c \in Calls : SandboxReceives(c))
  /\ WF_vars(\E c \in Calls : HostReceives(c))

FairSpec == Spec /\ Fairness

-----------------------------------------------------------------------------
(* Properties.                                                             *)

CallMsg(types) == [type : types, id : Calls]

\* The type invariant of both sides and the messages; a timer or an open stream always has a call's record.
TypeOK ==
  /\ closed \in BOOLEAN /\ calls \subseteq Calls /\ aborted \subseteq Calls
  /\ task \in [Calls -> {"none", "refused", "consent", "method", "done"}]
  /\ timers \subseteq calls /\ streams \subseteq calls
  /\ reading \subseteq Calls /\ handles \subseteq made /\ made \subseteq Calls
  /\ owner \in [Calls -> {"none", "call", "handle", "released"}]
  /\ proxy \in [Calls -> {"none", "sent", "running", "answered", "settled"}]
  /\ destroyed \in [Calls -> Nat]
  /\ call \in [Calls -> {"idle", "open", "settled"}]
  /\ on \in [Calls -> Calls \cup {Root}]
  /\ reader \in [Calls -> {"none", "open", "closed"}]
  /\ waiting \subseteq Calls /\ functions \subseteq WithFunction
  /\ object \in [Calls -> {"none", "live", "destroyed"}]
  /\ toHost \in Seq(CallMsg({"bridgeCall", "bridgeAbort", "bridgeCancel", "bridgePull",
                              "bridgeRelease", "bridgeCallbackResult"}))
  /\ toSandbox \in Seq(CallMsg({"value", "handle", "stream", "error", "bridgeCallback",
                                 "chunk", "chunkHandle", "chunkDone", "chunkError"})
                        \cup [type : {"bridgeForget"}, ids : SUBSET Calls])

\* limits.maxHandles holds although two calls may both pass the check that
\* runs before their methods.
WithinMaxHandles == MaxHandles = 0 \/ Cardinality(handles) <= MaxHandles

\* Every host object is registered, or was destroyed, exactly once: also the
\* ones made for a call that was aborted, timed out or cut off meanwhile.
ObjectsFreedOnce ==
  \A c \in Calls :
    destroyed[c] = IF c \in made \ handles THEN 1 ELSE 0

\* A stream is open only for a call on a live object whose signal has not
\* aborted: destroy(), timeouts and aborts end the streams they reach.
OpenStreamsAreLive ==
  \A c \in streams : c \notin aborted /\ (on[c] = Root \/ on[c] \in handles)

\* A sandbox function lives as long as its call or, once that call (or a chunk
\* of its stream) has created an object, as long as the object; the host's
\* proxy for it no longer.
FunctionsLiveWithOwner ==
  ~closed => \A c \in WithFunction :
    /\ owner[c] = "handle" <=> c \in handles
    /\ owner[c] = "call" <=> c \in calls /\ c \notin made

\* A reverse call never reaches a sandbox that has let go of the function.
FunctionsAreFound ==
  \A i \in DOMAIN toSandbox : toSandbox[i].type = "bridgeCallback" =>
    /\ toSandbox[i].id \in functions
    /\ \A j \in 1 .. (i - 1) :
         toSandbox[j].type = "bridgeForget" => toSandbox[i].id \notin toSandbox[j].ids

\* A call the host is done with settles in the sandbox, or its stream is open.
Answered ==
  \A c \in Calls : task[c] \in {"refused", "done"} /\ c \notin streams ~> call[c] = "settled" \/ closed

\* When the sandbox gives up on a call (abort, cancel, destroy()), its signal
\* aborts on the host, or the host has finished with it.
AbortsReachHost ==
  \A c \in Calls : call[c] = "settled" ~> c \notin calls \/ c \in aborted

\* A function the host has let go is let go in the sandbox too: the sandbox
\* does not keep it for the rest of its life.
FunctionsForgotten ==
  \A c \in WithFunction : owner[c] = "released" ~> c \notin functions \/ closed

\* What the contract sees of the host: its calls, its objects, and the functions
\* it has let go.
Served == [c \in Calls |-> IF task[c] = "none" THEN "none"
                          ELSE IF c \in calls THEN "running" ELSE "done"]
Hosted == [c \in Calls |-> IF c \in handles THEN "registered"
                          ELSE IF c \in made THEN "freed" ELSE "none"]
Gone   == {c \in Calls : owner[c] = "released"}

Contract == INSTANCE BridgeContract
              WITH handle <- object, kept <- functions, reverse <- proxy,
                   served <- Served, hosted <- Hosted, released <- Gone

\* The session keeps the contract: what is under way between the two sides
\* never shows (bridge-host.mjs:448-872, bridge-client.mjs:190-490).
ImplementsContract == Contract!Spec

\* README.md:751, bridge-host.mjs:30: `limits` cap the open streams at a time.
\* onCall() counts them before it awaits the gate, onRequest and the method;
\* nothing counts them again when the stream opens.
WithinMaxStreams == MaxStreams = 0 \/ Cardinality(streams) <= MaxStreams
=============================================================================
