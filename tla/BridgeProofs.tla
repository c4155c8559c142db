---------------------------- MODULE BridgeProofs ----------------------------
(***************************************************************************)
(* What a bridge session keeps, for any number of calls, handles, streams  *)
(* and functions and any limits: the types of the session, of its client   *)
(* and of the messages between them; and what it knows of its calls, host  *)
(* objects, streams and sandbox functions.                                 *)
(***************************************************************************)
EXTENDS BridgeSession, SequenceTheorems, FiniteSetTheorems, TLAPS

ToHost == CallMsg({"bridgeCall", "bridgeAbort", "bridgeCancel", "bridgePull",
                   "bridgeRelease", "bridgeCallbackResult"})
ToSandbox == CallMsg({"value", "handle", "stream", "error", "bridgeCallback",
                      "chunk", "chunkHandle", "chunkDone", "chunkError"})
               \cup [type : {"bridgeForget"}, ids : SUBSET Calls]

\* What the host has of a call, by where its onCall() is: a record until it is
\* answered, or its stream has ended; a host object only once it has returned.
Records ==
  \A c \in Calls :
    /\ c \in calls => task[c] \in {"consent", "method"} \/ (task[c] = "done" /\ c \in streams)
    /\ c \in streams => task[c] = "done" /\ Kind[c] = "stream"
    /\ c \in made => task[c] = "done"
    /\ task[c] = "none" => owner[c] = "none"

\* The parts of the type invariant, by who changes them.
HostTypes ==
  /\ closed \in BOOLEAN /\ calls \subseteq Calls /\ aborted \subseteq Calls
  /\ task \in [Calls -> {"none", "refused", "consent", "method", "done"}]
  /\ timers \subseteq calls /\ streams \subseteq calls
  /\ reading \subseteq Calls /\ handles \subseteq made /\ made \subseteq Calls
  /\ owner \in [Calls -> {"none", "call", "handle", "released"}]
  /\ destroyed \in [Calls -> Nat]

ProxyTypes == proxy \in [Calls -> {"none", "sent", "running", "answered", "settled"}]

ClientTypes ==
  /\ call \in [Calls -> {"idle", "open", "settled"}]
  /\ on \in [Calls -> Calls \cup {Root}]
  /\ reader \in [Calls -> {"none", "open", "closed"}]
  /\ waiting \subseteq Calls /\ functions \subseteq WithFunction
  /\ object \in [Calls -> {"none", "live", "destroyed"}]

BoxTypes == toHost \in Seq(ToHost) /\ toSandbox \in Seq(ToSandbox)

LEMMA TypeParts == TypeOK <=> HostTypes /\ ProxyTypes /\ ClientTypes /\ BoxTypes
BY DEF TypeOK, HostTypes, ProxyTypes, ClientTypes, BoxTypes, ToHost, ToSandbox

LEMMA TypePartsNext == TypeOK' <=> HostTypes' /\ ProxyTypes' /\ ClientTypes' /\ BoxTypes'
BY DEF TypeOK, HostTypes, ProxyTypes, ClientTypes, BoxTypes, ToHost, ToSandbox, CallMsg

\* Steps of one side leave the variables of the other alone.
LEMMA HostUnchanged == ASSUME HostTypes, UNCHANGED hostVars PROVE HostTypes'
BY DEF HostTypes, hostVars

LEMMA ClientUnchanged == ASSUME ClientTypes, UNCHANGED clientVars PROVE ClientTypes'
BY DEF ClientTypes, clientVars

-----------------------------------------------------------------------------
(* Messages.                                                               *)

LEMMA PostTyped ==
  ASSUME BoxTypes, NEW c \in Calls,
         NEW t \in {"bridgeCall", "bridgeAbort", "bridgeCancel", "bridgePull",
                    "bridgeRelease", "bridgeCallbackResult"},
         Post(Msg(t, c))
  PROVE  toHost' \in Seq(ToHost)
<1>1. Msg(t, c) \in ToHost
  BY DEF Msg, ToHost, CallMsg
<1> QED BY <1>1 DEF Post, BoxTypes

LEMMA ForgetTyped ==
  ASSUME NEW S \in SUBSET Calls
  PROVE  Forget(S) \in Seq(ToSandbox)
<1>1. [type |-> "bridgeForget", ids |-> S] \in ToSandbox
  BY DEF ToSandbox
<1> QED BY <1>1 DEF Forget

LEMMA MsgTyped ==
  ASSUME NEW c \in Calls,
         NEW t \in {"value", "handle", "stream", "error", "bridgeCallback",
                    "chunk", "chunkHandle", "chunkDone", "chunkError"}
  PROVE  <<Msg(t, c)>> \in Seq(ToSandbox)
<1>1. Msg(t, c) \in ToSandbox
  BY DEF Msg, ToSandbox, CallMsg
<1> QED BY <1>1

LEMMA SendTyped ==
  ASSUME BoxTypes, NEW msgs \in Seq(ToSandbox), Send(msgs)
  PROVE  toSandbox' \in Seq(ToSandbox)
BY ConcatProperties DEF BoxTypes, Send

\* A message that is read is the head of its queue.
LEMMA ArrivesTyped ==
  ASSUME BoxTypes, NEW c, NEW t, Arrives(c, t)
  PROVE  toHost' \in Seq(ToHost)
BY HeadTailProperties DEF Arrives, BoxTypes

LEMMA TailTyped ==
  ASSUME BoxTypes, toSandbox # <<>>
  PROVE  Tail(toSandbox) \in Seq(ToSandbox) /\ Head(toSandbox) \in ToSandbox
BY HeadTailProperties DEF BoxTypes

-----------------------------------------------------------------------------
(* What several handlers do.                                               *)

LEMMA FinishTyped ==
  ASSUME ClientTypes, NEW S, Finish(S)
  PROVE  /\ call' \in [Calls -> {"idle", "open", "settled"}]
         /\ reader' \in [Calls -> {"none", "open", "closed"}]
         /\ waiting' \subseteq Calls
BY DEF ClientTypes, Finish

LEMMA ReleasedTyped ==
  ASSUME NEW E \in SUBSET Calls, NEW H \in SUBSET Calls
  PROVE  Released(E, H) \in SUBSET Calls
BY DEF Released

LEMMA RevokedTyped ==
  ASSUME HostTypes, NEW S, owner' = Revoked(S)
  PROVE  owner' \in [Calls -> {"none", "call", "handle", "released"}]
BY DEF HostTypes, Revoked

LEMMA DestroyedTyped ==
  ASSUME HostTypes, NEW H, destroyed' = Destroyed(H)
  PROVE  destroyed' \in [Calls -> Nat]
<1>1. \A c \in Calls : destroyed[c] + (IF c \in H THEN 1 ELSE 0) \in Nat
  BY DEF HostTypes
<1> QED BY <1>1 DEF Destroyed

LEMMA EndCallsTyped ==
  ASSUME HostTypes, BoxTypes, NEW E \in SUBSET Calls, NEW msgs \in Seq(ToSandbox),
         EndCalls(E, msgs)
  PROVE  /\ calls' = calls \ E /\ timers' = timers \ E
         /\ owner' \in [Calls -> {"none", "call", "handle", "released"}]
         /\ toSandbox' \in Seq(ToSandbox)
<1>1. Forget(Released(E, {})) \in Seq(ToSandbox)
  BY ForgetTyped, ReleasedTyped
<1>2. msgs \o Forget(Released(E, {})) \in Seq(ToSandbox)
  BY <1>1, ConcatProperties
<1>3. toSandbox' \in Seq(ToSandbox)
  BY <1>2, SendTyped DEF EndCalls
<1>4. owner' \in [Calls -> {"none", "call", "handle", "released"}]
  BY RevokedTyped DEF EndCalls
<1> QED BY <1>3, <1>4 DEF EndCalls, TimersLeft

LEMMA CallFailsTyped ==
  ASSUME HostTypes, BoxTypes, NEW c \in Calls, CallFails(c)
  PROVE  /\ calls' = calls \ {c} /\ timers' = timers \ {c}
         /\ task' = [task EXCEPT ![c] = "done"]
         /\ task' \in [Calls -> {"none", "refused", "consent", "method", "done"}]
         /\ owner' \in [Calls -> {"none", "call", "handle", "released"}]
         /\ toSandbox' \in Seq(ToSandbox)
<1>1. task' = [task EXCEPT ![c] = "done"]
  BY DEF CallFails
<1>2. CASE c \in calls /\ EndCalls({c}, <<Msg("error", c)>>)
  BY <1>1, <1>2, MsgTyped, EndCallsTyped DEF HostTypes
<1>3. CASE c \notin calls /\ UNCHANGED <<calls, timers, owner, toSandbox>>
  BY <1>1, <1>3 DEF HostTypes, BoxTypes
<1> QED BY <1>2, <1>3 DEF CallFails

LEMMA RegisterTyped ==
  ASSUME HostTypes, NEW c \in Calls, Register(c)
  PROVE  /\ made' \subseteq Calls /\ handles' \subseteq made'
         /\ owner' \in [Calls -> {"none", "call", "handle", "released"}]
BY DEF HostTypes, Register

-----------------------------------------------------------------------------
(* The initial states and the client.                                      *)

LEMMA TypeInit == Init => TypeOK
<1> SUFFICES ASSUME Init PROVE TypeOK
  OBVIOUS
<1>1. HostTypes /\ ProxyTypes /\ ClientTypes
  BY DEF Init, HostTypes, ProxyTypes, ClientTypes
<1>2. BoxTypes
  BY EmptySeq DEF Init, BoxTypes
<1> QED BY <1>1, <1>2, TypeParts

LEMMA RunsTyped ==
  ASSUME TypeOK, NEW c \in Calls, SandboxRuns(c)
  PROVE  TypeOK'
<1>1. HostTypes /\ ProxyTypes /\ ClientTypes /\ BoxTypes
  BY TypeParts
<1>2. ASSUME NEW h \in Calls \cup {Root}, StartCall(c, h)
      PROVE  TypeOK'
  <2>1. HostTypes' /\ ProxyTypes'
    BY <1>1, <1>2, HostUnchanged DEF StartCall, ProxyTypes
  <2>2. /\ on' \in [Calls -> Calls \cup {Root}]
        /\ object' = object /\ waiting' \subseteq Calls /\ toSandbox' = toSandbox
    BY <1>1, <1>2, FinishTyped DEF StartCall, ClientTypes
  <2>3. CASE /\ call' = [call EXCEPT ![c] = "open"]
             /\ functions' = functions \cup ({c} \cap WithFunction)
             /\ Post(Msg("bridgeCall", c))
             /\ UNCHANGED reader
    <3>1. ClientTypes'
      BY <1>1, <2>2, <2>3 DEF ClientTypes
    <3>2. BoxTypes'
      BY <1>1, <2>2, <2>3, PostTyped DEF BoxTypes
    <3> QED BY <2>1, <3>1, <3>2, TypePartsNext
  <2>4. CASE Finish({c}) /\ UNCHANGED <<functions, toHost>>
    <3>1. ClientTypes'
      BY <1>1, <2>2, <2>4, FinishTyped DEF ClientTypes
    <3>2. BoxTypes'
      BY <1>1, <2>2, <2>4 DEF BoxTypes
    <3> QED BY <2>1, <3>1, <3>2, TypePartsNext
  <2> QED BY <1>2, <2>3, <2>4 DEF StartCall
<1>3. ASSUME NEW S, Finish(S), UNCHANGED <<hostVars, proxy, on, object, functions, toSandbox>>,
             NEW t \in {"bridgeAbort", "bridgeCancel"}, Post(Msg(t, c))
      PROVE  TypeOK'
  <2>1. HostTypes' /\ ProxyTypes'
    BY <1>1, <1>3, HostUnchanged DEF ProxyTypes
  <2>2. ClientTypes'
    BY <1>1, <1>3, FinishTyped DEF ClientTypes
  <2>3. BoxTypes'
    BY <1>1, <1>3, PostTyped DEF BoxTypes
  <2> QED BY <2>1, <2>2, <2>3, TypePartsNext
<1>4. CASE AbortCall(c)
  BY <1>3, <1>4 DEF AbortCall
<1>5. CASE CancelStream(c)
  BY <1>3, <1>5 DEF CancelStream
<1>6. CASE PullStream(c)
  <2>1. HostTypes' /\ ProxyTypes'
    BY <1>1, <1>6, HostUnchanged DEF PullStream, ProxyTypes
  <2>2. ClientTypes'
    BY <1>1, <1>6 DEF PullStream, ClientTypes
  <2>3. BoxTypes'
    BY <1>1, <1>6, PostTyped DEF PullStream, BoxTypes
  <2> QED BY <2>1, <2>2, <2>3, TypePartsNext
<1>7. CASE DestroyHandle(c)
  <2>1. HostTypes' /\ ProxyTypes'
    BY <1>1, <1>7, HostUnchanged DEF DestroyHandle, ProxyTypes
  <2>2. ClientTypes'
    BY <1>1, <1>7, FinishTyped DEF DestroyHandle, ClientTypes
  <2>3. BoxTypes'
    BY <1>1, <1>7, PostTyped DEF DestroyHandle, BoxTypes
  <2> QED BY <2>1, <2>2, <2>3, TypePartsNext
<1>8. CASE FunctionReturns(c)
  <2>1. HostTypes' /\ ClientTypes'
    BY <1>1, <1>8, HostUnchanged, ClientUnchanged DEF FunctionReturns
  <2>2. ProxyTypes'
    BY <1>1, <1>8 DEF FunctionReturns, ProxyTypes
  <2>3. BoxTypes'
    BY <1>1, <1>8, PostTyped DEF FunctionReturns, BoxTypes
  <2> QED BY <2>1, <2>2, <2>3, TypePartsNext
<1> QED BY <1>2, <1>4, <1>5, <1>6, <1>7, <1>8 DEF SandboxRuns

LEMMA SandboxReceivesTyped ==
  ASSUME TypeOK, NEW c \in Calls, SandboxReceives(c)
  PROVE  TypeOK'
<1>1. HostTypes /\ ProxyTypes /\ ClientTypes /\ BoxTypes
  BY TypeParts
<1>2. HostTypes'
  BY <1>1, HostUnchanged DEF SandboxReceives, TakesResult, TakesChunk, TakesCallback, TakesForget
<1>3. toSandbox' \in Seq(ToSandbox)
  BY <1>1, TailTyped
     DEF SandboxReceives, TakesResult, TakesChunk, TakesCallback, TakesForget, Reading
<1>4. CASE TakesResult(c)
  <2>1. ClientTypes'
    <3>1. /\ call' \in [Calls -> {"idle", "open", "settled"}]
          /\ reader' \in [Calls -> {"none", "open", "closed"}]
          /\ waiting' \subseteq Calls /\ object' \in [Calls -> {"none", "live", "destroyed"}]
      BY <1>1, <1>4, FinishTyped DEF TakesResult, NewObject, ClientTypes
    <3> QED BY <1>1, <1>4, <3>1 DEF TakesResult, ClientTypes
  <2>2. ProxyTypes' /\ BoxTypes'
    BY <1>1, <1>3, <1>4 DEF TakesResult, ProxyTypes, BoxTypes
  <2> QED BY <1>2, <2>1, <2>2, TypePartsNext
<1>5. CASE TakesChunk(c)
  <2>1. ClientTypes'
    <3>1. /\ call' \in [Calls -> {"idle", "open", "settled"}]
          /\ reader' \in [Calls -> {"none", "open", "closed"}]
          /\ waiting' \subseteq Calls /\ object' \in [Calls -> {"none", "live", "destroyed"}]
      BY <1>1, <1>5, FinishTyped DEF TakesChunk, NewObject, ClientTypes
    <3> QED BY <1>1, <1>5, <3>1 DEF TakesChunk, ClientTypes
  <2>2. ProxyTypes' /\ BoxTypes'
    BY <1>1, <1>3, <1>5 DEF TakesChunk, ProxyTypes, BoxTypes
  <2> QED BY <1>2, <2>1, <2>2, TypePartsNext
<1>6. CASE TakesCallback(c)
  <2>1. ClientTypes'
    BY <1>1, <1>6, ClientUnchanged DEF TakesCallback
  <2>2. ProxyTypes'
    BY <1>1, <1>6 DEF TakesCallback, ProxyTypes
  <2>3. toHost' \in Seq(ToHost)
    BY <1>1, <1>6, PostTyped DEF TakesCallback, BoxTypes
  <2> QED BY <1>2, <1>3, <2>1, <2>2, <2>3, TypePartsNext DEF BoxTypes
<1>7. CASE TakesForget
  <2>1. ClientTypes' /\ ProxyTypes' /\ BoxTypes'
    BY <1>1, <1>3, <1>7 DEF TakesForget, ClientTypes, ProxyTypes, BoxTypes
  <2> QED BY <1>2, <2>1, TypePartsNext
<1> QED BY <1>4, <1>5, <1>6, <1>7 DEF SandboxReceives

-----------------------------------------------------------------------------
(* The host.                                                               *)

LEMMA OnCallTyped ==
  ASSUME TypeOK, NEW c \in Calls, OnCall(c)
  PROVE  TypeOK'
<1>1. HostTypes /\ ProxyTypes /\ ClientTypes /\ BoxTypes
  BY TypeParts
<1>2. ClientTypes' /\ ProxyTypes' /\ toHost' \in Seq(ToHost)
      /\ UNCHANGED <<closed, aborted, streams, reading, handles, made, destroyed>>
  BY <1>1, ClientUnchanged, ArrivesTyped DEF OnCall, ProxyTypes
<1>3. /\ calls \subseteq calls' /\ calls' \subseteq Calls /\ timers' \subseteq calls'
      /\ task' \in [Calls -> {"none", "refused", "consent", "method", "done"}]
      /\ owner' \in [Calls -> {"none", "call", "handle", "released"}]
  BY <1>1 DEF OnCall, HostTypes
<1>4. toSandbox' \in Seq(ToSandbox)
  <2>1. <<Msg("error", c)>> \in Seq(ToSandbox) /\ Forget({c} \cap WithFunction) \in Seq(ToSandbox)
    BY MsgTyped, ForgetTyped
  <2>2. <<Msg("error", c)>> \o Forget({c} \cap WithFunction) \in Seq(ToSandbox)
    BY <2>1, ConcatProperties
  <2> QED BY <1>1, <2>1, <2>2, SendTyped DEF OnCall, BoxTypes
<1>5. HostTypes' /\ BoxTypes'
  BY <1>1, <1>2, <1>3, <1>4 DEF HostTypes, BoxTypes
<1> QED BY <1>2, <1>5, TypePartsNext

\* The end of the call of an aborted or cancelled stream.
LEMMA CloseCallTyped ==
  ASSUME HostTypes, BoxTypes, NEW c \in Calls, NEW msgs \in Seq(ToSandbox), CloseCall(c, msgs)
  PROVE  /\ calls' = calls \ {c} /\ timers' = timers \ {c} /\ streams' = streams \ {c}
         /\ aborted' = aborted \cup {c}
         /\ owner' \in [Calls -> {"none", "call", "handle", "released"}]
         /\ toSandbox' \in Seq(ToSandbox)
BY EndCallsTyped DEF CloseCall

LEMMA OnAbortTyped ==
  ASSUME TypeOK, NEW c \in Calls, OnAbort(c) \/ OnCancel(c)
  PROVE  TypeOK'
<1>1. HostTypes /\ ProxyTypes /\ ClientTypes /\ BoxTypes
  BY TypeParts
<1>2. ClientTypes' /\ ProxyTypes' /\ toHost' \in Seq(ToHost)
      /\ UNCHANGED <<closed, task, reading, handles, made, destroyed>>
  BY <1>1, ClientUnchanged, ArrivesTyped DEF OnAbort, OnCancel, ProxyTypes
<1>3. CloseCall(c, <<>>) \/ UNCHANGED <<calls, timers, owner, aborted, streams, toSandbox>>
  BY DEF OnAbort, OnCancel
<1>4. HostTypes' /\ toSandbox' \in Seq(ToSandbox)
  <2>1. CASE CloseCall(c, <<>>)
    BY <1>1, <1>2, <2>1, EmptySeq, CloseCallTyped DEF HostTypes
  <2>2. CASE UNCHANGED <<calls, timers, owner, aborted, streams, toSandbox>>
    BY <1>1, <1>2, <2>2 DEF HostTypes, BoxTypes
  <2> QED BY <1>3, <2>1, <2>2
<1> QED BY <1>2, <1>4, TypePartsNext DEF BoxTypes

LEMMA OnReleaseTyped ==
  ASSUME TypeOK, NEW h \in Calls, OnRelease(h)
  PROVE  TypeOK'
<1>1. HostTypes /\ ProxyTypes /\ ClientTypes /\ BoxTypes
  BY TypeParts
<1>2. ClientTypes' /\ ProxyTypes' /\ toHost' \in Seq(ToHost)
      /\ UNCHANGED <<closed, task, reading, made>>
  BY <1>1, ClientUnchanged, ArrivesTyped DEF OnRelease, ProxyTypes
<1>3. CASE /\ h \in handles
           /\ calls' = calls \ StreamsOn(h)
           /\ timers' = TimersLeft(StreamsOn(h))
           /\ streams' = streams \ StreamsOn(h)
           /\ owner' = Revoked(Released(StreamsOn(h), {h}))
           /\ Send(Forget(Released(StreamsOn(h), {h})))
           /\ aborted' = aborted \cup AbortedOn(h)
           /\ handles' = handles \ {h}
           /\ destroyed' = Destroyed({h})
  <2>1. StreamsOn(h) \in SUBSET Calls /\ AbortedOn(h) \in SUBSET Calls
    BY <1>1 DEF StreamsOn, AbortedOn, CallsOn, HostTypes
  <2>2. Forget(Released(StreamsOn(h), {h})) \in Seq(ToSandbox)
    BY <2>1, ForgetTyped, ReleasedTyped
  <2>3. toSandbox' \in Seq(ToSandbox)
    BY <1>1, <1>3, <2>2, SendTyped
  <2>4. /\ owner' \in [Calls -> {"none", "call", "handle", "released"}]
        /\ destroyed' \in [Calls -> Nat]
    BY <1>1, <1>3, RevokedTyped, DestroyedTyped
  <2>5. HostTypes'
    BY <1>1, <1>2, <1>3, <2>1, <2>4 DEF HostTypes, TimersLeft
  <2> QED BY <1>2, <2>3, <2>5, TypePartsNext DEF BoxTypes
<1>4. CASE UNCHANGED <<calls, timers, streams, owner, toSandbox, aborted, handles, destroyed>>
  <2>1. HostTypes' /\ BoxTypes'
    BY <1>1, <1>2, <1>4 DEF HostTypes, BoxTypes
  <2> QED BY <1>2, <2>1, TypePartsNext
<1> QED BY <1>3, <1>4 DEF OnRelease

LEMMA HostReceivesTyped ==
  ASSUME TypeOK, NEW c \in Calls, HostReceives(c)
  PROVE  TypeOK'
<1>1. HostTypes /\ ProxyTypes /\ ClientTypes /\ BoxTypes
  BY TypeParts
<1>2. CASE OnPull(c)
  <2>1. HostTypes' /\ ProxyTypes' /\ BoxTypes'
    BY <1>1, <1>2, ArrivesTyped DEF OnPull, HostTypes, ProxyTypes, BoxTypes
  <2>2. ClientTypes'
    BY <1>1, <1>2, ClientUnchanged DEF OnPull
  <2> QED BY <2>1, <2>2, TypePartsNext
<1>3. CASE OnCallbackResult(c)
  <2>1. HostTypes' /\ ClientTypes'
    BY <1>1, <1>3, HostUnchanged, ClientUnchanged DEF OnCallbackResult
  <2>2. ProxyTypes' /\ BoxTypes'
    BY <1>1, <1>3, ArrivesTyped DEF OnCallbackResult, ProxyTypes, BoxTypes
  <2> QED BY <2>1, <2>2, TypePartsNext
<1> QED BY <1>2, <1>3, OnCallTyped, OnAbortTyped, OnReleaseTyped DEF HostReceives

LEMMA ReturnsTyped ==
  ASSUME TypeOK, Records, NEW c \in Calls,
         \/ Consent(c) \/ MethodThrows(c) \/ ReturnsLate(c) \/ ReturnsStream(c)
         \/ ReturnsHandle(c) \/ ReturnsValue(c) \/ ReturnsUnsendable(c)
  PROVE  TypeOK'
<1>1. HostTypes /\ ProxyTypes /\ ClientTypes /\ BoxTypes
  BY TypeParts
<1>2. ClientTypes' /\ ProxyTypes' /\ toHost' = toHost /\ UNCHANGED <<closed, aborted, reading>>
  BY <1>1, ClientUnchanged
     DEF Consent, MethodThrows, ReturnsLate, ReturnsStream, ReturnsHandle, ReturnsValue,
         ReturnsUnsendable, ProxyTypes
<1>3. ASSUME /\ calls' \subseteq Calls /\ timers' \subseteq calls' /\ streams' \subseteq calls'
             /\ task' \in [Calls -> {"none", "refused", "consent", "method", "done"}]
             /\ handles' \subseteq made' /\ made' \subseteq Calls
             /\ owner' \in [Calls -> {"none", "call", "handle", "released"}]
             /\ destroyed' \in [Calls -> Nat]
             /\ toSandbox' \in Seq(ToSandbox)
      PROVE  TypeOK'
  <2>1. HostTypes' /\ BoxTypes'
    BY <1>1, <1>2, <1>3 DEF HostTypes, BoxTypes
  <2> QED BY <1>2, <2>1, TypePartsNext
<1>4. ASSUME CallFails(c), task[c] \in {"consent", "method"}, UNCHANGED streams,
             \/ UNCHANGED <<handles, made, destroyed>>
             \/ \E D : made' = made \cup {c} /\ destroyed' = Destroyed(D) /\ UNCHANGED handles
             \/ UNCHANGED <<handles, made>> /\ \E D : destroyed' = Destroyed(D)
      PROVE  TypeOK'
  <2>1. c \notin streams
    BY <1>4 DEF Records
  <2>2. destroyed' \in [Calls -> Nat]
    BY <1>1, <1>4, DestroyedTyped DEF HostTypes
  <2>3. handles' \subseteq made' /\ made' \subseteq Calls
    BY <1>1, <1>4 DEF HostTypes
  <2> QED BY <1>1, <1>3, <1>4, <2>1, <2>2, <2>3, CallFailsTyped DEF HostTypes
<1>5. CASE Consent(c)
  <2>1. CASE CallFails(c)
    BY <1>4, <1>5, <2>1 DEF Consent
  <2>2. CASE task' = [task EXCEPT ![c] = "method"] /\ UNCHANGED <<calls, timers, owner, toSandbox>>
    BY <1>1, <1>3, <1>5, <2>2 DEF Consent, HostTypes, BoxTypes
  <2> QED BY <1>5, <2>1, <2>2 DEF Consent
<1>6. CASE MethodThrows(c)
  BY <1>4, <1>6 DEF MethodThrows
<1>7. CASE ReturnsLate(c)
  BY <1>4, <1>7 DEF ReturnsLate
<1>8. CASE ReturnsStream(c)
  <2>1. toSandbox' \in Seq(ToSandbox)
    BY <1>1, <1>8, MsgTyped, SendTyped DEF ReturnsStream
  <2> QED BY <1>1, <1>3, <1>8, <2>1 DEF ReturnsStream, Late, HostTypes
<1>9. CASE ReturnsHandle(c)
  <2>1. toSandbox' \in Seq(ToSandbox)
    BY <1>1, <1>9, MsgTyped, SendTyped DEF ReturnsHandle
  <2>2. c \notin streams
    BY <1>9 DEF ReturnsHandle, Records
  <2>3. /\ made' \subseteq Calls /\ handles' \subseteq made'
        /\ owner' \in [Calls -> {"none", "call", "handle", "released"}]
    BY <1>1, <1>9, RegisterTyped DEF ReturnsHandle
  <2> QED BY <1>1, <1>3, <1>9, <2>1, <2>2, <2>3 DEF ReturnsHandle, TimersLeft, HostTypes
<1>10. CASE ReturnsValue(c)
  <2>1. c \notin streams
    BY <1>10 DEF ReturnsValue, Records
  <2>2. /\ calls' = calls \ {c} /\ timers' = timers \ {c}
        /\ owner' \in [Calls -> {"none", "call", "handle", "released"}]
        /\ toSandbox' \in Seq(ToSandbox)
    BY <1>1, <1>10, MsgTyped, EndCallsTyped DEF ReturnsValue
  <2> QED BY <1>1, <1>3, <1>10, <2>1, <2>2 DEF ReturnsValue, HostTypes
<1>11. CASE ReturnsUnsendable(c)
  <2>1. CASE CallFails(c)
    BY <1>4, <1>11, <2>1 DEF ReturnsUnsendable
  <2>2. CASE /\ task' = [task EXCEPT ![c] = "done"]
             /\ calls' = calls \ {c}
             /\ timers' = TimersLeft({c})
             /\ owner' = Revoked({c} \cap WithFunction)
             /\ Send(Forget({c} \cap WithFunction) \o <<Msg("error", c)>>)
    <3>1. Forget({c} \cap WithFunction) \o <<Msg("error", c)>> \in Seq(ToSandbox)
      BY MsgTyped, ForgetTyped, ConcatProperties
    <3>2. toSandbox' \in Seq(ToSandbox)
      BY <1>1, <2>2, <3>1, SendTyped
    <3>3. destroyed' \in [Calls -> Nat] /\ owner' \in [Calls -> {"none", "call", "handle", "released"}]
      BY <1>1, <1>11, <2>2, DestroyedTyped, RevokedTyped DEF ReturnsUnsendable
    <3>4. c \notin streams
      BY <1>11 DEF ReturnsUnsendable, Records
    <3> QED BY <1>1, <1>3, <1>11, <2>2, <3>2, <3>3, <3>4 DEF ReturnsUnsendable, TimersLeft, HostTypes
  <2> QED BY <1>11, <2>1, <2>2 DEF ReturnsUnsendable
<1> QED BY <1>5, <1>6, <1>7, <1>8, <1>9, <1>10, <1>11

LEMMA StreamsTyped ==
  ASSUME TypeOK, NEW c \in Calls,
         LimitTimeout(c) \/ PullIsLate(c) \/ PullYields(c) \/ PullEnds(c) \/ PullFails(c)
  PROVE  TypeOK'
<1>1. HostTypes /\ ProxyTypes /\ ClientTypes /\ BoxTypes
  BY TypeParts
<1>2. ClientTypes' /\ ProxyTypes' /\ toHost' = toHost /\ UNCHANGED <<closed, task>>
      /\ reading' \subseteq reading
  BY <1>1, ClientUnchanged
     DEF LimitTimeout, PullIsLate, PullYields, PullEnds, PullFails, Pulled, ProxyTypes
<1>3. ASSUME /\ calls' \subseteq Calls /\ timers' \subseteq calls' /\ streams' \subseteq calls'
             /\ handles' \subseteq made' /\ made' \subseteq Calls
             /\ owner' \in [Calls -> {"none", "call", "handle", "released"}]
             /\ destroyed' \in [Calls -> Nat]
             /\ toSandbox' \in Seq(ToSandbox) /\ aborted' \subseteq Calls
      PROVE  TypeOK'
  <2>1. HostTypes' /\ BoxTypes'
    BY <1>1, <1>2, <1>3 DEF HostTypes, BoxTypes
  <2> QED BY <1>2, <2>1, TypePartsNext
<1>4. ASSUME NEW msgs \in Seq(ToSandbox), CloseCall(c, msgs),
             handles' \subseteq made', made' \subseteq Calls, destroyed' \in [Calls -> Nat]
      PROVE  TypeOK'
  BY <1>1, <1>3, <1>4, CloseCallTyped DEF HostTypes
<1>5. CASE LimitTimeout(c)
  <2>1. CASE CloseCall(c, TimeoutChunk(c))
    BY <1>1, <1>4, <1>5, <2>1, MsgTyped DEF LimitTimeout, TimeoutChunk, HostTypes
  <2>2. CASE UNCHANGED <<calls, streams, owner, toSandbox>>
    BY <1>1, <1>3, <1>5, <2>2 DEF LimitTimeout, CloseCall, HostTypes, BoxTypes
  <2> QED BY <1>5, <2>1, <2>2 DEF LimitTimeout
<1>6. CASE PullIsLate(c)
  BY <1>1, <1>3, <1>6 DEF PullIsLate, HostTypes, BoxTypes
<1>7. CASE PullYields(c)
  <2>1. toSandbox' \in Seq(ToSandbox)
    BY <1>1, <1>7, MsgTyped, SendTyped DEF PullYields
  <2>2. /\ made' \subseteq Calls /\ handles' \subseteq made'
        /\ owner' \in [Calls -> {"none", "call", "handle", "released"}]
    BY <1>1, <1>7, RegisterTyped DEF PullYields, HostTypes
  <2> QED BY <1>1, <1>3, <1>7, <2>1, <2>2 DEF PullYields, HostTypes
<1>8. CASE PullEnds(c)
  <2>1. /\ calls' = calls \ {c} /\ timers' = timers \ {c}
        /\ owner' \in [Calls -> {"none", "call", "handle", "released"}]
        /\ toSandbox' \in Seq(ToSandbox)
    BY <1>1, <1>8, MsgTyped, EndCallsTyped DEF PullEnds
  <2> QED BY <1>1, <1>3, <1>8, <2>1 DEF PullEnds, HostTypes
<1>9. CASE PullFails(c)
  <2>1. CASE CloseCall(c, <<Msg("chunkError", c)>>) /\ UNCHANGED <<handles, made, destroyed>>
    BY <1>1, <1>4, <2>1, MsgTyped DEF HostTypes
  <2>2. CASE /\ made' = made \cup {c} /\ destroyed' = Destroyed({c})
             /\ CloseCall(c, <<Msg("chunkError", c)>>)
             /\ UNCHANGED handles
    BY <1>1, <1>4, <2>2, MsgTyped, DestroyedTyped DEF HostTypes
  <2>3. CASE /\ Register(c)
             /\ aborted' = aborted \cup {c}
             /\ streams' = streams \ {c}
             /\ calls' = calls \ {c} /\ timers' = TimersLeft({c})
             /\ Send(<<Msg("chunkError", c)>>)
             /\ UNCHANGED destroyed
    <3>1. toSandbox' \in Seq(ToSandbox)
      BY <1>1, <2>3, MsgTyped, SendTyped
    <3> QED BY <1>1, <1>3, <2>3, <3>1, RegisterTyped DEF TimersLeft, HostTypes
  <2> QED BY <1>9, <2>1, <2>2, <2>3 DEF PullFails
<1> QED BY <1>5, <1>6, <1>7, <1>8, <1>9

LEMMA CallsFunctionTyped ==
  ASSUME TypeOK, NEW c \in Calls, CallsFunction(c)
  PROVE  TypeOK'
<1>1. HostTypes /\ ProxyTypes /\ ClientTypes /\ BoxTypes
  BY TypeParts
<1>2. HostTypes' /\ ClientTypes' /\ toHost' = toHost
  BY <1>1, HostUnchanged, ClientUnchanged DEF CallsFunction
<1>3. ProxyTypes'
  BY <1>1 DEF CallsFunction, ProxyTypes
<1>4. toSandbox' \in Seq(ToSandbox)
  BY <1>1, MsgTyped, SendTyped DEF CallsFunction, BoxTypes
<1> QED BY <1>1, <1>2, <1>3, <1>4, TypePartsNext DEF BoxTypes

LEMMA CloseTyped == ASSUME TypeOK, Close PROVE TypeOK'
<1>1. HostTypes /\ ProxyTypes /\ ClientTypes /\ BoxTypes
  BY TypeParts
<1>2. ClientTypes' /\ ProxyTypes'
  BY <1>1, ClientUnchanged DEF Close, ProxyTypes
<1>3. HostTypes'
  BY <1>1, DestroyedTyped DEF Close, HostTypes
<1>4. BoxTypes'
  BY EmptySeq DEF Close, BoxTypes
<1> QED BY <1>2, <1>3, <1>4, TypePartsNext

\* Every step keeps the types, if it starts from what Records says.
LEMMA TypeNext == TypeOK /\ Records /\ [Next]_vars => TypeOK'
<1> SUFFICES ASSUME TypeOK, Records, [Next]_vars PROVE TypeOK'
  OBVIOUS
<1>1. ASSUME NEW c \in Calls, SandboxRuns(c) \/ SandboxReceives(c) \/ HostReceives(c) \/ HostRuns(c)
      PROVE  TypeOK'
  BY <1>1, RunsTyped, SandboxReceivesTyped, HostReceivesTyped, ReturnsTyped, StreamsTyped,
     CallsFunctionTyped DEF HostRuns
<1>2. CASE UNCHANGED vars
  <2>1. UNCHANGED <<hostVars, proxy, clientVars, toHost, toSandbox>>
    BY <1>2 DEF vars
  <2>2. HostTypes' /\ ClientTypes' /\ ProxyTypes' /\ BoxTypes'
    BY <2>1, HostUnchanged, ClientUnchanged, TypeParts DEF ProxyTypes, BoxTypes
  <2> QED BY <2>2, TypePartsNext
<1> QED BY <1>1, <1>2, CloseTyped DEF Next

-----------------------------------------------------------------------------
(* Calls, objects, streams and functions.                                  *)

\* A call is started once: its message is the only one, and comes before
\* anything the host knows of it.
CallsOnce ==
  /\ \A c \in Calls : call[c] = "idle" => task[c] = "none" /\ reader[c] # "open"
  /\ \A i \in DOMAIN toHost : toHost[i].type = "bridgeCall" =>
       /\ task[toHost[i].id] = "none" /\ call[toHost[i].id] # "idle"
       /\ \A j \in DOMAIN toHost :
            toHost[j].type = "bridgeCall" /\ toHost[j].id = toHost[i].id => j = i

\* A call whose signal has not aborted is on a live object; a stream is open
\* only as long.
LiveCalls ==
  /\ \A c \in calls \ aborted : on[c] = Root \/ on[c] \in handles
  /\ streams \cap aborted = {}

-----------------------------------------------------------------------------
(* Calls are started once.                                                 *)

LEMMA CallIds == BoxTypes => \A i \in DOMAIN toHost : toHost[i].id \in Calls
<1> SUFFICES ASSUME BoxTypes, NEW i \in DOMAIN toHost PROVE toHost[i].id \in Calls
  OBVIOUS
<1>1. toHost[i] \in ToHost
  BY ElementOfSeq, LenProperties DEF BoxTypes
<1> QED BY <1>1 DEF ToHost, CallMsg

\* A message that is no call is posted, or none.
LEMMA OncePost ==
  ASSUME BoxTypes, CallsOnce, UNCHANGED task,
         \A c \in Calls : /\ call'[c] = "idle" <=> call[c] = "idle"
                          /\ reader'[c] = "open" => reader[c] = "open" \/ call[c] # "idle",
         \/ UNCHANGED toHost
         \/ \E c \in Calls, t \in {"bridgeAbort", "bridgeCancel", "bridgePull", "bridgeRelease",
                                   "bridgeCallbackResult"} : Post(Msg(t, c))
  PROVE  CallsOnce'
<1>1. \A c \in Calls : call'[c] = "idle" => task'[c] = "none" /\ reader'[c] # "open"
  BY DEF CallsOnce
<1>2. \A i \in DOMAIN toHost : toHost[i].type = "bridgeCall" => toHost[i].id \in Calls
  BY CallIds
<1>3. CASE UNCHANGED toHost
  BY <1>1, <1>2, <1>3 DEF CallsOnce
<1>4. ASSUME NEW c \in Calls,
             NEW t \in {"bridgeAbort", "bridgeCancel", "bridgePull", "bridgeRelease",
                        "bridgeCallbackResult"}, Post(Msg(t, c))
      PROVE  CallsOnce'
  <2>1. /\ DOMAIN toHost' = 1 .. (Len(toHost) + 1) /\ DOMAIN toHost = 1 .. Len(toHost)
        /\ Len(toHost) \in Nat
        /\ \A i \in 1 .. Len(toHost) : toHost'[i] = toHost[i]
        /\ toHost'[Len(toHost) + 1].type # "bridgeCall"
    BY <1>4 DEF Post, Msg, BoxTypes
  <2>2. \A i \in DOMAIN toHost' : toHost'[i].type = "bridgeCall" =>
            i \in DOMAIN toHost /\ toHost'[i] = toHost[i]
    BY <2>1
  <2> QED BY <1>1, <1>2, <2>2 DEF CallsOnce
<1> QED BY <1>3, <1>4

\* The host takes a message: the rest was behind it.
LEMMA OnceTail ==
  ASSUME BoxTypes, CallsOnce, NEW c \in Calls, NEW t, Arrives(c, t), UNCHANGED <<call, reader>>,
         task \in [Calls -> {"none", "refused", "consent", "method", "done"}],
         \/ UNCHANGED task
         \/ t = "bridgeCall" /\ \E s \in {"refused", "consent"} : task' = [task EXCEPT ![c] = s]
  PROVE  CallsOnce'
<1>1. /\ Len(toHost) \in Nat /\ Len(toHost) # 0
      /\ DOMAIN toHost = 1 .. Len(toHost) /\ DOMAIN toHost' = 1 .. (Len(toHost) - 1)
      /\ \A i \in DOMAIN toHost' : toHost'[i] = toHost[i + 1]
      /\ toHost[1] = Msg(t, c)
  BY HeadTailProperties, EmptySeq, LenProperties DEF Arrives, BoxTypes
<1>2. \A i \in DOMAIN toHost : toHost[i].type = "bridgeCall" => toHost[i].id \in Calls
  BY CallIds
<1>3. \A i \in DOMAIN toHost' : i + 1 \in DOMAIN toHost /\ i + 1 # 1
  BY <1>1
<1>4. \A i \in DOMAIN toHost' : \A j \in DOMAIN toHost' : i + 1 = j + 1 => i = j
  BY <1>1
<1>5. CASE UNCHANGED task
  <2>1. \A k \in Calls : call'[k] = "idle" => task'[k] = "none" /\ reader'[k] # "open"
    BY <1>5 DEF CallsOnce
  <2>2. ASSUME NEW i \in DOMAIN toHost', toHost'[i].type = "bridgeCall"
        PROVE  /\ task'[toHost'[i].id] = "none" /\ call'[toHost'[i].id] # "idle"
               /\ \A j \in DOMAIN toHost' :
                    toHost'[j].type = "bridgeCall" /\ toHost'[j].id = toHost'[i].id => j = i
    BY <1>1, <1>2, <1>3, <1>4, <1>5, <2>2 DEF CallsOnce
  <2> QED BY <2>1, <2>2 DEF CallsOnce
<1>6. CASE t = "bridgeCall" /\ \E s \in {"refused", "consent"} : task' = [task EXCEPT ![c] = s]
  <2>1. 1 \in DOMAIN toHost /\ toHost[1].type = "bridgeCall" /\ toHost[1].id = c
    BY <1>1, <1>6 DEF Msg
  <2>2. call[c] # "idle"
    BY <2>1 DEF CallsOnce
  <2>3. \A k \in Calls : k # c => task'[k] = task[k]
    BY <1>6
  <2>4. \A k \in Calls : call'[k] = "idle" => task'[k] = "none" /\ reader'[k] # "open"
    BY <2>2, <2>3 DEF CallsOnce
  <2>5. ASSUME NEW i \in DOMAIN toHost', toHost'[i].type = "bridgeCall"
        PROVE  /\ task'[toHost'[i].id] = "none" /\ call'[toHost'[i].id] # "idle"
               /\ \A j \in DOMAIN toHost' :
                    toHost'[j].type = "bridgeCall" /\ toHost'[j].id = toHost'[i].id => j = i
    <3>1. toHost'[i] = toHost[i + 1] /\ i + 1 \in DOMAIN toHost /\ i + 1 # 1
      BY <1>1, <1>3
    <3>2. toHost[i + 1].id # c
      BY <2>1, <2>5, <3>1 DEF CallsOnce
    <3>3. task'[toHost'[i].id] = "none" /\ call'[toHost'[i].id] # "idle"
      BY <1>2, <2>3, <2>5, <3>1, <3>2 DEF CallsOnce
    <3> QED BY <1>1, <1>3, <1>4, <2>5, <3>1, <3>3 DEF CallsOnce
  <2> QED BY <2>4, <2>5 DEF CallsOnce
<1> QED BY <1>5, <1>6

LEMMA OnceStart ==
  ASSUME TypeOK, CallsOnce, NEW c \in Calls, NEW h \in Calls \cup {Root}, StartCall(c, h)
  PROVE  CallsOnce'
<1>1. HostTypes /\ ClientTypes /\ BoxTypes
  BY TypeParts
<1>2. call[c] = "idle" /\ task' = task
  BY DEF StartCall, hostVars
<1>3. \A i \in DOMAIN toHost : toHost[i].type = "bridgeCall" => toHost[i].id \in Calls
  BY <1>1, CallIds
<1>4. \A i \in DOMAIN toHost : toHost[i].type = "bridgeCall" => toHost[i].id # c
  BY <1>2 DEF CallsOnce
<1>5. CASE Finish({c}) /\ UNCHANGED toHost
  <2>1. \A k \in Calls : /\ call'[k] = IF k = c THEN "settled" ELSE call[k]
                         /\ reader'[k] = "open" => reader[k] = "open"
    BY <1>5 DEF Finish
  <2> QED BY <1>2, <1>3, <1>4, <1>5, <2>1 DEF CallsOnce
<1>6. CASE call' = [call EXCEPT ![c] = "open"] /\ Post(Msg("bridgeCall", c)) /\ UNCHANGED reader
  <2>1. \A k \in Calls : call'[k] = IF k = c THEN "open" ELSE call[k]
    BY <1>1, <1>6 DEF ClientTypes
  <2>2. /\ DOMAIN toHost' = 1 .. (Len(toHost) + 1) /\ DOMAIN toHost = 1 .. Len(toHost)
        /\ Len(toHost) \in Nat
        /\ \A i \in 1 .. Len(toHost) : toHost'[i] = toHost[i]
        /\ toHost'[Len(toHost) + 1].id = c
    BY <1>1, <1>6 DEF Post, Msg, BoxTypes
  <2>3. \A i \in DOMAIN toHost' : (i \in DOMAIN toHost /\ toHost'[i] = toHost[i]) \/ i = Len(toHost) + 1
    BY <2>2
  <2>4. task[c] = "none"
    BY <1>2 DEF CallsOnce
  <2>5. \A k \in Calls : call'[k] = "idle" => task'[k] = "none" /\ reader'[k] # "open"
    BY <1>2, <1>6, <2>1 DEF CallsOnce
  <2>6. ASSUME NEW i \in DOMAIN toHost', toHost'[i].type = "bridgeCall"
        PROVE  /\ task'[toHost'[i].id] = "none" /\ call'[toHost'[i].id] # "idle"
               /\ \A j \in DOMAIN toHost' :
                    toHost'[j].type = "bridgeCall" /\ toHost'[j].id = toHost'[i].id => j = i
    <3>1. CASE i \in DOMAIN toHost /\ toHost'[i] = toHost[i]
      BY <1>2, <1>3, <1>4, <2>1, <2>2, <2>3, <2>6, <3>1 DEF CallsOnce
    <3>2. CASE i = Len(toHost) + 1
      <4>1. toHost'[i].id = c
        BY <2>2, <3>2
      <4>2. \A j \in DOMAIN toHost' : toHost'[j].type = "bridgeCall" /\ toHost'[j].id = c => j = i
        BY <1>4, <2>3, <3>2
      <4> QED BY <1>2, <2>1, <2>4, <4>1, <4>2
    <3> QED BY <2>3, <2>6, <3>1, <3>2
  <2> QED BY <2>5, <2>6 DEF CallsOnce
<1> QED BY <1>5, <1>6 DEF StartCall

LEMMA OnceNext ==
  ASSUME TypeOK, Records, CallsOnce, [Next]_vars
  PROVE  CallsOnce'
<1>1. HostTypes /\ ClientTypes /\ BoxTypes
  BY TypeParts
<1>2. ASSUME NEW c \in Calls, SandboxRuns(c)
      PROVE  CallsOnce'
  <2>1. CASE AbortCall(c) \/ CancelStream(c) \/ PullStream(c) \/ DestroyHandle(c) \/ FunctionReturns(c)
    <3>1. task' = task
      BY <2>1 DEF AbortCall, CancelStream, PullStream, DestroyHandle, FunctionReturns, hostVars
    <3>2. \A k \in Calls : /\ call'[k] = "idle" <=> call[k] = "idle"
                           /\ reader'[k] = "open" => reader[k] = "open"
      BY <1>1, <2>1 DEF AbortCall, CancelStream, PullStream, DestroyHandle, FunctionReturns,
                        clientVars, Finish, OpenOn, ClientTypes
    <3>3. \E t \in {"bridgeAbort", "bridgeCancel", "bridgePull", "bridgeRelease",
                    "bridgeCallbackResult"} : Post(Msg(t, c))
      BY <2>1 DEF AbortCall, CancelStream, PullStream, DestroyHandle, FunctionReturns
    <3> QED BY <1>1, <3>1, <3>2, <3>3, OncePost
  <2> QED BY <1>2, <2>1, OnceStart DEF SandboxRuns
<1>3. ASSUME NEW c \in Calls, SandboxReceives(c)
      PROVE  CallsOnce'
  <2>1. task' = task
    BY <1>3 DEF SandboxReceives, TakesResult, TakesChunk, TakesCallback, TakesForget, hostVars
  <2>2. \A k \in Calls : /\ call'[k] = "idle" <=> call[k] = "idle"
                         /\ reader'[k] = "open" => reader[k] = "open" \/ call[k] # "idle"
    <3>1. CASE TakesResult(c)
      BY <1>1, <3>1 DEF TakesResult, Finish, ClientTypes
    <3>2. CASE TakesChunk(c)   \* a stream that is read was called
      <4>1. reader[c] = "open" => call[c] # "idle"
        BY DEF CallsOnce
      <4>2. CASE Finish({c}) /\ reader[c] = "open"
        BY <1>1, <4>1, <4>2 DEF Finish, ClientTypes
      <4> QED BY <3>2, <4>2 DEF TakesChunk
    <3> QED BY <1>3, <3>1, <3>2 DEF SandboxReceives, TakesCallback, TakesForget, clientVars
  <2>3. UNCHANGED toHost \/ Post(Msg("bridgeCallbackResult", c))
    BY <1>3 DEF SandboxReceives, TakesResult, TakesChunk, TakesCallback, TakesForget
  <2> QED BY <1>1, <2>1, <2>2, <2>3, OncePost
<1>4. ASSUME NEW c \in Calls, HostReceives(c)
      PROVE  CallsOnce'
  <2>1. UNCHANGED <<call, reader>>
    BY <1>4 DEF HostReceives, OnCall, OnAbort, OnCancel, OnPull, OnRelease, OnCallbackResult, clientVars
  <2>2. CASE OnCall(c)
    BY <1>1, <2>1, <2>2, OnceTail DEF OnCall, HostTypes
  <2>3. CASE OnAbort(c) \/ OnCancel(c) \/ OnPull(c) \/ OnRelease(c) \/ OnCallbackResult(c)
    <3>1. task' = task /\ \E t : Arrives(c, t)
      BY <2>3 DEF OnAbort, OnCancel, OnPull, OnRelease, OnCallbackResult, hostVars
    <3> QED BY <1>1, <2>1, <3>1, OnceTail DEF HostTypes
  <2> QED BY <1>4, <2>2, <2>3 DEF HostReceives
<1>5. ASSUME NEW c \in Calls, HostRuns(c)
      PROVE  CallsOnce'
  <2>1. UNCHANGED <<call, reader, toHost>>
    BY <1>5 DEF HostRuns, Consent, MethodThrows, LimitTimeout, ReturnsLate, ReturnsStream,
                ReturnsHandle, ReturnsValue, ReturnsUnsendable, PullIsLate, PullYields, PullEnds,
                PullFails, CallsFunction, clientVars
  <2>2. \A k \in Calls : task[k] = "none" => task'[k] = "none"
    BY <1>1, <1>5 DEF HostRuns, Consent, MethodThrows, LimitTimeout, ReturnsLate, ReturnsStream,
                ReturnsHandle, ReturnsValue, ReturnsUnsendable, PullIsLate, PullYields, PullEnds,
                PullFails, CallsFunction, hostVars, CallFails, HostTypes
  <2> QED BY <1>1, <2>1, <2>2, CallIds DEF CallsOnce
<1>6. CASE Close
  <2>1. toHost' = <<>> /\ UNCHANGED <<call, reader, task>>
    BY <1>6 DEF Close, clientVars
  <2> QED BY <2>1 DEF CallsOnce
<1>7. CASE UNCHANGED vars
  <2>1. UNCHANGED <<call, reader, task, toHost>>
    BY <1>7 DEF vars, hostVars, clientVars
  <2> QED BY <1>1, <2>1, CallIds DEF CallsOnce
<1> QED BY <1>2, <1>3, <1>4, <1>5, <1>6, <1>7 DEF Next

-----------------------------------------------------------------------------
(* What the host knows of its calls.                                       *)

\* What the host keeps of calls, objects, streams and functions.
Kept == Records /\ LiveCalls /\ ObjectsFreedOnce /\ FunctionsLiveWithOwner

\* A call that arrives is new to the host.
LEMMA ArrivingIsNew ==
  ASSUME BoxTypes, CallsOnce, NEW c \in Calls, Arrives(c, "bridgeCall")
  PROVE  task[c] = "none"
<1>1. 1 \in DOMAIN toHost /\ toHost[1] = Msg("bridgeCall", c)
  BY HeadTailProperties, EmptySeq, LenProperties DEF Arrives, BoxTypes
<1> QED BY <1>1 DEF CallsOnce, Msg

\* The end of the records in E, by what it does to the functions.
LEMMA EndCallsKeeps ==
  ASSUME HostTypes, NEW E, NEW msgs, EndCalls(E, msgs)
  PROVE  /\ calls' = calls \ E
         /\ owner' = [k \in Calls |-> IF k \in E /\ owner[k] = "call" THEN "released" ELSE owner[k]]
BY DEF EndCalls, Released, Revoked, HostTypes

LEMMA CallFailsKeeps ==
  ASSUME HostTypes, NEW c \in Calls, CallFails(c)
  PROVE  /\ task' = [task EXCEPT ![c] = "done"] /\ calls' = calls \ {c}
         /\ \A k \in Calls : owner'[k] = IF k = c /\ c \in calls /\ owner[k] = "call"
                                           THEN "released" ELSE owner[k]
BY EndCallsKeeps DEF CallFails, HostTypes

LEMMA CloseCallKeeps ==
  ASSUME HostTypes, NEW c \in Calls, NEW msgs, CloseCall(c, msgs)
  PROVE  /\ calls' = calls \ {c} /\ aborted' = aborted \cup {c} /\ streams' = streams \ {c}
         /\ \A k \in Calls : owner'[k] = IF k = c /\ owner[k] = "call" THEN "released" ELSE owner[k]
BY EndCallsKeeps DEF CloseCall, HostTypes

\* Objects that are destroyed were not before.
LEMMA DestroyedOnce ==
  ASSUME HostTypes, ObjectsFreedOnce, NEW H, H \cap (made \ handles) = {},
         made' \ handles' = (made \ handles) \cup H,
         destroyed' = Destroyed(H), H \subseteq Calls
  PROVE  ObjectsFreedOnce'
BY DEF HostTypes, ObjectsFreedOnce, Destroyed

\* Objects that are made and registered, or not touched at all.
LEMMA NoneDestroyed ==
  ASSUME HostTypes, ObjectsFreedOnce, made' \ handles' = made \ handles, UNCHANGED destroyed
  PROVE  ObjectsFreedOnce'
BY DEF ObjectsFreedOnce

LEMMA KeptStart ==
  ASSUME TypeOK, CallsOnce, Kept, NEW c \in Calls, NEW h \in Calls \cup {Root}, StartCall(c, h)
  PROVE  Kept'
<1>1. UNCHANGED hostVars /\ call[c] = "idle" /\ on' = [on EXCEPT ![c] = h]
  BY DEF StartCall
<1>2. c \notin calls /\ c \notin streams
  BY <1>1 DEF CallsOnce, Kept, Records
<1>3. LiveCalls'
  BY <1>1, <1>2, TypeParts DEF Kept, LiveCalls, hostVars, HostTypes, ClientTypes
<1> QED BY <1>1, <1>3 DEF Kept, Records, ObjectsFreedOnce, FunctionsLiveWithOwner, hostVars

LEMMA KeptUnchanged ==
  ASSUME Kept, UNCHANGED hostVars, UNCHANGED on
  PROVE  Kept'
BY DEF Kept, Records, LiveCalls, ObjectsFreedOnce, FunctionsLiveWithOwner, hostVars

LEMMA KeptOnCall ==
  ASSUME TypeOK, CallsOnce, Kept, NEW c \in Calls, OnCall(c)
  PROVE  Kept'
<1>1. HostTypes /\ ClientTypes /\ BoxTypes
  BY TypeParts
<1>2. task[c] = "none"
  BY <1>1, ArrivingIsNew DEF OnCall
<1>3. c \notin calls /\ c \notin streams /\ c \notin made /\ c \notin handles /\ owner[c] = "none"
  BY <1>1, <1>2 DEF Kept, Records, HostTypes
<1>4. UNCHANGED <<closed, aborted, streams, handles, made, destroyed, on>>
  BY DEF OnCall, clientVars
<1>5. \A k \in Calls \ {c} : task'[k] = task[k] /\ owner'[k] = owner[k] /\ (k \in calls' <=> k \in calls)
  BY <1>1 DEF OnCall, HostTypes
<1>6. \/ c \notin calls' /\ task'[c] = "refused" /\ owner'[c] \in {"none", "released"}
      \/ /\ c \in calls' /\ task'[c] = "consent" /\ (on[c] = Root \/ on[c] \in handles)
         /\ owner'[c] = IF c \in WithFunction THEN "call" ELSE "none"
  BY <1>1, <1>3 DEF OnCall, HostTypes
<1>7. calls' \subseteq calls \cup {c}
  BY DEF OnCall
<1>8. Records'
  BY <1>1, <1>3, <1>4, <1>5, <1>6 DEF Kept, Records
<1>9. LiveCalls'
  BY <1>1, <1>3, <1>4, <1>5, <1>6, <1>7 DEF Kept, LiveCalls, HostTypes
<1>10. ObjectsFreedOnce'
  BY <1>4 DEF Kept, ObjectsFreedOnce
<1>11. FunctionsLiveWithOwner'
  BY <1>1, <1>3, <1>4, <1>5, <1>6, BridgeAssumption DEF Kept, FunctionsLiveWithOwner, HostTypes
<1> QED BY <1>8, <1>9, <1>10, <1>11 DEF Kept

\* The end of a stream, or of a call whose signal aborts.
LEMMA KeptClose ==
  ASSUME TypeOK, Kept, NEW c \in calls, NEW msgs, CloseCall(c, msgs),
         UNCHANGED <<closed, task, handles, on>>,
         \/ UNCHANGED <<made, destroyed>>
         \/ /\ c \notin made /\ made' = made \cup {c} /\ destroyed' = Destroyed({c})
            /\ task[c] = "done"
  PROVE  Kept'
<1>1. HostTypes
  BY TypeParts
<1>2. c \in Calls
  BY <1>1 DEF HostTypes
<1>3. /\ calls' = calls \ {c} /\ aborted' = aborted \cup {c} /\ streams' = streams \ {c}
      /\ \A k \in Calls : owner'[k] = IF k = c /\ owner[k] = "call" THEN "released" ELSE owner[k]
  BY <1>1, <1>2, CloseCallKeeps
<1>4. Records'
  BY <1>2, <1>3 DEF Kept, Records
<1>5. LiveCalls'
  BY <1>3 DEF Kept, LiveCalls
<1>6. ObjectsFreedOnce'
  BY <1>1, <1>2, DestroyedOnce, NoneDestroyed DEF Kept, HostTypes
<1>7. FunctionsLiveWithOwner'
  BY <1>1, <1>2, <1>3, BridgeAssumption DEF Kept, FunctionsLiveWithOwner, HostTypes
<1> QED BY <1>4, <1>5, <1>6, <1>7 DEF Kept

LEMMA KeptOnRelease ==
  ASSUME TypeOK, Kept, NEW h \in Calls, OnRelease(h)
  PROVE  Kept'
<1>1. HostTypes
  BY TypeParts
<1>2. UNCHANGED <<closed, task, made, on>>
  BY DEF OnRelease, clientVars
<1>3. CASE h \in handles
  <2> DEFINE S == StreamsOn(h)
  <2>1. /\ calls' = calls \ S /\ streams' = streams \ S /\ handles' = handles \ {h}
        /\ aborted' = aborted \cup CallsOn(h) /\ destroyed' = Destroyed({h})
        /\ owner' = Revoked(Released(S, {h}))
    BY <1>3 DEF OnRelease, AbortedOn
  <2>2. S = {k \in calls : on[k] = h /\ k \in streams}
    BY DEF StreamsOn, CallsOn
  <2>3. \A k \in Calls : owner'[k] = IF \/ k \in S /\ owner[k] = "call"
                                        \/ k = h /\ owner[k] = "handle"
                                       THEN "released" ELSE owner[k]
    BY <1>1, <2>1, <2>2 DEF Revoked, Released, HostTypes
  <2>4. Records'
    BY <1>1, <1>2, <2>1, <2>2, <2>3 DEF Kept, Records, HostTypes
  <2>5. LiveCalls'
    BY <1>1, <1>2, <2>1, <2>2 DEF Kept, LiveCalls, CallsOn, HostTypes
  <2>6. ObjectsFreedOnce'
    BY <1>1, <1>2, <1>3, <2>1, DestroyedOnce DEF Kept, HostTypes
  <2>7. FunctionsLiveWithOwner'
    <3>1. SUFFICES ASSUME ~closed, NEW k \in WithFunction
                   PROVE  /\ owner'[k] = "handle" <=> k \in handles'
                          /\ owner'[k] = "call" <=> k \in calls' /\ k \notin made'
      BY <1>2 DEF FunctionsLiveWithOwner
    <3>2. /\ owner[k] = "handle" <=> k \in handles
          /\ owner[k] = "call" <=> k \in calls /\ k \notin made
          /\ k \in Calls
      BY <3>1, BridgeAssumption DEF Kept, FunctionsLiveWithOwner
    <3> QED BY <1>1, <1>2, <1>3, <2>1, <2>2, <2>3, <3>2 DEF HostTypes
  <2> QED BY <2>4, <2>5, <2>6, <2>7 DEF Kept
<1>4. CASE h \notin handles
  BY <1>2, <1>4 DEF OnRelease, Kept, Records, LiveCalls, ObjectsFreedOnce, FunctionsLiveWithOwner
<1> QED BY <1>3, <1>4

\* A call that fails, whether or not a host object was made for it.
LEMMA KeptFails ==
  ASSUME TypeOK, Kept, NEW c \in Calls, CallFails(c), task[c] \in {"consent", "method"},
         UNCHANGED <<closed, aborted, streams, handles, on>>,
         \/ UNCHANGED <<made, destroyed>>
         \/ made' = made \cup {c} /\ destroyed' = Destroyed({c})
  PROVE  Kept'
<1>1. HostTypes
  BY TypeParts
<1>2. /\ task' = [task EXCEPT ![c] = "done"] /\ calls' = calls \ {c}
      /\ \A k \in Calls : owner'[k] = IF k = c /\ c \in calls /\ owner[k] = "call"
                                        THEN "released" ELSE owner[k]
  BY <1>1, CallFailsKeeps
<1>3. c \notin streams /\ c \notin made /\ c \notin handles
  BY <1>1 DEF Kept, Records, HostTypes
<1>4. Records'
  BY <1>1, <1>2, <1>3 DEF Kept, Records, HostTypes
<1>5. LiveCalls'
  BY <1>2 DEF Kept, LiveCalls
<1>6. ObjectsFreedOnce'
  BY <1>1, <1>3, DestroyedOnce, NoneDestroyed DEF Kept, HostTypes
<1>7. FunctionsLiveWithOwner'
  BY <1>1, <1>2, <1>3, BridgeAssumption DEF Kept, FunctionsLiveWithOwner, HostTypes
<1> QED BY <1>4, <1>5, <1>6, <1>7 DEF Kept

LEMMA KeptReturns ==
  ASSUME TypeOK, Kept, NEW c \in Calls,
         \/ Consent(c) \/ MethodThrows(c) \/ ReturnsLate(c) \/ ReturnsStream(c)
         \/ ReturnsHandle(c) \/ ReturnsValue(c) \/ ReturnsUnsendable(c)
  PROVE  Kept'
<1>1. HostTypes
  BY TypeParts
<1>2. UNCHANGED <<closed, aborted, on>>
  BY DEF Consent, MethodThrows, ReturnsLate, ReturnsStream, ReturnsHandle, ReturnsValue,
         ReturnsUnsendable, clientVars
<1>3. ASSUME task[c] = "method", ~Late(c)
      PROVE  /\ c \in calls /\ c \notin aborted /\ ~closed /\ (on[c] = Root \/ on[c] \in handles)
             /\ c \notin streams /\ c \notin made /\ c \notin handles
  BY <1>1, <1>3 DEF Late, Kept, Records, LiveCalls, HostTypes
<1>4. CASE Consent(c)
  <2>1. CASE CallFails(c)
    BY <1>2, <1>4, <2>1, KeptFails DEF Consent
  <2>2. CASE task' = [task EXCEPT ![c] = "method"] /\ UNCHANGED <<calls, timers, owner, toSandbox>>
    <3>1. UNCHANGED <<streams, made, handles, destroyed>> /\ task[c] = "consent"
      BY <1>4 DEF Consent
    <3>2. Records'
      BY <1>1, <2>2, <3>1 DEF Kept, Records, HostTypes
    <3> QED BY <1>2, <2>2, <3>1, <3>2 DEF Kept, LiveCalls, ObjectsFreedOnce, FunctionsLiveWithOwner
  <2> QED BY <1>4, <2>1, <2>2 DEF Consent
<1>5. CASE MethodThrows(c)
  BY <1>2, <1>5, KeptFails DEF MethodThrows
<1>6. CASE ReturnsLate(c)
  BY <1>2, <1>6, KeptFails DEF ReturnsLate, Discarded
<1>7. CASE ReturnsStream(c)
  <2>1. /\ task' = [task EXCEPT ![c] = "done"] /\ streams' = streams \cup {c} /\ Kind[c] = "stream"
        /\ UNCHANGED <<calls, handles, owner, made, destroyed>>
    BY <1>7 DEF ReturnsStream
  <2>2. Records'
    BY <1>1, <1>3, <1>7, <2>1 DEF ReturnsStream, Kept, Records, HostTypes
  <2>3. LiveCalls'
    BY <1>2, <1>3, <1>7, <2>1 DEF ReturnsStream, Kept, LiveCalls
  <2> QED BY <1>2, <2>1, <2>2, <2>3 DEF Kept, ObjectsFreedOnce, FunctionsLiveWithOwner
<1>8. CASE ReturnsHandle(c)
  <2>1. /\ task' = [task EXCEPT ![c] = "done"] /\ calls' = calls \ {c}
        /\ made' = made \cup {c} /\ handles' = handles \cup {c}
        /\ owner' = [owner EXCEPT ![c] = IF @ = "call" THEN "handle" ELSE @]
        /\ UNCHANGED <<streams, destroyed>>
    BY <1>8 DEF ReturnsHandle, Register
  <2>2. /\ c \in calls /\ ~closed /\ c \notin streams /\ c \notin made /\ c \notin handles
    BY <1>3, <1>8 DEF ReturnsHandle
  <2>3. Records'
    BY <1>1, <1>8, <2>1, <2>2 DEF ReturnsHandle, Kept, Records, HostTypes
  <2>4. LiveCalls'
    BY <1>2, <2>1 DEF Kept, LiveCalls
  <2>5. ObjectsFreedOnce'
    BY <1>1, <2>1, <2>2, NoneDestroyed DEF Kept
  <2>6. FunctionsLiveWithOwner'
    BY <1>1, <1>2, <2>1, <2>2, BridgeAssumption DEF Kept, FunctionsLiveWithOwner, HostTypes
  <2> QED BY <2>3, <2>4, <2>5, <2>6 DEF Kept
<1>9. CASE ReturnsValue(c)
  <2>1. /\ task' = [task EXCEPT ![c] = "done"] /\ calls' = calls \ {c}
        /\ \A k \in Calls : owner'[k] = IF k = c /\ owner[k] = "call" THEN "released" ELSE owner[k]
        /\ UNCHANGED <<streams, made, handles, destroyed>>
    BY <1>1, <1>9, EndCallsKeeps DEF ReturnsValue
  <2>2. c \in calls /\ c \notin streams /\ c \notin made /\ c \notin handles
    BY <1>3, <1>9 DEF ReturnsValue
  <2>3. Records'
    BY <1>1, <1>9, <2>1, <2>2 DEF ReturnsValue, Kept, Records, HostTypes
  <2>4. LiveCalls'
    BY <1>2, <2>1 DEF Kept, LiveCalls
  <2>5. ObjectsFreedOnce'
    BY <1>1, <2>1, NoneDestroyed DEF Kept
  <2>6. FunctionsLiveWithOwner'
    BY <1>1, <1>2, <2>1, <2>2, BridgeAssumption DEF Kept, FunctionsLiveWithOwner, HostTypes
  <2> QED BY <2>3, <2>4, <2>5, <2>6 DEF Kept
<1>10. CASE ReturnsUnsendable(c)
  <2>1. CASE CallFails(c)
    BY <1>2, <1>10, <2>1, KeptFails DEF ReturnsUnsendable
  <2>2. CASE /\ task' = [task EXCEPT ![c] = "done"]
             /\ calls' = calls \ {c}
             /\ owner' = Revoked({c} \cap WithFunction)
    <3>1. /\ made' = made \cup {c} /\ destroyed' = Destroyed({c})
          /\ UNCHANGED <<streams, handles>> /\ task[c] = "method"
      BY <1>10 DEF ReturnsUnsendable
    <3>2. c \in calls /\ c \notin streams /\ c \notin made /\ c \notin handles /\ ~closed
      BY <1>3, <1>10 DEF ReturnsUnsendable
    <3>3. \A k \in Calls : owner'[k] = IF k = c /\ c \in WithFunction THEN "released" ELSE owner[k]
      BY <2>2 DEF Revoked
    <3>4. Records'
      BY <1>1, <2>2, <3>1, <3>2, <3>3 DEF Kept, Records, HostTypes
    <3>5. LiveCalls'
      BY <1>2, <2>2, <3>1 DEF Kept, LiveCalls
    <3>6. ObjectsFreedOnce'
      BY <1>1, <3>1, <3>2, DestroyedOnce DEF Kept, HostTypes
    <3>7. FunctionsLiveWithOwner'
      BY <1>1, <1>2, <2>2, <3>1, <3>2, <3>3, BridgeAssumption DEF Kept, FunctionsLiveWithOwner, HostTypes
    <3> QED BY <3>4, <3>5, <3>6, <3>7 DEF Kept
  <2> QED BY <1>10, <2>1, <2>2 DEF ReturnsUnsendable
<1> QED BY <1>4, <1>5, <1>6, <1>7, <1>8, <1>9, <1>10

LEMMA KeptStreams ==
  ASSUME TypeOK, Kept, NEW c \in Calls,
         LimitTimeout(c) \/ PullIsLate(c) \/ PullYields(c) \/ PullEnds(c) \/ PullFails(c)
  PROVE  Kept'
<1>1. HostTypes
  BY TypeParts
<1>2. UNCHANGED <<closed, task, on>>
  BY DEF LimitTimeout, PullIsLate, PullYields, PullEnds, PullFails, clientVars
<1>3. ASSUME c \in streams
      PROVE  c \in calls /\ task[c] = "done" /\ c \notin aborted
  BY <1>1, <1>3 DEF Kept, Records, LiveCalls, HostTypes
<1>4. CASE LimitTimeout(c)
  <2>1. CASE c \in streams /\ CloseCall(c, TimeoutChunk(c))
    BY <1>2, <1>3, <1>4, <2>1, KeptClose DEF LimitTimeout
  <2>2. CASE c \notin streams /\ aborted' = aborted \cup {c} /\ UNCHANGED <<calls, streams, owner>>
    <3>1. UNCHANGED <<handles, made, destroyed>>
      BY <1>4 DEF LimitTimeout
    <3> QED BY <1>2, <2>2, <3>1
            DEF Kept, Records, LiveCalls, ObjectsFreedOnce, FunctionsLiveWithOwner
  <2> QED BY <1>4, <2>1, <2>2 DEF LimitTimeout
<1>5. CASE PullIsLate(c)
  BY <1>2, <1>5 DEF PullIsLate, Kept, Records, LiveCalls, ObjectsFreedOnce, FunctionsLiveWithOwner
<1>6. CASE PullYields(c)
  <2>1. UNCHANGED <<calls, aborted, streams, destroyed>> /\ c \in streams
    BY <1>6 DEF PullYields
  <2>2. CASE UNCHANGED <<handles, owner, made>>
    BY <1>2, <2>1, <2>2 DEF Kept, Records, LiveCalls, ObjectsFreedOnce, FunctionsLiveWithOwner
  <2>3. CASE c \notin made /\ Register(c)
    <3>1. Records'
      BY <1>1, <1>2, <1>3, <2>1, <2>3 DEF Register, Kept, Records, HostTypes
    <3>2. LiveCalls'
      BY <1>2, <2>1, <2>3 DEF Register, Kept, LiveCalls
    <3>3. ObjectsFreedOnce'
      BY <1>1, <2>1, <2>3, NoneDestroyed DEF Register, Kept, HostTypes
    <3>4. FunctionsLiveWithOwner'
      BY <1>1, <1>2, <1>3, <2>1, <2>3, BridgeAssumption
         DEF Register, Kept, FunctionsLiveWithOwner, HostTypes
    <3> QED BY <3>1, <3>2, <3>3, <3>4 DEF Kept
  <2> QED BY <1>6, <2>2, <2>3 DEF PullYields
<1>7. CASE PullEnds(c)
  <2>1. /\ calls' = calls \ {c} /\ streams' = streams \ {c}
        /\ \A k \in Calls : owner'[k] = IF k = c /\ owner[k] = "call" THEN "released" ELSE owner[k]
        /\ UNCHANGED <<aborted, handles, made, destroyed>> /\ c \in calls
    BY <1>1, <1>3, <1>7, EndCallsKeeps DEF PullEnds
  <2>2. Records'
    BY <1>2, <2>1 DEF Kept, Records
  <2>3. LiveCalls' /\ ObjectsFreedOnce'
    BY <1>2, <2>1 DEF Kept, LiveCalls, ObjectsFreedOnce
  <2>4. FunctionsLiveWithOwner'
    BY <1>1, <1>2, <2>1, BridgeAssumption DEF Kept, FunctionsLiveWithOwner, HostTypes
  <2> QED BY <2>2, <2>3, <2>4 DEF Kept
<1>8. CASE PullFails(c)
  <2>1. c \in streams
    BY <1>8 DEF PullFails
  <2>2. CASE CloseCall(c, <<Msg("chunkError", c)>>) /\ UNCHANGED <<handles, made, destroyed>>
    BY <1>2, <1>3, <2>1, <2>2, KeptClose
  <2>3. CASE /\ c \notin made /\ made' = made \cup {c} /\ destroyed' = Destroyed({c})
             /\ CloseCall(c, <<Msg("chunkError", c)>>)
             /\ UNCHANGED handles
    BY <1>2, <1>3, <2>1, <2>3, KeptClose
  <2>4. CASE /\ c \notin made /\ Register(c)
             /\ aborted' = aborted \cup {c} /\ streams' = streams \ {c} /\ calls' = calls \ {c}
             /\ UNCHANGED destroyed
    <3>1. Records'
      BY <1>1, <1>2, <1>3, <2>1, <2>4 DEF Register, Kept, Records, HostTypes
    <3>2. LiveCalls'
      BY <1>2, <2>4 DEF Register, Kept, LiveCalls
    <3>3. ObjectsFreedOnce'
      BY <1>1, <2>4, NoneDestroyed DEF Register, Kept, HostTypes
    <3>4. FunctionsLiveWithOwner'
      BY <1>1, <1>2, <1>3, <2>1, <2>4, BridgeAssumption
         DEF Register, Kept, FunctionsLiveWithOwner, HostTypes
    <3> QED BY <3>1, <3>2, <3>3, <3>4 DEF Kept
  <2> QED BY <1>8, <2>2, <2>3, <2>4 DEF PullFails
<1> QED BY <1>4, <1>5, <1>6, <1>7, <1>8

LEMMA KeptEnds == ASSUME TypeOK, Kept, Close PROVE Kept'
<1>1. HostTypes
  BY TypeParts
<1>2. /\ calls' = {} /\ streams' = {} /\ handles' = {} /\ destroyed' = Destroyed(handles) /\ closed'
      /\ UNCHANGED <<task, owner, made, on>>
  BY DEF Close, clientVars
<1>3. Records' /\ LiveCalls' /\ FunctionsLiveWithOwner'
  BY <1>2 DEF Kept, Records, LiveCalls, FunctionsLiveWithOwner
<1>4. ObjectsFreedOnce'
  BY <1>1, <1>2, DestroyedOnce DEF Kept, HostTypes
<1> QED BY <1>3, <1>4 DEF Kept

LEMMA KeptNext ==
  ASSUME TypeOK, CallsOnce, Kept, [Next]_vars
  PROVE  Kept'
<1>1. HostTypes
  BY TypeParts
<1>2. ASSUME NEW c \in Calls, SandboxRuns(c)
      PROVE  Kept'
  <2>1. CASE \E h \in Calls \cup {Root} : StartCall(c, h)
    BY <2>1, KeptStart
  <2>2. CASE AbortCall(c) \/ CancelStream(c) \/ PullStream(c) \/ DestroyHandle(c) \/ FunctionReturns(c)
    <3>1. UNCHANGED hostVars /\ UNCHANGED on
      BY <2>2 DEF AbortCall, CancelStream, PullStream, DestroyHandle, FunctionReturns, clientVars
    <3> QED BY <3>1, KeptUnchanged
  <2> QED BY <1>2, <2>1, <2>2 DEF SandboxRuns
<1>3. ASSUME NEW c \in Calls, SandboxReceives(c)
      PROVE  Kept'
  <2>1. UNCHANGED hostVars /\ UNCHANGED on
    BY <1>3 DEF SandboxReceives, TakesResult, TakesChunk, TakesCallback, TakesForget, clientVars
  <2> QED BY <2>1, KeptUnchanged
<1>4. ASSUME NEW c \in Calls, HostReceives(c)
      PROVE  Kept'
  <2>1. CASE OnAbort(c) \/ OnCancel(c)
    <3>1. UNCHANGED <<closed, task, handles, on, made, destroyed>>
      BY <2>1 DEF OnAbort, OnCancel, clientVars
    <3>2. (c \in calls /\ CloseCall(c, <<>>)) \/ UNCHANGED <<calls, owner, aborted, streams>>
      BY <1>1, <2>1 DEF OnAbort, OnCancel, HostTypes
    <3>3. CASE c \in calls /\ CloseCall(c, <<>>)
      BY <3>1, <3>3, KeptClose
    <3>4. CASE UNCHANGED <<calls, owner, aborted, streams>>
      BY <3>1, <3>4 DEF Kept, Records, LiveCalls, ObjectsFreedOnce, FunctionsLiveWithOwner
    <3> QED BY <3>2, <3>3, <3>4
  <2>2. CASE OnPull(c) \/ OnCallbackResult(c)
    <3>1. UNCHANGED <<closed, calls, task, aborted, streams, handles, owner, made, destroyed, on>>
      BY <2>2 DEF OnPull, OnCallbackResult, hostVars, clientVars
    <3> QED BY <3>1 DEF Kept, Records, LiveCalls, ObjectsFreedOnce, FunctionsLiveWithOwner
  <2> QED BY <1>4, <2>1, <2>2, KeptOnCall, KeptOnRelease DEF HostReceives
<1>5. ASSUME NEW c \in Calls, HostRuns(c)
      PROVE  Kept'
  <2>1. CASE CallsFunction(c)
    <3>1. UNCHANGED hostVars /\ UNCHANGED on
      BY <2>1 DEF CallsFunction, clientVars
    <3> QED BY <3>1, KeptUnchanged
  <2> QED BY <1>5, <2>1, KeptReturns, KeptStreams DEF HostRuns
<1>6. CASE UNCHANGED vars
  <2>1. UNCHANGED hostVars /\ UNCHANGED on
    BY <1>6 DEF vars, clientVars
  <2> QED BY <2>1, KeptUnchanged
<1> QED BY <1>2, <1>3, <1>4, <1>5, <1>6, KeptEnds DEF Next

-----------------------------------------------------------------------------
(* Handles are registered only while there is room.                        *)

LEMMA RoomLeft ==
  ASSUME NEW H, IsFiniteSet(H), WithinMaxHandles, handles = H, RoomNow, NEW c
  PROVE  MaxHandles = 0 \/ Cardinality(H \cup {c}) <= MaxHandles
<1>1. Cardinality(H \cup {c}) = IF c \in H THEN Cardinality(H) ELSE Cardinality(H) + 1
  BY FS_AddElement
<1>2. Cardinality(H) \in Nat
  BY FS_CardinalityType
<1> QED BY <1>1, <1>2, BridgeAssumption DEF WithinMaxHandles, RoomNow, HasRoom

LEMMA FewerHandles ==
  ASSUME IsFiniteSet(handles), WithinMaxHandles, handles' \subseteq handles
  PROVE  WithinMaxHandles'
<1>1. Cardinality(handles') <= Cardinality(handles) /\ IsFiniteSet(handles')
  BY FS_Subset
<1>2. Cardinality(handles) \in Nat /\ Cardinality(handles') \in Nat
  BY <1>1, FS_CardinalityType
<1> QED BY <1>1, <1>2, BridgeAssumption DEF WithinMaxHandles

LEMMA HandlesNext ==
  ASSUME TypeOK, WithinMaxHandles, [Next]_vars
  PROVE  WithinMaxHandles'
<1>1. IsFiniteSet(handles)
  BY TypeParts, BridgeAssumption, FS_Subset DEF HostTypes
<1>2. ASSUME NEW c, RoomNow, Register(c)
      PROVE  WithinMaxHandles'
  BY <1>1, <1>2, RoomLeft DEF Register, WithinMaxHandles
<1>3. ASSUME NEW c \in Calls, HostRuns(c)
      PROVE  WithinMaxHandles'
  <2>1. CASE ReturnsHandle(c)
    BY <1>2, <2>1 DEF ReturnsHandle
  <2>2. CASE PullYields(c)
    BY <1>1, <1>2, <2>2, FewerHandles DEF PullYields
  <2>3. CASE PullFails(c)
    BY <1>1, <1>2, <2>3, FewerHandles DEF PullFails
  <2>4. CASE \/ Consent(c) \/ MethodThrows(c) \/ LimitTimeout(c) \/ ReturnsLate(c)
             \/ ReturnsStream(c) \/ ReturnsValue(c) \/ ReturnsUnsendable(c)
             \/ PullIsLate(c) \/ PullEnds(c) \/ CallsFunction(c)
    <3>1. handles' = handles
      BY <2>4 DEF Consent, MethodThrows, LimitTimeout, ReturnsLate, ReturnsStream, ReturnsValue,
                  ReturnsUnsendable, PullIsLate, PullEnds, CallsFunction, hostVars
    <3> QED BY <1>1, <3>1, FewerHandles
  <2> QED BY <1>3, <2>1, <2>2, <2>3, <2>4 DEF HostRuns
<1>4. ASSUME NEW c \in Calls, SandboxRuns(c) \/ SandboxReceives(c) \/ HostReceives(c)
      PROVE  WithinMaxHandles'
  <2>1. CASE SandboxRuns(c)
    <3>1. handles' = handles
      BY <2>1 DEF SandboxRuns, StartCall, AbortCall, CancelStream, PullStream, DestroyHandle,
                  FunctionReturns, hostVars
    <3> QED BY <1>1, <3>1, FewerHandles
  <2>2. CASE SandboxReceives(c)
    <3>1. handles' = handles
      BY <2>2 DEF SandboxReceives, TakesResult, TakesChunk, TakesCallback, TakesForget, hostVars
    <3> QED BY <1>1, <3>1, FewerHandles
  <2>3. CASE HostReceives(c)
    <3>1. handles' \subseteq handles
      BY <2>3 DEF HostReceives, OnCall, OnAbort, OnCancel, OnPull, OnRelease, OnCallbackResult, hostVars
    <3> QED BY <1>1, <3>1, FewerHandles
  <2> QED BY <1>4, <2>1, <2>2, <2>3
<1>5. CASE Close
  BY <1>1, <1>5, FewerHandles DEF Close
<1>6. CASE UNCHANGED vars
  BY <1>1, <1>6, FewerHandles DEF vars, hostVars
<1> QED BY <1>3, <1>4, <1>5, <1>6 DEF Next

-----------------------------------------------------------------------------
(* Reverse calls find their function.                                      *)

\* Only functions the host has let go are on their way out of the sandbox.
ForgetsGone ==
  \A i \in DOMAIN toSandbox : toSandbox[i].type = "bridgeForget" => toSandbox[i].ids \subseteq Gone

\* The sandbox has the functions of calls that arrive, and of those the host
\* has accepted and not let go.
FunctionsKept ==
  /\ \A c \in WithFunction :
       task[c] \notin {"none", "refused"} /\ owner[c] # "released" => c \in functions
  /\ \A i \in DOMAIN toHost :
       toHost[i].type = "bridgeCall" /\ toHost[i].id \in WithFunction => toHost[i].id \in functions

Found == FunctionsAreFound /\ ForgetsGone /\ FunctionsKept

\* Messages that call no function back and let go only those of R.
Plain(msgs, R) ==
  \A i \in DOMAIN msgs : /\ msgs[i].type # "bridgeCallback"
                         /\ msgs[i].type = "bridgeForget" => msgs[i].ids \subseteq R

LEMMA PlainMsg ==
  ASSUME NEW c, NEW R, NEW t \in {"value", "handle", "stream", "error", "chunk", "chunkHandle",
                                  "chunkDone", "chunkError"}
  PROVE  Plain(<<Msg(t, c)>>, R)
BY DEF Plain, Msg

LEMMA PlainForget == ASSUME NEW R, NEW S \in SUBSET R PROVE Plain(Forget(S), R)
BY DEF Plain, Forget

LEMMA PlainConcat ==
  ASSUME NEW R, NEW m1 \in Seq(ToSandbox), NEW m2 \in Seq(ToSandbox), Plain(m1, R), Plain(m2, R)
  PROVE  Plain(m1 \o m2, R)
<1>1. \A i \in DOMAIN (m1 \o m2) :
        \/ i \in DOMAIN m1 /\ (m1 \o m2)[i] = m1[i]
        \/ i - Len(m1) \in DOMAIN m2 /\ (m1 \o m2)[i] = m2[i - Len(m1)]
  BY ConcatProperties, LenProperties
<1> QED BY <1>1 DEF Plain

\* The two parts of Found that speak of the messages to the sandbox.
Queue == FunctionsAreFound /\ ForgetsGone

LEMMA SendKeeps ==
  ASSUME BoxTypes, Queue, NEW msgs \in Seq(ToSandbox), Send(msgs), Plain(msgs, Gone'),
         Gone \subseteq Gone', UNCHANGED functions
  PROVE  Queue'
<1>1. /\ Len(toSandbox) \in Nat /\ DOMAIN toSandbox = 1 .. Len(toSandbox)
      /\ Len(msgs) \in Nat /\ DOMAIN msgs = 1 .. Len(msgs)
      /\ DOMAIN toSandbox' = 1 .. (Len(toSandbox) + Len(msgs))
      /\ \A i \in DOMAIN toSandbox : toSandbox'[i] = toSandbox[i]
      /\ \A i \in DOMAIN toSandbox' : i \notin DOMAIN toSandbox =>
           i - Len(toSandbox) \in DOMAIN msgs /\ toSandbox'[i] = msgs[i - Len(toSandbox)]
  BY ConcatProperties, LenProperties DEF BoxTypes, Send
<1>2. ForgetsGone'
  BY <1>1 DEF Queue, ForgetsGone, Plain
<1>3. ASSUME NEW i \in DOMAIN toSandbox', toSandbox'[i].type = "bridgeCallback"
      PROVE  /\ toSandbox'[i].id \in functions'
             /\ \A j \in 1 .. (i - 1) :
                  toSandbox'[j].type = "bridgeForget" => toSandbox'[i].id \notin toSandbox'[j].ids
  <2>1. i \in DOMAIN toSandbox /\ toSandbox'[i] = toSandbox[i]
    BY <1>1, <1>3 DEF Plain
  <2>2. \A j \in 1 .. (i - 1) : j \in DOMAIN toSandbox /\ toSandbox'[j] = toSandbox[j]
    BY <1>1, <2>1
  <2> QED BY <1>3, <2>1, <2>2 DEF Queue, FunctionsAreFound
<1> QED BY <1>2, <1>3 DEF Queue, FunctionsAreFound

LEMMA QueueSame ==
  ASSUME Queue, UNCHANGED <<toSandbox, owner>>, functions \subseteq functions'
  PROVE  Queue'
BY DEF Queue, FunctionsAreFound, ForgetsGone, Gone

\* The sandbox takes a message: those that come later do not miss what it drops.
LEMMA QueueTail ==
  ASSUME BoxTypes, Queue, toSandbox # <<>>, toSandbox' = Tail(toSandbox), UNCHANGED owner,
         \/ UNCHANGED functions
         \/ Head(toSandbox).type = "bridgeForget" /\ functions' = functions \ Head(toSandbox).ids
  PROVE  Queue'
<1>1. /\ Len(toSandbox) \in Nat /\ Len(toSandbox) # 0
      /\ DOMAIN toSandbox = 1 .. Len(toSandbox) /\ DOMAIN toSandbox' = 1 .. (Len(toSandbox) - 1)
      /\ \A i \in DOMAIN toSandbox' : toSandbox'[i] = toSandbox[i + 1]
      /\ Head(toSandbox) = toSandbox[1]
  BY HeadTailProperties, EmptySeq, LenProperties DEF BoxTypes
<1>2. \A i \in DOMAIN toSandbox' : i + 1 \in DOMAIN toSandbox /\ 1 \in 1 .. (i + 1 - 1)
  BY <1>1
<1>3. ForgetsGone'
  BY <1>1, <1>2 DEF Queue, ForgetsGone, Gone
<1>4. ASSUME NEW i \in DOMAIN toSandbox', toSandbox'[i].type = "bridgeCallback"
      PROVE  /\ toSandbox'[i].id \in functions'
             /\ \A j \in 1 .. (i - 1) :
                  toSandbox'[j].type = "bridgeForget" => toSandbox'[i].id \notin toSandbox'[j].ids
  <2>1. toSandbox'[i] = toSandbox[i + 1] /\ i + 1 \in DOMAIN toSandbox
    BY <1>1, <1>2
  <2>2. \A j \in 1 .. (i - 1) : j \in DOMAIN toSandbox' /\ j + 1 \in 1 .. (i + 1 - 1)
    BY <1>1
  <2>3. \A j \in 1 .. (i - 1) : toSandbox'[j] = toSandbox[j + 1]
    BY <1>1, <2>2
  <2>4. /\ toSandbox[i + 1].id \in functions
        /\ \A j \in 1 .. (i + 1 - 1) :
             toSandbox[j].type = "bridgeForget" => toSandbox[i + 1].id \notin toSandbox[j].ids
    BY <1>4, <2>1 DEF Queue, FunctionsAreFound
  <2>5. toSandbox'[i].id \in functions'
    BY <1>1, <1>2, <2>1, <2>4
  <2> QED BY <2>1, <2>2, <2>3, <2>4, <2>5
<1> QED BY <1>3, <1>4 DEF Queue, FunctionsAreFound

\* A queue no message is added to.
LEMMA QueueKept ==
  ASSUME Queue, UNCHANGED <<toSandbox, functions>>, Gone \subseteq Gone'
  PROVE  Queue'
BY DEF Queue, FunctionsAreFound, ForgetsGone

\* One message that neither calls back nor lets go.
LEMMA SendMsgKeeps ==
  ASSUME BoxTypes, Queue, NEW c \in Calls, UNCHANGED functions, Gone \subseteq Gone',
         NEW t \in {"value", "handle", "stream", "error", "chunk", "chunkHandle",
                    "chunkDone", "chunkError"},
         Send(<<Msg(t, c)>>)
  PROVE  Queue'
BY MsgTyped, PlainMsg, SendKeeps

LEMMA EndCallsQueue ==
  ASSUME HostTypes, BoxTypes, Queue, NEW E \in SUBSET Calls, NEW msgs \in Seq(ToSandbox),
         \A R : Plain(msgs, R), EndCalls(E, msgs), UNCHANGED functions
  PROVE  Queue' /\ Gone \subseteq Gone'
<1>1. owner' = Revoked(Released(E, {})) /\ Send(msgs \o Forget(Released(E, {})))
  BY DEF EndCalls
<1>2. Gone \subseteq Gone' /\ Released(E, {}) \subseteq Gone'
  BY <1>1 DEF Gone, Revoked, Released
<1>3. Forget(Released(E, {})) \in Seq(ToSandbox) /\ Released(E, {}) \in SUBSET Gone'
  BY <1>2, ForgetTyped, ReleasedTyped
<1>4. Plain(Forget(Released(E, {})), Gone') /\ Plain(msgs, Gone')
  BY <1>3, PlainForget
<1>5. /\ Plain(msgs \o Forget(Released(E, {})), Gone')
      /\ msgs \o Forget(Released(E, {})) \in Seq(ToSandbox)
  BY <1>3, <1>4, PlainConcat, ConcatProperties
<1> QED BY <1>1, <1>2, <1>5, SendKeeps

LEMMA CallFailsQueue ==
  ASSUME HostTypes, BoxTypes, Queue, NEW c \in Calls, CallFails(c), UNCHANGED functions
  PROVE  Queue' /\ Gone \subseteq Gone'
<1>1. CASE c \in calls /\ EndCalls({c}, <<Msg("error", c)>>)
  BY <1>1, MsgTyped, PlainMsg, EndCallsQueue
<1>2. CASE UNCHANGED <<owner, toSandbox>>
  <2>1. Gone' = Gone
    BY <1>2 DEF Gone
  <2> QED BY <1>2, <2>1, QueueKept
<1> QED BY <1>1, <1>2 DEF CallFails

LEMMA CloseCallQueue ==
  ASSUME HostTypes, BoxTypes, Queue, NEW c \in Calls, NEW msgs \in Seq(ToSandbox),
         \A R : Plain(msgs, R), CloseCall(c, msgs), UNCHANGED functions
  PROVE  Queue' /\ Gone \subseteq Gone'
BY EndCallsQueue DEF CloseCall

\* What a step of the host must not do to the functions of its calls.
LEMMA FunctionsStay ==
  ASSUME BoxTypes, FunctionsKept, UNCHANGED functions,
         UNCHANGED toHost \/ toHost' = <<>> \/ \E c, t : Arrives(c, t),
         \A c \in WithFunction : task'[c] \notin {"none", "refused"} /\ owner'[c] # "released" =>
           (task[c] \notin {"none", "refused"} /\ owner[c] # "released") \/ c \in functions
  PROVE  FunctionsKept'
<1>1. \A c \in WithFunction :
        task'[c] \notin {"none", "refused"} /\ owner'[c] # "released" => c \in functions'
  BY DEF FunctionsKept
<1>2. ASSUME NEW c, NEW t, Arrives(c, t), NEW i \in DOMAIN toHost'
      PROVE  toHost'[i] = toHost[i + 1] /\ i + 1 \in DOMAIN toHost
  BY <1>2, HeadTailProperties, EmptySeq, LenProperties DEF Arrives, BoxTypes
<1>3. \A i \in DOMAIN toHost' : \E j \in DOMAIN toHost : toHost'[i] = toHost[j]
  BY <1>2
<1> QED BY <1>1, <1>3 DEF FunctionsKept

LEMMA FoundOnCall ==
  ASSUME TypeOK, CallsOnce, Records, Found, NEW c \in Calls, OnCall(c)
  PROVE  Found'
<1>1. HostTypes /\ BoxTypes
  BY TypeParts
<1>2. functions' = functions /\ task[c] = "none" /\ owner[c] = "none"
  BY <1>1, ArrivingIsNew DEF OnCall, Records, clientVars
<1>3. c \in WithFunction => c \in functions
  <2>1. 1 \in DOMAIN toHost /\ toHost[1] = Msg("bridgeCall", c)
    BY <1>1, HeadTailProperties, EmptySeq, LenProperties DEF OnCall, Arrives, BoxTypes
  <2> QED BY <2>1 DEF Found, FunctionsKept, Msg
<1>4. FunctionsKept'
  <2>1. \A k \in WithFunction : task'[k] \notin {"none", "refused"} /\ owner'[k] # "released" =>
          (task[k] \notin {"none", "refused"} /\ owner[k] # "released") \/ k \in functions
    BY <1>1, <1>3, BridgeAssumption DEF OnCall, HostTypes
  <2> QED BY <1>1, <1>2, <2>1, FunctionsStay DEF OnCall, Found
<1>5. Gone \subseteq Gone'
  BY <1>1, <1>2 DEF OnCall, Gone, HostTypes
<1>6. Queue'
  <2>1. CASE Send(<<Msg("error", c)>>)
    BY <1>1, <1>2, <1>5, <2>1, SendMsgKeeps DEF Found, Queue
  <2>2. CASE /\ owner' = [owner EXCEPT ![c] = IF c \in WithFunction THEN "released" ELSE @]
             /\ Send(<<Msg("error", c)>> \o Forget({c} \cap WithFunction))
    <3>1. {c} \cap WithFunction \in SUBSET Gone'
      BY <1>1, <2>2 DEF Gone, HostTypes
    <3>2. Plain(<<Msg("error", c)>>, Gone') /\ Plain(Forget({c} \cap WithFunction), Gone')
      BY <3>1, PlainMsg, PlainForget
    <3>3. <<Msg("error", c)>> \in Seq(ToSandbox) /\ Forget({c} \cap WithFunction) \in Seq(ToSandbox)
      BY MsgTyped, ForgetTyped
    <3>4. /\ Plain(<<Msg("error", c)>> \o Forget({c} \cap WithFunction), Gone')
          /\ <<Msg("error", c)>> \o Forget({c} \cap WithFunction) \in Seq(ToSandbox)
      BY <3>2, <3>3, PlainConcat, ConcatProperties
    <3> QED BY <1>1, <1>2, <1>5, <2>2, <3>4, SendKeeps DEF Found, Queue
  <2>3. CASE UNCHANGED toSandbox
    BY <1>2, <1>5, <2>3, QueueKept DEF Found, Queue
  <2> QED BY <2>1, <2>2, <2>3 DEF OnCall
<1> QED BY <1>4, <1>6 DEF Found, Queue

LEMMA FoundOnRelease ==
  ASSUME TypeOK, Found, NEW h \in Calls, OnRelease(h)
  PROVE  Found'
<1>1. HostTypes /\ BoxTypes
  BY TypeParts
<1>2. functions' = functions /\ task' = task
  BY DEF OnRelease, clientVars
<1>3. Gone \subseteq Gone' /\ Queue'
  <2>1. CASE h \in handles
    <3> DEFINE R == Released(StreamsOn(h), {h})
    <3>1. owner' = Revoked(R) /\ Send(Forget(R))
      BY <2>1 DEF OnRelease
    <3>2. R \in SUBSET Calls
      BY <1>1, ReleasedTyped DEF StreamsOn, CallsOn, HostTypes
    <3>3. Gone \subseteq Gone' /\ R \in SUBSET Gone'
      BY <3>1, <3>2 DEF Gone, Revoked
    <3>4. Plain(Forget(R), Gone') /\ Forget(R) \in Seq(ToSandbox)
      BY <3>2, <3>3, PlainForget, ForgetTyped
    <3> QED BY <1>1, <1>2, <3>1, <3>3, <3>4, SendKeeps DEF Found, Queue
  <2>2. CASE h \notin handles
    <3>1. UNCHANGED <<owner, toSandbox>>
      BY <2>2 DEF OnRelease
    <3>2. Gone' = Gone
      BY <3>1 DEF Gone
    <3> QED BY <1>2, <3>1, <3>2, QueueKept DEF Found, Queue
  <2> QED BY <2>1, <2>2
<1>4. FunctionsKept'
  <2>1. \A k \in Calls : owner'[k] # "released" => owner[k] # "released"
    BY <1>3 DEF Gone
  <2> QED BY <1>1, <1>2, <2>1, FunctionsStay, BridgeAssumption DEF OnRelease, Found
<1> QED BY <1>3, <1>4 DEF Found, Queue

LEMMA QueueReturns ==
  ASSUME TypeOK, Queue, UNCHANGED functions, NEW c \in Calls,
         \/ Consent(c) \/ MethodThrows(c) \/ ReturnsLate(c) \/ ReturnsStream(c)
         \/ ReturnsHandle(c) \/ ReturnsValue(c) \/ ReturnsUnsendable(c)
  PROVE  Queue' /\ Gone \subseteq Gone'
<1>1. HostTypes /\ BoxTypes
  BY TypeParts
<1>2. CASE CallFails(c)
  BY <1>1, <1>2, CallFailsQueue
<1>3. CASE UNCHANGED <<owner, toSandbox>>
  <2>1. Gone' = Gone
    BY <1>3 DEF Gone
  <2> QED BY <1>3, <2>1, QueueKept
<1>4. CASE ReturnsStream(c)
  <2>1. Gone' = Gone
    BY <1>4 DEF ReturnsStream, Gone
  <2> QED BY <1>1, <1>4, <2>1, SendMsgKeeps DEF ReturnsStream
<1>5. CASE ReturnsHandle(c)
  <2>1. Gone \subseteq Gone'
    BY <1>1, <1>5 DEF ReturnsHandle, Register, Gone, HostTypes
  <2> QED BY <1>1, <1>5, <2>1, SendMsgKeeps DEF ReturnsHandle
<1>6. CASE ReturnsValue(c)
  BY <1>1, <1>6, MsgTyped, PlainMsg, EndCallsQueue DEF ReturnsValue
<1>7. CASE /\ owner' = Revoked({c} \cap WithFunction)
           /\ Send(Forget({c} \cap WithFunction) \o <<Msg("error", c)>>)
  <2>1. Gone \subseteq Gone' /\ {c} \cap WithFunction \in SUBSET Gone'
    BY <1>7 DEF Gone, Revoked
  <2>2. Plain(<<Msg("error", c)>>, Gone') /\ Plain(Forget({c} \cap WithFunction), Gone')
    BY <2>1, PlainMsg, PlainForget
  <2>3. <<Msg("error", c)>> \in Seq(ToSandbox) /\ Forget({c} \cap WithFunction) \in Seq(ToSandbox)
    BY MsgTyped, ForgetTyped
  <2>4. /\ Plain(Forget({c} \cap WithFunction) \o <<Msg("error", c)>>, Gone')
        /\ Forget({c} \cap WithFunction) \o <<Msg("error", c)>> \in Seq(ToSandbox)
    BY <2>2, <2>3, PlainConcat, ConcatProperties
  <2> QED BY <1>1, <1>7, <2>1, <2>4, SendKeeps
<1> QED BY <1>2, <1>3, <1>4, <1>5, <1>6, <1>7
        DEF Consent, MethodThrows, ReturnsLate, ReturnsUnsendable

LEMMA QueueStreams ==
  ASSUME TypeOK, Queue, UNCHANGED functions, NEW c \in Calls,
         LimitTimeout(c) \/ PullIsLate(c) \/ PullYields(c) \/ PullEnds(c) \/ PullFails(c)
  PROVE  Queue' /\ Gone \subseteq Gone'
<1>1. HostTypes /\ BoxTypes
  BY TypeParts
<1>2. ASSUME NEW t \in {"chunkError", "chunkDone"},
             CloseCall(c, <<Msg(t, c)>>) \/ EndCalls({c}, <<Msg(t, c)>>)
      PROVE  Queue' /\ Gone \subseteq Gone'
  BY <1>1, <1>2, MsgTyped, PlainMsg, CloseCallQueue, EndCallsQueue
<1>3. CASE UNCHANGED <<owner, toSandbox>>
  <2>1. Gone' = Gone
    BY <1>3 DEF Gone
  <2> QED BY <1>3, <2>1, QueueKept
<1>4. ASSUME NEW t \in {"chunk", "chunkHandle", "chunkError"}, Send(<<Msg(t, c)>>),
             UNCHANGED owner \/ Register(c)
      PROVE  Queue' /\ Gone \subseteq Gone'
  <2>1. Gone \subseteq Gone'
    BY <1>1, <1>4 DEF Register, Gone, HostTypes
  <2> QED BY <1>1, <1>4, <2>1, SendMsgKeeps
<1>5. CASE LimitTimeout(c)
  BY <1>2, <1>3, <1>5 DEF LimitTimeout, TimeoutChunk
<1>6. CASE PullIsLate(c)
  BY <1>3, <1>6 DEF PullIsLate
<1>7. CASE PullYields(c)
  BY <1>4, <1>7 DEF PullYields
<1>8. CASE PullEnds(c)
  BY <1>2, <1>8 DEF PullEnds
<1>9. CASE PullFails(c)
  BY <1>2, <1>4, <1>9 DEF PullFails
<1> QED BY <1>5, <1>6, <1>7, <1>8, <1>9

\* The host calls a function back only while the sandbox has it.
LEMMA QueueCallback ==
  ASSUME TypeOK, Found, NEW c \in Calls, CallsFunction(c)
  PROVE  Queue' /\ Gone \subseteq Gone'
<1>1. BoxTypes
  BY TypeParts
<1>2. UNCHANGED <<owner, functions>>
  BY DEF CallsFunction, hostVars, clientVars
<1>3. Gone' = Gone
  BY <1>2 DEF Gone
<1>4. CASE UNCHANGED toSandbox
  BY <1>2, <1>3, <1>4, QueueKept DEF Found, Queue
<1>5. CASE owner[c] # "released" /\ Send(<<Msg("bridgeCallback", c)>>)
  <2>1. c \in functions /\ c \notin Gone
    BY <1>5 DEF CallsFunction, Found, FunctionsKept, Gone
  <2>2. /\ Len(toSandbox) \in Nat /\ DOMAIN toSandbox = 1 .. Len(toSandbox)
        /\ DOMAIN toSandbox' = 1 .. (Len(toSandbox) + 1)
        /\ \A i \in DOMAIN toSandbox : toSandbox'[i] = toSandbox[i]
        /\ toSandbox'[Len(toSandbox) + 1] = Msg("bridgeCallback", c)
    <3>1. <<Msg("bridgeCallback", c)>> \in Seq(ToSandbox)
      BY MsgTyped
    <3> QED BY <1>1, <1>5, <3>1, ConcatProperties, LenProperties DEF BoxTypes, Send
  <2>3. ForgetsGone'
    BY <1>3, <2>2 DEF Found, ForgetsGone, Msg
  <2>4. ASSUME NEW i \in DOMAIN toSandbox', toSandbox'[i].type = "bridgeCallback"
        PROVE  /\ toSandbox'[i].id \in functions'
               /\ \A j \in 1 .. (i - 1) :
                    toSandbox'[j].type = "bridgeForget" => toSandbox'[i].id \notin toSandbox'[j].ids
    <3>1. \A j \in 1 .. (i - 1) : j \in DOMAIN toSandbox /\ toSandbox'[j] = toSandbox[j]
      BY <2>2
    <3>2. CASE i \in DOMAIN toSandbox
      BY <1>2, <2>2, <2>4, <3>1, <3>2 DEF Found, FunctionsAreFound
    <3>3. CASE i = Len(toSandbox) + 1
      <4>1. toSandbox'[i].id = c
        BY <2>2, <3>3 DEF Msg
      <4>2. \A j \in 1 .. (i - 1) : toSandbox'[j].type = "bridgeForget" => toSandbox'[j].ids \subseteq Gone
        BY <3>1 DEF Found, ForgetsGone
      <4> QED BY <1>2, <2>1, <4>1, <4>2
    <3> QED BY <2>2, <3>2, <3>3
  <2> QED BY <1>3, <2>3, <2>4 DEF Queue, FunctionsAreFound
<1> QED BY <1>4, <1>5 DEF CallsFunction

LEMMA FoundHostRuns ==
  ASSUME TypeOK, Found, NEW c \in Calls, HostRuns(c)
  PROVE  Found'
<1>1. HostTypes /\ BoxTypes
  BY TypeParts
<1>2. UNCHANGED <<functions, toHost>>
  BY DEF HostRuns, Consent, MethodThrows, LimitTimeout, ReturnsLate, ReturnsStream, ReturnsHandle,
         ReturnsValue, ReturnsUnsendable, PullIsLate, PullYields, PullEnds, PullFails,
         CallsFunction, clientVars
<1>3. Queue' /\ Gone \subseteq Gone'
  BY <1>2, QueueReturns, QueueStreams, QueueCallback DEF HostRuns, Found, Queue
<1>4. \A k \in Calls : task'[k] \notin {"none", "refused"} => task[k] \notin {"none", "refused"}
  BY <1>1 DEF HostRuns, Consent, MethodThrows, LimitTimeout, ReturnsLate, ReturnsStream,
              ReturnsHandle, ReturnsValue, ReturnsUnsendable, PullIsLate, PullYields, PullEnds,
              PullFails, CallsFunction, hostVars, CallFails, HostTypes
<1>5. \A k \in Calls : owner'[k] # "released" => owner[k] # "released"
  BY <1>3 DEF Gone
<1>6. FunctionsKept'
  BY <1>1, <1>2, <1>4, <1>5, FunctionsStay, BridgeAssumption DEF Found
<1> QED BY <1>3, <1>6 DEF Found, Queue

LEMMA FoundHostReceives ==
  ASSUME TypeOK, CallsOnce, Records, Found, NEW c \in Calls, HostReceives(c)
  PROVE  Found'
<1>1. HostTypes /\ BoxTypes
  BY TypeParts
<1>2. CASE OnAbort(c) \/ OnCancel(c)
  <2>1. functions' = functions /\ task' = task /\ \E t : Arrives(c, t)
    BY <1>2 DEF OnAbort, OnCancel, clientVars
  <2>2. CloseCall(c, <<>>) \/ UNCHANGED <<owner, toSandbox>>
    BY <1>2 DEF OnAbort, OnCancel
  <2>3. Queue' /\ Gone \subseteq Gone'
    <3>1. CASE CloseCall(c, <<>>)
      <4>1. <<>> \in Seq(ToSandbox) /\ \A R : Plain(<<>>, R)
        BY EmptySeq DEF Plain
      <4> QED BY <1>1, <2>1, <3>1, <4>1, CloseCallQueue DEF Found, Queue
    <3>2. CASE UNCHANGED <<owner, toSandbox>>
      <4>1. Gone' = Gone
        BY <3>2 DEF Gone
      <4> QED BY <2>1, <3>2, <4>1, QueueKept DEF Found, Queue
    <3> QED BY <2>2, <3>1, <3>2
  <2>4. \A k \in Calls : owner'[k] # "released" => owner[k] # "released"
    BY <2>3 DEF Gone
  <2>5. FunctionsKept'
    BY <1>1, <2>1, <2>4, FunctionsStay, BridgeAssumption DEF Found
  <2> QED BY <2>3, <2>5 DEF Found, Queue
<1>3. CASE OnPull(c) \/ OnCallbackResult(c)
  <2>1. UNCHANGED <<functions, task, owner, toSandbox>> /\ \E t : Arrives(c, t)
    BY <1>3 DEF OnPull, OnCallbackResult, hostVars, clientVars
  <2>2. Gone' = Gone
    BY <2>1 DEF Gone
  <2>3. Queue'
    BY <2>1, <2>2, QueueKept DEF Found, Queue
  <2>4. FunctionsKept'
    BY <1>1, <2>1, FunctionsStay DEF Found
  <2> QED BY <2>3, <2>4 DEF Found, Queue
<1> QED BY <1>2, <1>3, FoundOnCall, FoundOnRelease DEF HostReceives

LEMMA FoundSandboxRuns ==
  ASSUME TypeOK, Found, NEW c \in Calls, SandboxRuns(c)
  PROVE  Found'
<1>1. HostTypes /\ BoxTypes
  BY TypeParts
<1>2. UNCHANGED <<task, owner, toSandbox>> /\ functions \subseteq functions'
  BY DEF SandboxRuns, StartCall, AbortCall, CancelStream, PullStream, DestroyHandle,
         FunctionReturns, hostVars, clientVars
<1>3. Queue'
  BY <1>2, QueueSame DEF Found, Queue
<1>4. \/ UNCHANGED toHost
      \/ \E t \in {"bridgeAbort", "bridgeCancel", "bridgePull", "bridgeRelease",
                   "bridgeCallbackResult"} : Post(Msg(t, c))
      \/ Post(Msg("bridgeCall", c)) /\ (c \in WithFunction => c \in functions')
  BY DEF SandboxRuns, StartCall, AbortCall, CancelStream, PullStream, DestroyHandle, FunctionReturns
<1>5. \A i \in DOMAIN toHost' :
        \/ \E j \in DOMAIN toHost : toHost'[i] = toHost[j]
        \/ toHost'[i].type = "bridgeCall" /\ toHost'[i].id \in WithFunction
             => toHost'[i].id \in functions'
  <2>1. ASSUME NEW m, Post(m), NEW i \in DOMAIN toHost'
        PROVE  (i \in DOMAIN toHost /\ toHost'[i] = toHost[i]) \/ toHost'[i] = m
    BY <1>1, <2>1 DEF Post, BoxTypes
  <2> QED BY <1>4, <2>1 DEF Msg
<1>6. FunctionsKept'
  BY <1>2, <1>5 DEF Found, FunctionsKept
<1> QED BY <1>3, <1>6 DEF Found, Queue

LEMMA FoundSandboxReceives ==
  ASSUME TypeOK, CallsOnce, Records, Found, NEW c \in Calls, SandboxReceives(c)
  PROVE  Found'
<1>1. HostTypes /\ BoxTypes
  BY TypeParts
<1>2. /\ UNCHANGED <<task, owner>> /\ toSandbox # <<>> /\ toSandbox' = Tail(toSandbox)
      /\ \/ UNCHANGED functions
         \/ Head(toSandbox).type = "bridgeForget" /\ functions' = functions \ Head(toSandbox).ids
  BY DEF SandboxReceives, TakesResult, TakesChunk, TakesCallback, TakesForget, Reading,
         hostVars, clientVars
<1>3. Queue'
  BY <1>1, <1>2, QueueTail DEF Found, Queue
<1>4. functions \ Gone \subseteq functions'
  <2>1. Head(toSandbox).type = "bridgeForget" => Head(toSandbox).ids \subseteq Gone
    <3>1. 1 \in DOMAIN toSandbox /\ toSandbox[1] = Head(toSandbox)
      BY <1>1, <1>2, HeadTailProperties, EmptySeq, LenProperties DEF BoxTypes
    <3> QED BY <3>1 DEF Found, ForgetsGone
  <2> QED BY <1>2, <2>1
<1>5. UNCHANGED toHost \/ Post(Msg("bridgeCallbackResult", c))
  BY DEF SandboxReceives, TakesResult, TakesChunk, TakesCallback, TakesForget
<1>6. \A i \in DOMAIN toHost' :
        (\E j \in DOMAIN toHost : toHost'[i] = toHost[j]) \/ toHost'[i].type # "bridgeCall"
  BY <1>1, <1>5 DEF Post, Msg, BoxTypes
<1>7. \A j \in DOMAIN toHost : toHost[j].type = "bridgeCall" => toHost[j].id \notin Gone
  <2> SUFFICES ASSUME NEW j \in DOMAIN toHost, toHost[j].type = "bridgeCall"
               PROVE  toHost[j].id \notin Gone
    OBVIOUS
  <2>1. toHost[j].id \in Calls /\ task[toHost[j].id] = "none"
    BY <1>1, CallIds DEF CallsOnce
  <2> QED BY <2>1 DEF Records, Gone
<1>8. FunctionsKept'
  BY <1>2, <1>4, <1>6, <1>7, BridgeAssumption DEF Found, FunctionsKept, Gone
<1> QED BY <1>3, <1>8 DEF Found, Queue

LEMMA FoundNext ==
  ASSUME TypeOK, CallsOnce, Records, Found, [Next]_vars
  PROVE  Found'
<1>1. CASE Close
  <2>1. toHost' = <<>> /\ toSandbox' = <<>> /\ UNCHANGED <<task, owner, functions>>
    BY <1>1 DEF Close, clientVars
  <2> QED BY <2>1 DEF Found, FunctionsAreFound, ForgetsGone, FunctionsKept
<1>2. CASE UNCHANGED vars
  <2>1. UNCHANGED <<toHost, toSandbox, task, owner, functions>>
    BY <1>2 DEF vars, hostVars, clientVars
  <2> QED BY <2>1 DEF Found, FunctionsAreFound, ForgetsGone, FunctionsKept, Gone
<1> QED BY <1>1, <1>2, FoundHostRuns, FoundHostReceives, FoundSandboxRuns, FoundSandboxReceives
        DEF Next

-----------------------------------------------------------------------------
(* The invariant, and what follows from it.                                *)

IInv == TypeOK /\ CallsOnce /\ Kept /\ WithinMaxHandles /\ Found

LEMMA IInvInit == Init => IInv
<1> SUFFICES ASSUME Init PROVE IInv
  OBVIOUS
<1>1. CallsOnce /\ Kept
  BY BridgeAssumption DEF Init, CallsOnce, Kept, Records, LiveCalls, ObjectsFreedOnce, FunctionsLiveWithOwner
<1>2. WithinMaxHandles
  BY FS_EmptySet, BridgeAssumption DEF Init, WithinMaxHandles
<1>3. Found
  BY BridgeAssumption DEF Init, Found, FunctionsAreFound, ForgetsGone, FunctionsKept
<1> QED BY <1>1, <1>2, <1>3, TypeInit DEF IInv

LEMMA IInvNext == IInv /\ [Next]_vars => IInv'
BY TypeNext, OnceNext, KeptNext, HandlesNext, FoundNext DEF IInv, Kept

LEMMA IInvHolds == Spec => []IInv
BY IInvInit, IInvNext, PTL DEF Spec

\* The types of the session, the client and the messages: a timer or an open
\* stream always belongs to a record.
THEOREM BridgeTypeOK == Spec => []TypeOK
<1>1. IInv => TypeOK
  BY DEF IInv
<1> QED BY <1>1, IInvHolds, PTL

\* No interleaving registers more host objects than limits.maxHandles.
THEOREM BridgeWithinMaxHandles == Spec => []WithinMaxHandles
<1>1. IInv => WithinMaxHandles
  BY DEF IInv
<1> QED BY <1>1, IInvHolds, PTL

\* Every host object is registered, or was destroyed exactly once.
THEOREM BridgeFreesObjectsOnce == Spec => []ObjectsFreedOnce
<1>1. IInv => ObjectsFreedOnce
  BY DEF IInv, Kept
<1> QED BY <1>1, IInvHolds, PTL

\* A stream is open only on a live object, for a call that was not aborted.
THEOREM BridgeStreamsAreLive == Spec => []OpenStreamsAreLive
<1>1. IInv => OpenStreamsAreLive
  <2> SUFFICES ASSUME IInv, NEW c \in streams
               PROVE  c \notin aborted /\ (on[c] = Root \/ on[c] \in handles)
    BY DEF OpenStreamsAreLive
  <2>1. c \in calls /\ c \notin aborted
    BY TypeParts DEF IInv, Kept, LiveCalls, HostTypes
  <2> QED BY <2>1 DEF IInv, Kept, LiveCalls
<1> QED BY <1>1, IInvHolds, PTL

\* A sandbox function lives as long as what it was passed for.
THEOREM BridgeFunctionsLiveWithOwner == Spec => []FunctionsLiveWithOwner
<1>1. IInv => FunctionsLiveWithOwner
  BY DEF IInv, Kept
<1> QED BY <1>1, IInvHolds, PTL

\* A reverse call never reaches a sandbox that has let go of the function.
THEOREM BridgeFunctionsAreFound == Spec => []FunctionsAreFound
<1>1. IInv => FunctionsAreFound
  BY DEF IInv, Found
<1> QED BY <1>1, IInvHolds, PTL
=============================================================================
