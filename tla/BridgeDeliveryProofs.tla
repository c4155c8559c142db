------------------------ MODULE BridgeDeliveryProofs ------------------------
(***************************************************************************)
(* Nothing a bridge session owes the other side is lost: what an answer, a *)
(* released function or an abort has to tell it is told, or the message    *)
(* that tells it is under way.  With the delivery of messages that is all  *)
(* the liveness of a session rests on.  And the session, with what is on   *)
(* its way between the two sides, keeps the contract of BridgeContract.    *)
(***************************************************************************)
EXTENDS BridgeProofs

Ended == {"refused", "done"}
Final == {"value", "handle", "error", "chunkDone", "chunkError"}
LastChunk == {"chunkDone", "chunkError"}
ObjectMsg == {"handle", "chunkHandle"}

Forgets(m, c) == m.type = "bridgeForget" /\ c \in m.ids

\* The messages by which the sandbox gives up a call of h, and c in particular.
EndsCallOn(m, c, h) ==
  \/ m.type \in {"bridgeAbort", "bridgeCancel"} /\ m.id = c
  \/ m.type = "bridgeRelease" /\ m.id = h
EndsCall(m, c) == EndsCallOn(m, c, on[c])

\* A call the host is done with and the sandbox waits for has its answer, or
\* the end of its stream, under way (bridge-host.mjs:542, bridge-client.mjs:443).
AnswersUnderWay ==
  ~closed => \A c \in Calls :
    call[c] = "open" /\ task[c] \in Ended /\ c \notin streams =>
      \E i \in DOMAIN toSandbox : toSandbox[i].type \in Final /\ toSandbox[i].id = c

\* A function the host has let go and the sandbox keeps is on a list under way.
ForgetsUnderWay ==
  ~closed => \A c \in functions : owner[c] = "released" =>
    \E i \in DOMAIN toSandbox : Forgets(toSandbox[i], c)

\* A call the sandbox has given up is unknown to the host, aborted there, or a
\* message that ends it is under way, behind the call itself.
AbortsUnderWay ==
  \A c \in Calls : call[c] = "settled" =>
    /\ c \in calls \ aborted => \E i \in DOMAIN toHost : EndsCall(toHost[i], c)
    /\ \A i \in DOMAIN toHost : toHost[i] = Msg("bridgeCall", c) =>
         \E j \in DOMAIN toHost : j > i /\ EndsCall(toHost[j], c)

\* The sandbox reads an open stream, or hears of it before it hears of its end.
StreamsAnnounced ==
  ~closed => \A c \in Calls : call[c] = "open" /\ reader[c] # "open" =>
    /\ c \in streams => \E i \in DOMAIN toSandbox : toSandbox[i] = Msg("stream", c)
    /\ \A i \in DOMAIN toSandbox : toSandbox[i].type \in LastChunk /\ toSandbox[i].id = c =>
         \E j \in DOMAIN toSandbox : j < i /\ toSandbox[j] = Msg("stream", c)

\* Only what the sandbox has given up loses its record before it is answered.
OpenCallsHaveRecords ==
  ~closed => \A c \in Calls :
    call[c] = "open" /\ task[c] \in {"consent", "method"} => c \in calls

\* What ends a call or an object was ended in the sandbox; a cancelled stream
\* was open.
EndsAreMeant ==
  \A i \in DOMAIN toHost :
    /\ toHost[i].type \in {"bridgeAbort", "bridgeCancel"} => call[toHost[i].id] = "settled"
    /\ toHost[i].type = "bridgeCancel" => task[toHost[i].id] = "done"
    /\ toHost[i].type = "bridgeRelease" => object[toHost[i].id] = "destroyed"

NoCallsOnDestroyed == \A c \in Calls : call[c] = "open" => HandleState(on[c]) = "live"

\* The sandbox hears of an object once, so a destroyed one stays destroyed.
ObjectsComeOnce ==
  /\ \A c \in Calls : object[c] # "none" => c \in made
  /\ \A i \in DOMAIN toSandbox : toSandbox[i].type \in ObjectMsg =>
       /\ toSandbox[i].id \in made /\ object[toSandbox[i].id] = "none"
       /\ \A j \in DOMAIN toSandbox :
            toSandbox[j].type \in ObjectMsg /\ toSandbox[j].id = toSandbox[i].id => j = i

\* The host is done with a call whose answer is under way.
AnswersAreLast ==
  /\ \A c \in Calls : reader[c] = "open" => task[c] = "done"
  /\ \A i \in DOMAIN toSandbox :
       /\ toSandbox[i].type = "stream" => task[toSandbox[i].id] = "done"
       /\ toSandbox[i].type \in Final =>
            task[toSandbox[i].id] \in Ended /\ toSandbox[i].id \notin calls

UnderWay == AnswersUnderWay /\ ForgetsUnderWay /\ AbortsUnderWay

UnderWayInv ==
  /\ UnderWay
  /\ StreamsAnnounced /\ OpenCallsHaveRecords /\ EndsAreMeant
  /\ NoCallsOnDestroyed /\ ObjectsComeOnce /\ AnswersAreLast

-----------------------------------------------------------------------------
(* What a step of the host sends.                                          *)

\* msgs are the messages of M, one of a type, and one that lets S go, if any.
Contents(msgs, M, S) ==
  /\ \A i \in DOMAIN msgs : msgs[i] \in M \/ msgs[i].type = "bridgeForget"
  /\ \A m \in M : \E i \in DOMAIN msgs : msgs[i] = m
  /\ S # {} => \E i \in DOMAIN msgs : msgs[i] = [type |-> "bridgeForget", ids |-> S]
  /\ \A i, j \in DOMAIN msgs : msgs[i].type = msgs[j].type => i = j

HostSends(M, S) == \E msgs \in Seq(ToSandbox) : Send(msgs) /\ Contents(msgs, M, S)

Answers == {"value", "handle", "stream", "error", "bridgeCallback",
            "chunk", "chunkHandle", "chunkDone", "chunkError"}

LEMMA ForgetContents ==
  ASSUME NEW S \in SUBSET Calls
  PROVE  Forget(S) \in Seq(ToSandbox) /\ Contents(Forget(S), {}, S)
<1>1. Contents(Forget(S), {}, S)
  BY DEF Contents, Forget
<1> QED BY <1>1, ForgetTyped

LEMMA MsgContents ==
  ASSUME NEW t \in Answers, NEW c \in Calls
  PROVE  <<Msg(t, c)>> \in Seq(ToSandbox) /\ Contents(<<Msg(t, c)>>, {Msg(t, c)}, {})
<1>1. Contents(<<Msg(t, c)>>, {Msg(t, c)}, {})
  BY DEF Contents
<1> QED BY <1>1, MsgTyped DEF Answers

LEMMA TwoMessages ==
  ASSUME NEW a \in ToSandbox, NEW b \in ToSandbox, NEW q, q = <<a>> \o <<b>>
  PROVE  q \in Seq(ToSandbox) /\ DOMAIN q = {1, 2} /\ q[1] = a /\ q[2] = b
<1>1. /\ <<a>> \in Seq(ToSandbox) /\ <<b>> \in Seq(ToSandbox)
      /\ Len(<<a>>) = 1 /\ Len(<<b>>) = 1
  OBVIOUS
<1>2. /\ <<a>> \o <<b>> \in Seq(ToSandbox) /\ Len(<<a>> \o <<b>>) = 2
      /\ (<<a>> \o <<b>>)[1] = <<a>>[1] /\ (<<a>> \o <<b>>)[2] = <<b>>[1]
  BY <1>1, ConcatProperties
<1>3. DOMAIN (<<a>> \o <<b>>) = 1 .. 2
  BY <1>2, LenProperties
<1> QED BY <1>2, <1>3

LEMMA PairContents ==
  ASSUME NEW q, NEW m, NEW S, NEW f, m.type # "bridgeForget", DOMAIN q = {1, 2},
         f = [type |-> "bridgeForget", ids |-> S],
         \/ q[1] = m /\ q[2] = f
         \/ q[1] = f /\ q[2] = m
  PROVE  Contents(q, {m}, S)
<1>1. f.type = "bridgeForget"
  OBVIOUS
<1>2. \A i \in DOMAIN q : q[i] \in {m} \/ q[i].type = "bridgeForget"
  BY <1>1
<1>3. (\E i \in DOMAIN q : q[i] = m) /\ (\E i \in DOMAIN q : q[i] = f)
  OBVIOUS
<1>4. \A i, j \in DOMAIN q : q[i].type = q[j].type => i = j
  BY <1>1
<1> QED BY <1>2, <1>3, <1>4 DEF Contents

\* An answer and a list of functions, in either order.
LEMMA BothContents ==
  ASSUME NEW t \in Answers, NEW c \in Calls, NEW S \in SUBSET Calls
  PROVE  /\ <<Msg(t, c)>> \o Forget(S) \in Seq(ToSandbox)
         /\ Contents(<<Msg(t, c)>> \o Forget(S), {Msg(t, c)}, S)
         /\ Forget(S) \o <<Msg(t, c)>> \in Seq(ToSandbox)
         /\ Contents(Forget(S) \o <<Msg(t, c)>>, {Msg(t, c)}, S)
<1>1. CASE S = {}
  <2>1. Forget(S) = <<>>
    BY <1>1 DEF Forget
  <2>2. <<Msg(t, c)>> \o <<>> = <<Msg(t, c)>> /\ <<>> \o <<Msg(t, c)>> = <<Msg(t, c)>>
    BY MsgContents, ConcatEmptySeq
  <2> QED BY <1>1, <2>1, <2>2, MsgContents
<1>2. CASE S # {}
  <2> DEFINE F == [type |-> "bridgeForget", ids |-> S]
  <2>1. Forget(S) = <<F>>
    BY <1>2 DEF Forget
  <2>2. Msg(t, c) \in ToSandbox /\ F \in ToSandbox
    BY DEF Msg, ToSandbox, CallMsg, Answers
  <2>3. Msg(t, c).type # "bridgeForget"
    BY DEF Msg, Answers
  <2> HIDE DEF F
  <2>4. F.type = "bridgeForget" /\ F = [type |-> "bridgeForget", ids |-> S]
    BY DEF F
  <2>5. ASSUME NEW q, q = <<Msg(t, c)>> \o <<F>> \/ q = <<F>> \o <<Msg(t, c)>>
        PROVE  q \in Seq(ToSandbox) /\ Contents(q, {Msg(t, c)}, S)
    <3>1. /\ q \in Seq(ToSandbox) /\ DOMAIN q = {1, 2}
          /\ \/ q[1] = Msg(t, c) /\ q[2] = F
             \/ q[1] = F /\ q[2] = Msg(t, c)
      <4>1. CASE q = <<Msg(t, c)>> \o <<F>>
        BY <2>2, <4>1, TwoMessages
      <4>2. CASE q = <<F>> \o <<Msg(t, c)>>
        BY <2>2, <4>2, TwoMessages
      <4> QED BY <2>5, <4>1, <4>2
    <3>2. Contents(q, {Msg(t, c)}, S)
      BY <2>3, <2>4, <3>1, PairContents
    <3> QED BY <3>1, <3>2
  <2>6. Forget(S) = <<F>>
    BY <2>1 DEF F
  <2> QED BY <2>5, <2>6
<1> QED BY <1>1, <1>2

LEMMA SendsNothing == ASSUME BoxTypes, UNCHANGED toSandbox PROVE HostSends({}, {})
<1>1. Send(<<>>)
  BY ConcatEmptySeq DEF Send, BoxTypes
<1>2. <<>> \in Seq(ToSandbox) /\ Contents(<<>>, {}, {})
  BY EmptySeq DEF Contents
<1> QED BY <1>1, <1>2 DEF HostSends

LEMMA SendsMsg ==
  ASSUME NEW t \in Answers, NEW c \in Calls, Send(<<Msg(t, c)>>)
  PROVE  HostSends({Msg(t, c)}, {})
BY MsgContents DEF HostSends

LEMMA EndSends ==
  ASSUME HostTypes, NEW c \in Calls, NEW t \in Answers, EndCalls({c}, <<Msg(t, c)>>)
  PROVE  HostSends({Msg(t, c)}, Released({c}, {}))
<1>1. Released({c}, {}) \in SUBSET Calls
  BY ReleasedTyped
<1> QED BY <1>1, BothContents DEF HostSends, EndCalls

LEMMA CloseSends ==
  ASSUME HostTypes, BoxTypes, NEW c \in Calls, EndCalls({c}, <<>>)
  PROVE  HostSends({}, Released({c}, {}))
<1>1. Released({c}, {}) \in SUBSET Calls
  BY ReleasedTyped
<1>2. <<>> \o Forget(Released({c}, {})) = Forget(Released({c}, {}))
  BY <1>1, ForgetContents, ConcatEmptySeq
<1> QED BY <1>1, <1>2, ForgetContents DEF HostSends, EndCalls

-----------------------------------------------------------------------------
(* What a step of the host does to the calls it answers or gives up.       *)

\* The message that arrives ends k.
HeadEnds(k) == toHost # <<>> /\ EndsCall(Head(toHost), k)

Working == {"consent", "method"}

\* Whatever the host lets go or is done with, it tells; or it was told.
HostTells(M, S) ==
  /\ \A k \in Calls : owner'[k] = "released" => owner[k] = "released" \/ k \in S
  /\ \A k \in Calls : task'[k] \in Ended /\ k \notin streams' =>
       \/ task[k] \in Ended /\ k \notin streams
       \/ \E m \in M : m.type \in Final /\ m.id = k
       \/ task[k] \in Working /\ k \notin calls
       \/ HeadEnds(k)
  /\ \A k \in Calls : task'[k] \in Working /\ k \notin calls' =>
       \/ task[k] \in Working /\ k \notin calls
       \/ HeadEnds(k)
  /\ \A k \in streams' : k \in streams \/ Msg("stream", k) \in M

\* What it tells is so, and stays so.
HostMeans(M) ==
  /\ \A k \in Calls : task[k] \in Ended => task'[k] = task[k]
  /\ \A k \in calls' : k \in calls \/ task[k] = "none"
  /\ made \subseteq made'
  /\ \A m, n \in M : m = n
  /\ \A m \in M : m.type \in Answers /\ m.id \in Calls
  /\ \A m \in M : m.type = "stream" => task'[m.id] = "done"
  /\ \A m \in M : m.type \in Final => task'[m.id] \in Ended /\ m.id \notin calls'
  /\ \A m \in M : m.type \in LastChunk => m.id \in streams
  /\ \A m \in M : m.type \in ObjectMsg => m.id \notin made /\ m.id \in made' /\ m.id \in handles'
  /\ \A m \in M : m.type = "stream" => Kind[m.id] = "stream"
  /\ \A m \in M : m.type = "bridgeCallback" => proxy[m.id] = "none" /\ proxy'[m.id] = "sent"

HostFacts(M, S) == HostSends(M, S) /\ HostTells(M, S) /\ HostMeans(M)

LEMMA FailsFacts ==
  ASSUME TypeOK, Records, NEW c \in Calls, task[c] \in Working, CallFails(c),
         made \subseteq made', UNCHANGED streams
  PROVE  \E M, S : HostFacts(M, S)
<1>1. HostTypes /\ BoxTypes
  BY TypeParts
<1>2. task' = [task EXCEPT ![c] = "done"] /\ c \notin streams
  BY DEF CallFails, Records, Working
<1>3. CASE c \in calls /\ EndCalls({c}, <<Msg("error", c)>>)
  <2>1. HostSends({Msg("error", c)}, Released({c}, {}))
    BY <1>1, <1>3, EndSends DEF Answers
  <2>2. HostTells({Msg("error", c)}, Released({c}, {}))
    BY <1>1, <1>2, <1>3 DEF HostTells, EndCalls, Revoked, Released, HostTypes, Ended, Working, Final, Msg
  <2>3. HostMeans({Msg("error", c)})
    BY <1>1, <1>2, <1>3 DEF HostMeans, EndCalls, HostTypes, Ended, Working, Final, LastChunk, ObjectMsg,
                            Msg, Answers
  <2> QED BY <2>1, <2>2, <2>3 DEF HostFacts
<1>4. CASE c \notin calls /\ UNCHANGED <<calls, timers, owner, toSandbox>>
  <2>1. HostSends({}, {})
    BY <1>1, <1>4, SendsNothing
  <2>2. HostTells({}, {})
    BY <1>1, <1>2, <1>4 DEF HostTells, HostTypes, Ended, Working
  <2>3. HostMeans({})
    BY <1>1, <1>2, <1>4 DEF HostMeans, HostTypes, Ended, Working
  <2> QED BY <2>1, <2>2, <2>3 DEF HostFacts
<1> QED BY <1>3, <1>4 DEF CallFails

LEMMA ReturnsFacts ==
  ASSUME TypeOK, Records, NEW c \in Calls,
         \/ Consent(c) \/ MethodThrows(c) \/ ReturnsLate(c) \/ ReturnsStream(c)
         \/ ReturnsHandle(c) \/ ReturnsValue(c) \/ ReturnsUnsendable(c)
  PROVE  \E M, S : HostFacts(M, S)
<1>1. HostTypes /\ BoxTypes
  BY TypeParts
<1>2. task[c] \in Working /\ c \notin streams /\ c \notin made /\ UNCHANGED aborted /\ made \subseteq made'
  BY DEF Consent, MethodThrows, ReturnsLate, ReturnsStream, ReturnsHandle, ReturnsValue,
         ReturnsUnsendable, Register, Records, Working
<1>3. CASE CallFails(c) /\ UNCHANGED streams
  BY <1>2, <1>3, FailsFacts
<1>4. CASE task' = [task EXCEPT ![c] = "method"] /\ UNCHANGED <<calls, owner, toSandbox, streams>>
  <2>1. HostSends({}, {})
    BY <1>1, <1>4, SendsNothing
  <2>2. HostTells({}, {})
    BY <1>1, <1>2, <1>4 DEF HostTells, HostTypes, Ended, Working
  <2>3. HostMeans({})
    BY <1>1, <1>2, <1>4 DEF HostMeans, HostTypes, Ended, Working
  <2> QED BY <2>1, <2>2, <2>3 DEF HostFacts
<1>5. CASE ReturnsStream(c)
  <2>1. HostSends({Msg("stream", c)}, {})
    BY <1>5, SendsMsg DEF ReturnsStream, Answers
  <2>2. HostTells({Msg("stream", c)}, {})
    BY <1>1, <1>2, <1>5 DEF ReturnsStream, HostTells, HostTypes, Ended, Working, Msg
  <2>3. HostMeans({Msg("stream", c)})
    BY <1>1, <1>2, <1>5 DEF ReturnsStream, HostMeans, HostTypes, Ended, Working, Final, LastChunk,
                            ObjectMsg, Msg, Answers
  <2> QED BY <2>1, <2>2, <2>3 DEF HostFacts
<1>6. CASE ReturnsHandle(c)
  <2>1. HostSends({Msg("handle", c)}, {})
    BY <1>6, SendsMsg DEF ReturnsHandle, Answers
  <2>2. HostTells({Msg("handle", c)}, {})
    BY <1>1, <1>2, <1>6 DEF ReturnsHandle, Register, HostTells, HostTypes, Ended, Working, Final, Msg
  <2>3. HostMeans({Msg("handle", c)})
    BY <1>1, <1>2, <1>6 DEF ReturnsHandle, Register, HostMeans, HostTypes, Ended, Working, Final,
                            LastChunk, ObjectMsg, Msg, Answers
  <2> QED BY <2>1, <2>2, <2>3 DEF HostFacts
<1>7. CASE ReturnsValue(c)
  <2>1. HostSends({Msg("value", c)}, Released({c}, {}))
    BY <1>1, <1>7, EndSends DEF ReturnsValue, Answers
  <2>2. HostTells({Msg("value", c)}, Released({c}, {}))
    BY <1>1, <1>2, <1>7 DEF ReturnsValue, HostTells, EndCalls, Revoked, Released, HostTypes, Ended,
                            Working, Final, Msg
  <2>3. HostMeans({Msg("value", c)})
    BY <1>1, <1>2, <1>7 DEF ReturnsValue, HostMeans, EndCalls, HostTypes, Ended, Working, Final,
                            LastChunk, ObjectMsg, Msg, Answers
  <2> QED BY <2>1, <2>2, <2>3 DEF HostFacts
<1>8. CASE /\ task' = [task EXCEPT ![c] = "done"] /\ calls' = calls \ {c} /\ UNCHANGED streams
           /\ owner' = Revoked({c} \cap WithFunction)
           /\ Send(Forget({c} \cap WithFunction) \o <<Msg("error", c)>>)
  <2>1. HostSends({Msg("error", c)}, {c} \cap WithFunction)
    BY <1>8, BothContents DEF HostSends, Answers
  <2>2. HostTells({Msg("error", c)}, {c} \cap WithFunction)
    BY <1>1, <1>2, <1>8 DEF HostTells, Revoked, HostTypes, Ended, Working, Final, Msg
  <2>3. HostMeans({Msg("error", c)})
    BY <1>1, <1>2, <1>8 DEF HostMeans, HostTypes, Ended, Working, Final, LastChunk, ObjectMsg, Msg,
                            Answers
  <2> QED BY <2>1, <2>2, <2>3 DEF HostFacts
<1>9. CASE Consent(c)
  BY <1>3, <1>4, <1>9 DEF Consent
<1>10. CASE MethodThrows(c)
  BY <1>3, <1>10 DEF MethodThrows
<1>11. CASE ReturnsLate(c)
  BY <1>3, <1>11 DEF ReturnsLate
<1>12. CASE ReturnsUnsendable(c)
  BY <1>3, <1>8, <1>12 DEF ReturnsUnsendable
<1> QED BY <1>5, <1>6, <1>7, <1>9, <1>10, <1>11, <1>12

LEMMA StreamsFacts ==
  ASSUME TypeOK, Records, NEW c \in Calls,
         LimitTimeout(c) \/ PullIsLate(c) \/ PullYields(c) \/ PullEnds(c) \/ PullFails(c)
  PROVE  \E M, S : HostFacts(M, S)
<1>1. HostTypes /\ BoxTypes
  BY TypeParts
<1>2. task' = task
  BY DEF LimitTimeout, PullIsLate, PullYields, PullEnds, PullFails
<1>3. ASSUME NEW t \in LastChunk, EndCalls({c}, <<Msg(t, c)>>), c \in streams,
             streams' = streams \ {c}, made \subseteq made'
      PROVE  \E M, S : HostFacts(M, S)
  <2>1. HostSends({Msg(t, c)}, Released({c}, {}))
    BY <1>1, <1>3, EndSends DEF Answers, LastChunk
  <2>2. HostTells({Msg(t, c)}, Released({c}, {}))
    BY <1>1, <1>2, <1>3 DEF HostTells, EndCalls, Revoked, Released, HostTypes, Ended, Working, Final,
                            LastChunk, Msg, Records
  <2>3. HostMeans({Msg(t, c)})
    BY <1>1, <1>2, <1>3 DEF HostMeans, EndCalls, HostTypes, Ended, Final, LastChunk, ObjectMsg, Msg,
                            Answers, Records
  <2> QED BY <2>1, <2>2, <2>3 DEF HostFacts
<1>4. CASE UNCHANGED <<calls, owner, streams, made, toSandbox>>
  <2>1. HostSends({}, {})
    BY <1>1, <1>4, SendsNothing
  <2>2. HostTells({}, {}) /\ HostMeans({})
    BY <1>1, <1>2, <1>4 DEF HostTells, HostMeans, HostTypes
  <2> QED BY <2>1, <2>2 DEF HostFacts
<1>5. CASE LimitTimeout(c)
  BY <1>3, <1>4, <1>5 DEF LimitTimeout, CloseCall, TimeoutChunk, LastChunk
<1>6. CASE PullIsLate(c)
  BY <1>4, <1>6 DEF PullIsLate
<1>7. CASE PullEnds(c)
  BY <1>3, <1>7 DEF PullEnds, LastChunk
<1>8. ASSUME NEW t \in {"chunk", "chunkHandle", "chunkError"}, Send(<<Msg(t, c)>>), c \in streams,
             \/ UNCHANGED <<owner, made>> /\ t # "chunkHandle"
             \/ Register(c) /\ c \notin made,
             IF t = "chunkError" THEN calls' = calls \ {c} /\ streams' = streams \ {c}
                                 ELSE UNCHANGED <<calls, streams>>
      PROVE  \E M, S : HostFacts(M, S)
  <2>1. HostSends({Msg(t, c)}, {})
    BY <1>8, SendsMsg DEF Answers
  <2>2. HostTells({Msg(t, c)}, {})
    BY <1>1, <1>2, <1>8 DEF HostTells, Register, HostTypes, Ended, Working, Final, Msg, Records
  <2>3. HostMeans({Msg(t, c)})
    BY <1>1, <1>2, <1>8 DEF HostMeans, Register, HostTypes, Ended, Final, LastChunk, ObjectMsg, Msg,
                            Answers, Records
  <2> QED BY <2>1, <2>2, <2>3 DEF HostFacts
<1>9. CASE PullYields(c)
  BY <1>8, <1>9 DEF PullYields
<1>10. CASE PullFails(c)
  BY <1>3, <1>8, <1>10 DEF PullFails, CloseCall, LastChunk
<1> QED BY <1>5, <1>6, <1>7, <1>9, <1>10

LEMMA CallbackFacts ==
  ASSUME TypeOK, NEW c \in Calls, CallsFunction(c)
  PROVE  \E M, S : HostFacts(M, S)
<1>1. HostTypes /\ BoxTypes
  BY TypeParts
<1>2. UNCHANGED <<task, calls, owner, streams, made>> /\ proxy[c] = "none"
  BY DEF CallsFunction, hostVars
<1>3. CASE UNCHANGED toSandbox
  <2>1. HostSends({}, {})
    BY <1>1, <1>3, SendsNothing
  <2>2. HostTells({}, {}) /\ HostMeans({})
    BY <1>1, <1>2 DEF HostTells, HostMeans, HostTypes
  <2> QED BY <2>1, <2>2 DEF HostFacts
<1>4. CASE proxy' = [proxy EXCEPT ![c] = "sent"] /\ Send(<<Msg("bridgeCallback", c)>>)
  <2>1. HostSends({Msg("bridgeCallback", c)}, {})
    BY <1>4, SendsMsg DEF Answers
  <2>2. proxy'[c] = "sent"
    BY <1>4, TypeParts DEF ProxyTypes
  <2>3. HostTells({Msg("bridgeCallback", c)}, {}) /\ HostMeans({Msg("bridgeCallback", c)})
    BY <1>1, <1>2, <2>2 DEF HostTells, HostMeans, HostTypes, Final, LastChunk, ObjectMsg, Msg, Answers
  <2> QED BY <2>1, <2>3 DEF HostFacts
<1> QED BY <1>3, <1>4 DEF CallsFunction

LEMMA OnCallFacts ==
  ASSUME TypeOK, CallsOnce, Records, NEW c \in Calls, OnCall(c)
  PROVE  \E M, S : HostFacts(M, S)
<1>1. HostTypes /\ BoxTypes
  BY TypeParts
<1>2. task[c] = "none" /\ owner[c] = "none" /\ c \notin calls /\ c \notin streams
  BY <1>1, ArrivingIsNew DEF OnCall, Records
<1>3. UNCHANGED <<streams, made>>
  BY DEF OnCall
<1>4. ASSUME NEW S \in SUBSET Calls, HostSends({Msg("error", c)}, S), calls' = calls,
             task' = [task EXCEPT ![c] = "refused"],
             \A k \in Calls : owner'[k] = "released" => owner[k] = "released" \/ k \in S
      PROVE  \E M, R : HostFacts(M, R)
  <2>1. HostTells({Msg("error", c)}, S)
    BY <1>1, <1>2, <1>3, <1>4 DEF HostTells, HostTypes, Ended, Working, Final, Msg
  <2>2. HostMeans({Msg("error", c)})
    BY <1>1, <1>2, <1>3, <1>4 DEF HostMeans, HostTypes, Ended, Final, LastChunk, ObjectMsg, Msg, Answers
  <2> QED BY <1>4, <2>1, <2>2 DEF HostFacts
<1>5. CASE /\ Send(<<Msg("error", c)>>)
           /\ task' = [task EXCEPT ![c] = "refused"] /\ UNCHANGED <<calls, timers, owner>>
  <2>1. HostSends({Msg("error", c)}, {})
    BY <1>5, SendsMsg DEF Answers
  <2> QED BY <1>4, <1>5, <2>1
<1>6. CASE /\ owner' = [owner EXCEPT ![c] = IF c \in WithFunction THEN "released" ELSE @]
           /\ Send(<<Msg("error", c)>> \o Forget({c} \cap WithFunction))
           /\ task' = [task EXCEPT ![c] = "refused"] /\ UNCHANGED <<calls, timers>>
  <2>1. HostSends({Msg("error", c)}, {c} \cap WithFunction)
    BY <1>6, BothContents DEF HostSends, Answers
  <2>2. \A k \in Calls : owner'[k] = "released" => owner[k] = "released" \/ k \in {c} \cap WithFunction
    BY <1>1, <1>2, <1>6 DEF HostTypes
  <2> QED BY <1>4, <1>6, <2>1, <2>2
<1>7. CASE /\ calls' = calls \cup {c} /\ task' = [task EXCEPT ![c] = "consent"]
           /\ owner' = [owner EXCEPT ![c] = IF c \in WithFunction THEN "call" ELSE @]
           /\ UNCHANGED toSandbox
  <2>1. HostSends({}, {})
    BY <1>1, <1>7, SendsNothing
  <2>2. HostTells({}, {})
    BY <1>1, <1>2, <1>3, <1>7 DEF HostTells, HostTypes, Ended, Working
  <2>3. HostMeans({})
    BY <1>1, <1>2, <1>3, <1>7 DEF HostMeans, HostTypes, Ended
  <2> QED BY <2>1, <2>2, <2>3 DEF HostFacts
<1> QED BY <1>5, <1>6, <1>7 DEF OnCall

\* An abort or a cancel, of a call that is known or not.
LEMMA OnAbortFacts ==
  ASSUME TypeOK, Records, NEW c \in Calls, OnAbort(c) \/ OnCancel(c)
  PROVE  \E M, S : HostFacts(M, S)
<1>1. HostTypes /\ BoxTypes
  BY TypeParts
<1>2. UNCHANGED <<task, made>> /\ HeadEnds(c)
  BY DEF OnAbort, OnCancel, Arrives, HeadEnds, EndsCall, EndsCallOn, Msg
<1>3. CASE CloseCall(c, <<>>)
  <2>1. HostSends({}, Released({c}, {}))
    BY <1>1, <1>3, CloseSends DEF CloseCall
  <2>2. HostTells({}, Released({c}, {}))
    BY <1>1, <1>2, <1>3 DEF HostTells, CloseCall, EndCalls, Revoked, Released, HostTypes
  <2>3. HostMeans({})
    BY <1>1, <1>2, <1>3 DEF HostMeans, CloseCall, EndCalls, HostTypes
  <2> QED BY <2>1, <2>2, <2>3 DEF HostFacts
<1>4. CASE UNCHANGED <<calls, owner, streams, toSandbox>>
  <2>1. HostSends({}, {})
    BY <1>1, <1>4, SendsNothing
  <2>2. HostTells({}, {}) /\ HostMeans({})
    BY <1>1, <1>2, <1>4 DEF HostTells, HostMeans, HostTypes
  <2> QED BY <2>1, <2>2 DEF HostFacts
<1> QED BY <1>3, <1>4 DEF OnAbort, OnCancel

LEMMA OnReleaseFacts ==
  ASSUME TypeOK, Records, NEW h \in Calls, OnRelease(h)
  PROVE  \E M, S : HostFacts(M, S)
<1>1. HostTypes /\ BoxTypes
  BY TypeParts
<1>2. UNCHANGED <<task, made>> /\ \A k \in StreamsOn(h) : HeadEnds(k)
  BY DEF OnRelease, Arrives, HeadEnds, EndsCall, EndsCallOn, Msg, StreamsOn, CallsOn
<1>3. CASE h \in handles
  <2> DEFINE R == Released(StreamsOn(h), {h})
  <2>1. /\ calls' = calls \ StreamsOn(h) /\ streams' = streams \ StreamsOn(h)
        /\ owner' = Revoked(R) /\ Send(Forget(R)) /\ R \in SUBSET Calls
    BY <1>1, <1>3, ReleasedTyped DEF OnRelease, StreamsOn, CallsOn, HostTypes
  <2> HIDE DEF R
  <2>2. HostSends({}, R)
    BY <2>1, ForgetContents DEF HostSends
  <2>3. HostTells({}, R)
    BY <1>1, <1>2, <2>1 DEF HostTells, Revoked, HostTypes
  <2>4. HostMeans({})
    BY <1>1, <1>2, <2>1 DEF HostMeans, HostTypes
  <2> QED BY <2>2, <2>3, <2>4 DEF HostFacts
<1>4. CASE UNCHANGED <<calls, owner, streams, toSandbox>>
  <2>1. HostSends({}, {})
    BY <1>1, <1>4, SendsNothing
  <2>2. HostTells({}, {}) /\ HostMeans({})
    BY <1>1, <1>2, <1>4 DEF HostTells, HostMeans, HostTypes
  <2> QED BY <2>1, <2>2 DEF HostFacts
<1> QED BY <1>3, <1>4 DEF OnRelease

LEMMA HostStepFacts ==
  ASSUME TypeOK, CallsOnce, Records, NEW c \in Calls, HostReceives(c) \/ HostRuns(c)
  PROVE  \E M, S : HostFacts(M, S)
<1>1. CASE OnPull(c) \/ OnCallbackResult(c)
  <2>1. UNCHANGED <<task, calls, owner, streams, made, toSandbox>>
    BY <1>1 DEF OnPull, OnCallbackResult, hostVars
  <2>2. HostSends({}, {})
    BY <2>1, SendsNothing, TypeParts
  <2>3. HostTells({}, {}) /\ HostMeans({})
    BY <2>1, TypeParts DEF HostTells, HostMeans, HostTypes
  <2> QED BY <2>2, <2>3 DEF HostFacts
<1> QED BY <1>1, ReturnsFacts, StreamsFacts, CallbackFacts, OnCallFacts, OnAbortFacts, OnReleaseFacts
        DEF HostReceives, HostRuns

\* The queue after a step of the host.
LEMMA QueueAfter ==
  ASSUME BoxTypes, NEW M, NEW S, HostSends(M, S)
  PROVE  /\ \A i \in DOMAIN toSandbox : i \in DOMAIN toSandbox' /\ toSandbox'[i] = toSandbox[i]
         /\ \A i \in DOMAIN toSandbox' : i \notin DOMAIN toSandbox =>
              /\ toSandbox'[i] \in M \/ toSandbox'[i].type = "bridgeForget"
              /\ \A j \in DOMAIN toSandbox : j < i
              /\ \A j \in DOMAIN toSandbox' :
                   j \notin DOMAIN toSandbox /\ toSandbox'[j].type = toSandbox'[i].type => j = i
         /\ \A m \in M : \E i \in DOMAIN toSandbox' : toSandbox'[i] = m
         /\ S # {} => \E i \in DOMAIN toSandbox' : toSandbox'[i] = [type |-> "bridgeForget", ids |-> S]
<1>1. PICK msgs \in Seq(ToSandbox) : Send(msgs) /\ Contents(msgs, M, S)
  BY DEF HostSends
<1>2. /\ Len(toSandbox) \in Nat /\ DOMAIN toSandbox = 1 .. Len(toSandbox)
      /\ Len(msgs) \in Nat /\ DOMAIN msgs = 1 .. Len(msgs)
      /\ DOMAIN toSandbox' = 1 .. (Len(toSandbox) + Len(msgs))
      /\ \A i \in DOMAIN toSandbox : toSandbox'[i] = toSandbox[i]
      /\ \A i \in DOMAIN toSandbox' : i \notin DOMAIN toSandbox =>
           i - Len(toSandbox) \in DOMAIN msgs /\ toSandbox'[i] = msgs[i - Len(toSandbox)]
      /\ \A i \in DOMAIN msgs : /\ Len(toSandbox) + i \in DOMAIN toSandbox'
                                /\ toSandbox'[Len(toSandbox) + i] = msgs[i]
  BY <1>1, ConcatProperties, LenProperties DEF BoxTypes, Send
<1>3. \A i \in DOMAIN toSandbox : i \in DOMAIN toSandbox' /\ toSandbox'[i] = toSandbox[i]
  BY <1>2
<1>4. ASSUME NEW i \in DOMAIN toSandbox', i \notin DOMAIN toSandbox
      PROVE  /\ toSandbox'[i] \in M \/ toSandbox'[i].type = "bridgeForget"
             /\ \A j \in DOMAIN toSandbox : j < i
             /\ \A j \in DOMAIN toSandbox' :
                  j \notin DOMAIN toSandbox /\ toSandbox'[j].type = toSandbox'[i].type => j = i
  <2>1. toSandbox'[i] \in M \/ toSandbox'[i].type = "bridgeForget"
    BY <1>1, <1>2, <1>4 DEF Contents
  <2>2. \A j \in DOMAIN toSandbox : j < i
    BY <1>2, <1>4
  <2>3. ASSUME NEW j \in DOMAIN toSandbox', j \notin DOMAIN toSandbox,
               toSandbox'[j].type = toSandbox'[i].type
        PROVE  j = i
    <3>1. i - Len(toSandbox) = j - Len(toSandbox)
      BY <1>1, <1>2, <1>4, <2>3 DEF Contents
    <3> QED BY <1>2, <3>1
  <2> QED BY <2>1, <2>2, <2>3
<1>5. \A m \in M : \E i \in DOMAIN toSandbox' : toSandbox'[i] = m
  BY <1>1, <1>2 DEF Contents
<1>6. S # {} => \E i \in DOMAIN toSandbox' : toSandbox'[i] = [type |-> "bridgeForget", ids |-> S]
  BY <1>1, <1>2 DEF Contents
<1> QED BY <1>3, <1>4, <1>5, <1>6

\* A call that the arriving message ends is not open in the sandbox.
LEMMA EndedIsSettled ==
  ASSUME BoxTypes, EndsAreMeant, NoCallsOnDestroyed, NEW k \in Calls, HeadEnds(k)
  PROVE  call[k] # "open"
<1>1. 1 \in DOMAIN toHost /\ toHost[1] = Head(toHost) /\ Head(toHost).id \in Calls
  BY CallIds, HeadTailProperties, EmptySeq, LenProperties DEF BoxTypes, HeadEnds
<1> QED BY <1>1, BridgeAssumption DEF HeadEnds, EndsCall, EndsCallOn, EndsAreMeant, NoCallsOnDestroyed, HandleState

LEMMA SandboxIds ==
  BoxTypes => \A i \in DOMAIN toSandbox : toSandbox[i].type # "bridgeForget" => toSandbox[i].id \in Calls
<1> SUFFICES ASSUME BoxTypes, NEW i \in DOMAIN toSandbox, toSandbox[i].type # "bridgeForget"
             PROVE  toSandbox[i].id \in Calls
  OBVIOUS
<1>1. toSandbox[i] \in ToSandbox
  BY ElementOfSeq, LenProperties DEF BoxTypes
<1> QED BY <1>1 DEF ToSandbox, CallMsg

LEMMA HostKeepsUnderWay ==
  ASSUME TypeOK, UnderWayInv, NEW M, NEW S, HostFacts(M, S), UNCHANGED clientVars, closed' = closed
  PROVE  /\ AnswersUnderWay' /\ ForgetsUnderWay' /\ StreamsAnnounced' /\ OpenCallsHaveRecords'
         /\ NoCallsOnDestroyed' /\ ObjectsComeOnce' /\ AnswersAreLast'
<1>1. HostTypes /\ BoxTypes /\ HostSends(M, S) /\ HostTells(M, S) /\ HostMeans(M)
  BY TypeParts DEF HostFacts
<1>2. UNCHANGED <<call, on, reader, object, functions>>
  BY DEF clientVars
<1>3. \A k \in Calls : HeadEnds(k) => call[k] # "open"
  BY <1>1, EndedIsSettled DEF UnderWayInv
<1>4. /\ \A i \in DOMAIN toSandbox : i \in DOMAIN toSandbox' /\ toSandbox'[i] = toSandbox[i]
      /\ \A m \in M : \E i \in DOMAIN toSandbox' : toSandbox'[i] = m
      /\ S # {} => \E i \in DOMAIN toSandbox' : toSandbox'[i] = [type |-> "bridgeForget", ids |-> S]
  BY <1>1, QueueAfter
<1>5. \A i \in DOMAIN toSandbox' : i \notin DOMAIN toSandbox =>
        /\ toSandbox'[i] \in M \/ toSandbox'[i].type = "bridgeForget"
        /\ \A j \in DOMAIN toSandbox : j < i
        /\ \A j \in DOMAIN toSandbox' :
             j \notin DOMAIN toSandbox /\ toSandbox'[j].type = toSandbox'[i].type => j = i
  BY <1>1, QueueAfter
<1>6. \A i \in DOMAIN toSandbox : toSandbox[i].type # "bridgeForget" => toSandbox[i].id \in Calls
  BY <1>1, SandboxIds
<1>7. OpenCallsHaveRecords'
  BY <1>1, <1>2, <1>3 DEF UnderWayInv, OpenCallsHaveRecords, HostTells, Working
<1>8. AnswersUnderWay'
  <2> SUFFICES ASSUME ~closed, NEW k \in Calls, call[k] = "open", task'[k] \in Ended, k \notin streams'
               PROVE  \E i \in DOMAIN toSandbox' : toSandbox'[i].type \in Final /\ toSandbox'[i].id = k
    BY <1>2 DEF AnswersUnderWay
  <2>1. CASE task[k] \in Ended /\ k \notin streams
    <3>1. PICK i \in DOMAIN toSandbox : toSandbox[i].type \in Final /\ toSandbox[i].id = k
      BY <2>1 DEF UnderWayInv, UnderWay, AnswersUnderWay
    <3> QED BY <1>4, <3>1
  <2>2. CASE \E m \in M : m.type \in Final /\ m.id = k
    BY <1>4, <2>2
  <2>3. CASE task[k] \in Working /\ k \notin calls
    BY <2>3 DEF UnderWayInv, OpenCallsHaveRecords, Working
  <2> QED BY <1>1, <1>3, <2>1, <2>2, <2>3 DEF HostTells
<1>9. ForgetsUnderWay'
  <2> SUFFICES ASSUME ~closed, NEW k \in functions, owner'[k] = "released"
               PROVE  \E i \in DOMAIN toSandbox' : Forgets(toSandbox'[i], k)
    BY <1>2 DEF ForgetsUnderWay
  <2>1. k \in Calls
    BY TypeParts, BridgeAssumption DEF ClientTypes
  <2>2. CASE owner[k] = "released"
    <3>1. PICK i \in DOMAIN toSandbox : Forgets(toSandbox[i], k)
      BY <2>2 DEF UnderWayInv, UnderWay, ForgetsUnderWay
    <3> QED BY <1>4, <3>1
  <2>3. CASE k \in S
    BY <1>4, <2>3 DEF Forgets
  <2> QED BY <1>1, <2>1, <2>2, <2>3 DEF HostTells
<1>10. StreamsAnnounced'
  <2> SUFFICES ASSUME ~closed, NEW k \in Calls, call[k] = "open", reader[k] # "open"
               PROVE  /\ k \in streams' => \E i \in DOMAIN toSandbox' : toSandbox'[i] = Msg("stream", k)
                      /\ \A i \in DOMAIN toSandbox' :
                           toSandbox'[i].type \in LastChunk /\ toSandbox'[i].id = k =>
                             \E j \in DOMAIN toSandbox' : j < i /\ toSandbox'[j] = Msg("stream", k)
    BY <1>2 DEF StreamsAnnounced
  <2>1. k \in streams => \E i \in DOMAIN toSandbox : toSandbox[i] = Msg("stream", k)
    BY DEF UnderWayInv, StreamsAnnounced
  <2>2. k \in streams' => \E i \in DOMAIN toSandbox' : toSandbox'[i] = Msg("stream", k)
    BY <1>1, <1>4, <2>1 DEF HostTells
  <2>3. ASSUME NEW i \in DOMAIN toSandbox', toSandbox'[i].type \in LastChunk, toSandbox'[i].id = k
        PROVE  \E j \in DOMAIN toSandbox' : j < i /\ toSandbox'[j] = Msg("stream", k)
    <3>1. CASE i \in DOMAIN toSandbox
      <4>1. PICK j \in DOMAIN toSandbox : j < i /\ toSandbox[j] = Msg("stream", k)
        BY <1>4, <2>3, <3>1 DEF UnderWayInv, StreamsAnnounced
      <4> QED BY <1>4, <4>1
    <3>2. CASE i \notin DOMAIN toSandbox
      <4>1. toSandbox'[i] \in M
        BY <1>5, <2>3, <3>2 DEF LastChunk
      <4>2. k \in streams
        BY <1>1, <2>3, <4>1 DEF HostMeans
      <4> QED BY <1>4, <1>5, <2>1, <3>2, <4>2
    <3> QED BY <3>1, <3>2
  <2> QED BY <2>2, <2>3
<1>11. NoCallsOnDestroyed'
  BY <1>2 DEF UnderWayInv, NoCallsOnDestroyed, HandleState
<1>12. ObjectsComeOnce'
  <2>1. \A k \in Calls : object'[k] # "none" => k \in made'
    BY <1>1, <1>2 DEF UnderWayInv, ObjectsComeOnce, HostMeans
  <2>2. \A i \in DOMAIN toSandbox : toSandbox[i].type \in ObjectMsg =>
          /\ toSandbox[i].id \in made /\ object[toSandbox[i].id] = "none"
          /\ \A j \in DOMAIN toSandbox :
               toSandbox[j].type \in ObjectMsg /\ toSandbox[j].id = toSandbox[i].id => j = i
    BY DEF UnderWayInv, ObjectsComeOnce
  <2>3. \A i \in DOMAIN toSandbox' : i \notin DOMAIN toSandbox /\ toSandbox'[i].type \in ObjectMsg =>
          /\ toSandbox'[i] \in M /\ toSandbox'[i].id \notin made /\ toSandbox'[i].id \in made'
          /\ toSandbox'[i].id \in Calls
    BY <1>1, <1>5 DEF HostMeans, ObjectMsg
  <2>4. \A i \in DOMAIN toSandbox' : toSandbox'[i].type \in ObjectMsg =>
          toSandbox'[i].id \in made' /\ object'[toSandbox'[i].id] = "none"
    BY <1>1, <1>2, <1>4, <2>2, <2>3 DEF UnderWayInv, ObjectsComeOnce, HostMeans
  <2>5. ASSUME NEW i \in DOMAIN toSandbox', toSandbox'[i].type \in ObjectMsg,
               NEW j \in DOMAIN toSandbox', toSandbox'[j].type \in ObjectMsg,
               toSandbox'[j].id = toSandbox'[i].id
        PROVE  j = i
    <3>1. CASE i \in DOMAIN toSandbox /\ j \in DOMAIN toSandbox
      BY <1>4, <2>2, <2>5, <3>1
    <3>2. CASE i \notin DOMAIN toSandbox /\ j \notin DOMAIN toSandbox
      <4>1. toSandbox'[j] = toSandbox'[i]
        BY <1>1, <2>3, <2>5, <3>2 DEF HostMeans
      <4> QED BY <1>5, <3>2, <4>1
    <3>3. CASE i \in DOMAIN toSandbox /\ j \notin DOMAIN toSandbox
      BY <1>4, <2>2, <2>3, <2>5, <3>3
    <3>4. CASE i \notin DOMAIN toSandbox /\ j \in DOMAIN toSandbox
      BY <1>4, <2>2, <2>3, <2>5, <3>4
    <3> QED BY <3>1, <3>2, <3>3, <3>4
  <2> QED BY <2>1, <2>4, <2>5 DEF ObjectsComeOnce
<1>13. AnswersAreLast'
  <2>1. \A k \in Calls : reader'[k] = "open" => task'[k] = "done"
    BY <1>1, <1>2 DEF UnderWayInv, AnswersAreLast, HostMeans, Ended
  <2>2. \A i \in DOMAIN toSandbox :
          /\ toSandbox[i].type = "stream" => task'[toSandbox[i].id] = "done"
          /\ toSandbox[i].type \in Final =>
               task'[toSandbox[i].id] \in Ended /\ toSandbox[i].id \notin calls'
    <3> SUFFICES ASSUME NEW i \in DOMAIN toSandbox
                 PROVE  /\ toSandbox[i].type = "stream" => task'[toSandbox[i].id] = "done"
                        /\ toSandbox[i].type \in Final =>
                             task'[toSandbox[i].id] \in Ended /\ toSandbox[i].id \notin calls'
      OBVIOUS
    <3>1. toSandbox[i].type \in Final \cup {"stream"} => toSandbox[i].id \in Calls
      BY <1>6 DEF Final
    <3> QED BY <1>1, <3>1 DEF UnderWayInv, AnswersAreLast, HostMeans, Ended
  <2>3. \A i \in DOMAIN toSandbox' : i \notin DOMAIN toSandbox =>
          /\ toSandbox'[i].type = "stream" => task'[toSandbox'[i].id] = "done"
          /\ toSandbox'[i].type \in Final =>
               task'[toSandbox'[i].id] \in Ended /\ toSandbox'[i].id \notin calls'
    BY <1>1, <1>5 DEF HostMeans, Final
  <2> QED BY <1>4, <2>1, <2>2, <2>3 DEF AnswersAreLast
<1> QED BY <1>7, <1>8, <1>9, <1>10, <1>11, <1>12, <1>13

-----------------------------------------------------------------------------
(* What the host does with a call the sandbox has given up.                *)

Endings == AbortsUnderWay /\ EndsAreMeant

LEMMA EndingsKept ==
  ASSUME UnderWayInv, BoxTypes, UNCHANGED clientVars, UNCHANGED toHost,
         calls' \subseteq calls, aborted \subseteq aborted',
         \A k \in Calls : task[k] = "done" => task'[k] = "done"
  PROVE  Endings'
<1>1. UNCHANGED <<call, on, object>> /\ \A m, k : EndsCall(m, k)' <=> EndsCall(m, k)
  BY DEF clientVars, EndsCall, EndsCallOn
<1>2. AbortsUnderWay'
  <2> SUFFICES ASSUME NEW k \in Calls, call[k] = "settled"
               PROVE  /\ k \in calls' \ aborted' => \E i \in DOMAIN toHost : EndsCall(toHost[i], k)
                      /\ \A i \in DOMAIN toHost : toHost[i] = Msg("bridgeCall", k) =>
                           \E j \in DOMAIN toHost : j > i /\ EndsCall(toHost[j], k)
    BY <1>1 DEF AbortsUnderWay, EndsCall, EndsCallOn
  <2> QED BY DEF UnderWayInv, UnderWay, AbortsUnderWay
<1>3. EndsAreMeant'
  BY <1>1, CallIds DEF UnderWayInv, EndsAreMeant
<1> QED BY <1>2, <1>3 DEF Endings

LEMMA EndingsTail ==
  ASSUME UnderWayInv, BoxTypes, UNCHANGED clientVars, toHost # <<>>, toHost' = Tail(toHost),
         \A k \in calls' \ aborted' :
           ~HeadEnds(k) /\ (k \in calls \ aborted \/ Head(toHost) = Msg("bridgeCall", k)),
         \A k \in Calls : task[k] = "done" => task'[k] = "done"
  PROVE  Endings'
<1>1. UNCHANGED <<call, on, object>>
  BY DEF clientVars
<1>2. /\ 1 \in DOMAIN toHost /\ toHost[1] = Head(toHost)
      /\ DOMAIN toHost = 1 .. Len(toHost) /\ DOMAIN toHost' = 1 .. (Len(toHost) - 1)
      /\ Len(toHost) \in Nat
      /\ \A i \in DOMAIN toHost' : toHost'[i] = toHost[i + 1]
  BY HeadTailProperties, EmptySeq, LenProperties DEF BoxTypes
<1>3. /\ \A i \in DOMAIN toHost' : i + 1 \in DOMAIN toHost /\ i + 1 # 1
      /\ \A i \in DOMAIN toHost : i # 1 => i - 1 \in DOMAIN toHost' /\ toHost'[i - 1] = toHost[i]
  BY <1>2
<1>4. AbortsUnderWay'
  <2> SUFFICES ASSUME NEW k \in Calls, call[k] = "settled"
               PROVE  /\ k \in calls' \ aborted' => \E i \in DOMAIN toHost' : EndsCall(toHost'[i], k)
                      /\ \A i \in DOMAIN toHost' : toHost'[i] = Msg("bridgeCall", k) =>
                           \E j \in DOMAIN toHost' : j > i /\ EndsCall(toHost'[j], k)
    BY <1>1 DEF AbortsUnderWay, EndsCall, EndsCallOn
  <2>1. ASSUME NEW i \in DOMAIN toHost, i # 1, EndsCall(toHost[i], k)
        PROVE  i - 1 \in DOMAIN toHost' /\ EndsCall(toHost'[i - 1], k)
    BY <1>3, <2>1
  <2>2. \A i \in DOMAIN toHost : toHost[i] = Msg("bridgeCall", k) =>
          \E j \in DOMAIN toHost : j > i /\ EndsCall(toHost[j], k)
    BY DEF UnderWayInv, UnderWay, AbortsUnderWay
  <2>3. ASSUME k \in calls' \ aborted'
        PROVE  \E i \in DOMAIN toHost' : EndsCall(toHost'[i], k)
    <3>1. ~HeadEnds(k)
      BY <2>3
    <3>2. CASE k \in calls \ aborted
      <4>1. PICK i \in DOMAIN toHost : EndsCall(toHost[i], k)
        BY <3>2 DEF UnderWayInv, UnderWay, AbortsUnderWay
      <4>2. i # 1
        BY <1>2, <3>1, <4>1 DEF HeadEnds
      <4> QED BY <2>1, <4>1, <4>2
    <3>3. CASE Head(toHost) = Msg("bridgeCall", k)
      <4>1. PICK j \in DOMAIN toHost : j > 1 /\ EndsCall(toHost[j], k)
        BY <1>2, <2>2, <3>3
      <4> QED BY <2>1, <4>1
    <3> QED BY <2>3, <3>2, <3>3
  <2>4. ASSUME NEW i \in DOMAIN toHost', toHost'[i] = Msg("bridgeCall", k)
        PROVE  \E j \in DOMAIN toHost' : j > i /\ EndsCall(toHost'[j], k)
    <3>1. PICK j \in DOMAIN toHost : j > i + 1 /\ EndsCall(toHost[j], k)
      BY <1>2, <1>3, <2>2, <2>4
    <3>2. j # 1 /\ j - 1 > i
      BY <1>2, <3>1
    <3> QED BY <2>1, <3>1, <3>2
  <2> QED BY <2>3, <2>4
<1>5. EndsAreMeant'
  <2> SUFFICES ASSUME NEW i \in DOMAIN toHost'
               PROVE  LET m == toHost'[i] IN
                      /\ m.type \in {"bridgeAbort", "bridgeCancel"} => call[m.id] = "settled"
                      /\ m.type = "bridgeCancel" => task'[m.id] = "done"
                      /\ m.type = "bridgeRelease" => object[m.id] = "destroyed"
    BY <1>1 DEF EndsAreMeant
  <2>1. toHost'[i] = toHost[i + 1] /\ i + 1 \in DOMAIN toHost /\ toHost[i + 1].id \in Calls
    BY <1>2, <1>3, CallIds
  <2> QED BY <2>1 DEF UnderWayInv, EndsAreMeant
<1> QED BY <1>4, <1>5 DEF Endings

LEMMA ReceivesEndings ==
  ASSUME TypeOK, CallsOnce, Kept, UnderWayInv, NEW c \in Calls, HostReceives(c)
  PROVE  Endings'
<1>1. HostTypes /\ BoxTypes /\ Records /\ LiveCalls
  BY TypeParts DEF Kept
<1>2. UNCHANGED clientVars /\ toHost # <<>> /\ toHost' = Tail(toHost)
  BY DEF HostReceives, OnCall, OnAbort, OnCancel, OnPull, OnRelease, OnCallbackResult, Arrives
<1>3. \A k \in Calls : task[k] = "done" => task'[k] = "done"
  <2>1. CASE OnCall(c)
    <3>1. task[c] = "none"
      BY <1>1, <2>1, ArrivingIsNew DEF OnCall
    <3> QED BY <1>1, <2>1, <3>1 DEF OnCall, HostTypes
  <2> QED BY <2>1 DEF HostReceives, OnAbort, OnCancel, OnPull, OnRelease, OnCallbackResult, hostVars
<1>4. ASSUME NEW k \in calls' \ aborted'
      PROVE  ~HeadEnds(k) /\ (k \in calls \ aborted \/ Head(toHost) = Msg("bridgeCall", k))
  <2>1. CASE OnCall(c)
    BY <1>4, <2>1 DEF OnCall, Arrives, HeadEnds, EndsCall, EndsCallOn, Msg
  <2>2. CASE OnAbort(c)
    <3>1. calls' \subseteq calls \ {c} /\ aborted \subseteq aborted'
      BY <2>2 DEF OnAbort, CloseCall, EndCalls
    <3> QED BY <1>4, <2>2, <3>1 DEF OnAbort, Arrives, HeadEnds, EndsCall, EndsCallOn, Msg
  <2>3. CASE OnCancel(c)
    <3>1. 1 \in DOMAIN toHost /\ toHost[1] = Msg("bridgeCancel", c)
      BY <1>1, <2>3, HeadTailProperties, EmptySeq, LenProperties DEF OnCancel, Arrives, BoxTypes
    <3>2. task[c] = "done"
      BY <3>1 DEF UnderWayInv, EndsAreMeant, Msg
    <3>3. calls' \subseteq calls \ {c} /\ aborted \subseteq aborted'
      BY <1>1, <2>3, <3>2 DEF OnCancel, CloseCall, EndCalls, Records
    <3> QED BY <1>4, <2>3, <3>3 DEF OnCancel, Arrives, HeadEnds, EndsCall, EndsCallOn, Msg
  <2>4. CASE OnRelease(c)
    <3>1. k \in Calls /\ k \in calls \ aborted
      BY <1>1, <1>4, <2>4 DEF OnRelease, HostTypes
    <3>2. on[k] # c
      BY <1>1, <1>4, <2>4, <3>1, BridgeAssumption
         DEF OnRelease, LiveCalls, AbortedOn, CallsOn
    <3> QED BY <2>4, <3>1, <3>2 DEF OnRelease, Arrives, HeadEnds, EndsCall, EndsCallOn, Msg
  <2>5. CASE OnPull(c) \/ OnCallbackResult(c)
    BY <1>4, <2>5 DEF OnPull, OnCallbackResult, hostVars, Arrives, HeadEnds, EndsCall, EndsCallOn, Msg
  <2> QED BY <2>1, <2>2, <2>3, <2>4, <2>5 DEF HostReceives
<1> QED BY <1>1, <1>2, <1>3, <1>4, EndingsTail

LEMMA RunsEndings ==
  ASSUME TypeOK, CallsOnce, Records, UnderWayInv, NEW c \in Calls, HostRuns(c)
  PROVE  Endings'
<1>1. HostTypes /\ BoxTypes
  BY TypeParts
<1>2. UNCHANGED clientVars /\ UNCHANGED toHost
  BY DEF HostRuns, Consent, MethodThrows, LimitTimeout, ReturnsLate, ReturnsStream, ReturnsHandle,
         ReturnsValue, ReturnsUnsendable, PullIsLate, PullYields, PullEnds, PullFails, CallsFunction
<1>3. calls' \subseteq calls /\ aborted \subseteq aborted'
  BY DEF HostRuns, Consent, MethodThrows, LimitTimeout, ReturnsLate, ReturnsStream, ReturnsHandle,
         ReturnsValue, ReturnsUnsendable, PullIsLate, PullYields, PullEnds, PullFails, CallsFunction,
         hostVars, CallFails, EndCalls, CloseCall
<1>4. \A k \in Calls : task[k] = "done" => task'[k] = "done"
  BY HostStepFacts DEF HostFacts, HostMeans, Ended
<1> QED BY <1>1, <1>2, <1>3, <1>4, EndingsKept

-----------------------------------------------------------------------------
(* What the sandbox does of its own.                                       *)

\* A call is started at most, nothing else is opened, and what is no longer
\* open is settled.
ClientMoves(c) ==
  /\ \A k \in Calls : call'[k] = "open" =>
       \/ call[k] = "open" /\ reader'[k] = reader[k]
       \/ k = c /\ call[c] = "idle"
  /\ \A k \in Calls : reader'[k] = "open" => reader[k] = "open"
  /\ \A k \in functions' : k \in functions \/ (k = c /\ call[c] = "idle")
  /\ \A k \in Calls : object'[k] = object[k] \/ (object[k] = "live" /\ object'[k] = "destroyed")
  /\ \A k \in Calls : call[k] = "settled" => call'[k] = "settled" /\ on'[k] = on[k]

\* A step that posts no message, or m.
LEMMA RunsQueues ==
  ASSUME TypeOK, CallsOnce, Records, UnderWayInv, UNCHANGED <<hostVars, toSandbox>>,
         NEW c \in Calls, ClientMoves(c), NoCallsOnDestroyed'
  PROVE  /\ AnswersUnderWay' /\ ForgetsUnderWay' /\ StreamsAnnounced' /\ OpenCallsHaveRecords'
         /\ ObjectsComeOnce' /\ AnswersAreLast'
<1>1. HostTypes /\ ClientTypes /\ BoxTypes
  BY TypeParts
<1>2. UNCHANGED <<closed, calls, task, streams, owner, made>>
  BY DEF hostVars
<1>3. call[c] = "idle" => task[c] = "none" /\ c \notin streams /\ owner[c] = "none"
  BY DEF CallsOnce, Records
<1>4. \A i \in DOMAIN toSandbox : toSandbox[i].type # "bridgeForget" => toSandbox[i].id \in Calls
  BY <1>1, SandboxIds
<1>5. AnswersUnderWay'
  BY <1>2, <1>3 DEF UnderWayInv, UnderWay, AnswersUnderWay, ClientMoves, Ended
<1>6. ForgetsUnderWay'
  BY <1>2, <1>3 DEF UnderWayInv, UnderWay, ForgetsUnderWay, ClientMoves
<1>7. OpenCallsHaveRecords'
  BY <1>2, <1>3 DEF UnderWayInv, OpenCallsHaveRecords, ClientMoves
<1>8. StreamsAnnounced'
  <2>1. call[c] = "idle" =>
          \A i \in DOMAIN toSandbox : ~(toSandbox[i].type \in LastChunk /\ toSandbox[i].id = c)
    BY <1>3 DEF UnderWayInv, AnswersAreLast, LastChunk, Final, Ended
  <2> QED BY <1>2, <1>3, <2>1 DEF UnderWayInv, StreamsAnnounced, ClientMoves
<1>9. ObjectsComeOnce'
  <2>1. \A k \in Calls : object'[k] # "none" => object[k] # "none"
    BY DEF ClientMoves
  <2>2. \A k \in Calls : object[k] = "none" => object'[k] = "none"
    BY DEF ClientMoves
  <2> QED BY <1>2, <1>4, <2>1, <2>2 DEF UnderWayInv, ObjectsComeOnce, ObjectMsg
<1>10. AnswersAreLast'
  BY <1>2 DEF UnderWayInv, AnswersAreLast, ClientMoves
<1> QED BY <1>5, <1>6, <1>7, <1>8, <1>9, <1>10

LEMMA PostEndings ==
  ASSUME TypeOK, UnderWayInv, UNCHANGED hostVars, NEW c \in Calls, ClientMoves(c),
         NEW m \in ToHost, Post(m),
         \A k \in Calls : call'[k] = "settled" => call[k] = "settled" \/ EndsCallOn(m, k, on'[k]),
         m.type = "bridgeCall" => call'[m.id] # "settled",
         m.type \in {"bridgeAbort", "bridgeCancel"} => call'[m.id] = "settled",
         m.type = "bridgeCancel" => task[m.id] = "done",
         m.type = "bridgeRelease" => object'[m.id] = "destroyed"
  PROVE  Endings'
<1>1. BoxTypes /\ task' = task /\ calls' = calls /\ aborted' = aborted
  BY TypeParts DEF hostVars
<1> DEFINE n == Len(toHost) + 1
<1>2. /\ \A i \in DOMAIN toHost : i \in DOMAIN toHost' /\ toHost'[i] = toHost[i] /\ i < n
      /\ n \in DOMAIN toHost' /\ toHost'[n] = m
      /\ \A i \in DOMAIN toHost' : i \in DOMAIN toHost \/ i = n
  BY <1>1 DEF Post, BoxTypes
<1> HIDE DEF n
<1>3. AbortsUnderWay'
  <2> SUFFICES ASSUME NEW k \in Calls, call'[k] = "settled"
               PROVE  /\ k \in calls \ aborted => \E i \in DOMAIN toHost' : EndsCallOn(toHost'[i], k, on'[k])
                      /\ \A i \in DOMAIN toHost' : toHost'[i] = Msg("bridgeCall", k) =>
                           \E j \in DOMAIN toHost' : j > i /\ EndsCallOn(toHost'[j], k, on'[k])
    BY <1>1 DEF AbortsUnderWay, EndsCall, EndsCallOn
  <2>1. CASE call[k] = "settled"
    <3>1. on'[k] = on[k] /\ \A x : EndsCallOn(x, k, on'[k]) <=> EndsCall(x, k)
      BY <2>1 DEF ClientMoves, EndsCall, EndsCallOn
    <3>2. m # Msg("bridgeCall", k)
      BY DEF Msg
    <3>3. /\ k \in calls \ aborted => \E i \in DOMAIN toHost : EndsCall(toHost[i], k)
          /\ \A i \in DOMAIN toHost : toHost[i] = Msg("bridgeCall", k) =>
               \E j \in DOMAIN toHost : j > i /\ EndsCall(toHost[j], k)
      BY <2>1 DEF UnderWayInv, UnderWay, AbortsUnderWay
    <3> QED BY <1>2, <3>1, <3>2, <3>3
  <2>2. CASE EndsCallOn(m, k, on'[k])
    <3>1. m # Msg("bridgeCall", k)
      BY <2>2 DEF EndsCall, EndsCallOn, Msg
    <3>2. \A i \in DOMAIN toHost : n > i
      BY <1>1, <1>2 DEF BoxTypes, n
    <3> QED BY <1>2, <2>2, <3>1, <3>2
  <2> QED BY <2>1, <2>2
<1>4. EndsAreMeant'
  <2>1. \A i \in DOMAIN toHost : toHost[i].id \in Calls
    BY <1>1, CallIds
  <2>2. \A i \in DOMAIN toHost :
          /\ toHost[i].type \in {"bridgeAbort", "bridgeCancel"} => call'[toHost[i].id] = "settled"
          /\ toHost[i].type = "bridgeCancel" => task'[toHost[i].id] = "done"
          /\ toHost[i].type = "bridgeRelease" => object'[toHost[i].id] = "destroyed"
    BY <1>1, <2>1 DEF UnderWayInv, EndsAreMeant, ClientMoves
  <2> QED BY <1>1, <1>2, <2>2 DEF EndsAreMeant
<1> QED BY <1>3, <1>4 DEF Endings

LEMMA RunsKeepUnderWay ==
  ASSUME TypeOK, CallsOnce, Records, UnderWayInv, NEW c \in Calls, SandboxRuns(c)
  PROVE  UnderWayInv'
<1>1. HostTypes /\ ClientTypes /\ BoxTypes
  BY TypeParts
<1>2. UNCHANGED <<hostVars, toSandbox>>
  BY DEF SandboxRuns, StartCall, AbortCall, CancelStream, PullStream, DestroyHandle, FunctionReturns
<1>3. ASSUME NEW t \in {"bridgeCall", "bridgeAbort", "bridgeCancel", "bridgePull", "bridgeRelease",
                        "bridgeCallbackResult"}
      PROVE  Msg(t, c) \in ToHost /\ Msg(t, c).type = t /\ Msg(t, c).id = c
  BY DEF Msg, ToHost, CallMsg
<1>4. ASSUME NEW h \in Calls \cup {Root}, StartCall(c, h)
      PROVE  ClientMoves(c) /\ NoCallsOnDestroyed' /\ Endings'
  <2>1. /\ call[c] = "idle" /\ on' = [on EXCEPT ![c] = h] /\ object' = object
    BY <1>4 DEF StartCall
  <2>2. CASE HandleState(h) = "destroyed" /\ Finish({c}) /\ UNCHANGED <<functions, toHost>>
    <3>1. ClientMoves(c)
      BY <1>1, <2>1, <2>2 DEF ClientMoves, Finish, ClientTypes
    <3>2. NoCallsOnDestroyed'
      BY <1>1, <2>1, <2>2 DEF UnderWayInv, NoCallsOnDestroyed, HandleState, Finish, ClientTypes
    <3>3. AbortsUnderWay'
      <4> SUFFICES ASSUME NEW k \in Calls, call'[k] = "settled"
                   PROVE  /\ k \in calls \ aborted => \E i \in DOMAIN toHost : EndsCallOn(toHost[i], k, on'[k])
                          /\ \A i \in DOMAIN toHost : toHost[i] = Msg("bridgeCall", k) =>
                               \E j \in DOMAIN toHost : j > i /\ EndsCallOn(toHost[j], k, on'[k])
        BY <1>2, <2>2 DEF AbortsUnderWay, EndsCall, EndsCallOn, hostVars
      <4>1. CASE k = c
        BY <2>1, <4>1 DEF CallsOnce, Records, Msg
      <4>2. CASE call[k] = "settled" /\ k # c
        <5>1. \A x : EndsCallOn(x, k, on'[k]) <=> EndsCall(x, k)
          BY <1>1, <2>1, <4>2 DEF EndsCall, EndsCallOn, ClientTypes
        <5> QED BY <4>2, <5>1 DEF UnderWayInv, UnderWay, AbortsUnderWay
      <4> QED BY <1>1, <2>2, <4>1, <4>2 DEF Finish, ClientTypes
    <3>4. EndsAreMeant'
      BY <1>1, <1>2, <2>1, <2>2, CallIds DEF UnderWayInv, EndsAreMeant, Finish, ClientTypes, hostVars
    <3> QED BY <3>1, <3>2, <3>3, <3>4 DEF Endings
  <2>3. CASE /\ HandleState(h) = "live" /\ call' = [call EXCEPT ![c] = "open"]
             /\ functions' = functions \cup ({c} \cap WithFunction)
             /\ Post(Msg("bridgeCall", c)) /\ UNCHANGED reader
    <3>1. ClientMoves(c)
      BY <1>1, <2>1, <2>3 DEF ClientMoves, ClientTypes
    <3>2. NoCallsOnDestroyed'
      BY <1>1, <2>1, <2>3 DEF UnderWayInv, NoCallsOnDestroyed, HandleState, ClientTypes
    <3>3. \A k \in Calls : call'[k] = "settled" => call[k] = "settled"
      BY <1>1, <2>3 DEF ClientTypes
    <3>4. call'[c] # "settled"
      BY <1>1, <2>3 DEF ClientTypes
    <3> QED BY <1>2, <1>3, <2>3, <3>1, <3>2, <3>3, <3>4, PostEndings
  <2> QED BY <1>4, <2>2, <2>3 DEF StartCall
<1>5. CASE AbortCall(c) \/ CancelStream(c)
  <2>1. call[c] = "open" /\ Finish({c}) /\ UNCHANGED <<on, object, functions>>
    BY <1>5 DEF AbortCall, CancelStream
  <2>2. PICK t \in {"bridgeAbort", "bridgeCancel"} :
          Post(Msg(t, c)) /\ (t = "bridgeCancel" => reader[c] = "open")
    BY <1>5 DEF AbortCall, CancelStream
  <2>3. ClientMoves(c) /\ NoCallsOnDestroyed'
    BY <1>1, <2>1 DEF ClientMoves, UnderWayInv, NoCallsOnDestroyed, HandleState, Finish, ClientTypes
  <2>4. \A k \in Calls : call'[k] = "settled" => call[k] = "settled" \/ EndsCallOn(Msg(t, c), k, on'[k])
    BY <1>1, <2>1 DEF Finish, ClientTypes, EndsCall, EndsCallOn, Msg
  <2>5. call'[c] = "settled" /\ (t = "bridgeCancel" => task[c] = "done")
    BY <1>1, <2>1, <2>2 DEF Finish, ClientTypes, UnderWayInv, AnswersAreLast
  <2>6. Endings'
    BY <1>2, <1>3, <2>2, <2>3, <2>4, <2>5, PostEndings
  <2> QED BY <1>2, <2>3, <2>6, RunsQueues DEF UnderWayInv, UnderWay, Endings
<1>6. CASE PullStream(c) \/ FunctionReturns(c)
  <2>1. UNCHANGED <<call, on, reader, object, functions>>
    BY <1>6 DEF PullStream, FunctionReturns, clientVars
  <2>2. PICK t \in {"bridgePull", "bridgeCallbackResult"} : Post(Msg(t, c))
    BY <1>6 DEF PullStream, FunctionReturns
  <2>3. ClientMoves(c) /\ NoCallsOnDestroyed'
    BY <2>1 DEF ClientMoves, UnderWayInv, NoCallsOnDestroyed, HandleState
  <2>4. Endings'
    BY <1>2, <1>3, <2>1, <2>2, <2>3, PostEndings
  <2> QED BY <1>2, <2>3, <2>4, RunsQueues DEF UnderWayInv, UnderWay, Endings
<1>7. CASE DestroyHandle(c)
  <2>1. /\ object[c] = "live" /\ object' = [object EXCEPT ![c] = "destroyed"]
        /\ Finish(OpenOn(c)) /\ UNCHANGED <<on, functions>> /\ Post(Msg("bridgeRelease", c))
    BY <1>7 DEF DestroyHandle
  <2>2. ClientMoves(c)
    BY <1>1, <2>1 DEF ClientMoves, Finish, OpenOn, ClientTypes
  <2>3. NoCallsOnDestroyed'
    BY <1>1, <2>1 DEF UnderWayInv, NoCallsOnDestroyed, HandleState, Finish, OpenOn, ClientTypes
  <2>4. \A k \in Calls : call'[k] = "settled" =>
          call[k] = "settled" \/ EndsCallOn(Msg("bridgeRelease", c), k, on'[k])
    BY <1>1, <2>1 DEF Finish, OpenOn, ClientTypes, EndsCall, EndsCallOn, Msg
  <2>5. object'[c] = "destroyed"
    BY <1>1, <2>1 DEF ClientTypes
  <2>6. Endings'
    BY <1>2, <1>3, <2>1, <2>2, <2>4, <2>5, PostEndings
  <2> QED BY <1>2, <2>2, <2>3, <2>6, RunsQueues DEF UnderWayInv, UnderWay, Endings
<1>8. ASSUME NEW h \in Calls \cup {Root}, StartCall(c, h)
      PROVE  UnderWayInv'
  BY <1>2, <1>4, <1>8, RunsQueues DEF UnderWayInv, UnderWay, Endings
<1> QED BY <1>5, <1>6, <1>7, <1>8 DEF SandboxRuns

-----------------------------------------------------------------------------
(* What the sandbox receives.                                              *)

\* What the message m does to the client.
Takes(m) ==
  /\ \A k \in Calls : call'[k] # call[k] => call'[k] = "settled" /\ m.type \in Final /\ m.id = k
  /\ \A k \in Calls : reader'[k] = "open" => reader[k] = "open" \/ m = Msg("stream", k)
  /\ \A k \in Calls : call'[k] = "open" /\ (reader[k] = "open" \/ m = Msg("stream", k)) =>
       reader'[k] = "open"
  /\ \A k \in Calls : object'[k] # object[k] => m.type \in ObjectMsg /\ m.id = k /\ object'[k] = "live"
  /\ functions' \subseteq functions /\ \A k \in functions' : ~Forgets(m, k)

\* The last message of a call that is open settles it.
Settles(m) ==
  \A k \in Calls : m.type \in Final /\ m.id = k /\ call[k] = "open" => call'[k] = "settled"

LEMMA ReceivesTakes ==
  ASSUME TypeOK, UnderWayInv, NEW c \in Calls, SandboxReceives(c)
  PROVE  Takes(Head(toSandbox)) /\ (~closed => Settles(Head(toSandbox)))
<1> SUFFICES ASSUME NEW m, m = Head(toSandbox)
             PROVE  Takes(m) /\ (~closed => Settles(m))
  OBVIOUS
<1>1. ClientTypes /\ BoxTypes
  BY TypeParts
<1>2. CASE TakesResult(c)
  <2>1. m.id = c /\ m.type \in {"value", "handle", "stream", "error"} /\ functions' = functions
        /\ (m.type = "stream" <=> m = Msg("stream", c))
    BY <1>2 DEF TakesResult, Reading, Msg
  <2>2. CASE call[c] = "open" /\ m.type = "handle" /\ Finish({c}) /\ NewObject(c)
    BY <1>1, <2>1, <2>2 DEF Takes, Settles, Finish, NewObject, ClientTypes, Final, ObjectMsg, Forgets, Msg
  <2>3. CASE /\ call[c] = "open" /\ m.type = "stream"
             /\ reader' = [reader EXCEPT ![c] = "open"] /\ UNCHANGED <<call, waiting, object>>
    BY <1>1, <2>1, <2>3 DEF Takes, Settles, ClientTypes, Final, Forgets, Msg
  <2>4. CASE call[c] = "open" /\ m.type \in {"value", "error"} /\ Finish({c}) /\ UNCHANGED object
    BY <1>1, <2>1, <2>4 DEF Takes, Settles, Finish, ClientTypes, Final, Forgets, Msg
  <2>5. CASE call[c] # "open" /\ UNCHANGED <<call, reader, waiting, object>>
    BY <1>1, <2>1, <2>5 DEF Takes, Settles, ClientTypes, Forgets, Msg
  <2> QED BY <1>2, <2>2, <2>3, <2>4, <2>5 DEF TakesResult
<1>3. CASE TakesChunk(c)
  <2>1. m.id = c /\ m.type \in {"chunk", "chunkHandle", "chunkDone", "chunkError"} /\ functions' = functions
        /\ \A k : m # Msg("stream", k)
    BY <1>3 DEF TakesChunk, Reading, Msg
  <2>2. ~closed /\ call[c] = "open" /\ m.type \in LastChunk => reader[c] = "open"
    <3>1. /\ 1 \in DOMAIN toSandbox /\ toSandbox[1] = m
          /\ \A j \in DOMAIN toSandbox : ~(j < 1)
      BY <1>1, <1>3, HeadTailProperties, EmptySeq, LenProperties DEF TakesChunk, Reading, BoxTypes
    <3> QED BY <2>1, <3>1 DEF UnderWayInv, StreamsAnnounced
  <2>3. CASE reader[c] = "open" /\ m.type = "chunk" /\ UNCHANGED <<call, reader, object>>
    BY <1>1, <2>1, <2>3 DEF Takes, Settles, ClientTypes, Final, Forgets
  <2>4. CASE reader[c] = "open" /\ m.type = "chunkHandle" /\ NewObject(c) /\ UNCHANGED <<call, reader>>
    BY <1>1, <2>1, <2>4 DEF Takes, Settles, NewObject, ClientTypes, Final, ObjectMsg, Forgets
  <2>5. CASE reader[c] = "open" /\ m.type \in LastChunk /\ Finish({c}) /\ UNCHANGED object
    BY <1>1, <2>1, <2>5 DEF Takes, Settles, Finish, ClientTypes, Final, LastChunk, Forgets
  <2>6. CASE reader[c] # "open" /\ UNCHANGED <<call, reader, waiting, object>>
    BY <1>1, <2>1, <2>2, <2>6 DEF Takes, Settles, ClientTypes, Final, LastChunk, Forgets
  <2> QED BY <1>3, <2>3, <2>4, <2>5, <2>6 DEF TakesChunk, LastChunk
<1>4. CASE TakesCallback(c)
  <2>1. m.type = "bridgeCallback" /\ UNCHANGED clientVars
    BY <1>4 DEF TakesCallback, Reading
  <2> QED BY <2>1 DEF Takes, Settles, Final, Forgets, clientVars, Msg
<1>5. CASE TakesForget
  <2>1. /\ m.type = "bridgeForget" /\ functions' = functions \ m.ids
        /\ UNCHANGED <<call, reader, object>>
    BY <1>5 DEF TakesForget
  <2> QED BY <2>1 DEF Takes, Settles, Final, Forgets, Msg
<1> QED BY <1>2, <1>3, <1>4, <1>5 DEF SandboxReceives

LEMMA ReceivesKeepUnderWay ==
  ASSUME TypeOK, CallsOnce, UnderWayInv, NEW c \in Calls, SandboxReceives(c)
  PROVE  UnderWayInv'
<1>1. ClientTypes /\ BoxTypes
  BY TypeParts
<1>2. UNCHANGED <<closed, calls, task, aborted, streams, owner, made, on>>
  BY DEF SandboxReceives, TakesResult, TakesChunk, TakesCallback, TakesForget, hostVars, clientVars
<1> DEFINE m == Head(toSandbox)
<1>3. Takes(m) /\ (~closed => Settles(m))
  BY ReceivesTakes
<1>4. /\ 1 \in DOMAIN toSandbox /\ toSandbox[1] = m
      /\ DOMAIN toSandbox = 1 .. Len(toSandbox) /\ DOMAIN toSandbox' = 1 .. (Len(toSandbox) - 1)
      /\ Len(toSandbox) \in Nat
      /\ \A i \in DOMAIN toSandbox' : toSandbox'[i] = toSandbox[i + 1]
  <2>1. toSandbox # <<>> /\ toSandbox' = Tail(toSandbox)
    BY DEF SandboxReceives, TakesResult, TakesChunk, TakesCallback, TakesForget, Reading
  <2> QED BY <1>1, <2>1, HeadTailProperties, EmptySeq, LenProperties DEF BoxTypes
<1>5. /\ \A i \in DOMAIN toSandbox' : i + 1 \in DOMAIN toSandbox /\ i + 1 # 1
      /\ \A i \in DOMAIN toSandbox : i # 1 => i - 1 \in DOMAIN toSandbox' /\ toSandbox'[i - 1] = toSandbox[i]
      /\ \A i, j \in DOMAIN toSandbox' : i + 1 = j + 1 => i = j
  BY <1>4
<1> HIDE DEF m
<1>6. \A i \in DOMAIN toSandbox : toSandbox[i].type # "bridgeForget" => toSandbox[i].id \in Calls
  BY <1>1, SandboxIds
<1>7. \A k \in Calls : /\ call'[k] = "open" => call[k] = "open"
                       /\ call[k] = "settled" => call'[k] = "settled"
  BY <1>3 DEF Takes
<1>8. AnswersUnderWay'
  <2> SUFFICES ASSUME ~closed, NEW k \in Calls, call'[k] = "open", task[k] \in Ended, k \notin streams
               PROVE  \E i \in DOMAIN toSandbox' : toSandbox'[i].type \in Final /\ toSandbox'[i].id = k
    BY <1>2 DEF AnswersUnderWay
  <2>1. PICK i \in DOMAIN toSandbox : toSandbox[i].type \in Final /\ toSandbox[i].id = k
    BY <1>7 DEF UnderWayInv, UnderWay, AnswersUnderWay
  <2>2. i # 1
    BY <1>3, <1>4, <1>7, <2>1 DEF Settles
  <2> QED BY <1>5, <2>1, <2>2
<1>9. ForgetsUnderWay'
  <2> SUFFICES ASSUME ~closed, NEW k \in functions', owner[k] = "released"
               PROVE  \E i \in DOMAIN toSandbox' : Forgets(toSandbox'[i], k)
    BY <1>2 DEF ForgetsUnderWay
  <2>1. PICK i \in DOMAIN toSandbox : Forgets(toSandbox[i], k)
    BY <1>3 DEF UnderWayInv, UnderWay, ForgetsUnderWay, Takes
  <2>2. i # 1
    BY <1>3, <1>4, <2>1 DEF Takes
  <2> QED BY <1>5, <2>1, <2>2
<1>10. StreamsAnnounced'
  <2> SUFFICES ASSUME ~closed, NEW k \in Calls, call'[k] = "open", reader'[k] # "open"
               PROVE  /\ k \in streams => \E i \in DOMAIN toSandbox' : toSandbox'[i] = Msg("stream", k)
                      /\ \A i \in DOMAIN toSandbox' :
                           toSandbox'[i].type \in LastChunk /\ toSandbox'[i].id = k =>
                             \E j \in DOMAIN toSandbox' : j < i /\ toSandbox'[j] = Msg("stream", k)
    BY <1>2 DEF StreamsAnnounced
  <2>1. call[k] = "open" /\ reader[k] # "open" /\ m # Msg("stream", k)
    BY <1>3, <1>7 DEF Takes
  <2>2. ASSUME k \in streams
        PROVE  \E i \in DOMAIN toSandbox' : toSandbox'[i] = Msg("stream", k)
    <3>1. PICK i \in DOMAIN toSandbox : toSandbox[i] = Msg("stream", k)
      BY <2>1, <2>2 DEF UnderWayInv, StreamsAnnounced
    <3> QED BY <1>4, <1>5, <2>1, <3>1
  <2>3. ASSUME NEW i \in DOMAIN toSandbox', toSandbox'[i].type \in LastChunk, toSandbox'[i].id = k
        PROVE  \E j \in DOMAIN toSandbox' : j < i /\ toSandbox'[j] = Msg("stream", k)
    <3>1. PICK j \in DOMAIN toSandbox : j < i + 1 /\ toSandbox[j] = Msg("stream", k)
      BY <1>4, <1>5, <2>1, <2>3 DEF UnderWayInv, StreamsAnnounced
    <3>2. j # 1 /\ j - 1 < i
      BY <1>4, <2>1, <3>1
    <3> QED BY <1>5, <3>1, <3>2
  <2> QED BY <2>2, <2>3
<1>11. OpenCallsHaveRecords'
  BY <1>2, <1>7 DEF UnderWayInv, OpenCallsHaveRecords
<1>12. m.type \in ObjectMsg => m.id \in made /\ object[m.id] = "none"
  BY <1>4 DEF UnderWayInv, ObjectsComeOnce
<1>13. \A k \in Calls : /\ object[k] = "destroyed" => object'[k] = "destroyed"
                        /\ object[k] = "live" => object'[k] = "live"
  BY <1>3, <1>12 DEF Takes
<1>14. NoCallsOnDestroyed'
  BY <1>1, <1>2, <1>7, <1>13 DEF UnderWayInv, NoCallsOnDestroyed, HandleState, ClientTypes
<1>15. ObjectsComeOnce'
  <2>1. \A k \in Calls : object'[k] # "none" => k \in made'
    BY <1>2, <1>3, <1>12 DEF UnderWayInv, ObjectsComeOnce, Takes
  <2>2. ASSUME NEW i \in DOMAIN toSandbox', toSandbox'[i].type \in ObjectMsg
        PROVE  /\ toSandbox'[i].id \in made' /\ object'[toSandbox'[i].id] = "none"
               /\ \A j \in DOMAIN toSandbox' :
                    toSandbox'[j].type \in ObjectMsg /\ toSandbox'[j].id = toSandbox'[i].id => j = i
    <3>1. /\ i + 1 \in DOMAIN toSandbox /\ i + 1 # 1 /\ toSandbox'[i] = toSandbox[i + 1]
          /\ toSandbox[i + 1].id \in Calls
      BY <1>4, <1>5, <1>6, <2>2 DEF ObjectMsg
    <3>2. ~(m.type \in ObjectMsg /\ m.id = toSandbox[i + 1].id)
      BY <1>4, <2>2, <3>1 DEF UnderWayInv, ObjectsComeOnce
    <3>3. toSandbox[i + 1].id \in made /\ object[toSandbox[i + 1].id] = "none"
      BY <2>2, <3>1 DEF UnderWayInv, ObjectsComeOnce
    <3>4. object'[toSandbox[i + 1].id] = "none"
      BY <1>3, <3>1, <3>2, <3>3 DEF Takes
    <3>5. \A j \in DOMAIN toSandbox' :
            toSandbox'[j].type \in ObjectMsg /\ toSandbox'[j].id = toSandbox'[i].id => j + 1 = i + 1
      BY <1>4, <1>5, <2>2, <3>1 DEF UnderWayInv, ObjectsComeOnce
    <3> QED BY <1>2, <1>5, <3>1, <3>3, <3>4, <3>5
  <2> QED BY <2>1, <2>2 DEF ObjectsComeOnce
<1>16. AnswersAreLast'
  <2>1. \A i \in DOMAIN toSandbox :
          /\ toSandbox[i].type = "stream" => task[toSandbox[i].id] = "done"
          /\ toSandbox[i].type \in Final =>
               task[toSandbox[i].id] \in Ended /\ toSandbox[i].id \notin calls
    BY DEF UnderWayInv, AnswersAreLast
  <2>2. \A k \in Calls : reader'[k] = "open" => task[k] = "done"
    BY <1>3, <1>4, <2>1 DEF UnderWayInv, AnswersAreLast, Takes, Msg
  <2> QED BY <1>2, <1>4, <1>5, <2>1, <2>2 DEF AnswersAreLast
<1>17. /\ \A i \in DOMAIN toHost : i \in DOMAIN toHost' /\ toHost'[i] = toHost[i]
       /\ \A i \in DOMAIN toHost' : i \in DOMAIN toHost \/ toHost'[i].type = "bridgeCallbackResult"
  <2>1. UNCHANGED toHost \/ Post(Msg("bridgeCallbackResult", c))
    BY DEF SandboxReceives, TakesResult, TakesChunk, TakesCallback, TakesForget
  <2> QED BY <1>1, <2>1 DEF Post, Msg, BoxTypes
<1>18. AbortsUnderWay'
  <2> SUFFICES ASSUME NEW k \in Calls, call'[k] = "settled"
               PROVE  /\ k \in calls \ aborted => \E i \in DOMAIN toHost' : EndsCall(toHost'[i], k)
                      /\ \A i \in DOMAIN toHost' : toHost'[i] = Msg("bridgeCall", k) =>
                           \E j \in DOMAIN toHost' : j > i /\ EndsCall(toHost'[j], k)
    BY <1>2 DEF AbortsUnderWay, EndsCall
  <2>1. CASE call[k] = "settled"
    <3>1. /\ k \in calls \ aborted => \E i \in DOMAIN toHost : EndsCall(toHost[i], k)
          /\ \A i \in DOMAIN toHost : toHost[i] = Msg("bridgeCall", k) =>
               \E j \in DOMAIN toHost : j > i /\ EndsCall(toHost[j], k)
      BY <2>1 DEF UnderWayInv, UnderWay, AbortsUnderWay
    <3>2. \A i \in DOMAIN toHost' : toHost'[i] = Msg("bridgeCall", k) => i \in DOMAIN toHost
      BY <1>17 DEF Msg
    <3> QED BY <1>17, <3>1, <3>2
  <2>2. CASE call[k] # "settled"
    <3>1. k \notin calls /\ task[k] # "none"
      BY <1>3, <1>4, <2>2 DEF Takes, UnderWayInv, AnswersAreLast, Ended
    <3>2. \A i \in DOMAIN toHost' : toHost'[i] # Msg("bridgeCall", k)
      BY <1>17, <3>1 DEF CallsOnce, Msg
    <3> QED BY <3>1, <3>2
  <2> QED BY <2>1, <2>2
<1>19. EndsAreMeant'
  <2>1. \A i \in DOMAIN toHost : toHost[i].id \in Calls
    BY <1>1, CallIds
  <2>2. \A i \in DOMAIN toHost :
          /\ toHost[i].type \in {"bridgeAbort", "bridgeCancel"} => call'[toHost[i].id] = "settled"
          /\ toHost[i].type = "bridgeCancel" => task'[toHost[i].id] = "done"
          /\ toHost[i].type = "bridgeRelease" => object'[toHost[i].id] = "destroyed"
    BY <1>2, <1>7, <1>13, <2>1 DEF UnderWayInv, EndsAreMeant
  <2> QED BY <1>17, <2>2 DEF EndsAreMeant
<1> QED BY <1>8, <1>9, <1>10, <1>11, <1>14, <1>15, <1>16, <1>18, <1>19 DEF UnderWayInv, UnderWay

-----------------------------------------------------------------------------
(* Nothing is lost.                                                        *)

LEMMA UnderWayInit == Init => UnderWayInv
<1> SUFFICES ASSUME Init PROVE UnderWayInv
  OBVIOUS
<1>1. toHost = <<>> /\ toSandbox = <<>>
  BY DEF Init
<1> QED BY <1>1 DEF Init, UnderWayInv, UnderWay, AnswersUnderWay, ForgetsUnderWay, AbortsUnderWay,
                    StreamsAnnounced, OpenCallsHaveRecords, EndsAreMeant, NoCallsOnDestroyed,
                    ObjectsComeOnce, AnswersAreLast, Ended

LEMMA UnderWayNext == IInv /\ UnderWayInv /\ [Next]_vars => UnderWayInv'
<1> SUFFICES ASSUME IInv, UnderWayInv, [Next]_vars PROVE UnderWayInv'
  OBVIOUS
<1>1. TypeOK /\ CallsOnce /\ Kept /\ Records
  BY DEF IInv, Kept
<1>2. ASSUME NEW c \in Calls, HostReceives(c) \/ HostRuns(c)
      PROVE  UnderWayInv'
  <2>1. PICK M, S : HostFacts(M, S)
    BY <1>1, <1>2, HostStepFacts
  <2>2. UNCHANGED clientVars /\ closed' = closed
    BY <1>2 DEF HostReceives, OnCall, OnAbort, OnCancel, OnPull, OnRelease, OnCallbackResult,
                HostRuns, Consent, MethodThrows, LimitTimeout, ReturnsLate, ReturnsStream,
                ReturnsHandle, ReturnsValue, ReturnsUnsendable, PullIsLate, PullYields, PullEnds,
                PullFails, CallsFunction, hostVars
  <2>3. Endings'
    BY <1>1, <1>2, ReceivesEndings, RunsEndings
  <2> QED BY <1>1, <2>1, <2>2, <2>3, HostKeepsUnderWay DEF UnderWayInv, UnderWay, Endings
<1>3. CASE Close
  <2>1. /\ closed' = TRUE /\ calls' = {} /\ toHost' = <<>> /\ toSandbox' = <<>>
        /\ UNCHANGED <<task, made>> /\ UNCHANGED clientVars
    BY <1>3 DEF Close
  <2> QED BY <2>1 DEF UnderWayInv, UnderWay, AnswersUnderWay, ForgetsUnderWay, AbortsUnderWay,
                      StreamsAnnounced, OpenCallsHaveRecords, EndsAreMeant, NoCallsOnDestroyed,
                      HandleState, ObjectsComeOnce, AnswersAreLast, clientVars
<1>4. CASE UNCHANGED vars
  <2>1. UNCHANGED <<hostVars, clientVars, toHost, toSandbox>>
    BY <1>4 DEF vars
  <2>2. /\ AnswersUnderWay' /\ ForgetsUnderWay' /\ AbortsUnderWay' /\ StreamsAnnounced'
        /\ OpenCallsHaveRecords'
    BY <2>1 DEF UnderWayInv, UnderWay, AnswersUnderWay, ForgetsUnderWay, AbortsUnderWay, EndsCall,
                StreamsAnnounced, OpenCallsHaveRecords, hostVars, clientVars
  <2>3. EndsAreMeant' /\ NoCallsOnDestroyed' /\ ObjectsComeOnce' /\ AnswersAreLast'
    BY <2>1 DEF UnderWayInv, EndsAreMeant, NoCallsOnDestroyed, HandleState, ObjectsComeOnce,
                AnswersAreLast, hostVars, clientVars
  <2> QED BY <2>2, <2>3 DEF UnderWayInv, UnderWay
<1> QED BY <1>1, <1>2, <1>3, <1>4, RunsKeepUnderWay, ReceivesKeepUnderWay DEF Next

\* Whenever a call that is answered has not settled, a released function is
\* still kept, or a call the sandbox gave up still runs, the message that ends
\* this is under way: no interleaving of aborts, timeouts, releases and results
\* loses one (bridge-host.mjs:767-786, bridge-client.mjs:441-490).
THEOREM BridgeLosesNothing == Spec => []UnderWay
<1>1. UnderWayInv => UnderWay
  BY DEF UnderWayInv
<1> QED BY <1>1, UnderWayInit, UnderWayNext, IInvHolds, PTL DEF Spec

-----------------------------------------------------------------------------
(* What the two sides know of each other.                                  *)

\* A handle the sandbox has, or is about to hear of, is of a registered object.
HandlesWork ==
  /\ ~closed => \A c \in Calls : object[c] = "live" => c \in handles
  /\ \A i \in DOMAIN toSandbox : toSandbox[i].type \in ObjectMsg => toSandbox[i].id \in handles

\* A stream is read only for an open call of a stream method.
ReadersAreCalls ==
  /\ \A c \in Calls : reader[c] = "open" => call[c] = "open" /\ Kind[c] = "stream"
  /\ \A i \in DOMAIN toSandbox : toSandbox[i].type = "stream" => Kind[toSandbox[i].id] = "stream"

\* A reverse call, or its result, is under way once.
ReverseOnce ==
  /\ \A i \in DOMAIN toSandbox : toSandbox[i].type = "bridgeCallback" =>
       /\ proxy[toSandbox[i].id] = "sent"
       /\ \A j \in DOMAIN toSandbox :
            toSandbox[j].type = "bridgeCallback" /\ toSandbox[j].id = toSandbox[i].id => j = i
  /\ \A i \in DOMAIN toHost : toHost[i].type = "bridgeCallbackResult" =>
       /\ proxy[toHost[i].id] = "answered"
       /\ \A j \in DOMAIN toHost :
            toHost[j].type = "bridgeCallbackResult" /\ toHost[j].id = toHost[i].id => j = i

\* Nothing is left of a closed session; only lent functions have owners.
ClosedIsSilent == closed => calls = {} /\ handles = {} /\ toHost = <<>> /\ toSandbox = <<>>
OnlyLent == \A c \in Calls \ WithFunction : owner[c] = "none"

TwoSides == HandlesWork /\ ReadersAreCalls /\ ReverseOnce /\ ClosedIsSilent /\ OnlyLent

\* A queue after its first message is taken, and after one is added.
LEMMA TailIndex ==
  ASSUME NEW T, NEW q \in Seq(T), q # <<>>, NEW r, r = Tail(q)
  PROVE  /\ 1 \in DOMAIN q /\ q[1] = Head(q)
         /\ \A i \in DOMAIN r : i + 1 \in DOMAIN q /\ i + 1 # 1 /\ r[i] = q[i + 1]
         /\ \A i, j \in DOMAIN r : i + 1 = j + 1 => i = j
BY HeadTailProperties, EmptySeq, LenProperties

LEMMA PostIndex ==
  ASSUME NEW T, NEW q \in Seq(T), NEW m \in T, NEW r, r = Append(q, m)
  PROVE  \A i \in DOMAIN r :
           \/ i \in DOMAIN q /\ r[i] = q[i]
           \/ i \notin DOMAIN q /\ r[i] = m /\ i = Len(q) + 1
<1>1. /\ DOMAIN q = 1 .. Len(q) /\ Len(q) \in Nat
      /\ DOMAIN r = 1 .. (Len(q) + 1)
      /\ \A i \in 1 .. Len(q) : r[i] = q[i]
      /\ r[Len(q) + 1] = m
  BY AppendProperties, LenProperties
<1> QED BY <1>1

\* What a step of the host leaves alone.
LEMMA HostStepSides ==
  ASSUME TypeOK, EndsAreMeant, NEW c \in Calls, HostReceives(c) \/ HostRuns(c)
  PROVE  /\ \A k \in handles : k \in handles' \/ object[k] = "destroyed"
         /\ UNCHANGED clientVars /\ closed' = closed
         /\ toHost' = toHost \/ (toHost # <<>> /\ toHost' = Tail(toHost))
<1>1. UNCHANGED clientVars /\ closed' = closed
  BY DEF HostReceives, OnCall, OnAbort, OnCancel, OnPull, OnRelease, OnCallbackResult,
         HostRuns, Consent, MethodThrows, LimitTimeout, ReturnsLate, ReturnsStream,
         ReturnsHandle, ReturnsValue, ReturnsUnsendable, PullIsLate, PullYields, PullEnds,
         PullFails, CallsFunction, hostVars
<1>2. toHost' = toHost \/ (toHost # <<>> /\ toHost' = Tail(toHost))
  BY DEF HostReceives, OnCall, OnAbort, OnCancel, OnPull, OnRelease, OnCallbackResult, Arrives,
         HostRuns, Consent, MethodThrows, LimitTimeout, ReturnsLate, ReturnsStream,
         ReturnsHandle, ReturnsValue, ReturnsUnsendable, PullIsLate, PullYields, PullEnds,
         PullFails, CallsFunction
<1>3. CASE OnRelease(c)
  <2>1. 1 \in DOMAIN toHost /\ toHost[1] = Msg("bridgeRelease", c)
    BY <1>3, TypeParts, HeadTailProperties, EmptySeq, LenProperties DEF BoxTypes, OnRelease, Arrives
  <2>2. object[c] = "destroyed"
    BY <2>1 DEF EndsAreMeant, Msg
  <2>3. handles' = handles \/ handles' = handles \ {c}
    BY <1>3 DEF OnRelease
  <2> QED BY <1>1, <1>2, <2>2, <2>3
<1>4. CASE ~OnRelease(c)
  <2>1. handles \subseteq handles'
    BY <1>4 DEF HostReceives, OnCall, OnAbort, OnCancel, OnPull, OnCallbackResult,
         HostRuns, Consent, MethodThrows, LimitTimeout, ReturnsLate, ReturnsStream,
         ReturnsHandle, ReturnsValue, ReturnsUnsendable, PullIsLate, PullYields, PullEnds,
         PullFails, CallsFunction, hostVars, Register
  <2> QED BY <1>1, <1>2, <2>1
<1> QED BY <1>3, <1>4

\* What it does to the reverse calls.
LEMMA HostStepReverse ==
  ASSUME TypeOK, NEW c \in Calls, HostReceives(c) \/ HostRuns(c)
  PROVE  \A k \in Calls :
           \/ proxy'[k] = proxy[k] \/ proxy[k] = "none"
           \/ /\ toHost # <<>> /\ toHost' = Tail(toHost)
              /\ Head(toHost) = Msg("bridgeCallbackResult", k)
<1>1. CASE UNCHANGED proxy
  BY <1>1
<1>2. CASE OnCallbackResult(c)
  BY <1>2, TypeParts DEF OnCallbackResult, Arrives, ProxyTypes
<1>3. CASE CallsFunction(c)
  BY <1>3, TypeParts DEF CallsFunction, ProxyTypes
<1> QED BY <1>1, <1>2, <1>3 DEF HostReceives, OnCall, OnAbort, OnCancel, OnPull, OnRelease,
         HostRuns, Consent, MethodThrows, LimitTimeout, ReturnsLate, ReturnsStream,
         ReturnsHandle, ReturnsValue, ReturnsUnsendable, PullIsLate, PullYields, PullEnds, PullFails

LEMMA OnlyLentNext == TypeOK /\ OnlyLent /\ [Next]_vars => OnlyLent'
<1> SUFFICES ASSUME TypeOK, OnlyLent, [Next]_vars PROVE OnlyLent'
  OBVIOUS
<1>1. HostTypes
  BY TypeParts
<1>2. CASE UNCHANGED owner
  BY <1>2 DEF OnlyLent
<1>3. ASSUME NEW S, S \cap {k \in Calls : owner[k] = "none"} \subseteq WithFunction, owner' = Revoked(S)
      PROVE  OnlyLent'
  BY <1>3 DEF OnlyLent, Revoked
<1>4. ASSUME NEW E, NEW H, owner' = Revoked(Released(E, H))
      PROVE  OnlyLent'
  BY <1>3, <1>4 DEF Released
<1>5. ASSUME NEW c \in Calls, Register(c) PROVE OnlyLent'
  BY <1>1, <1>5 DEF OnlyLent, Register, HostTypes
<1>6. ASSUME NEW c \in Calls, OnCall(c) PROVE OnlyLent'
  BY <1>1, <1>6 DEF OnlyLent, OnCall, HostTypes
<1>7. ASSUME NEW c \in Calls, NEW msgs, EndCalls({c}, msgs) PROVE OnlyLent'
  BY <1>4, <1>7 DEF EndCalls
<1>8. ASSUME NEW c \in Calls, CallFails(c) PROVE OnlyLent'
  BY <1>2, <1>7, <1>8 DEF CallFails
<1>9. ASSUME NEW c \in Calls, OnAbort(c) \/ OnCancel(c) \/ OnRelease(c) PROVE OnlyLent'
  BY <1>2, <1>4, <1>7, <1>9 DEF OnAbort, OnCancel, OnRelease, CloseCall
<1>10. ASSUME NEW c \in Calls, HostReceives(c) PROVE OnlyLent'
  BY <1>2, <1>6, <1>9, <1>10 DEF HostReceives, OnPull, OnCallbackResult, hostVars
<1>11. ASSUME NEW c \in Calls, ReturnsUnsendable(c) PROVE OnlyLent'
  BY <1>3, <1>8, <1>11 DEF ReturnsUnsendable
<1>12. ASSUME NEW c \in Calls,
              \/ Consent(c) \/ MethodThrows(c) \/ ReturnsLate(c) \/ ReturnsStream(c)
              \/ ReturnsHandle(c) \/ ReturnsValue(c)
       PROVE OnlyLent'
  BY <1>2, <1>5, <1>7, <1>8, <1>12 DEF Consent, MethodThrows, ReturnsLate, ReturnsStream,
         ReturnsHandle, ReturnsValue
<1>13. ASSUME NEW c \in Calls,
              LimitTimeout(c) \/ PullIsLate(c) \/ PullYields(c) \/ PullEnds(c) \/ PullFails(c)
       PROVE OnlyLent'
  BY <1>2, <1>5, <1>7, <1>13 DEF LimitTimeout, PullIsLate, PullYields, PullEnds, PullFails, CloseCall
<1>14. ASSUME NEW c \in Calls, SandboxRuns(c) \/ SandboxReceives(c) \/ CallsFunction(c) PROVE OnlyLent'
  BY <1>2, <1>14 DEF SandboxRuns, StartCall, AbortCall, CancelStream, PullStream, DestroyHandle,
         FunctionReturns, SandboxReceives, TakesResult, TakesChunk, TakesCallback, TakesForget,
         CallsFunction, hostVars
<1> QED BY <1>2, <1>10, <1>11, <1>12, <1>13, <1>14 DEF Next, HostRuns, Close, vars, hostVars

\* A closed session sends nothing and starts nothing.
LEMMA ClosedNext == TypeOK /\ ClosedIsSilent /\ [Next]_vars => ClosedIsSilent'
<1> SUFFICES ASSUME TypeOK, ClosedIsSilent, [Next]_vars PROVE ClosedIsSilent'
  OBVIOUS
<1>1. HostTypes
  BY TypeParts
<1>2. CASE Close
  BY <1>2 DEF ClosedIsSilent, Close
<1>3. CASE UNCHANGED <<closed, calls, handles, toHost, toSandbox>>
  BY <1>3 DEF ClosedIsSilent
<1>4. CASE closed = FALSE /\ closed' = closed
  BY <1>4 DEF ClosedIsSilent
<1>5. ASSUME NEW c \in Calls, SandboxRuns(c) \/ SandboxReceives(c) \/ HostReceives(c)
      PROVE  ClosedIsSilent'
  <2>1. ~closed /\ closed' = closed
    BY <1>5 DEF ClosedIsSilent, SandboxRuns, StartCall, AbortCall, CancelStream, PullStream,
         DestroyHandle, FunctionReturns, SandboxReceives, TakesResult, TakesChunk, TakesCallback,
         TakesForget, Reading, HostReceives, OnCall, OnAbort, OnCancel, OnPull, OnRelease,
         OnCallbackResult, Arrives, hostVars
  <2> QED BY <1>1, <1>4, <2>1 DEF HostTypes
<1>6. ASSUME NEW c \in Calls, CallFails(c), UNCHANGED <<closed, handles, toHost>>
      PROVE  ClosedIsSilent'
  <2>1. CASE closed
    BY <1>3, <1>6, <2>1 DEF CallFails, ClosedIsSilent
  <2> QED BY <1>1, <1>4, <1>6, <2>1 DEF HostTypes
<1>7. ASSUME NEW c \in Calls, Consent(c) \/ MethodThrows(c) \/ ReturnsLate(c)
      PROVE  ClosedIsSilent'
  BY <1>3, <1>6, <1>7 DEF Consent, MethodThrows, ReturnsLate
<1>8. ASSUME NEW c \in Calls,
             ReturnsStream(c) \/ ReturnsHandle(c) \/ ReturnsValue(c) \/ ReturnsUnsendable(c)
      PROVE  ClosedIsSilent'
  BY <1>1, <1>4, <1>8 DEF ReturnsStream, ReturnsHandle, ReturnsValue, ReturnsUnsendable, Late, HostTypes
<1>9. ASSUME NEW c \in Calls,
             LimitTimeout(c) \/ PullYields(c) \/ PullEnds(c) \/ PullFails(c)
      PROVE  ClosedIsSilent'
  <2>1. closed' = closed /\ ~closed
    BY <1>1, <1>9 DEF LimitTimeout, PullYields, PullEnds, PullFails, ClosedIsSilent, HostTypes
  <2> QED BY <1>1, <1>4, <2>1 DEF HostTypes
<1>10. ASSUME NEW c \in Calls, PullIsLate(c) \/ CallsFunction(c)
       PROVE  ClosedIsSilent'
  <2>1. CASE UNCHANGED toSandbox
    BY <1>3, <1>10, <2>1 DEF PullIsLate, CallsFunction, hostVars
  <2> QED BY <1>1, <1>4, <1>10, <2>1 DEF PullIsLate, CallsFunction, hostVars, HostTypes
<1> QED BY <1>2, <1>3, <1>5, <1>7, <1>8, <1>9, <1>10 DEF Next, HostRuns, vars, hostVars

LEMMA ReadersNext ==
  TypeOK /\ Records /\ CallsOnce /\ ReadersAreCalls /\ UnderWayInv /\ [Next]_vars => ReadersAreCalls'
<1> SUFFICES ASSUME TypeOK, Records, CallsOnce, ReadersAreCalls, UnderWayInv, [Next]_vars
             PROVE  ReadersAreCalls'
  OBVIOUS
<1>1. ClientTypes /\ BoxTypes
  BY TypeParts
<1>2. ASSUME NEW c \in Calls, HostReceives(c) \/ HostRuns(c)
      PROVE  ReadersAreCalls'
  <2>1. PICK M, S : HostFacts(M, S)
    BY <1>2, HostStepFacts
  <2>2. UNCHANGED <<call, reader>>
    BY <1>2, HostStepSides DEF UnderWayInv, clientVars
  <2>3. \A i \in DOMAIN toSandbox' :
          \/ i \in DOMAIN toSandbox /\ toSandbox'[i] = toSandbox[i]
          \/ toSandbox'[i] \in M \/ toSandbox'[i].type = "bridgeForget"
    BY <1>1, <2>1, QueueAfter DEF HostFacts
  <2>4. \A i \in DOMAIN toSandbox' : toSandbox'[i].type = "stream" => Kind[toSandbox'[i].id] = "stream"
    BY <2>1, <2>3 DEF HostFacts, HostMeans, ReadersAreCalls
  <2> QED BY <2>2, <2>4 DEF ReadersAreCalls
<1>3. ASSUME NEW c \in Calls, SandboxRuns(c)
      PROVE  ReadersAreCalls'
  <2>1. toSandbox' = toSandbox
    BY <1>3 DEF SandboxRuns, StartCall, AbortCall, CancelStream, PullStream, DestroyHandle, FunctionReturns
  <2>2. ASSUME NEW S, Finish(S) PROVE ReadersAreCalls'
    BY <1>1, <2>1, <2>2 DEF ReadersAreCalls, Finish, ClientTypes
  <2>3. CASE PullStream(c) \/ FunctionReturns(c)
    BY <2>1, <2>3 DEF ReadersAreCalls, PullStream, FunctionReturns, clientVars
  <2>4. ASSUME NEW h \in Calls \cup {Root}, StartCall(c, h) PROVE ReadersAreCalls'
    BY <1>1, <2>1, <2>2, <2>4 DEF StartCall, ReadersAreCalls, ClientTypes
  <2> QED BY <1>3, <2>2, <2>3, <2>4 DEF SandboxRuns, AbortCall, CancelStream, DestroyHandle
<1>4. ASSUME NEW c \in Calls, SandboxReceives(c)
      PROVE  ReadersAreCalls'
  <2>1. toSandbox # <<>> /\ toSandbox' = Tail(toSandbox)
    BY <1>4 DEF SandboxReceives, TakesResult, TakesChunk, TakesCallback, TakesForget, Reading
  <2>2. /\ 1 \in DOMAIN toSandbox /\ toSandbox[1] = Head(toSandbox)
        /\ \A i \in DOMAIN toSandbox' : i + 1 \in DOMAIN toSandbox /\ toSandbox'[i] = toSandbox[i + 1]
    BY <1>1, <2>1, TailIndex DEF BoxTypes
  <2>3. \A i \in DOMAIN toSandbox' : toSandbox'[i].type = "stream" => Kind[toSandbox'[i].id] = "stream"
    BY <2>2 DEF ReadersAreCalls
  <2>4. ASSUME NEW S, Finish(S) PROVE ReadersAreCalls'
    BY <1>1, <2>3, <2>4 DEF ReadersAreCalls, Finish, ClientTypes
  <2>5. CASE UNCHANGED <<call, reader>>
    BY <2>3, <2>5 DEF ReadersAreCalls
  <2>6. CASE TakesResult(c)
    <3>1. Head(toSandbox).id = c /\ (Head(toSandbox).type = "stream" => Kind[c] = "stream")
      BY <2>2, <2>6 DEF TakesResult, Reading, ReadersAreCalls
    <3>2. CASE /\ call[c] = "open" /\ Head(toSandbox).type = "stream"
               /\ reader' = [reader EXCEPT ![c] = "open"] /\ UNCHANGED call
      BY <1>1, <2>3, <3>1, <3>2 DEF ReadersAreCalls, ClientTypes
    <3> QED BY <2>4, <2>5, <2>6, <3>2 DEF TakesResult
  <2>7. CASE TakesChunk(c)
    BY <2>4, <2>5, <2>7 DEF TakesChunk
  <2> QED BY <1>4, <2>5, <2>6, <2>7 DEF SandboxReceives, TakesCallback, TakesForget, clientVars
<1>5. CASE Close
  BY <1>5 DEF Close, ReadersAreCalls, clientVars
<1>6. CASE UNCHANGED vars
  BY <1>6 DEF vars, clientVars, ReadersAreCalls
<1> QED BY <1>2, <1>3, <1>4, <1>5, <1>6 DEF Next

LEMMA HandlesWorkNext ==
  TypeOK /\ Records /\ CallsOnce /\ HandlesWork /\ UnderWayInv /\ [Next]_vars => HandlesWork'
<1> SUFFICES ASSUME TypeOK, Records, CallsOnce, HandlesWork, UnderWayInv, [Next]_vars
             PROVE  HandlesWork'
  OBVIOUS
<1>1. ClientTypes /\ BoxTypes /\ \A k \in handles : k \in Calls
  BY TypeParts DEF HostTypes
<1>2. ASSUME NEW c \in Calls, HostReceives(c) \/ HostRuns(c)
      PROVE  HandlesWork'
  <2>1. PICK M, S : HostFacts(M, S)
    BY <1>2, HostStepFacts
  <2>2. /\ \A k \in handles : k \in handles' \/ object[k] = "destroyed"
        /\ object' = object /\ closed' = closed
    BY <1>2, HostStepSides DEF UnderWayInv, clientVars
  <2>3. \A i \in DOMAIN toSandbox' :
          \/ i \in DOMAIN toSandbox /\ toSandbox'[i] = toSandbox[i]
          \/ toSandbox'[i] \in M \/ toSandbox'[i].type = "bridgeForget"
    BY <1>1, <2>1, QueueAfter DEF HostFacts
  <2>4. \A i \in DOMAIN toSandbox : toSandbox[i].type \in ObjectMsg => toSandbox[i].id \in handles'
    BY <1>1, <2>2 DEF HandlesWork, UnderWayInv, ObjectsComeOnce
  <2>5. \A i \in DOMAIN toSandbox' : toSandbox'[i].type \in ObjectMsg => toSandbox'[i].id \in handles'
    BY <2>1, <2>3, <2>4 DEF HostFacts, HostMeans, ObjectMsg
  <2> QED BY <2>2, <2>5 DEF HandlesWork
<1>3. ASSUME NEW c \in Calls, SandboxRuns(c)
      PROVE  HandlesWork'
  <2>1. toSandbox' = toSandbox /\ handles' = handles /\ closed' = closed
    BY <1>3 DEF SandboxRuns, StartCall, AbortCall, CancelStream, PullStream, DestroyHandle,
                FunctionReturns, hostVars
  <2>2. \A k \in Calls : object'[k] = "live" => object[k] = "live"
    BY <1>1, <1>3 DEF SandboxRuns, StartCall, AbortCall, CancelStream, PullStream, DestroyHandle,
                FunctionReturns, clientVars, ClientTypes
  <2> QED BY <2>1, <2>2 DEF HandlesWork
<1>4. ASSUME NEW c \in Calls, SandboxReceives(c)
      PROVE  HandlesWork'
  <2>1. toSandbox # <<>> /\ toSandbox' = Tail(toSandbox) /\ handles' = handles /\ closed' = closed
    BY <1>4 DEF SandboxReceives, TakesResult, TakesChunk, TakesCallback, TakesForget, Reading, hostVars
  <2>2. /\ 1 \in DOMAIN toSandbox /\ toSandbox[1] = Head(toSandbox)
        /\ \A i \in DOMAIN toSandbox' : i + 1 \in DOMAIN toSandbox /\ toSandbox'[i] = toSandbox[i + 1]
    BY <1>1, <2>1, TailIndex DEF BoxTypes
  <2>3. \A i \in DOMAIN toSandbox' : toSandbox'[i].type \in ObjectMsg => toSandbox'[i].id \in handles'
    BY <2>1, <2>2 DEF HandlesWork
  <2>4. \A k \in Calls : object'[k] = "live" =>
          object[k] = "live" \/ (Head(toSandbox).type \in ObjectMsg /\ Head(toSandbox).id = k)
    BY <1>4, ReceivesTakes DEF Takes
  <2>5. Head(toSandbox).type \in ObjectMsg => Head(toSandbox).id \in handles
    BY <2>2 DEF HandlesWork
  <2> QED BY <2>1, <2>3, <2>4, <2>5 DEF HandlesWork
<1>5. CASE Close
  BY <1>5 DEF Close, HandlesWork
<1>6. CASE UNCHANGED vars
  BY <1>6 DEF vars, hostVars, clientVars, HandlesWork
<1> QED BY <1>2, <1>3, <1>4, <1>5, <1>6 DEF Next

\* Its result arrives once, and another is asked for only when none was.
LEMMA ReverseHost ==
  ASSUME TypeOK, Records, CallsOnce, ReverseOnce, UnderWayInv,
         NEW c \in Calls, HostReceives(c) \/ HostRuns(c)
  PROVE  ReverseOnce'
<1>1. BoxTypes /\ toHost \in Seq(ToHost)
  BY TypeParts DEF BoxTypes
<1>2. PICK M, S : HostFacts(M, S)
  BY HostStepFacts
<1>3. toHost' = toHost \/ (toHost # <<>> /\ toHost' = Tail(toHost))
  BY HostStepSides DEF UnderWayInv
<1>4. \A k \in Calls :
        \/ proxy'[k] = proxy[k] \/ proxy[k] = "none"
        \/ /\ toHost # <<>> /\ toHost' = Tail(toHost)
           /\ Head(toHost) = Msg("bridgeCallbackResult", k)
  BY HostStepReverse
<1>5. \A i \in DOMAIN toHost : toHost[i].id \in Calls
  BY <1>1, CallIds
<1>6. ASSUME toHost # <<>>
      PROVE  1 \in DOMAIN toHost /\ toHost[1] = Head(toHost)
  BY <1>1, <1>6, HeadTailProperties, EmptySeq, LenProperties
<1>7. ASSUME NEW i \in DOMAIN toHost', toHost'[i].type = "bridgeCallbackResult"
      PROVE  /\ proxy'[toHost'[i].id] = "answered"
             /\ \A j \in DOMAIN toHost' :
                  toHost'[j].type = "bridgeCallbackResult" /\ toHost'[j].id = toHost'[i].id => j = i
  <2>1. CASE toHost' = toHost /\ ~(toHost # <<>> /\ toHost' = Tail(toHost))
    BY <1>4, <1>5, <1>7, <2>1 DEF ReverseOnce
  <2>2. CASE toHost # <<>> /\ toHost' = Tail(toHost)
    <3>1. /\ 1 \in DOMAIN toHost /\ toHost[1] = Head(toHost)
          /\ \A k \in DOMAIN toHost' : k + 1 \in DOMAIN toHost /\ k + 1 # 1 /\ toHost'[k] = toHost[k + 1]
          /\ \A k, j \in DOMAIN toHost' : k + 1 = j + 1 => k = j
      BY <1>1, <2>2, TailIndex
    <3>2. Head(toHost) # Msg("bridgeCallbackResult", toHost'[i].id)
      BY <1>7, <3>1 DEF ReverseOnce, Msg
    <3>3. proxy[toHost'[i].id] = "answered" /\ toHost'[i].id \in Calls
      BY <1>5, <1>7, <3>1 DEF ReverseOnce
    <3>4. proxy'[toHost'[i].id] = "answered"
      BY <1>4, <3>2, <3>3
    <3>5. ASSUME NEW j \in DOMAIN toHost', toHost'[j].type = "bridgeCallbackResult",
                 toHost'[j].id = toHost'[i].id
          PROVE  j = i
      <4>1. j + 1 = i + 1
        BY <1>7, <3>1, <3>5 DEF ReverseOnce
      <4> QED BY <3>1, <4>1
    <3> QED BY <3>4, <3>5
  <2> QED BY <1>3, <2>1, <2>2
<1>8. \A i \in DOMAIN toSandbox : toSandbox[i].type # "bridgeForget" => toSandbox[i].id \in Calls
  BY <1>1, SandboxIds
<1>9. ASSUME NEW k \in Calls, proxy[k] = "sent" PROVE proxy'[k] = "sent"
  <2>1. ASSUME toHost # <<>>, Head(toHost) = Msg("bridgeCallbackResult", k) PROVE FALSE
    BY <1>6, <1>9, <2>1 DEF ReverseOnce, Msg
  <2> QED BY <1>4, <1>9, <2>1
<1>10. \A i \in DOMAIN toSandbox' :
         \/ i \in DOMAIN toSandbox /\ toSandbox'[i] = toSandbox[i]
         \/ /\ i \notin DOMAIN toSandbox
            /\ toSandbox'[i] \in M \/ toSandbox'[i].type = "bridgeForget"
            /\ \A j \in DOMAIN toSandbox' :
                 j \notin DOMAIN toSandbox /\ toSandbox'[j].type = toSandbox'[i].type => j = i
  BY <1>1, <1>2, QueueAfter DEF HostFacts
<1>11. \A i \in DOMAIN toSandbox' :
         i \notin DOMAIN toSandbox /\ toSandbox'[i].type = "bridgeCallback" =>
           proxy[toSandbox'[i].id] = "none" /\ proxy'[toSandbox'[i].id] = "sent"
  BY <1>2, <1>10 DEF HostFacts, HostMeans
<1>12. \A i \in DOMAIN toSandbox : toSandbox[i].type = "bridgeCallback" =>
         proxy[toSandbox[i].id] = "sent" /\ proxy'[toSandbox[i].id] = "sent"
  BY <1>8, <1>9 DEF ReverseOnce
<1>13. ASSUME NEW i \in DOMAIN toSandbox', toSandbox'[i].type = "bridgeCallback"
       PROVE  /\ proxy'[toSandbox'[i].id] = "sent"
              /\ \A j \in DOMAIN toSandbox' :
                   toSandbox'[j].type = "bridgeCallback" /\ toSandbox'[j].id = toSandbox'[i].id => j = i
  <2>1. proxy'[toSandbox'[i].id] = "sent"
    BY <1>10, <1>11, <1>12, <1>13
  <2>2. ASSUME NEW j \in DOMAIN toSandbox', toSandbox'[j].type = "bridgeCallback",
               toSandbox'[j].id = toSandbox'[i].id
        PROVE  j = i
    <3>1. CASE i \in DOMAIN toSandbox /\ j \in DOMAIN toSandbox
      BY <1>10, <1>13, <2>2, <3>1 DEF ReverseOnce
    <3>2. CASE i \notin DOMAIN toSandbox /\ j \notin DOMAIN toSandbox
      BY <1>10, <1>13, <2>2, <3>2
    <3>3. CASE i \in DOMAIN toSandbox /\ j \notin DOMAIN toSandbox
      BY <1>10, <1>11, <1>12, <1>13, <2>2, <3>3
    <3>4. CASE i \notin DOMAIN toSandbox /\ j \in DOMAIN toSandbox
      BY <1>10, <1>11, <1>12, <1>13, <2>2, <3>4
    <3> QED BY <3>1, <3>2, <3>3, <3>4
  <2> QED BY <2>1, <2>2
<1> QED BY <1>7, <1>13 DEF ReverseOnce

\* The sandbox answers a reverse call that runs, or starts one that arrives.
LEMMA ReverseAnswer ==
  ASSUME TypeOK, ReverseOnce, NEW c \in Calls, proxy[c] = "running",
         proxy' = [proxy EXCEPT ![c] = "answered"], Post(Msg("bridgeCallbackResult", c)),
         UNCHANGED toSandbox
  PROVE  ReverseOnce'
<1>1. toHost \in Seq(ToHost) /\ ProxyTypes /\ BoxTypes
  BY TypeParts DEF BoxTypes
<1>2. Msg("bridgeCallbackResult", c) \in ToHost
  BY DEF Msg, ToHost, CallMsg
<1>3. \A i \in DOMAIN toHost' :
        \/ i \in DOMAIN toHost /\ toHost'[i] = toHost[i]
        \/ i \notin DOMAIN toHost /\ toHost'[i] = Msg("bridgeCallbackResult", c) /\ i = Len(toHost) + 1
  BY <1>1, <1>2, PostIndex DEF Post
<1>4. \A i \in DOMAIN toHost : toHost[i].id \in Calls
  BY <1>1, CallIds
<1>5. \A i \in DOMAIN toSandbox : toSandbox[i].type # "bridgeForget" => toSandbox[i].id \in Calls
  BY <1>1, SandboxIds
<1>6. \A k \in Calls : proxy'[k] = IF k = c THEN "answered" ELSE proxy[k]
  BY <1>1 DEF ProxyTypes
<1>7. ASSUME NEW i \in DOMAIN toSandbox', toSandbox'[i].type = "bridgeCallback"
      PROVE  /\ proxy'[toSandbox'[i].id] = "sent"
             /\ \A j \in DOMAIN toSandbox' :
                  toSandbox'[j].type = "bridgeCallback" /\ toSandbox'[j].id = toSandbox'[i].id => j = i
  BY <1>5, <1>6, <1>7 DEF ReverseOnce
<1>8. \A i \in DOMAIN toHost' : toHost'[i].id = c /\ toHost'[i].type = "bridgeCallbackResult" =>
        i = Len(toHost) + 1
  BY <1>3 DEF ReverseOnce
<1>9. ASSUME NEW i \in DOMAIN toHost', toHost'[i].type = "bridgeCallbackResult"
      PROVE  /\ proxy'[toHost'[i].id] = "answered"
             /\ \A j \in DOMAIN toHost' :
                  toHost'[j].type = "bridgeCallbackResult" /\ toHost'[j].id = toHost'[i].id => j = i
  <2>1. proxy'[toHost'[i].id] = "answered"
    BY <1>3, <1>4, <1>6, <1>9 DEF ReverseOnce, Msg
  <2>2. ASSUME NEW j \in DOMAIN toHost', toHost'[j].type = "bridgeCallbackResult",
               toHost'[j].id = toHost'[i].id
        PROVE  j = i
    <3>1. CASE toHost'[i].id = c
      BY <1>8, <1>9, <2>2, <3>1
    <3>2. CASE toHost'[i].id # c
      BY <1>3, <1>9, <2>2, <3>2 DEF ReverseOnce, Msg
    <3> QED BY <3>1, <3>2
  <2> QED BY <2>1, <2>2
<1> QED BY <1>7, <1>9 DEF ReverseOnce

\* Other messages of the sandbox are no answers.
LEMMA ReverseSame ==
  ASSUME TypeOK, ReverseOnce, UNCHANGED <<proxy, toSandbox>>,
         NEW m \in ToHost, m.type # "bridgeCallbackResult", UNCHANGED toHost \/ Post(m)
  PROVE  ReverseOnce'
<1>1. toHost \in Seq(ToHost)
  BY TypeParts DEF BoxTypes
<1>2. \A i \in DOMAIN toHost' : toHost'[i].type = "bridgeCallbackResult" =>
        i \in DOMAIN toHost /\ toHost'[i] = toHost[i]
  BY <1>1, PostIndex DEF Post
<1> QED BY <1>2 DEF ReverseOnce

LEMMA ReverseRuns ==
  ASSUME TypeOK, ReverseOnce, NEW c \in Calls, SandboxRuns(c)
  PROVE  ReverseOnce'
<1>1. ASSUME NEW t \in {"bridgeCall", "bridgeAbort", "bridgeCancel", "bridgePull", "bridgeRelease"}
      PROVE  Msg(t, c) \in ToHost /\ Msg(t, c).type # "bridgeCallbackResult"
  BY DEF Msg, ToHost, CallMsg
<1>2. CASE FunctionReturns(c)
  BY <1>2, ReverseAnswer DEF FunctionReturns
<1>3. CASE ~FunctionReturns(c)
  <2>1. UNCHANGED <<proxy, toSandbox>>
    BY <1>3 DEF SandboxRuns, StartCall, AbortCall, CancelStream, PullStream, DestroyHandle
  <2>2. PICK t \in {"bridgeCall", "bridgeAbort", "bridgeCancel", "bridgePull", "bridgeRelease"} :
          UNCHANGED toHost \/ Post(Msg(t, c))
    BY <1>3 DEF SandboxRuns, StartCall, AbortCall, CancelStream, PullStream, DestroyHandle
  <2> QED BY <1>1, <2>1, <2>2, ReverseSame
<1> QED BY <1>2, <1>3

LEMMA ReverseReceives ==
  ASSUME TypeOK, ReverseOnce, FunctionsAreFound, NEW c \in Calls, SandboxReceives(c)
  PROVE  ReverseOnce' /\ (TakesCallback(c) => c \in functions /\ proxy[c] = "sent")
<1>1. toSandbox \in Seq(ToSandbox) /\ ProxyTypes /\ BoxTypes
  BY TypeParts DEF BoxTypes
<1>2. toSandbox # <<>> /\ toSandbox' = Tail(toSandbox)
  BY DEF SandboxReceives, TakesResult, TakesChunk, TakesCallback, TakesForget, Reading
<1>3. /\ 1 \in DOMAIN toSandbox /\ toSandbox[1] = Head(toSandbox)
      /\ \A i \in DOMAIN toSandbox' :
           i + 1 \in DOMAIN toSandbox /\ i + 1 # 1 /\ toSandbox'[i] = toSandbox[i + 1]
      /\ \A i, j \in DOMAIN toSandbox' : i + 1 = j + 1 => i = j
  BY <1>1, <1>2, TailIndex
<1>4. \A i \in DOMAIN toSandbox : toSandbox[i].type # "bridgeForget" => toSandbox[i].id \in Calls
  BY <1>1, SandboxIds
<1>5. \A i \in DOMAIN toSandbox' : toSandbox'[i].type = "bridgeCallback" =>
        /\ proxy[toSandbox'[i].id] = "sent"
        /\ \A j \in DOMAIN toSandbox' :
             toSandbox'[j].type = "bridgeCallback" /\ toSandbox'[j].id = toSandbox'[i].id => j = i
  BY <1>3 DEF ReverseOnce
<1>6. CASE TakesCallback(c)
  <2>1. Head(toSandbox).type = "bridgeCallback" /\ Head(toSandbox).id = c
    BY <1>6 DEF TakesCallback, Reading
  <2>2. c \in functions /\ proxy[c] = "sent"
    BY <1>3, <2>1 DEF FunctionsAreFound, ReverseOnce
  <2>3. proxy' = [proxy EXCEPT ![c] = "running"] /\ UNCHANGED toHost
    BY <1>6, <2>2 DEF TakesCallback
  <2>4. \A k \in Calls : proxy'[k] = IF k = c THEN "running" ELSE proxy[k]
    BY <1>1, <2>3 DEF ProxyTypes
  <2>5. \A i \in DOMAIN toSandbox' : toSandbox'[i].type = "bridgeCallback" =>
          toSandbox'[i].id # c /\ toSandbox'[i].id \in Calls
    <3>1. ASSUME NEW i \in DOMAIN toSandbox', toSandbox'[i].type = "bridgeCallback"
          PROVE  toSandbox'[i].id # c
      BY <1>3, <2>1, <3>1 DEF ReverseOnce
    <3> QED BY <1>3, <1>4, <3>1
  <2>6. \A i \in DOMAIN toHost : toHost[i].type = "bridgeCallbackResult" =>
          toHost[i].id # c /\ toHost[i].id \in Calls
    BY <1>1, <2>2, CallIds DEF ReverseOnce
  <2> QED BY <1>5, <2>2, <2>3, <2>4, <2>5, <2>6 DEF ReverseOnce
<1>7. CASE ~TakesCallback(c)
  <2>1. UNCHANGED <<proxy, toHost>>
    BY <1>7 DEF SandboxReceives, TakesResult, TakesChunk, TakesForget
  <2> QED BY <1>5, <1>7, <2>1 DEF ReverseOnce
<1> QED BY <1>6, <1>7

LEMMA ReverseNext ==
  /\ TypeOK /\ Records /\ CallsOnce /\ FunctionsAreFound /\ ReverseOnce /\ UnderWayInv /\ [Next]_vars
  => ReverseOnce'
<1> SUFFICES ASSUME TypeOK, Records, CallsOnce, FunctionsAreFound, ReverseOnce, UnderWayInv, [Next]_vars
             PROVE  ReverseOnce'
  OBVIOUS
<1>1. CASE Close
  BY <1>1 DEF Close, ReverseOnce
<1>2. CASE UNCHANGED vars
  BY <1>2 DEF vars, ReverseOnce
<1> QED BY <1>1, <1>2, ReverseHost, ReverseRuns, ReverseReceives DEF Next

SidesInv == IInv /\ UnderWayInv /\ TwoSides

LEMMA SidesInit == Init => SidesInv
<1> SUFFICES ASSUME Init PROVE TwoSides
  BY IInvInit, UnderWayInit DEF SidesInv
<1>1. toHost = <<>> /\ toSandbox = <<>>
  BY DEF Init
<1> QED BY <1>1 DEF Init, TwoSides, HandlesWork, ReadersAreCalls, ReverseOnce, ClosedIsSilent, OnlyLent

LEMMA SidesNext == SidesInv /\ [Next]_vars => SidesInv'
BY IInvNext, UnderWayNext, HandlesWorkNext, ReadersNext, ReverseNext, ClosedNext, OnlyLentNext
DEF SidesInv, TwoSides, IInv, Kept, Found

LEMMA SidesHold == Spec => []SidesInv
BY SidesInit, SidesNext, PTL DEF Spec

-----------------------------------------------------------------------------
(* The session keeps the contract.                                         *)

\* What the contract sees of the host, of the sandbox, and of neither.
LEMMA HostRests ==
  ASSUME UNCHANGED <<calls, handles, made, owner>>,
         \A k \in Calls : task'[k] = "none" <=> task[k] = "none"
  PROVE  Served' = Served /\ Hosted' = Hosted /\ Gone' = Gone
BY DEF Served, Hosted, Gone

LEMMA StepStutters ==
  ASSUME UNCHANGED <<closed, call, on, object, functions, proxy, calls, handles, made, owner>>,
         \A k \in Calls : task'[k] = "none" <=> task[k] = "none"
  PROVE  UNCHANGED Contract!vars
BY HostRests DEF Contract!vars, Contract!sandbox, Contract!host

LEMMA SandboxSteps ==
  ASSUME ~closed, UNCHANGED hostVars, NEW c \in Calls, Contract!Open(c)
  PROVE  Contract!Next
BY DEF Contract!Next, hostVars

LEMMA StartRefines ==
  ASSUME TypeOK, NEW c \in Calls, NEW h \in Calls \cup {Root}, StartCall(c, h)
  PROVE  Contract!Next
<1>1. ClientTypes
  BY TypeParts
<1>2. ~closed /\ UNCHANGED <<hostVars, proxy, object>> /\ call[c] = "idle" /\ on' = [on EXCEPT ![c] = h]
  BY DEF StartCall
<1>3. Served' = Served /\ Hosted' = Hosted /\ Gone' = Gone
  BY <1>2, HostRests DEF hostVars
<1>4. CASE HandleState(h) = "live" /\ call' = [call EXCEPT ![c] = "open"]
           /\ functions' = functions \cup ({c} \cap WithFunction)
  <2>1. h = Root \/ object[h] = "live"
    BY <1>4 DEF HandleState
  <2>2. call' = Contract!Becomes(call, {c}, "open")
    BY <1>1, <1>4 DEF ClientTypes, Contract!Becomes
  <2>3. Contract!Start(c, h)
    BY <1>2, <1>3, <1>4, <2>1, <2>2 DEF Contract!Start, Contract!host
  <2> QED BY <1>2, <2>3, SandboxSteps DEF Contract!Open
<1>5. CASE HandleState(h) = "destroyed" /\ Finish({c}) /\ UNCHANGED functions
  <2>1. h # Root /\ object[h] = "destroyed"
    BY <1>5 DEF HandleState
  <2>2. call' = Contract!Becomes(call, {c}, "settled")
    BY <1>5 DEF Finish, Contract!Becomes
  <2>3. Contract!Start(c, h)
    BY <1>2, <1>3, <1>5, <2>1, <2>2 DEF Contract!Start, Contract!host
  <2> QED BY <1>2, <2>3, SandboxSteps DEF Contract!Open
<1> QED BY <1>4, <1>5 DEF StartCall

\* A call settles and nothing else happens that the contract sees.
LEMMA SettleRefines ==
  ASSUME ~closed, UNCHANGED hostVars, UNCHANGED <<proxy, on, object, functions>>,
         NEW c \in Calls, call[c] = "open", Finish({c})
  PROVE  Contract!Next
<1>1. Served' = Served /\ Hosted' = Hosted /\ Gone' = Gone
  BY HostRests DEF hostVars
<1>2. call' = Contract!Becomes(call, {c}, "settled")
  BY DEF Finish, Contract!Becomes
<1>3. Contract!Settle(c)
  BY <1>1, <1>2 DEF Contract!Settle, Contract!host
<1> QED BY <1>3, SandboxSteps DEF Contract!Open

LEMMA RunsRefine ==
  ASSUME TypeOK, NEW c \in Calls, SandboxRuns(c)
  PROVE  [Contract!Next]_(Contract!vars)
<1>1. ClientTypes /\ ProxyTypes
  BY TypeParts
<1>2. CASE AbortCall(c) \/ CancelStream(c)
  BY <1>2, SettleRefines DEF AbortCall, CancelStream
<1>3. CASE PullStream(c)
  <2>1. UNCHANGED Contract!vars
    BY <1>3, StepStutters DEF PullStream, hostVars
  <2> QED BY <2>1
<1>4. CASE DestroyHandle(c)
  <2>1. /\ ~closed /\ object[c] = "live" /\ UNCHANGED hostVars /\ UNCHANGED <<proxy, on, functions>>
        /\ Served' = Served /\ Hosted' = Hosted /\ Gone' = Gone
    BY <1>4, HostRests DEF DestroyHandle, hostVars
  <2>2. object' = Contract!Becomes(object, {c}, "destroyed")
    BY <1>1, <1>4 DEF DestroyHandle, ClientTypes, Contract!Becomes
  <2>3. call' = Contract!Becomes(call, {k \in Calls : call[k] = "open" /\ on[k] = c}, "settled")
    BY <1>4 DEF DestroyHandle, Finish, OpenOn, Contract!Becomes
  <2>4. Contract!Destroy(c)
    BY <2>1, <2>2, <2>3 DEF Contract!Destroy, Contract!host
  <2> QED BY <2>1, <2>4, SandboxSteps DEF Contract!Open
<1>5. CASE FunctionReturns(c)
  <2>1. /\ ~closed /\ proxy[c] = "running" /\ UNCHANGED hostVars /\ UNCHANGED clientVars
        /\ Served' = Served /\ Hosted' = Hosted /\ Gone' = Gone
    BY <1>5, HostRests DEF FunctionReturns, hostVars
  <2>2. proxy' = Contract!Becomes(proxy, {c}, "answered")
    BY <1>1, <1>5 DEF FunctionReturns, ProxyTypes, Contract!Becomes
  <2>3. Contract!Proceed(c)
    BY <2>1, <2>2 DEF Contract!Proceed, Contract!sandbox, Contract!host, clientVars
  <2> QED BY <2>1, <2>3, SandboxSteps DEF Contract!Open
<1> QED BY <1>2, <1>3, <1>4, <1>5, StartRefines DEF SandboxRuns

\* A new handle is of an object the host has registered.
LEMMA TakeRefines ==
  ASSUME TypeOK, SidesInv, ~closed, UNCHANGED hostVars, UNCHANGED <<proxy, on, functions>>,
         NEW c \in Calls, call[c] = "open", toSandbox # <<>>,
         Head(toSandbox).type \in ObjectMsg, Head(toSandbox).id = c,
         NewObject(c), UNCHANGED call \/ Finish({c})
  PROVE  Contract!Next
<1>1. ClientTypes /\ BoxTypes
  BY TypeParts
<1>2. 1 \in DOMAIN toSandbox /\ toSandbox[1] = Head(toSandbox)
  BY <1>1, HeadTailProperties, EmptySeq, LenProperties DEF BoxTypes
<1>3. c \in handles /\ object[c] = "none"
  BY <1>2 DEF SidesInv, TwoSides, HandlesWork, UnderWayInv, ObjectsComeOnce
<1>4. Served' = Served /\ Hosted' = Hosted /\ Gone' = Gone
  BY HostRests DEF hostVars
<1>5. object' = Contract!Becomes(object, {c}, "live")
  BY <1>1 DEF NewObject, ClientTypes, Contract!Becomes
<1>6. call' \in {call, Contract!Becomes(call, {c}, "settled")}
  BY DEF Finish, Contract!Becomes
<1>7. Hosted[c] = "registered"
  BY <1>3 DEF Hosted
<1>8. Contract!Take(c)
  BY <1>3, <1>4, <1>5, <1>6, <1>7 DEF Contract!Take, Contract!host
<1> QED BY <1>8, SandboxSteps DEF Contract!Open

LEMMA ReceivesRefine ==
  ASSUME TypeOK, SidesInv, NEW c \in Calls, SandboxReceives(c)
  PROVE  [Contract!Next]_(Contract!vars)
<1>1. ClientTypes /\ ProxyTypes /\ BoxTypes
  BY TypeParts
<1>2. /\ ~closed /\ toSandbox # <<>> /\ UNCHANGED hostVars /\ UNCHANGED on
      /\ Served' = Served /\ Hosted' = Hosted /\ Gone' = Gone
  <2>1. toSandbox # <<>> /\ UNCHANGED hostVars /\ UNCHANGED on
    BY DEF SandboxReceives, TakesResult, TakesChunk, TakesCallback, TakesForget, Reading, clientVars
  <2> QED BY <2>1, HostRests DEF SidesInv, TwoSides, ClosedIsSilent, hostVars
<1>3. CASE UNCHANGED <<call, object, functions, proxy>>
  <2>1. UNCHANGED Contract!vars
    BY <1>2, <1>3, StepStutters DEF hostVars
  <2> QED BY <2>1
<1>4. CASE TakesResult(c)
  <2>1. UNCHANGED <<proxy, functions>> /\ Head(toSandbox).id = c
    BY <1>4 DEF TakesResult, Reading
  <2>2. CASE call[c] = "open" /\ Head(toSandbox).type = "handle" /\ Finish({c}) /\ NewObject(c)
    BY <1>2, <2>1, <2>2, TakeRefines DEF ObjectMsg
  <2>3. CASE call[c] = "open" /\ Finish({c}) /\ UNCHANGED object
    BY <1>2, <2>1, <2>3, SettleRefines
  <2>4. CASE UNCHANGED <<call, object>>
    BY <1>3, <2>1, <2>4
  <2> QED BY <1>4, <2>2, <2>3, <2>4 DEF TakesResult
<1>5. CASE TakesChunk(c)
  <2>1. UNCHANGED <<proxy, functions>> /\ Head(toSandbox).id = c
    BY <1>5 DEF TakesChunk, Reading
  <2>2. reader[c] = "open" => call[c] = "open"
    BY DEF SidesInv, TwoSides, ReadersAreCalls
  <2>3. CASE reader[c] = "open" /\ Head(toSandbox).type = "chunkHandle" /\ NewObject(c) /\ UNCHANGED call
    BY <1>2, <2>1, <2>2, <2>3, TakeRefines DEF ObjectMsg
  <2>4. CASE reader[c] = "open" /\ Finish({c}) /\ UNCHANGED object
    BY <1>2, <2>1, <2>2, <2>4, SettleRefines
  <2>5. CASE UNCHANGED <<call, object>>
    BY <1>3, <2>1, <2>5
  <2> QED BY <1>5, <2>3, <2>4, <2>5 DEF TakesChunk
<1>6. CASE TakesCallback(c)
  <2>1. c \in functions /\ proxy[c] = "sent" /\ UNCHANGED clientVars
    BY <1>6, ReverseReceives DEF SidesInv, TwoSides, IInv, Found, TakesCallback
  <2>2. proxy' = Contract!Becomes(proxy, {c}, "running")
    BY <1>1, <1>6, <2>1 DEF TakesCallback, ProxyTypes, Contract!Becomes
  <2>3. Contract!Proceed(c)
    BY <1>2, <2>1, <2>2 DEF Contract!Proceed, Contract!sandbox, Contract!host, clientVars
  <2> QED BY <1>2, <2>3, SandboxSteps DEF Contract!Open
<1>7. CASE TakesForget
  <2>1. 1 \in DOMAIN toSandbox /\ toSandbox[1] = Head(toSandbox)
    BY <1>1, <1>2, HeadTailProperties, EmptySeq, LenProperties DEF BoxTypes
  <2>2. /\ functions' = functions \ Head(toSandbox).ids /\ Head(toSandbox).ids \subseteq Gone
        /\ UNCHANGED <<call, on, object, proxy>>
    BY <1>7, <2>1 DEF TakesForget, SidesInv, IInv, Found, ForgetsGone
  <2>3. Head(toSandbox).ids \in SUBSET Calls
    BY <2>2 DEF Gone
  <2>4. Contract!Forget(Head(toSandbox).ids)
    BY <1>2, <2>2 DEF Contract!Forget, Contract!host
  <2>5. closed' = closed
    BY <1>2 DEF hostVars
  <2> QED BY <1>2, <2>3, <2>4, <2>5 DEF Contract!Next
<1> QED BY <1>4, <1>5, <1>6, <1>7 DEF SandboxReceives

\* What the host lets go belonged to a call that has ended or to an object that
\* is gone.
OwnersLetGo ==
  \A k \in Calls :
    /\ owner[k] = "released" => owner'[k] = "released"
    /\ owner'[k] = "released" /\ owner[k] # "released" =>
         /\ k \in WithFunction
         /\ IF k \in made' THEN k \notin handles' ELSE k \notin calls' /\ task[k] # "none"

\* Calls that end: nothing else, or with an object whose handle is destroyed,
\* or with one that nobody waits for.
Frees(S) ==
  \/ handles' = handles /\ made' = made
  \/ \E h \in handles : /\ object[h] = "destroyed" /\ \A k \in S : on[k] = h
                        /\ handles' = handles \ {h} /\ made' = made
  \/ \E c \in Calls : /\ c \notin made /\ c \notin calls' /\ task[c] # "none" /\ S \subseteq {c}
                      /\ handles' = handles /\ made' = made \cup {c}

LEMMA EndRefines ==
  ASSUME HostTypes, Records, OnlyLent, NEW S \in SUBSET Calls, S \subseteq calls, calls' = calls \ S,
         UNCHANGED clientVars, UNCHANGED <<proxy, closed>>,
         \A k \in Calls : task'[k] = "none" <=> task[k] = "none",
         OwnersLetGo, Frees(S)
  PROVE  Contract!Next
<1>1. S \in SUBSET {k \in Calls : Served[k] = "running"}
  BY DEF Served, Records
<1>2. Served' = Contract!Becomes(Served, S, "done")
  BY DEF Served, Records, Contract!Becomes
<1>3. \/ UNCHANGED Hosted
      \/ \E h \in Contract!Registered :
           /\ object[h] = "destroyed" /\ \A k \in S : on[k] = h
           /\ Hosted' = Contract!Becomes(Hosted, {h}, "freed")
      \/ \E k \in Calls :
           /\ Hosted[k] = "none" /\ Served'[k] = "done" /\ S \subseteq {k}
           /\ Hosted' = Contract!Becomes(Hosted, {k}, "freed")
  <2>1. CASE handles' = handles /\ made' = made
    BY <2>1 DEF Hosted
  <2>2. ASSUME NEW h \in handles, object[h] = "destroyed", \A k \in S : on[k] = h,
               handles' = handles \ {h}, made' = made
        PROVE  /\ h \in Contract!Registered
               /\ Hosted' = Contract!Becomes(Hosted, {h}, "freed")
    <3>1. h \in Contract!Registered
      BY DEF HostTypes, Hosted, Contract!Registered
    <3>2. Hosted' = Contract!Becomes(Hosted, {h}, "freed")
      BY <2>2 DEF Hosted, HostTypes, Contract!Becomes
    <3> QED BY <3>1, <3>2
  <2>3. ASSUME NEW c \in Calls, c \notin made, c \notin calls', task[c] # "none", S \subseteq {c},
               handles' = handles, made' = made \cup {c}
        PROVE  /\ Hosted[c] = "none" /\ Served'[c] = "done"
               /\ Hosted' = Contract!Becomes(Hosted, {c}, "freed")
    <3>1. Hosted[c] = "none" /\ Served'[c] = "done"
      BY <2>3 DEF HostTypes, Hosted, Served
    <3>2. Hosted' = Contract!Becomes(Hosted, {c}, "freed")
      BY <2>3 DEF Hosted, HostTypes, Contract!Becomes
    <3> QED BY <3>1, <3>2
  <2> QED BY <2>1, <2>2, <2>3 DEF Frees
<1>4. Contract!LetsGo
  <2>1. Gone \subseteq Gone'
    BY DEF Gone, OwnersLetGo
  <2>2. Gone' \subseteq WithFunction
    BY DEF Gone, OwnersLetGo, OnlyLent
  <2>3. ASSUME NEW k \in Gone' \ Gone
        PROVE  (Hosted'[k] = "none" /\ Served'[k] = "done") \/ Hosted'[k] = "freed"
    <3>1. /\ k \in Calls /\ IF k \in made' THEN k \notin handles' ELSE k \notin calls' /\ task[k] # "none"
      BY <2>3 DEF Gone, OwnersLetGo
    <3>2. handles' \subseteq made'
      BY DEF Frees, HostTypes
    <3> QED BY <3>1, <3>2 DEF Hosted, Served
  <2> QED BY <2>1, <2>2, <2>3 DEF Contract!LetsGo
<1>5. Contract!End
  BY <1>1, <1>2, <1>3, <1>4 DEF Contract!End, Contract!sandbox, clientVars
<1> QED BY <1>5 DEF Contract!Next

\* The end of one record, by what it lets go.
LEMMA EndCallsLetGo ==
  ASSUME HostTypes, Records, FunctionsLiveWithOwner, OnlyLent, ~closed,
         NEW c \in Calls, c \in calls, NEW msgs, EndCalls({c}, msgs),
         made \subseteq made', handles' \subseteq handles
  PROVE  calls' = calls \ {c} /\ OwnersLetGo
<1>1. /\ calls' = calls \ {c}
      /\ \A k \in Calls : owner'[k] = IF k = c /\ owner[k] = "call" THEN "released" ELSE owner[k]
  BY EndCallsKeeps DEF HostTypes
<1>2. owner[c] = "call" => c \in WithFunction /\ c \notin made /\ c \notin handles
  BY DEF OnlyLent, FunctionsLiveWithOwner, HostTypes
<1>3. task[c] # "none"
  BY DEF Records
<1> QED BY <1>1, <1>2, <1>3 DEF OwnersLetGo, HostTypes

\* The call fails, and an object it made is freed.
LEMMA FailsRefine ==
  ASSUME TypeOK, SidesInv, NEW c \in Calls, task[c] \in Working, CallFails(c),
         UNCHANGED clientVars, UNCHANGED <<closed, proxy, handles>>,
         made' = made \/ made' = made \cup {c}
  PROVE  [Contract!Next]_(Contract!vars)
<1>1. HostTypes /\ Records /\ FunctionsLiveWithOwner /\ OnlyLent /\ (closed => calls = {})
  BY TypeParts DEF SidesInv, IInv, Kept, TwoSides, ClosedIsSilent
<1>2. /\ c \notin made /\ task[c] # "none" /\ task' = [task EXCEPT ![c] = "done"]
      /\ \A k \in Calls : task'[k] = "none" <=> task[k] = "none"
  BY <1>1 DEF Records, Working, CallFails, HostTypes
<1>3. calls' = calls \ {c} /\ OwnersLetGo
  <2>1. CASE c \in calls /\ EndCalls({c}, <<Msg("error", c)>>)
    BY <1>1, <2>1, EndCallsLetGo
  <2>2. CASE c \notin calls /\ UNCHANGED <<calls, owner>>
    BY <1>1, <2>2 DEF OwnersLetGo, HostTypes
  <2> QED BY <2>1, <2>2 DEF CallFails
<1>4. Frees({c} \cap calls) /\ calls' = calls \ ({c} \cap calls)
  BY <1>2, <1>3 DEF Frees
<1> QED BY <1>1, <1>2, <1>3, <1>4, EndRefines

\* The record ends with an answer, or the stream with its end.
LEMMA EndCallsRefine ==
  ASSUME TypeOK, SidesInv, NEW c \in Calls, c \in calls, NEW msgs, EndCalls({c}, msgs),
         UNCHANGED clientVars, UNCHANGED <<closed, proxy, handles>>,
         \A k \in Calls : task'[k] = "none" <=> task[k] = "none",
         made' = made \/ (c \notin made /\ made' = made \cup {c})
  PROVE  Contract!Next
<1>1. HostTypes /\ Records /\ FunctionsLiveWithOwner /\ OnlyLent /\ ~closed
  BY TypeParts DEF SidesInv, IInv, Kept, TwoSides, ClosedIsSilent
<1>2. calls' = calls \ {c} /\ OwnersLetGo
  BY <1>1, EndCallsLetGo
<1>3. Frees({c})
  BY <1>1, <1>2 DEF Frees, Records
<1> QED BY <1>1, <1>2, <1>3, EndRefines

\* An object is registered within the limit, by a call on a registered one.
LEMMA RegisterRefines ==
  ASSUME TypeOK, SidesInv, NEW c \in Calls, c \in calls \ aborted, c \notin made, RoomNow, Register(c),
         UNCHANGED clientVars, UNCHANGED <<closed, proxy>>,
         \A k \in Calls : task'[k] = "none" <=> task[k] = "none",
         calls' = calls \/ calls' = calls \ {c}
  PROVE  Contract!Next
<1>1. HostTypes /\ Records /\ ~closed /\ (on[c] = Root \/ on[c] \in handles)
  BY TypeParts DEF SidesInv, IInv, Kept, LiveCalls, TwoSides, ClosedIsSilent
<1>2. Served[c] = "running" /\ Hosted[c] = "none"
  BY <1>1 DEF Served, Hosted, Records, HostTypes
<1>3. Served' = Served \/ Served' = Contract!Becomes(Served, {c}, "done")
  BY <1>1 DEF Served, Records, Contract!Becomes
<1>4. Hosted' = Contract!Becomes(Hosted, {c}, "registered")
  BY <1>1 DEF Hosted, Register, HostTypes, Contract!Becomes
<1>5. Gone' = Gone
  BY <1>1 DEF Gone, Register, HostTypes
<1>6. Contract!HasRoom
  <2>1. Contract!Registered = handles
    BY <1>1 DEF Contract!Registered, Hosted, HostTypes
  <2>2. MaxHandles = 0 \/ Cardinality(handles) < MaxHandles
    BY DEF RoomNow, HasRoom
  <2>3. Contract!Cardinality(handles) = Cardinality(handles)
    BY DEF Contract!Cardinality, Cardinality
  <2> QED BY <2>1, <2>2, <2>3 DEF Contract!HasRoom
<1>7. on[c] = Root \/ Hosted[on[c]] = "registered"
  BY <1>1 DEF Hosted, HostTypes
<1>8. Contract!Register(c)
  BY <1>2, <1>3, <1>4, <1>5, <1>6, <1>7 DEF Contract!Register, Contract!sandbox, clientVars
<1> QED BY <1>1, <1>8 DEF Contract!Next, Contract!Open

LEMMA OnCallRefines ==
  ASSUME TypeOK, SidesInv, NEW c \in Calls, OnCall(c)
  PROVE  Contract!Next
<1>1. HostTypes /\ BoxTypes /\ Records /\ CallsOnce /\ OnlyLent
  BY TypeParts DEF SidesInv, IInv, Kept, TwoSides
<1>2. task[c] = "none" /\ owner[c] = "none" /\ c \notin calls
  BY <1>1, ArrivingIsNew DEF OnCall, Records
<1>3. 1 \in DOMAIN toHost /\ toHost[1] = Msg("bridgeCall", c) /\ toHost # <<>>
  BY <1>1, HeadTailProperties, EmptySeq, LenProperties DEF BoxTypes, OnCall, Arrives
<1>4. ~closed /\ call[c] # "idle"
  BY <1>1, <1>3 DEF SidesInv, TwoSides, ClosedIsSilent, CallsOnce, Msg
<1>5. UNCHANGED <<closed, handles, made, proxy>> /\ UNCHANGED clientVars
  BY DEF OnCall
<1>6. Hosted' = Hosted /\ Served[c] = "none"
  BY <1>2, <1>5 DEF Hosted, Served
<1>7. CASE /\ calls' = calls /\ task' = [task EXCEPT ![c] = "refused"]
           /\ \/ owner' = owner
              \/ owner' = [owner EXCEPT ![c] = IF c \in WithFunction THEN "released" ELSE @]
  <2>1. Served' = Contract!Becomes(Served, {c}, "done")
    BY <1>1, <1>2, <1>7 DEF Served, HostTypes, Contract!Becomes
  <2>2. Gone' \in {Gone, Gone \cup ({c} \cap WithFunction)}
    <3>1. CASE owner' = owner \/ c \notin WithFunction
      <4>1. owner' = owner
        BY <1>1, <1>7, <3>1 DEF HostTypes
      <4> QED BY <4>1 DEF Gone
    <3>2. CASE owner' = [owner EXCEPT ![c] = "released"] /\ c \in WithFunction
      <4>1. Gone' = Gone \cup {c}
        BY <1>1, <3>2 DEF Gone, HostTypes
      <4> QED BY <3>2, <4>1
    <3> QED BY <1>7, <3>1, <3>2
  <2>3. Contract!Serve(c)
    BY <1>4, <1>5, <1>6, <2>1, <2>2 DEF Contract!Serve, Contract!sandbox, clientVars
  <2> QED BY <1>4, <1>5, <2>3 DEF Contract!Next, Contract!Open
<1>8. CASE /\ on[c] = Root \/ on[c] \in handles
           /\ calls' = calls \cup {c} /\ task' = [task EXCEPT ![c] = "consent"]
           /\ owner' = [owner EXCEPT ![c] = IF c \in WithFunction THEN "call" ELSE @]
  <2>1. Served' = Contract!Becomes(Served, {c}, "running")
    BY <1>1, <1>2, <1>8 DEF Served, HostTypes, Contract!Becomes
  <2>2. Gone' = Gone
    BY <1>1, <1>2, <1>8 DEF Gone, HostTypes
  <2>3. on[c] = Root \/ Hosted[on[c]] = "registered"
    BY <1>1, <1>8 DEF Hosted, HostTypes
  <2>4. Contract!Serve(c)
    BY <1>4, <1>5, <1>6, <2>1, <2>2, <2>3 DEF Contract!Serve, Contract!sandbox, clientVars
  <2> QED BY <1>4, <1>5, <2>4 DEF Contract!Next, Contract!Open
<1> QED BY <1>7, <1>8 DEF OnCall

LEMMA OnReleaseRefines ==
  ASSUME TypeOK, SidesInv, NEW h \in Calls, OnRelease(h)
  PROVE  [Contract!Next]_(Contract!vars)
<1>1. HostTypes /\ BoxTypes /\ Records /\ OnlyLent /\ FunctionsLiveWithOwner
  BY TypeParts DEF SidesInv, IInv, Kept, TwoSides
<1>2. 1 \in DOMAIN toHost /\ toHost[1] = Msg("bridgeRelease", h) /\ toHost # <<>>
  BY <1>1, HeadTailProperties, EmptySeq, LenProperties DEF BoxTypes, OnRelease, Arrives
<1>3. ~closed /\ object[h] = "destroyed"
  BY <1>2 DEF SidesInv, TwoSides, ClosedIsSilent, UnderWayInv, EndsAreMeant, Msg
<1>4. UNCHANGED <<closed, task, made, proxy>> /\ UNCHANGED clientVars
  BY DEF OnRelease
<1>5. CASE h \in handles
  <2> DEFINE S == StreamsOn(h)
  <2>1. /\ calls' = calls \ S /\ owner' = Revoked(Released(S, {h})) /\ handles' = handles \ {h}
        /\ S \in SUBSET Calls /\ S \subseteq calls /\ \A k \in S : on[k] = h
    BY <1>1, <1>5 DEF OnRelease, StreamsOn, CallsOn, HostTypes
  <2> HIDE DEF S
  <2>2. \A k \in Calls : owner'[k] =
          IF (k \in S /\ owner[k] = "call") \/ (k = h /\ owner[k] = "handle") THEN "released" ELSE owner[k]
    BY <1>1, <2>1 DEF Revoked, Released, HostTypes
  <2>3. OwnersLetGo
    <3>1. \A k \in Calls : owner[k] = "call" => k \in WithFunction /\ k \notin made /\ task[k] # "none"
      BY <1>1, <1>3 DEF OnlyLent, FunctionsLiveWithOwner, Records
    <3>2. owner[h] = "handle" => h \in WithFunction
      BY <1>1 DEF OnlyLent
    <3>3. h \in made' /\ h \notin handles'
      BY <1>1, <1>4, <1>5, <2>1 DEF HostTypes
    <3> QED BY <1>4, <2>1, <2>2, <3>1, <3>2, <3>3 DEF OwnersLetGo
  <2>4. Frees(S)
    BY <1>3, <1>4, <1>5, <2>1 DEF Frees
  <2>5. Contract!Next
    BY <1>1, <1>4, <2>1, <2>3, <2>4, EndRefines
  <2> QED BY <2>5
<1>6. CASE UNCHANGED <<calls, owner, handles>>
  <2>1. UNCHANGED Contract!vars
    BY <1>4, <1>6, StepStutters DEF clientVars
  <2> QED BY <2>1
<1> QED BY <1>5, <1>6 DEF OnRelease

LEMMA HostReceivesRefine ==
  ASSUME TypeOK, SidesInv, NEW c \in Calls, HostReceives(c)
  PROVE  [Contract!Next]_(Contract!vars)
<1>1. HostTypes /\ BoxTypes /\ ProxyTypes
  BY TypeParts
<1>2. CASE OnAbort(c) \/ OnCancel(c)
  <2>1. UNCHANGED <<closed, task, handles, made, proxy>> /\ UNCHANGED clientVars
    BY <1>2 DEF OnAbort, OnCancel
  <2>2. CASE c \in calls /\ EndCalls({c}, <<>>)
    <3>1. Contract!Next
      BY <2>1, <2>2, EndCallsRefine
    <3> QED BY <3>1
  <2>3. CASE UNCHANGED <<calls, owner>>
    <3>1. UNCHANGED Contract!vars
      BY <2>1, <2>3, StepStutters DEF clientVars
    <3> QED BY <3>1
  <2> QED BY <1>1, <1>2, <2>2, <2>3 DEF OnAbort, OnCancel, CloseCall, HostTypes
<1>3. CASE OnPull(c)
  <2>1. UNCHANGED Contract!vars
    BY <1>3, StepStutters DEF OnPull, clientVars
  <2> QED BY <2>1
<1>4. CASE OnCallbackResult(c)
  <2>1. 1 \in DOMAIN toHost /\ toHost[1] = Msg("bridgeCallbackResult", c) /\ toHost # <<>>
    BY <1>1, <1>4, HeadTailProperties, EmptySeq, LenProperties DEF BoxTypes, OnCallbackResult, Arrives
  <2>2. ~closed /\ proxy[c] = "answered"
    BY <2>1 DEF SidesInv, TwoSides, ClosedIsSilent, ReverseOnce, Msg
  <2>3. proxy' = Contract!Becomes(proxy, {c}, "settled")
    BY <1>1, <1>4 DEF OnCallbackResult, ProxyTypes, Contract!Becomes
  <2>4. UNCHANGED hostVars /\ UNCHANGED clientVars /\ Served' = Served /\ Hosted' = Hosted /\ Gone' = Gone
    BY <1>4, HostRests DEF OnCallbackResult, hostVars
  <2>5. Contract!Proceed(c)
    BY <2>2, <2>3, <2>4 DEF Contract!Proceed, Contract!sandbox, Contract!host, clientVars
  <2> QED BY <2>2, <2>4, <2>5, SandboxSteps DEF Contract!Open
<1> QED BY <1>2, <1>3, <1>4, OnCallRefines, OnReleaseRefines DEF HostReceives

\* The steps of a call's task.
LEMMA ReturnsRefine ==
  ASSUME TypeOK, SidesInv, NEW c \in Calls,
         \/ Consent(c) \/ MethodThrows(c) \/ ReturnsLate(c) \/ ReturnsStream(c)
         \/ ReturnsHandle(c) \/ ReturnsValue(c) \/ ReturnsUnsendable(c)
  PROVE  [Contract!Next]_(Contract!vars)
<1>1. HostTypes /\ Records /\ OnlyLent /\ FunctionsLiveWithOwner
  BY TypeParts DEF SidesInv, IInv, Kept, TwoSides
<1>2. task[c] \in Working /\ c \notin made /\ UNCHANGED <<closed, proxy>> /\ UNCHANGED clientVars
  BY <1>1 DEF Consent, MethodThrows, ReturnsLate, ReturnsStream, ReturnsHandle, ReturnsValue,
              ReturnsUnsendable, Records, Working
<1>3. ASSUME NEW t \in {"method", "done"}, task' = [task EXCEPT ![c] = t]
      PROVE  \A k \in Calls : task'[k] = "none" <=> task[k] = "none"
  BY <1>1, <1>2, <1>3 DEF HostTypes, Working
<1>4. CASE CallFails(c) /\ UNCHANGED handles /\ (made' = made \/ made' = made \cup {c})
  BY <1>2, <1>4, FailsRefine
<1>5. CASE /\ task' = [task EXCEPT ![c] = "method"] \/ task' = [task EXCEPT ![c] = "done"]
           /\ UNCHANGED <<calls, handles, made, owner>>
  <2>1. UNCHANGED Contract!vars
    BY <1>2, <1>3, <1>5, StepStutters DEF clientVars
  <2> QED BY <2>1
<1>6. CASE ReturnsHandle(c)
  <2>1. c \in calls \ aborted /\ RoomNow /\ Register(c) /\ calls' = calls \ {c}
        /\ task' = [task EXCEPT ![c] = "done"]
    BY <1>6 DEF ReturnsHandle, Late
  <2> QED BY <1>2, <1>3, <2>1, RegisterRefines
<1>7. CASE ReturnsValue(c)
  <2>1. c \in calls /\ EndCalls({c}, <<Msg("value", c)>>) /\ UNCHANGED <<handles, made>>
        /\ task' = [task EXCEPT ![c] = "done"]
    BY <1>7 DEF ReturnsValue, Late
  <2> QED BY <1>2, <1>3, <2>1, EndCallsRefine
<1>8. CASE /\ ReturnsUnsendable(c) /\ task' = [task EXCEPT ![c] = "done"]
           /\ calls' = calls \ {c} /\ owner' = Revoked({c} \cap WithFunction)
  <2>1. c \in calls /\ made' = made \cup {c} /\ UNCHANGED handles /\ ~closed
    BY <1>8 DEF ReturnsUnsendable, Late
  <2>2. OwnersLetGo
    <3>1. c \in made' /\ c \notin handles'
      BY <1>1, <1>2, <2>1 DEF HostTypes
    <3> QED BY <1>1, <1>8, <3>1 DEF OwnersLetGo, Revoked, HostTypes
  <2>3. Frees({c})
    BY <1>2, <1>8, <2>1 DEF Frees, Working
  <2>4. Contract!Next
    BY <1>1, <1>2, <1>3, <1>8, <2>1, <2>2, <2>3, EndRefines
  <2> QED BY <2>4
<1>9. CASE Consent(c) \/ MethodThrows(c) \/ ReturnsLate(c) \/ ReturnsStream(c)
  BY <1>4, <1>5, <1>9 DEF Consent, MethodThrows, ReturnsLate, ReturnsStream
<1>10. CASE ReturnsUnsendable(c)
  BY <1>4, <1>8, <1>10 DEF ReturnsUnsendable
<1> QED BY <1>6, <1>7, <1>9, <1>10

\* The steps of a stream and of a timer.
LEMMA StreamsRefine ==
  ASSUME TypeOK, SidesInv, NEW c \in Calls,
         LimitTimeout(c) \/ PullIsLate(c) \/ PullYields(c) \/ PullEnds(c) \/ PullFails(c)
  PROVE  [Contract!Next]_(Contract!vars)
<1>1. HostTypes /\ Records /\ OnlyLent /\ LiveCalls
  BY TypeParts DEF SidesInv, IInv, Kept, TwoSides
<1>2. UNCHANGED <<closed, proxy, task>> /\ UNCHANGED clientVars
  BY DEF LimitTimeout, PullIsLate, PullYields, PullEnds, PullFails
<1>3. c \in streams => c \in calls \ aborted
  BY <1>1 DEF HostTypes, LiveCalls
<1>4. ASSUME NEW msgs, c \in streams, EndCalls({c}, msgs), UNCHANGED handles,
             made' = made \/ (c \notin made /\ made' = made \cup {c})
      PROVE  Contract!Next
  BY <1>2, <1>3, <1>4, EndCallsRefine
<1>5. CASE UNCHANGED <<calls, handles, made, owner>>
  <2>1. UNCHANGED Contract!vars
    BY <1>2, <1>5, StepStutters DEF clientVars
  <2> QED BY <2>1
<1>6. ASSUME c \in streams, c \notin made, RoomNow, Register(c), calls' = calls \/ calls' = calls \ {c}
      PROVE  Contract!Next
  BY <1>2, <1>3, <1>6, RegisterRefines
<1>7. CASE LimitTimeout(c)
  BY <1>4, <1>5, <1>7 DEF LimitTimeout, CloseCall
<1>8. CASE PullIsLate(c)
  BY <1>5, <1>8 DEF PullIsLate
<1>9. CASE PullYields(c)
  BY <1>5, <1>6, <1>9 DEF PullYields
<1>10. CASE PullEnds(c)
  BY <1>4, <1>10 DEF PullEnds
<1>11. CASE PullFails(c)
  BY <1>4, <1>6, <1>11 DEF PullFails, CloseCall
<1> QED BY <1>7, <1>8, <1>9, <1>10, <1>11

\* A reverse call goes to a sandbox that keeps the function.
LEMMA AskRefines ==
  ASSUME TypeOK, SidesInv, NEW c \in Calls, CallsFunction(c)
  PROVE  Contract!Next
<1>1. HostTypes /\ ProxyTypes
  BY TypeParts
<1>2. /\ UNCHANGED hostVars /\ UNCHANGED clientVars /\ proxy[c] = "none" /\ c \in WithFunction
      /\ task[c] \notin {"none", "refused"}
      /\ Served' = Served /\ Hosted' = Hosted /\ Gone' = Gone
  BY HostRests DEF CallsFunction, hostVars
<1>3. Served[c] # "none" /\ (c \in Gone <=> owner[c] = "released")
  BY <1>2 DEF Served, Gone
<1>4. CASE (closed \/ owner[c] = "released") /\ proxy' = [proxy EXCEPT ![c] = "settled"]
  <2>1. proxy' = Contract!Becomes(proxy, {c}, "settled")
    BY <1>1, <1>4 DEF ProxyTypes, Contract!Becomes
  <2>2. Contract!Ask(c)
    BY <1>2, <1>3, <1>4, <2>1 DEF Contract!Ask, Contract!sandbox, Contract!host, clientVars
  <2> QED BY <1>2, <2>2 DEF Contract!Next, hostVars
<1>5. CASE ~closed /\ owner[c] # "released" /\ proxy' = [proxy EXCEPT ![c] = "sent"]
  <2>1. c \in functions
    BY <1>2, <1>5 DEF SidesInv, IInv, Found, FunctionsKept
  <2>2. proxy' = Contract!Becomes(proxy, {c}, "sent")
    BY <1>1, <1>5 DEF ProxyTypes, Contract!Becomes
  <2>3. Contract!Ask(c)
    BY <1>2, <1>3, <1>5, <2>1, <2>2 DEF Contract!Ask, Contract!sandbox, Contract!host, clientVars
  <2> QED BY <1>2, <2>3 DEF Contract!Next, hostVars
<1> QED BY <1>4, <1>5 DEF CallsFunction

LEMMA CloseRefines ==
  ASSUME TypeOK, SidesInv, Close
  PROVE  Contract!Next
<1>1. HostTypes /\ Records /\ ProxyTypes
  BY TypeParts DEF SidesInv, IInv, Kept
<1>2. Served' = Contract!Becomes(Served, {k \in Calls : Served[k] = "running"}, "done")
  BY <1>1 DEF Close, Served, Records, Contract!Becomes
<1>3. Hosted' = Contract!Becomes(Hosted, Contract!Registered, "freed")
  BY <1>1 DEF Close, Hosted, HostTypes, Contract!Registered, Contract!Becomes
<1>4. proxy' = Contract!Becomes(proxy, {k \in Calls : proxy[k] # "none"}, "settled")
  BY <1>1 DEF Close, ProxyTypes, Contract!Becomes
<1>5. Gone' = Gone
  BY DEF Close, Gone
<1>6. Contract!Close
  BY <1>2, <1>3, <1>4, <1>5 DEF Contract!Close, Close, Contract!sandbox, clientVars
<1> QED BY <1>6 DEF Contract!Next

LEMMA RefineInit == Init => Contract!Init
BY BridgeAssumption DEF Init, Contract!Init, Served, Hosted, Gone

LEMMA RefineNext == SidesInv /\ [Next]_vars => [Contract!Next]_(Contract!vars)
<1> SUFFICES ASSUME SidesInv, [Next]_vars PROVE [Contract!Next]_(Contract!vars)
  OBVIOUS
<1>1. TypeOK
  BY DEF SidesInv, IInv
<1>2. ASSUME NEW c \in Calls, HostRuns(c) PROVE [Contract!Next]_(Contract!vars)
  BY <1>1, <1>2, ReturnsRefine, StreamsRefine, AskRefines DEF HostRuns
<1>3. CASE UNCHANGED vars
  <2>1. UNCHANGED Contract!vars
    BY <1>3, StepStutters DEF vars, hostVars, clientVars
  <2> QED BY <2>1
<1> QED BY <1>1, <1>2, <1>3, RunsRefine, ReceivesRefine, HostReceivesRefine, CloseRefines DEF Next

\* The sandbox never holds a live handle of an object the host no longer has,
\* as long as the session is open: none is freed by a late result, an abort, a
\* timeout or the end of a call (bridge-host.mjs:640-672, 832-850).
THEOREM BridgeHandlesWork ==
  Spec => [](~closed => \A c \in Calls : object[c] = "live" => c \in handles)
<1>1. SidesInv => (~closed => \A c \in Calls : object[c] = "live" => c \in handles)
  BY DEF SidesInv, TwoSides, HandlesWork
<1> QED BY <1>1, SidesHold, PTL

\* Calls are served once, objects registered within the limit by calls on live
\* objects and freed once, functions kept until the host lets them go and run
\* once per reverse call: what BridgeContract promises without any message, the
\* session keeps with its two queues (bridge-host.mjs:448-872, bridge-client.mjs:190-490).
THEOREM BridgeImplementsContract == Spec => ImplementsContract
<1>1. Init => Contract!Init
  BY RefineInit
<1>2. SidesInv /\ [Next]_vars => [Contract!Next]_(Contract!vars)
  BY RefineNext
<1> QED BY <1>1, <1>2, SidesHold, PTL DEF Spec, ImplementsContract, Contract!Spec
=============================================================================
