---------------------------- MODULE SandboxProofs ----------------------------
(***************************************************************************)
(* The Sandbox object, for any number of calls, Workers and options: its   *)
(* type invariant (one lemma per helper, then one step per action), the    *)
(* inductive invariant behind its safety properties, and the refinement    *)
(* of EvalContract.                                                        *)
(***************************************************************************)
EXTENDS SandboxLifecycle, FiniteSetTheorems, TLAPS

Inboxes  == [Gens -> Seq(HostMsg)]
Outboxes == [Gens -> Seq(WorkerMsg)]

\* The messages each side builds are messages.
LEMMA MsgTyped ==
  /\ \A n \in Nat : Msg("configure", n) \in HostMsg /\ Msg("defineModule", n) \in HostMsg
  /\ \A c \in Evals : Msg("evaluate", c) \in HostMsg /\ Msg("result", c) \in WorkerMsg
  /\ \A k \in Caps : Msg("capabilityResult", k) \in HostMsg /\ Msg("capabilityCall", k) \in WorkerMsg
  /\ \A t \in {"configured", "configureFailed", "moduleDefined", "error", "exit0", "exit1"} :
       Msg(t, None) \in WorkerMsg
BY DEF Msg, HostMsg, WorkerMsg

\* Sending, terminating and taking keep the queues typed.
LEMMA SendTyped ==
  ASSUME NEW box \in Inboxes, NEW g \in Gens \cup {None}, NEW m \in HostMsg
  PROVE  Send(box, g, m) \in Inboxes
BY DEF Send, Inboxes

LEMMA KillTyped ==
  ASSUME TypeOK
  PROVE  /\ Kill(inbox, <<>>) \in Inboxes
         /\ KilledOutbox \in Outboxes /\ Kill(outbox, <<>>) \in Outboxes
         /\ Kill(thread, "terminated") \in [Gens -> {"none", "up", "gone", "terminated"}]
BY DEF TypeOK, Kill, KilledOutbox, Inboxes, Outboxes

LEMMA TakenTyped ==
  ASSUME TypeOK, NEW g \in Gens, outbox[g] # <<>>
  PROVE  /\ Taken(g) \in Outboxes /\ TakenOrKilled(g) \in Outboxes
         /\ Head(outbox[g]) \in WorkerMsg
<1>1. outbox[g] \in Seq(WorkerMsg)
  BY DEF TypeOK
<1>2. Head(outbox[g]) \in WorkerMsg /\ Tail(outbox[g]) \in Seq(WorkerMsg)
  BY <1>1
<1>3. QED
  BY <1>2, KillTyped DEF TypeOK, Taken, TakenOrKilled, Outboxes

LEMMA TakesTyped ==
  ASSUME TypeOK, NEW g \in Gens, NEW t, Takes(g, t)
  PROVE  inbox' \in Inboxes /\ Head(inbox[g]) \in HostMsg /\ Head(inbox[g]).type = t
<1>1. inbox[g] \in Seq(HostMsg) /\ inbox[g] # <<>>
  BY DEF TypeOK, Takes
<1>2. Head(inbox[g]) \in HostMsg /\ Tail(inbox[g]) \in Seq(HostMsg)
  BY <1>1
<1>3. QED
  BY <1>2 DEF TypeOK, Takes, Inboxes

LEMMA PostsTyped ==
  ASSUME TypeOK, NEW g \in Gens, NEW msgs \in Seq(WorkerMsg), Posts(g, msgs)
  PROVE  outbox' \in Outboxes
<1>1. outbox[g] \o msgs \in Seq(WorkerMsg)
  BY DEF TypeOK
<1>2. QED
  BY <1>1 DEF TypeOK, Posts, Outboxes

LEMMA AccountTyped ==
  ASSUME TypeOK, NEW n \in Int, NEW w, Account(n, w)
  PROVE  activeOps' \in Int /\ refd' \in BOOLEAN
BY DEF TypeOK, Account

LEMMA EndsTyped ==
  /\ \A S \in SUBSET Evals : Ends(S) \in Nat
  /\ \A D \in SUBSET Defs : Cardinality(D) \in Nat
BY LifecycleAssumption, FS_Subset, FS_CardinalityType DEF LifecycleAssumption, Ends

\* The variables a restart changes stay typed; the Worker it makes is current.
LEMMA ReplaceTyped ==
  ASSUME TypeOK, ReplaceWorker
  PROVE  /\ gen' \in Gens /\ worker' = gen' /\ rejectConfigure' = gen'
         /\ thread' \in [Gens -> {"none", "up", "gone", "terminated"}]
         /\ inbox' \in Inboxes /\ outbox' \in Outboxes
         /\ conf' \in [Gens -> {"none", "waiting", "ok", "failed"}]
<1>1. gen + 1 \in Gens
  BY LifecycleAssumption DEF LifecycleAssumption, TypeOK, ReplaceWorker, Gens
<1>2. <<Msg("configure", ModulesToSend)>> \in Seq(HostMsg)
  BY MsgTyped DEF ModulesToSend, TypeOK
<1>3. inbox' \in Inboxes
  BY <1>1, <1>2, KillTyped DEF ReplaceWorker, Inboxes
<1>4. QED
  BY <1>1, <1>3, KillTyped DEF TypeOK, ReplaceWorker, NewRejecter, Terminated

LEMMA RestartTyped ==
  ASSUME TypeOK, NEW n \in Int, RestartWorker(n)
  PROVE  /\ gen' \in Gens /\ worker' \in {None, gen'} /\ rejectConfigure' \in {None, gen'}
         /\ activeOps' \in Int /\ refd' \in BOOLEAN
         /\ thread' \in [Gens -> {"none", "up", "gone", "terminated"}]
         /\ inbox' \in Inboxes /\ outbox' \in Outboxes
         /\ conf' \in [Gens -> {"none", "waiting", "ok", "failed"}]
<1>1. CASE ReplaceWorker /\ Account(n + 1, gen + 1)
  BY <1>1, ReplaceTyped, AccountTyped
<1>2. CASE /\ TerminateWorker /\ Account(n, None)
           /\ UNCHANGED <<gen, conf, rejectConfigure>>
  BY <1>2, AccountTyped, KillTyped DEF TypeOK, TerminateWorker, Terminated
<1>3. QED
  BY <1>1, <1>2 DEF RestartWorker

LEMMA PostEvaluateTyped ==
  ASSUME TypeOK, NEW c \in Evals, NEW n \in Int, PostEvaluate(c, n)
  PROVE  /\ call' \in [Evals -> {"idle"} \cup Open \cup Settled]
         /\ on' \in [Evals -> Gens \cup {None}] /\ timer' \in [Evals -> BOOLEAN]
         /\ want' \in [Evals -> Nat] /\ inbox' \in Inboxes
         /\ activeOps' \in Int /\ refd' \in BOOLEAN
<1>1. worker \in Gens \cup {None} /\ inbox \in Inboxes
  BY DEF TypeOK, Inboxes
<1>2. Send(inbox, worker, Msg("evaluate", c)) \in Inboxes
  BY <1>1, MsgTyped, SendTyped
<1>3. activeOps' \in Int /\ refd' \in BOOLEAN
  BY AccountTyped DEF PostEvaluate
<1>4. call' \in [Evals -> {"idle"} \cup Open \cup Settled]
  <2>1. PICK v \in {"aborted", "pending"} : call' = [call EXCEPT ![c] = v]
    BY DEF PostEvaluate
  <2>2. v \in {"idle"} \cup Open \cup Settled
    BY DEF Open, Settled
  <2>3. call \in [Evals -> {"idle"} \cup Open \cup Settled]
    BY DEF TypeOK
  <2>4. QED
    BY <2>1, <2>2, <2>3
<1>5. timer' \in [Evals -> BOOLEAN]
  <2>1. timer' = timer \/ timer' = [timer EXCEPT ![c] = HasTimer(c)]
    BY DEF PostEvaluate
  <2>2. HasTimer(c) \in BOOLEAN
    BY DEF HasTimer
  <2>3. QED
    BY <2>1, <2>2 DEF TypeOK
<1>6. /\ on' = on \/ on' = [on EXCEPT ![c] = worker]
      /\ want' = want \/ want' = [want EXCEPT ![c] = virtualModules]
      /\ inbox' = inbox \/ inbox' = Send(inbox, worker, Msg("evaluate", c))
  BY DEF PostEvaluate
<1>7. on' \in [Evals -> Gens \cup {None}]
  BY <1>1, <1>6 DEF TypeOK
<1>8. want' \in [Evals -> Nat]
  BY <1>6 DEF TypeOK
<1>9. inbox' \in Inboxes
  BY <1>1, <1>2, <1>6
<1>10. QED
  BY <1>3, <1>4, <1>5, <1>7, <1>8, <1>9

LEMMA SettleTyped ==
  ASSUME TypeOK, NEW S, NEW outcome \in Settled, SettlePending(S, outcome)
  PROVE  /\ call' \in [Evals -> {"idle"} \cup Open \cup Settled]
         /\ on' \in [Evals -> Gens \cup {None}] /\ timer' \in [Evals -> BOOLEAN]
         /\ aborted' \subseteq Abortable /\ want' \in [Evals -> Nat]
BY DEF TypeOK, SettlePending, Cleared

LEMMA RejectTyped ==
  ASSUME TypeOK, NEW g \in Gens, NEW S \in SUBSET Evals, RejectConfigure(g, S)
  PROVE  /\ created' \in {"starting", "ready", "failed"}
         /\ worker' \in {None, gen} /\ rejectConfigure' = None
         /\ conf' \in [Gens -> {"none", "waiting", "ok", "failed"}]
         /\ activeOps' \in Int /\ refd' \in BOOLEAN
         /\ call' \in [Evals -> {"idle"} \cup Open \cup Settled]
         /\ on' \in [Evals -> Gens \cup {None}] /\ timer' \in [Evals -> BOOLEAN]
         /\ aborted' \subseteq Abortable /\ want' \in [Evals -> Nat]
         /\ thread' \in [Gens -> {"none", "up", "gone", "terminated"}]
         /\ inbox' \in Inboxes
<1>1. "failed" \in Settled
  BY DEF Settled
<1>2. /\ call' \in [Evals -> {"idle"} \cup Open \cup Settled]
      /\ on' \in [Evals -> Gens \cup {None}] /\ timer' \in [Evals -> BOOLEAN]
      /\ aborted' \subseteq Abortable /\ want' \in [Evals -> Nat]
  BY <1>1, SettleTyped DEF RejectConfigure
<1>3. -1 - Ends(S) \in Int
  BY EndsTyped
<1>4. activeOps' \in Int /\ refd' \in BOOLEAN
  BY <1>3, AccountTyped DEF RejectConfigure
<1>5. QED
  BY <1>2, <1>4, KillTyped DEF TypeOK, RejectConfigure, Inboxes

LEMMA OnErrorTyped ==
  ASSUME TypeOK, OnError
  PROVE  /\ created' \in {"starting", "ready", "failed"}
         /\ worker' \in {None, gen} /\ rejectConfigure' \in {None, gen}
         /\ conf' \in [Gens -> {"none", "waiting", "ok", "failed"}]
         /\ activeOps' \in Int /\ refd' \in BOOLEAN
         /\ call' \in [Evals -> {"idle"} \cup Open \cup Settled]
         /\ on' \in [Evals -> Gens \cup {None}] /\ timer' \in [Evals -> BOOLEAN]
         /\ aborted' \subseteq Abortable /\ want' \in [Evals -> Nat]
         /\ thread' \in [Gens -> {"none", "up", "gone", "terminated"}]
         /\ inbox' \in Inboxes
<1>1. Pending \in SUBSET Evals
  BY DEF Pending
<1>2. CASE StartupToReject # None /\ RejectConfigure(StartupToReject, Pending)
  <2>1. StartupToReject \in Gens
    BY <1>2 DEF TypeOK, StartupToReject
  <2>2. QED
    BY <1>1, <1>2, <2>1, RejectTyped
<1>3. CASE /\ SettlePending(Pending, "failed")
           /\ Account(-Ends(Pending), worker)
           /\ UNCHANGED <<created, worker, conf, rejectConfigure, thread, inbox>>
  <2>1. -Ends(Pending) \in Int /\ "failed" \in Settled
    BY <1>1, EndsTyped DEF Settled
  <2>2. QED
    BY <1>3, <2>1, SettleTyped, AccountTyped DEF TypeOK, Inboxes
<1>4. QED
  BY <1>2, <1>3 DEF OnError

LEMMA TypeInit == Init => TypeOK
<1> SUFFICES ASSUME Init PROVE TypeOK
  OBVIOUS
<1>2. 1 \in Gens /\ MaxGen \in Nat
  BY LifecycleAssumption DEF LifecycleAssumption, Gens
<1>3. /\ <<Msg("configure", 0)>> \in Seq(HostMsg)
      /\ <<>> \in Seq(HostMsg) /\ <<>> \in Seq(WorkerMsg)
  BY MsgTyped
<1>4. inbox \in [Gens -> Seq(HostMsg)]
  BY <1>3 DEF Init
<1>5. outbox \in [Gens -> Seq(WorkerMsg)]
  BY <1>3 DEF Init
<1>6. /\ timer \in [Evals -> BOOLEAN] /\ dead \in [Gens -> BOOLEAN]
      /\ disposed \in BOOLEAN /\ refd \in BOOLEAN /\ aborted \subseteq Abortable
  BY DEF Init
<1>7. /\ on \in [Evals -> Gens \cup {None}] /\ want \in [Evals -> Nat]
      /\ defOn \in [Defs -> Gens \cup {None}] /\ table \in [Gens -> Nat]
      /\ capFrom \in [Caps -> Gens \cup {None}] /\ capTo \in [Caps -> Gens \cup {None}]
  BY DEF Init, None
<1>8. /\ conf \in [Gens -> {"none", "waiting", "ok", "failed"}]
      /\ call \in [Evals -> {"idle"} \cup Open \cup Settled]
      /\ thread \in [Gens -> {"none", "up", "gone", "terminated"}]
  BY DEF Init
<1>9. /\ created \in {"starting", "ready", "failed"}
      /\ gen \in Gens /\ worker \in {None, gen} /\ rejectConfigure \in {None, gen}
      /\ activeOps \in Int /\ virtualModules \in Nat
  BY <1>2 DEF Init
<1>10. /\ def \in [Defs -> {"idle", "waiting", "done"}]
       /\ cap \in [Caps -> {"idle", "sent", "running", "replied", "answered", "dropped"}]
       /\ code \in [Evals -> {"none", "running", "finished"}]
  BY DEF Init
<1>11. QED
  BY <1>4, <1>5, <1>6, <1>7, <1>8, <1>9, <1>10 DEF TypeOK

\* The host's calls keep the types.
LEMMA CallTypes ==
  ASSUME TypeOK,
         \/ \E c \in Evals : Evaluate(c) \/ Timeout(c) \/ Abort(c)
         \/ \E d \in Defs : DefineModule(d)
         \/ Dispose
         \/ \E k \in Caps : CapabilitySettles(k)
  PROVE  TypeOK'
<1>1. ASSUME NEW c \in Evals, Evaluate(c) PROVE TypeOK'
  <2>1. CASE disposed /\ call' = [call EXCEPT ![c] = "disposed"]
             /\ UNCHANGED <<sandboxVars, opVars, on, timer, want, threadVars>>
    BY <1>1, <2>1 DEF Evaluate, TypeOK, Settled, sandboxVars, opVars, threadVars, defVars, capVars
  <2>2. CASE ~disposed /\ Usable /\ PostEvaluate(c, 0)
             /\ UNCHANGED <<sandboxVars, thread, dead, outbox, table, code>>
    BY <1>1, <2>2, PostEvaluateTyped
       DEF Evaluate, TypeOK, Inboxes, sandboxVars, defVars, capVars
  <2>3. CASE /\ ~disposed /\ ~Usable /\ RestartWorker(0)
             /\ call' = [call EXCEPT ![c] = IF worker' = None THEN "failed" ELSE "restarting"]
             /\ on' = [on EXCEPT ![c] = worker']
             /\ UNCHANGED <<created, disposed, timer, want, dead, table, code>>
    <3>1. /\ gen' \in Gens /\ worker' \in {None, gen'} /\ rejectConfigure' \in {None, gen'}
          /\ activeOps' \in Int /\ refd' \in BOOLEAN
          /\ thread' \in [Gens -> {"none", "up", "gone", "terminated"}]
          /\ inbox' \in Inboxes /\ outbox' \in Outboxes
          /\ conf' \in [Gens -> {"none", "waiting", "ok", "failed"}]
      BY <2>3, RestartTyped
    <3>2. /\ call' \in [Evals -> {"idle"} \cup Open \cup Settled]
          /\ on' \in [Evals -> Gens \cup {None}]
      BY <2>3, <3>1 DEF TypeOK, Open, Settled
    <3>3. QED
      BY <1>1, <2>3, <3>1, <3>2 DEF Evaluate, TypeOK, Inboxes, Outboxes, defVars, capVars
  <2>4. QED
    BY <1>1, <2>1, <2>2, <2>3 DEF Evaluate
<1>2. ASSUME NEW c \in Evals, Timeout(c) PROVE TypeOK'
  <2>1. RestartWorker(-1) \/ RestartWorker(0)
    BY <1>2 DEF Timeout
  <2>2. timer' \in [Evals -> BOOLEAN]
    BY <1>2 DEF Timeout, TypeOK
  <2>3. call' \in [Evals -> {"idle"} \cup Open \cup Settled]
    BY <1>2 DEF Timeout, TypeOK, Settled
  <2>4. /\ gen' \in Gens /\ worker' \in {None, gen'} /\ rejectConfigure' \in {None, gen'}
        /\ activeOps' \in Int /\ refd' \in BOOLEAN
        /\ thread' \in [Gens -> {"none", "up", "gone", "terminated"}]
        /\ inbox' \in Inboxes /\ outbox' \in Outboxes
        /\ conf' \in [Gens -> {"none", "waiting", "ok", "failed"}]
    BY <2>1, RestartTyped
  <2>5. QED
    BY <1>2, <2>2, <2>3, <2>4 DEF Timeout, TypeOK, Inboxes, Outboxes, defVars, capVars
<1>3. ASSUME NEW c \in Evals, Abort(c) PROVE TypeOK'
  <2>1. aborted' \subseteq Abortable
    BY <1>3 DEF Abort, TypeOK
  <2>2. CASE /\ call' = [call EXCEPT ![c] = "aborted"] /\ timer' = Cleared({c})
             /\ RestartWorker(-1) /\ UNCHANGED <<created, disposed, dead, table, code>>
    <3>1. timer' \in [Evals -> BOOLEAN]
      BY <2>2 DEF Cleared
    <3>2. call' \in [Evals -> {"idle"} \cup Open \cup Settled]
      BY <2>2 DEF TypeOK, Settled
    <3>3. /\ gen' \in Gens /\ worker' \in {None, gen'} /\ rejectConfigure' \in {None, gen'}
          /\ activeOps' \in Int /\ refd' \in BOOLEAN
          /\ thread' \in [Gens -> {"none", "up", "gone", "terminated"}]
          /\ inbox' \in Inboxes /\ outbox' \in Outboxes
          /\ conf' \in [Gens -> {"none", "waiting", "ok", "failed"}]
      BY <2>2, RestartTyped
    <3>4. QED
      BY <1>3, <2>1, <2>2, <3>1, <3>2, <3>3
         DEF Abort, TypeOK, Inboxes, Outboxes, defVars, capVars
  <2>3. CASE UNCHANGED <<sandboxVars, opVars, call, timer, threadVars>>
    BY <1>3, <2>1, <2>3 DEF Abort, TypeOK, sandboxVars, opVars, threadVars, defVars, capVars
  <2>4. QED
    BY <1>3, <2>2, <2>3 DEF Abort
<1>4. ASSUME NEW d \in Defs, DefineModule(d) PROVE TypeOK'
  <2>1. virtualModules' \in Nat /\ worker \in Gens \cup {None} /\ inbox \in Inboxes
    BY <1>4 DEF DefineModule, TypeOK, Inboxes
  <2>2. inbox' \in Inboxes
    BY <1>4, <2>1, MsgTyped, SendTyped DEF DefineModule
  <2>3. activeOps' \in Int /\ refd' \in BOOLEAN
    BY <1>4, AccountTyped DEF DefineModule, TypeOK, opVars
  <2>4. QED
    BY <1>4, <2>1, <2>2, <2>3 DEF DefineModule, TypeOK, Inboxes, sandboxVars, callVars, capVars
<1>5. ASSUME Dispose PROVE TypeOK'
  <2>1. -Ends(Pending) \in Int /\ "disposed" \in Settled
    BY EndsTyped DEF Pending, Settled
  <2>2. activeOps' \in Int /\ refd' \in BOOLEAN
    BY <1>5, <2>1, AccountTyped DEF Dispose
  <2>3. QED
    BY <1>5, <2>1, <2>2, SettleTyped, KillTyped
       DEF Dispose, TypeOK, TerminateWorker, Terminated, Inboxes, Outboxes, defVars, capVars
<1>6. ASSUME NEW k \in Caps, CapabilitySettles(k) PROVE TypeOK'
  <2>1. worker \in Gens \cup {None} /\ inbox \in Inboxes
    BY DEF TypeOK, Inboxes
  <2>2. inbox' \in Inboxes
    BY <1>6, <2>1, MsgTyped, SendTyped DEF CapabilitySettles
  <2>3. cap' \in [Caps -> {"idle", "sent", "running", "replied", "answered", "dropped"}]
    <3>1. cap \in [Caps -> {"idle", "sent", "running", "replied", "answered", "dropped"}]
      BY DEF TypeOK
    <3>2. \/ cap' = [cap EXCEPT ![k] = "replied"]
          \/ cap' = [cap EXCEPT ![k] = "dropped"]
      BY <1>6 DEF CapabilitySettles
    <3>3. QED
      BY <3>1, <3>2
  <2>4. UNCHANGED <<sandboxVars, opVars, callVars, defVars, capFrom, capTo,
                    thread, dead, outbox, table, code>>
    BY <1>6 DEF CapabilitySettles
  <2>5. UNCHANGED <<created, disposed, gen, worker, conf, rejectConfigure, activeOps, refd,
                    call, on, timer, aborted, want, virtualModules, def, defOn>>
    BY <2>4 DEF sandboxVars, opVars, callVars, defVars
  <2>6. /\ created' \in {"starting", "ready", "failed"} /\ disposed' \in BOOLEAN
        /\ gen' \in Gens /\ worker' \in {None, gen'} /\ rejectConfigure' \in {None, gen'}
        /\ conf' \in [Gens -> {"none", "waiting", "ok", "failed"}]
        /\ activeOps' \in Int /\ refd' \in BOOLEAN
    BY <2>5 DEF TypeOK
  <2>7. /\ call' \in [Evals -> {"idle"} \cup Open \cup Settled]
        /\ on' \in [Evals -> Gens \cup {None}] /\ timer' \in [Evals -> BOOLEAN]
        /\ aborted' \subseteq Abortable /\ want' \in [Evals -> Nat]
        /\ virtualModules' \in Nat /\ def' \in [Defs -> {"idle", "waiting", "done"}]
        /\ defOn' \in [Defs -> Gens \cup {None}]
    BY <2>5 DEF TypeOK
  <2>8. QED
    BY <2>2, <2>3, <2>4, <2>6, <2>7 DEF TypeOK, Inboxes
<1>7. QED
  BY <1>1, <1>2, <1>3, <1>4, <1>5, <1>6

\* What the host receives keeps the types.
LEMMA ReceiveTypes ==
  ASSUME TypeOK, NEW g \in Gens, HostReceives(g)
  PROVE  TypeOK'
<1>0. outbox[g] # <<>>
  BY DEF HostReceives, Configured, ConfigureFailed, NobodyListens, ModuleDefined, Result,
         CapabilityCall, WorkerError, WorkerExit, Arrives
<1> USE <1>0
<1>1. CASE Configured(g)
  <2>1. activeOps' \in Int /\ refd' \in BOOLEAN
    BY <1>1, PostEvaluateTyped, AccountTyped DEF Configured, Restarting
  <2>2. /\ call' \in [Evals -> {"idle"} \cup Open \cup Settled]
        /\ on' \in [Evals -> Gens \cup {None}] /\ timer' \in [Evals -> BOOLEAN]
        /\ want' \in [Evals -> Nat] /\ inbox' \in Inboxes
    <3>1. CASE UNCHANGED <<call, on, timer, want, inbox>>
      BY <3>1 DEF TypeOK, Inboxes
    <3>2. CASE \E c \in Evals : PostEvaluate(c, -1)
      BY <3>2, PostEvaluateTyped
    <3>3. QED
      BY <1>1, <3>1, <3>2 DEF Configured, Restarting
  <2>3. QED
    BY <1>1, <2>1, <2>2, TakenTyped DEF Configured, TypeOK, Inboxes, Outboxes, defVars, capVars
<1>2. CASE ConfigureFailed(g)
  BY <1>2, RejectTyped, TakenTyped
     DEF ConfigureFailed, TypeOK, Inboxes, Outboxes, defVars, capVars
<1>3. CASE NobodyListens(g)
  BY <1>3, TakenTyped
     DEF NobodyListens, TypeOK, Outboxes, sandboxVars, opVars, callVars, defVars, capVars
<1>4. CASE ModuleDefined(g)
  <2>1. activeOps' \in Int /\ refd' \in BOOLEAN
    <3> DEFINE D == {d \in Defs : def[d] = "waiting" /\ defOn[d] = g}
    <3>1. -Cardinality(D) \in Int
      BY EndsTyped
    <3>2. QED
      BY <1>4, <3>1, AccountTyped DEF ModuleDefined
  <2>2. def' \in [Defs -> {"idle", "waiting", "done"}]
    BY <1>4 DEF ModuleDefined, TypeOK
  <2>3. QED
    BY <1>4, <2>1, <2>2, TakenTyped
       DEF ModuleDefined, TypeOK, Outboxes, sandboxVars, callVars, capVars
<1>5. CASE Result(g)
  <2>1. CASE UNCHANGED <<callVars, opVars>>
    BY <1>5, <2>1, TakenTyped
       DEF Result, TypeOK, Outboxes, sandboxVars, opVars, callVars, defVars, capVars
  <2>2. ASSUME NEW c, SettlePending({c}, "resolved") /\ Account(-1, worker)
        PROVE  TypeOK'
    <3>1. "resolved" \in Settled
      BY DEF Settled
    <3>2. /\ call' \in [Evals -> {"idle"} \cup Open \cup Settled]
          /\ on' \in [Evals -> Gens \cup {None}] /\ timer' \in [Evals -> BOOLEAN]
          /\ aborted' \subseteq Abortable /\ want' \in [Evals -> Nat]
          /\ activeOps' \in Int /\ refd' \in BOOLEAN
      BY <2>2, <3>1, SettleTyped, AccountTyped
    <3>3. QED
      BY <1>5, <3>2, TakenTyped DEF Result, TypeOK, Outboxes, sandboxVars, defVars, capVars
  <2>3. QED
    BY <1>5, <2>1, <2>2 DEF Result
<1>6. CASE CapabilityCall(g)
  <2>1. worker \in Gens \cup {None}
    BY DEF TypeOK
  <2>2. QED
    BY <1>6, <2>1, TakenTyped
       DEF CapabilityCall, TypeOK, Outboxes, sandboxVars, opVars, callVars, defVars
<1>7. CASE WorkerError(g)
  BY <1>7, OnErrorTyped, TakenTyped
     DEF WorkerError, TypeOK, Inboxes, Outboxes, defVars, capVars
<1>8. CASE WorkerExit(g)
  <2>1. CASE OnError
    BY <1>8, <2>1, OnErrorTyped, TakenTyped
       DEF WorkerExit, TypeOK, Inboxes, Outboxes, defVars, capVars
  <2>2. CASE UNCHANGED <<created, worker, conf, rejectConfigure, opVars, callVars, thread, inbox>>
    BY <1>8, <2>2, TakenTyped
       DEF WorkerExit, TypeOK, Outboxes, opVars, callVars, defVars, capVars
  <2>3. QED
    BY <1>8, <2>1, <2>2 DEF WorkerExit
<1>9. QED
  BY <1>1, <1>2, <1>3, <1>4, <1>5, <1>6, <1>7, <1>8 DEF HostReceives

\* What a Worker does keeps the types.
LEMMA RunTypes ==
  ASSUME TypeOK, NEW g \in Gens, WorkerRuns(g)
  PROVE  TypeOK'
<1> USE DEF sandboxVars, opVars, callVars, defVars, capVars
<1>1. CASE RunConfigure(g)
  <2>1. \A t \in {"configured", "configureFailed"} : <<Msg(t, None)>> \in Seq(WorkerMsg)
    BY MsgTyped
  <2>2. outbox' \in Outboxes /\ inbox' \in Inboxes
    BY <1>1, <2>1, PostsTyped, TakesTyped DEF RunConfigure
  <2>3. Head(inbox[g]).arg \in Nat
    BY <1>1, TakesTyped DEF RunConfigure, HostMsg
  <2>4. QED
    BY <1>1, <2>2, <2>3 DEF RunConfigure, TypeOK, Inboxes, Outboxes
<1>2. CASE RunDefineModule(g)
  <2>1. <<Msg("moduleDefined", None)>> \in Seq(WorkerMsg)
    BY MsgTyped
  <2>2. outbox' \in Outboxes /\ inbox' \in Inboxes
    BY <1>2, <2>1, PostsTyped, TakesTyped DEF RunDefineModule
  <2>3. Head(inbox[g]).arg \in Nat
    BY <1>2, TakesTyped DEF RunDefineModule, HostMsg
  <2>4. QED
    BY <1>2, <2>2, <2>3 DEF RunDefineModule, TypeOK, Inboxes, Outboxes
<1>3. CASE RunEvaluate(g)
  BY <1>3, TakesTyped DEF RunEvaluate, TypeOK, Inboxes
<1>4. CASE RunCapabilityResult(g)
  BY <1>4, TakesTyped DEF RunCapabilityResult, TypeOK, Inboxes
<1>5. CASE Crashes(g)
  <2> DEFINE msgs == <<Msg("error", None)>> \o IF Node THEN <<Msg("exit1", None)>> ELSE <<>>
  <2>1. msgs \in Seq(WorkerMsg) /\ <<Msg("error", None)>> \in Seq(WorkerMsg)
    BY MsgTyped
  <2>2. outbox' \in Outboxes
    <3> HIDE DEF msgs
    <3>1. Posts(g, msgs) \/ Posts(g, <<Msg("error", None)>>)
      BY <1>5 DEF Crashes, msgs
    <3>2. QED
      BY <2>1, <3>1, PostsTyped
  <2>3. inbox' \in Inboxes /\ thread' \in [Gens -> {"none", "up", "gone", "terminated"}]
    <3>1. <<>> \in Seq(HostMsg)
      OBVIOUS
    <3>2. inbox \in Inboxes /\ thread \in [Gens -> {"none", "up", "gone", "terminated"}]
      BY DEF TypeOK, Inboxes
    <3>3. \/ /\ thread' = [thread EXCEPT ![g] = "gone"]
             /\ inbox' = [inbox EXCEPT ![g] = <<>>]
          \/ UNCHANGED <<thread, inbox>>
      BY <1>5 DEF Crashes
    <3>4. QED
      BY <3>1, <3>2, <3>3 DEF Inboxes
  <2>4. UNCHANGED <<sandboxVars, opVars, callVars, defVars, capVars, dead, table, code>>
    BY <1>5 DEF Crashes
  <2>5. /\ created' \in {"starting", "ready", "failed"} /\ disposed' \in BOOLEAN
        /\ gen' \in Gens /\ worker' \in {None, gen'} /\ rejectConfigure' \in {None, gen'}
        /\ conf' \in [Gens -> {"none", "waiting", "ok", "failed"}]
        /\ activeOps' \in Int /\ refd' \in BOOLEAN
    BY <2>4 DEF TypeOK, sandboxVars, opVars
  <2>6. /\ call' \in [Evals -> {"idle"} \cup Open \cup Settled]
        /\ on' \in [Evals -> Gens \cup {None}] /\ timer' \in [Evals -> BOOLEAN]
        /\ aborted' \subseteq Abortable /\ want' \in [Evals -> Nat]
    BY <2>4 DEF TypeOK, callVars
  <2>7. QED
    BY <2>2, <2>3, <2>4, <2>5, <2>6 DEF TypeOK, Inboxes, Outboxes, defVars, capVars
<1>6. CASE ClosesItself(g)
  <2>1. \A t \in {"exit0", "exit1"} : <<Msg(t, None)>> \in Seq(WorkerMsg)
    BY MsgTyped
  <2>2. outbox' \in Outboxes
    BY <1>6, <2>1, PostsTyped DEF ClosesItself, TypeOK, Outboxes
  <2>3. <<>> \in Seq(HostMsg)
    OBVIOUS
  <2>4. inbox' \in Inboxes /\ thread' \in [Gens -> {"none", "up", "gone", "terminated"}]
    BY <1>6, <2>3 DEF ClosesItself, TypeOK, Inboxes
  <2>5. QED
    BY <1>6, <2>2, <2>4 DEF ClosesItself, TypeOK, Inboxes, Outboxes
<1>7. ASSUME NEW c \in Evals, CodeEnds(g, c) PROVE TypeOK'
  <2>1. <<Msg("result", c)>> \in Seq(WorkerMsg)
    BY MsgTyped
  <2>2. QED
    BY <1>7, <2>1, PostsTyped DEF CodeEnds, TypeOK, Outboxes
<1>8. ASSUME NEW k \in Caps, CodeCallsHost(g, k) PROVE TypeOK'
  <2>1. <<Msg("capabilityCall", k)>> \in Seq(WorkerMsg)
    BY MsgTyped
  <2>2. QED
    BY <1>8, <2>1, PostsTyped DEF CodeCallsHost, TypeOK, Outboxes
<1>9. QED
  BY <1>1, <1>2, <1>3, <1>4, <1>5, <1>6, <1>7, <1>8 DEF WorkerRuns

LEMMA TypeNext == TypeOK /\ [Next]_vars => TypeOK'
<1>1. CASE UNCHANGED vars
  BY <1>1 DEF TypeOK, vars, sandboxVars, opVars, callVars, defVars, capVars, threadVars
<1>2. CASE Next
  BY <1>2, CallTypes, ReceiveTypes, RunTypes DEF Next
<1>3. QED
  BY <1>1, <1>2

\* The type invariant holds for every set of calls, every option and any
\* number of Workers.
THEOREM LifecycleTypeOK == Spec => []TypeOK
BY TypeInit, TypeNext, PTL DEF Spec

-----------------------------------------------------------------------------
(* Safety: the inductive invariant, and the refinement.                    *)


\* A replaced Worker is terminated, also when its thread had already ended:
\* its listeners are gone, so a late `configured` is not heard.
OnlyWorkerLives == \A g \in Gens : thread[g] \in {"up", "gone"} => g = worker

\* A configure promise is made with its Worker's thread.
Born == \A g \in Gens : conf[g] = "waiting" => thread[g] # "none"

\* Nothing is called before createSandbox() resolves, or after it has failed.
NothingBeforeReady ==
  /\ created # "ready" => \A c \in Evals : call[c] = "idle"
  /\ created = "failed" => worker = None

\* dispose() leaves no call pending.
DisposedIsIdle ==
  disposed => created = "ready" /\ worker = None /\ \A c \in Evals : call[c] # "pending"

IInv ==
  /\ TypeOK /\ OnlyWorkerLives /\ Born /\ NothingBeforeReady /\ DisposedIsIdle
  /\ TimersMatchPending /\ StartupIsWatched /\ RefWhileBusy

\* Steps that change no call, no timer and not the current Worker: at most a
\* thread ends by itself, and operations are counted.
Quiet ==
  /\ UNCHANGED <<sandboxVars, call, timer, on>>
  /\ \A g \in Gens : thread'[g] = thread[g] \/ (thread[g] = "up" /\ thread'[g] = "gone")
  /\ UNCHANGED opVars \/ \E n \in Int : Account(n, worker)

LEMMA InitIInv == Init => IInv
<1> SUFFICES ASSUME Init PROVE IInv
  OBVIOUS
<1>1. TypeOK
  BY TypeInit
<1>2. OnlyWorkerLives /\ Born /\ StartupIsWatched /\ RefWhileBusy
  BY DEF Init, OnlyWorkerLives, Born, StartupIsWatched, RefWhileBusy
<1>3. NothingBeforeReady /\ DisposedIsIdle /\ TimersMatchPending
  BY DEF Init, NothingBeforeReady, DisposedIsIdle, TimersMatchPending, Pending
<1>4. QED
  BY <1>1, <1>2, <1>3 DEF IInv

\* Counting operations keeps the thread ref'd while there are some.
LEMMA AccountKeeps ==
  ASSUME TypeOK, RefWhileBusy, NEW n \in Int, NEW w,
         Account(n, w), worker' = w
  PROVE  RefWhileBusy'
BY DEF TypeOK, RefWhileBusy, Account

\* Replacing the Worker ends every other thread and watches the new startup.
LEMMA RestartKeeps ==
  ASSUME TypeOK, OnlyWorkerLives, Born, RefWhileBusy,
         NEW n \in Int, RestartWorker(n)
  PROVE  OnlyWorkerLives' /\ Born' /\ StartupIsWatched' /\ RefWhileBusy'
<1>1. CASE ReplaceWorker /\ Account(n + 1, gen + 1)
  <2>1. worker' = gen + 1 /\ gen + 1 \in Gens /\ gen + 1 # None
    BY <1>1, ReplaceTyped, LifecycleAssumption
       DEF LifecycleAssumption, ReplaceWorker, TypeOK, Gens, None
  <2>2. \A g \in Gens : thread'[g] = IF g = gen + 1 THEN "up"
                                    ELSE IF g = worker THEN "terminated" ELSE thread[g]
    BY <1>1, <2>1, KillTyped DEF ReplaceWorker, Terminated, Kill
  <2>3. OnlyWorkerLives'
    BY <2>1, <2>2 DEF OnlyWorkerLives
  <2>4. \A g \in Gens : conf'[g] = IF g = gen + 1 THEN "waiting" ELSE conf[g]
    BY <1>1, <2>1 DEF ReplaceWorker, TypeOK
  <2>5. Born'
    BY <2>2, <2>4 DEF Born
  <2>6. StartupIsWatched'
    BY <1>1, ReplaceTyped DEF StartupIsWatched
  <2>7. RefWhileBusy'
    BY <1>1, <2>1, AccountKeeps
  <2>8. QED
    BY <2>3, <2>5, <2>6, <2>7
<1>2. CASE /\ TerminateWorker /\ Account(n, None)
           /\ UNCHANGED <<gen, conf, rejectConfigure>>
  <2>1. OnlyWorkerLives' /\ Born'
    BY <1>2 DEF OnlyWorkerLives, Born, TerminateWorker, Terminated, Kill
  <2>2. StartupIsWatched'
    BY <1>2 DEF StartupIsWatched, TerminateWorker
  <2>3. RefWhileBusy'
    BY <1>2, AccountKeeps DEF TerminateWorker
  <2>4. QED
    BY <2>1, <2>2, <2>3
<1>3. QED
  BY <1>1, <1>2 DEF RestartWorker


\* A rejected startup is no longer waited for; a failed createSandbox() leaves
\* no Worker.
LEMMA RejectKeeps ==
  ASSUME IInv, NEW g \in Gens, NEW S \in SUBSET Pending, RejectConfigure(g, S),
         g = worker \/ g = rejectConfigure,
         UNCHANGED disposed
  PROVE  /\ OnlyWorkerLives' /\ Born' /\ StartupIsWatched' /\ RefWhileBusy'
         /\ NothingBeforeReady' /\ DisposedIsIdle' /\ TimersMatchPending'
<1> USE DEF IInv
<1> DEFINE T == S \cup Restarting(g)
<1>1. /\ call' = [c \in Evals |-> IF c \in T THEN "failed" ELSE call[c]]
      /\ timer' = [c \in Evals |-> timer[c] /\ c \notin T]
  BY DEF RejectConfigure, SettlePending, Cleared
<1>2. \A c \in T : call[c] \in Open
  BY DEF Restarting, Pending, Open
<1>3. -1 - Ends(S) \in Int
  BY EndsTyped DEF Pending
<1>4. RefWhileBusy'
  BY <1>3, AccountKeeps DEF RejectConfigure
<1>5. \A h \in Gens : conf'[h] = IF h = g THEN "failed" ELSE conf[h]
  BY DEF RejectConfigure, TypeOK
<1>6. \A h \in Gens : thread'[h] = thread[h] \/ (h = worker /\ thread'[h] = "terminated")
  BY DEF RejectConfigure, Kill
<1>7. worker' = worker \/ (worker' = None /\ thread' = Kill(thread, "terminated"))
  BY DEF RejectConfigure
<1>8. OnlyWorkerLives'
  BY <1>6, <1>7 DEF OnlyWorkerLives, Kill
<1>9. Born'
  BY <1>5, <1>6 DEF Born
<1>10. StartupIsWatched'
  BY <1>5, <1>7 DEF StartupIsWatched, TypeOK, None
<1>11. NothingBeforeReady'
  BY <1>1, <1>2 DEF NothingBeforeReady, RejectConfigure, Open, TypeOK
<1>12. DisposedIsIdle'
  BY <1>1, <1>7 DEF DisposedIsIdle, RejectConfigure
<1>13. TimersMatchPending'
  BY <1>1, <1>2 DEF TimersMatchPending, Pending, Open
<1>14. QED
  BY <1>4, <1>8, <1>9, <1>10, <1>11, <1>12, <1>13

\* Steps of the Worker and most messages disturb nothing.
LEMMA QuietKeeps ==
  ASSUME IInv, Quiet, TypeOK'
  PROVE  IInv'
<1> USE DEF IInv
<1>1. UNCHANGED <<created, disposed, worker, conf, rejectConfigure, call, timer>>
  BY DEF Quiet, sandboxVars
<1>2. OnlyWorkerLives' /\ Born'
  BY <1>1 DEF Quiet, OnlyWorkerLives, Born
<1>3. RefWhileBusy'
  BY <1>1, AccountKeeps DEF Quiet, RefWhileBusy, opVars
<1>4. NothingBeforeReady' /\ DisposedIsIdle' /\ TimersMatchPending' /\ StartupIsWatched'
  BY <1>1 DEF NothingBeforeReady, DisposedIsIdle, TimersMatchPending, StartupIsWatched, Pending
<1>5. QED
  BY <1>2, <1>3, <1>4

LEMMA QuietSteps ==
  ASSUME TypeOK,
         \/ \E d \in Defs : DefineModule(d)
         \/ \E k \in Caps : CapabilitySettles(k)
         \/ \E g \in Gens : NobodyListens(g) \/ ModuleDefined(g) \/ CapabilityCall(g)
         \/ \E g \in Gens : WorkerRuns(g)
  PROVE  Quiet
<1> USE DEF Quiet, sandboxVars, opVars, callVars
<1>1. ASSUME NEW d \in Defs, DefineModule(d) PROVE Quiet
  BY <1>1 DEF DefineModule
<1>2. ASSUME NEW k \in Caps, CapabilitySettles(k) PROVE Quiet
  BY <1>2 DEF CapabilitySettles
<1>3. ASSUME NEW g \in Gens, NobodyListens(g) PROVE Quiet
  BY <1>3 DEF NobodyListens
<1>4. ASSUME NEW g \in Gens, ModuleDefined(g) PROVE Quiet
  <2> DEFINE D == {d \in Defs : def[d] = "waiting" /\ defOn[d] = g}
  <2>1. -Cardinality(D) \in Int
    BY EndsTyped
  <2>2. Account(-Cardinality(D), worker)
    BY <1>4 DEF ModuleDefined
  <2>3. QED
    BY <1>4, <2>1, <2>2 DEF ModuleDefined
<1>5. ASSUME NEW g \in Gens, CapabilityCall(g) PROVE Quiet
  BY <1>5 DEF CapabilityCall
<1>6. ASSUME NEW g \in Gens, WorkerRuns(g) PROVE Quiet
  <2>1. UNCHANGED <<sandboxVars, opVars, call, timer, on>>
    BY <1>6 DEF WorkerRuns, RunConfigure, RunDefineModule, RunEvaluate, RunCapabilityResult,
       Crashes, ClosesItself, CodeEnds, CodeCallsHost
  <2>2. thread' = thread \/ (thread[g] = "up" /\ thread' = [thread EXCEPT ![g] = "gone"])
    BY <1>6 DEF WorkerRuns, RunConfigure, RunDefineModule, RunEvaluate, RunCapabilityResult,
       Crashes, ClosesItself, CodeEnds, CodeCallsHost
  <2>3. QED
    BY <2>1, <2>2 DEF TypeOK
<1>7. QED
  BY <1>1, <1>2, <1>3, <1>4, <1>5, <1>6

\* evaluate() up to its post, or up to its wait for a restart.
LEMMA PostKeeps ==
  ASSUME IInv, NEW c \in Evals, NEW n \in Int, PostEvaluate(c, n),
         call[c] \in {"idle", "restarting"}
  PROVE  /\ TimersMatchPending' /\ call'[c] \in {"pending", "aborted"}
         /\ \A x \in Evals \ {c} : call'[x] = call[x]
         /\ \E m \in Int : Account(m, worker)
<1> USE DEF IInv
<1>1. \/ /\ call' = [call EXCEPT ![c] = "aborted"] /\ timer' = timer
      \/ /\ call' = [call EXCEPT ![c] = "pending"] /\ timer' = [timer EXCEPT ![c] = c \in Timed]
  BY DEF PostEvaluate, HasTimer
<1>2. \E m \in Int : Account(m, worker)
  BY DEF PostEvaluate
<1>3. call'[c] \in {"pending", "aborted"} /\ \A x \in Evals \ {c} : call'[x] = call[x]
  BY <1>1 DEF TypeOK
<1>4. TimersMatchPending'
  <2>1. CASE call' = [call EXCEPT ![c] = "aborted"] /\ timer' = timer
    BY <2>1 DEF TimersMatchPending, Pending, TypeOK
  <2>2. CASE call' = [call EXCEPT ![c] = "pending"] /\ timer' = [timer EXCEPT ![c] = c \in Timed]
    <3>1. /\ timer'[c] <=> c \in Timed
          /\ \A x \in Evals \ {c} : timer'[x] = timer[x]
      BY <2>2 DEF TypeOK
    <3>2. call'[c] = "pending" /\ \A x \in Evals \ {c} : call'[x] = call[x]
      BY <2>2 DEF TypeOK
    <3>3. QED
      BY <3>1, <3>2 DEF TimersMatchPending, Pending
  <2>3. QED
    BY <1>1, <2>1, <2>2
<1>5. QED
  BY <1>2, <1>3, <1>4

\* A timer or a signal that replaces the Worker settles its own call, if it
\* was pending, and clears its timer.
LEMMA KillsKeep ==
  ASSUME IInv, NEW c \in Evals, NEW n \in Int, RestartWorker(n),
         call[c] # "idle", ~disposed,
         TimersMatchPending', TypeOK', UNCHANGED <<created, disposed>>
  PROVE  IInv'
<1> USE DEF IInv
<1>1. OnlyWorkerLives' /\ Born' /\ StartupIsWatched' /\ RefWhileBusy'
  BY RestartKeeps
<1>2. created = "ready"
  BY DEF NothingBeforeReady
<1>3. NothingBeforeReady' /\ DisposedIsIdle'
  BY <1>2 DEF NothingBeforeReady, DisposedIsIdle
<1>4. QED
  BY <1>1, <1>3

LEMMA EvaluateKeeps ==
  ASSUME IInv, TypeOK', NEW c \in Evals, Evaluate(c)
  PROVE  IInv'
<1> USE DEF IInv
<1>1. CASE disposed /\ call' = [call EXCEPT ![c] = "disposed"]
           /\ UNCHANGED <<sandboxVars, opVars, on, timer, want, threadVars>>
  <2>1. TimersMatchPending' /\ DisposedIsIdle' /\ NothingBeforeReady'
    BY <1>1 DEF Evaluate, TimersMatchPending, DisposedIsIdle, NothingBeforeReady, Pending, TypeOK, sandboxVars
  <2>2. OnlyWorkerLives' /\ Born' /\ StartupIsWatched' /\ RefWhileBusy'
    BY <1>1 DEF OnlyWorkerLives, Born, StartupIsWatched, RefWhileBusy, sandboxVars, opVars, threadVars
  <2>3. QED
    BY <2>1, <2>2
<1>2. CASE ~disposed /\ PostEvaluate(c, 0)
           /\ UNCHANGED <<sandboxVars, thread, dead, outbox, table, code>>
  <2>1. call[c] = "idle" /\ created = "ready"
    BY DEF Evaluate
  <2>2. TimersMatchPending' /\ \E m \in Int : Account(m, worker)
    BY <1>2, <2>1, PostKeeps
  <2>3. RefWhileBusy'
    BY <1>2, <2>2, AccountKeeps DEF sandboxVars
  <2>4. OnlyWorkerLives' /\ Born' /\ StartupIsWatched' /\ DisposedIsIdle' /\ NothingBeforeReady'
    BY <1>2, <2>1
       DEF OnlyWorkerLives, Born, StartupIsWatched, DisposedIsIdle, NothingBeforeReady, sandboxVars
  <2>5. QED
    BY <2>2, <2>3, <2>4
<1>3. CASE /\ ~disposed /\ ~Usable /\ RestartWorker(0)
           /\ call' = [call EXCEPT ![c] = IF worker' = None THEN "failed" ELSE "restarting"]
           /\ on' = [on EXCEPT ![c] = worker']
           /\ UNCHANGED <<created, disposed, timer, want, dead, table, code>>
  <2>1. TimersMatchPending'
    BY <1>3 DEF Evaluate, TimersMatchPending, Pending, TypeOK
  <2>2. DisposedIsIdle' /\ NothingBeforeReady'
    BY <1>3 DEF Evaluate, DisposedIsIdle, NothingBeforeReady
  <2>3. OnlyWorkerLives' /\ Born' /\ StartupIsWatched' /\ RefWhileBusy'
    BY <1>3, RestartKeeps
  <2>4. QED
    BY <2>1, <2>2, <2>3
<1>4. QED
  BY <1>1, <1>2, <1>3 DEF Evaluate

LEMMA TimeoutKeeps ==
  ASSUME IInv, TypeOK', NEW c \in Evals, Timeout(c)
  PROVE  IInv'
<1> USE DEF IInv
<1>1. call[c] = "pending" /\ ~disposed
  BY DEF Timeout, TimersMatchPending, DisposedIsIdle, Pending
<1>2. call' = [call EXCEPT ![c] = "timeout"] /\ timer' = [timer EXCEPT ![c] = FALSE]
  BY <1>1 DEF Timeout, Pending
<1>3. TimersMatchPending'
  <2>1. ~timer'[c] /\ \A x \in Evals \ {c} : timer'[x] = timer[x]
    BY <1>2 DEF TypeOK
  <2>2. call'[c] = "timeout" /\ \A x \in Evals \ {c} : call'[x] = call[x]
    BY <1>2 DEF TypeOK
  <2>3. QED
    BY <2>1, <2>2 DEF TimersMatchPending, Pending
<1>4. RestartWorker(-1) /\ UNCHANGED <<created, disposed>>
  BY <1>1 DEF Timeout, Pending
<1>5. QED
  BY <1>1, <1>3, <1>4, KillsKeep

LEMMA AbortKeeps ==
  ASSUME IInv, TypeOK', NEW c \in Evals, Abort(c)
  PROVE  IInv'
<1> USE DEF IInv
<1>1. CASE /\ HasEntry(c) /\ call' = [call EXCEPT ![c] = "aborted"]
           /\ timer' = Cleared({c}) /\ RestartWorker(-1)
           /\ UNCHANGED <<created, disposed, dead, table, code>>
  <2>1. call[c] = "pending" /\ ~disposed
    BY <1>1 DEF HasEntry, Pending, DisposedIsIdle
  <2>2. TimersMatchPending'
    <3>1. \A x \in Evals : timer'[x] <=> timer[x] /\ x # c
      BY <1>1 DEF Cleared
    <3>2. call'[c] = "aborted" /\ \A x \in Evals \ {c} : call'[x] = call[x]
      BY <1>1 DEF TypeOK
    <3>3. QED
      BY <3>1, <3>2 DEF TimersMatchPending, Pending
  <2>3. QED
    BY <1>1, <2>1, <2>2, KillsKeep
<1>2. CASE UNCHANGED <<sandboxVars, opVars, call, timer, threadVars>>
  <2>1. Quiet
    BY <1>2 DEF Quiet, Abort, sandboxVars, opVars, threadVars
  <2>2. QED
    BY <2>1, QuietKeeps
<1>3. QED
  BY <1>1, <1>2 DEF Abort

LEMMA DisposeKeeps ==
  ASSUME IInv, TypeOK', Dispose
  PROVE  IInv'
<1> USE DEF IInv
<1>1. /\ call' = [c \in Evals |-> IF c \in Pending THEN "disposed" ELSE call[c]]
      /\ timer' = [c \in Evals |-> timer[c] /\ c \notin Pending]
      /\ worker' = None /\ thread' = Kill(thread, "terminated")
      /\ created' = created /\ created = "ready" /\ conf' = conf
  BY DEF Dispose, SettlePending, Cleared, TerminateWorker, Terminated
<1>2. TimersMatchPending' /\ DisposedIsIdle' /\ NothingBeforeReady'
  BY <1>1 DEF TimersMatchPending, DisposedIsIdle, NothingBeforeReady, Pending
<1>3. OnlyWorkerLives' /\ Born' /\ StartupIsWatched'
  BY <1>1 DEF OnlyWorkerLives, Born, StartupIsWatched, Kill
<1>4. -Ends(Pending) \in Int
  BY EndsTyped DEF Pending
<1>5. RefWhileBusy'
  BY <1>1, <1>4, AccountKeeps DEF Dispose
<1>6. QED
  BY <1>2, <1>3, <1>5

\* A Worker that is heard and waited for is the current one.
LEMMA HeardIsCurrent ==
  ASSUME IInv, NEW g \in Gens, Listening(g), conf[g] = "waiting"
  PROVE  g = worker /\ created # "failed" /\ ~disposed
<1>1. thread[g] \in {"up", "gone"}
  BY DEF IInv, TypeOK, Born, Listening
<1>2. g = worker
  BY <1>1 DEF IInv, OnlyWorkerLives
<1>3. worker # None
  BY <1>2 DEF Gens, None
<1>4. QED
  BY <1>2, <1>3 DEF IInv, NothingBeforeReady, DisposedIsIdle

LEMMA ConfiguredKeeps ==
  ASSUME IInv, TypeOK', NEW g \in Gens, Configured(g)
  PROVE  IInv'
<1> USE DEF IInv
<1>1. g = worker /\ created # "failed" /\ ~disposed
  BY HeardIsCurrent DEF Configured
<1>2. /\ created' = "ready" /\ UNCHANGED <<disposed, worker, thread>>
      /\ rejectConfigure' = None /\ conf' = [conf EXCEPT ![g] = "ok"]
  BY DEF Configured
<1>3. OnlyWorkerLives' /\ Born' /\ StartupIsWatched'
  <2>1. conf'[g] = "ok" /\ \A h \in Gens \ {g} : conf'[h] = conf[h]
    BY <1>2 DEF TypeOK
  <2>2. OnlyWorkerLives'
    BY <1>2 DEF OnlyWorkerLives
  <2>3. Born'
    BY <1>2 DEF Born, Configured
  <2>4. StartupIsWatched'
    BY <1>1, <1>2, <2>1 DEF StartupIsWatched
  <2>5. QED
    BY <2>2, <2>3, <2>4
<1>4. DisposedIsIdle' /\ NothingBeforeReady'
  BY <1>1, <1>2 DEF DisposedIsIdle, NothingBeforeReady
<1>5. CASE Account(-1, worker) /\ UNCHANGED <<call, timer>>
  <2>1. RefWhileBusy'
    BY <1>2, <1>5, AccountKeeps
  <2>2. TimersMatchPending'
    BY <1>5 DEF TimersMatchPending, Pending
  <2>3. QED
    BY <1>3, <1>4, <2>1, <2>2
<1>6. ASSUME NEW c \in Restarting(g), PostEvaluate(c, -1) PROVE IInv'
  <2>1. c \in Evals /\ call[c] = "restarting"
    BY DEF Restarting
  <2>2. TimersMatchPending' /\ \E m \in Int : Account(m, worker)
    BY <1>6, <2>1, PostKeeps
  <2>3. RefWhileBusy'
    BY <1>2, <2>2, AccountKeeps
  <2>4. QED
    BY <1>3, <1>4, <2>2, <2>3
<1>7. QED
  BY <1>5, <1>6 DEF Configured

LEMMA OnErrorKeeps ==
  ASSUME IInv, TypeOK', OnError, UNCHANGED disposed
  PROVE  IInv'
<1> USE DEF IInv
<1>1. CASE StartupToReject # None /\ RejectConfigure(StartupToReject, Pending)
  <2>1. StartupToReject \in Gens /\ StartupToReject = rejectConfigure
    BY <1>1 DEF StartupToReject, TypeOK
  <2>2. QED
    BY <1>1, <2>1, RejectKeeps
<1>2. CASE /\ SettlePending(Pending, "failed") /\ Account(-Ends(Pending), worker)
           /\ UNCHANGED <<created, worker, conf, rejectConfigure, thread, inbox>>
  <2>1. /\ call' = [c \in Evals |-> IF c \in Pending THEN "failed" ELSE call[c]]
        /\ timer' = [c \in Evals |-> timer[c] /\ c \notin Pending]
    BY <1>2 DEF SettlePending, Cleared
  <2>2. TimersMatchPending' /\ DisposedIsIdle' /\ NothingBeforeReady'
    BY <1>2, <2>1 DEF TimersMatchPending, DisposedIsIdle, NothingBeforeReady, Pending
  <2>3. OnlyWorkerLives' /\ Born' /\ StartupIsWatched'
    BY <1>2 DEF OnlyWorkerLives, Born, StartupIsWatched
  <2>4. -Ends(Pending) \in Int
    BY EndsTyped DEF Pending
  <2>5. RefWhileBusy'
    BY <1>2, <2>4, AccountKeeps
  <2>6. QED
    BY <2>2, <2>3, <2>5
<1>3. QED
  BY <1>1, <1>2 DEF OnError

LEMMA ReceiveKeeps ==
  ASSUME IInv, TypeOK', NEW g \in Gens, HostReceives(g)
  PROVE  IInv'
<1>0. TypeOK
  BY DEF IInv
<1>1. CASE Configured(g)
  BY <1>1, ConfiguredKeeps
<1>2. CASE ConfigureFailed(g)
  <2>1. g = worker /\ RejectConfigure(g, {}) /\ UNCHANGED disposed
    BY <1>2, HeardIsCurrent DEF ConfigureFailed
  <2>2. QED
    BY <2>1, RejectKeeps DEF IInv
<1>3. CASE NobodyListens(g) \/ ModuleDefined(g) \/ CapabilityCall(g)
  BY <1>0, <1>3, QuietSteps, QuietKeeps
<1>4. CASE Result(g)
  <2>1. CASE UNCHANGED <<callVars, opVars>>
    <3>1. Quiet
      BY <1>4, <2>1 DEF Result, Quiet, callVars, opVars
    <3>2. QED
      BY <3>1, QuietKeeps
  <2>2. ASSUME NEW c, SettlePending({c}, "resolved"), Account(-1, worker), HasEntry(c)
        PROVE  IInv'
    <3>1. /\ call' = [x \in Evals |-> IF x = c THEN "resolved" ELSE call[x]]
          /\ timer' = [x \in Evals |-> timer[x] /\ x # c]
          /\ call[c] = "pending" /\ c \in Evals
      BY <2>2 DEF SettlePending, Cleared, HasEntry, Pending
    <3>2. UNCHANGED <<created, disposed, worker, conf, rejectConfigure, thread>>
      BY <1>4 DEF Result, sandboxVars
    <3>3. TimersMatchPending' /\ DisposedIsIdle' /\ NothingBeforeReady'
      BY <3>1, <3>2 DEF IInv, TimersMatchPending, DisposedIsIdle, NothingBeforeReady, Pending
    <3>4. OnlyWorkerLives' /\ Born' /\ StartupIsWatched'
      BY <3>2 DEF IInv, OnlyWorkerLives, Born, StartupIsWatched
    <3>5. RefWhileBusy'
      BY <2>2, <3>2, AccountKeeps DEF IInv
    <3>6. QED
      BY <3>3, <3>4, <3>5 DEF IInv
  <2>3. QED
    BY <1>4, <2>1, <2>2 DEF Result
<1>5. CASE WorkerError(g)
  BY <1>5, OnErrorKeeps DEF WorkerError
<1>6. CASE WorkerExit(g)
  <2>1. CASE OnError
    BY <1>6, <2>1, OnErrorKeeps DEF WorkerExit
  <2>2. CASE UNCHANGED <<created, worker, conf, rejectConfigure, opVars, callVars, thread, inbox>>
    <3>1. Quiet
      BY <1>6, <2>2 DEF WorkerExit, Quiet, sandboxVars, opVars, callVars
    <3>2. QED
      BY <3>1, QuietKeeps
  <2>3. QED
    BY <1>6, <2>1, <2>2 DEF WorkerExit
<1>7. QED
  BY <1>1, <1>2, <1>3, <1>4, <1>5, <1>6 DEF HostReceives

LEMMA NextIInv == IInv /\ [Next]_vars => IInv'
<1> SUFFICES ASSUME IInv, [Next]_vars PROVE IInv'
  OBVIOUS
<1>1. TypeOK /\ TypeOK'
  BY TypeNext DEF IInv
<1>2. CASE UNCHANGED vars
  <2>1. Quiet
    BY <1>2 DEF Quiet, vars, sandboxVars, opVars, callVars, threadVars
  <2>2. QED
    BY <1>1, <2>1, QuietKeeps
<1>3. ASSUME NEW c \in Evals, Evaluate(c) \/ Timeout(c) \/ Abort(c) PROVE IInv'
  BY <1>1, <1>3, EvaluateKeeps, TimeoutKeeps, AbortKeeps
<1>4. CASE Dispose
  BY <1>1, <1>4, DisposeKeeps
<1>5. CASE \/ \E d \in Defs : DefineModule(d)
           \/ \E k \in Caps : CapabilitySettles(k)
           \/ \E g \in Gens : WorkerRuns(g)
  BY <1>1, <1>5, QuietSteps, QuietKeeps
<1>6. ASSUME NEW g \in Gens, HostReceives(g) PROVE IInv'
  BY <1>1, <1>6, ReceiveKeeps
<1>7. QED
  BY <1>2, <1>3, <1>4, <1>5, <1>6 DEF Next

LEMMA Invariance == Spec => []IInv
BY InitIInv, NextIInv, PTL DEF Spec

-----------------------------------------------------------------------------
(* The safety properties.                                                  *)

\* Only the current Worker has a running thread, however restarts overlap.
THEOREM LifecycleNoOrphanThread == Spec => []NoOrphanThread
<1>1. IInv => NoOrphanThread
  BY DEF IInv, OnlyWorkerLives, NoOrphanThread
<1>2. QED
  BY <1>1, Invariance, PTL

\* A timer is armed exactly while its call is pending.
THEOREM LifecycleTimersMatchPending == Spec => []TimersMatchPending
<1>1. IInv => TimersMatchPending
  BY DEF IInv
<1>2. QED
  BY <1>1, Invariance, PTL

\* After dispose() there is no thread, and no timer to start one.
THEOREM LifecycleDisposedIsFinal == Spec => []DisposedIsFinal
<1>1. IInv => DisposedIsFinal
  <2> SUFFICES ASSUME IInv, disposed PROVE DisposedIsFinal
    BY DEF DisposedIsFinal
  <2>1. worker = None /\ \A c \in Evals : ~timer[c]
    BY DEF IInv, DisposedIsIdle, TimersMatchPending, Pending
  <2>2. \A g \in Gens : thread[g] # "up"
    BY <2>1 DEF IInv, OnlyWorkerLives, Gens, None
  <2>3. QED
    BY <2>1, <2>2 DEF DisposedIsFinal
<1>2. QED
  BY <1>1, Invariance, PTL

\* The startup of the current Worker is the one an error rejects.
THEOREM LifecycleStartupIsWatched == Spec => []StartupIsWatched
<1>1. IInv => StartupIsWatched
  BY DEF IInv
<1>2. QED
  BY <1>1, Invariance, PTL

\* The thread is ref'd while an operation is counted.
THEOREM LifecycleRefWhileBusy == Spec => []RefWhileBusy
<1>1. IInv => RefWhileBusy
  BY DEF IInv
<1>2. QED
  BY <1>1, Invariance, PTL

-----------------------------------------------------------------------------
(* The refinement: every step of the Sandbox is a step of the contract, or *)
(* changes nothing that its callers see.                                   *)

Refusals == {"timeout", "aborted", "failed", "disposed"}

\* What the caller of a call sees.
LEMMA StatusOf ==
  /\ statusBar = [c \in Evals |-> statusBar[c]]
  /\ \A c \in Evals : /\ call[c] = "idle" => statusBar[c] = "idle"
                      /\ call[c] \in Open => statusBar[c] = "active"
                      /\ call[c] = "resolved" => statusBar[c] = "answered"
                      /\ call[c] \in Refusals => statusBar[c] = "refused"
BY DEF statusBar, Open, Refusals

LEMMA StatusOfNext ==
  /\ statusBar' = [c \in Evals |-> statusBar'[c]]
  /\ \A c \in Evals : /\ call'[c] = "idle" => statusBar'[c] = "idle"
                      /\ call'[c] \in Open => statusBar'[c] = "active"
                      /\ call'[c] = "resolved" => statusBar'[c] = "answered"
                      /\ call'[c] \in Refusals => statusBar'[c] = "refused"
                      /\ call'[c] = call[c] => statusBar'[c] = statusBar[c]
BY DEF statusBar, Open, Refusals

LEMMA RefineInit == Init => Contract!Init
<1> SUFFICES ASSUME Init PROVE Contract!Init
  OBVIOUS
<1>1. phaseBar = "starting" /\ \A c \in Evals : call[c] = "idle"
  BY DEF Init, phaseBar
<1>2. statusBar = [c \in Evals |-> "idle"]
  BY <1>1, StatusOf
<1>3. QED
  BY <1>1, <1>2 DEF Contract!Init

\* A step that leaves the phase and what callers see alone is a stutter.
LEMMA StutterRefines ==
  ASSUME \A c \in Evals : call'[c] = call[c] \/ (call[c] \in Open /\ call'[c] \in Open),
         phaseBar' = phaseBar
  PROVE  UNCHANGED Contract!vars
<1>1. \A c \in Evals : statusBar'[c] = statusBar[c]
  BY StatusOf, StatusOfNext
<1>2. statusBar' = statusBar
  BY <1>1, StatusOf, StatusOfNext
<1>3. QED
  BY <1>2 DEF Contract!vars

\* A step that rejects open calls refuses them.
LEMMA RefuseRefines ==
  ASSUME NEW S \in SUBSET Evals,
         \A c \in S : call[c] \in Open /\ call'[c] \in Refusals,
         \A c \in Evals \ S : call'[c] = call[c],
         phaseBar' \in {phaseBar, "closed"}
  PROVE  Contract!Next
<1>1. \A c \in S : statusBar[c] = "active"
  BY StatusOf
<1>2. \A c \in Evals : statusBar'[c] = IF c \in S THEN "refused" ELSE statusBar[c]
  BY StatusOfNext
<1>3. statusBar' = [c \in Evals |-> IF c \in S THEN "refused" ELSE statusBar[c]]
  BY <1>2, StatusOfNext
<1>4. Contract!Refuse(S)
  BY <1>1, <1>3 DEF Contract!Refuse
<1>5. QED
  BY <1>4 DEF Contract!Next

\* A step that starts a call, or settles it at once.
LEMMA CallRefines ==
  ASSUME NEW c \in Evals, call[c] = "idle", phaseBar # "starting", phaseBar' = phaseBar,
         \/ phaseBar = "open" /\ call'[c] \in Open
         \/ call'[c] \in Refusals,
         \A x \in Evals \ {c} : call'[x] = call[x]
  PROVE  Contract!Next
<1>1. statusBar[c] = "idle"
  BY StatusOf
<1>2. ASSUME NEW v, statusBar'[c] = v
      PROVE  statusBar' = [statusBar EXCEPT ![c] = v]
  <2>1. \A x \in Evals : statusBar'[x] = IF x = c THEN v ELSE statusBar[x]
    BY <1>2, StatusOfNext
  <2>2. [statusBar EXCEPT ![c] = v] = [x \in Evals |-> IF x = c THEN v ELSE statusBar[x]]
    BY StatusOf
  <2>3. QED
    BY <2>1, <2>2, StatusOfNext
<1>3. \/ phaseBar = "open" /\ statusBar'[c] = "active"
      \/ statusBar'[c] = "refused"
  BY StatusOfNext
<1>4. Contract!Call(c)
  BY <1>1, <1>2, <1>3 DEF Contract!Call
<1>5. QED
  BY <1>4 DEF Contract!Next

LEMMA EvaluateRefines ==
  ASSUME IInv, NEW c \in Evals, Evaluate(c)
  PROVE  Contract!Next
<1>1. created = "ready" /\ call[c] = "idle"
  BY DEF Evaluate
<1>2. created' = created /\ disposed' = disposed
  BY DEF Evaluate, sandboxVars
<1>3. /\ phaseBar' = phaseBar /\ phaseBar # "starting"
      /\ ~disposed => phaseBar = "open"
  BY <1>1, <1>2 DEF phaseBar
<1>4. \A x \in Evals \ {c} : call'[x] = call[x]
  BY DEF Evaluate, PostEvaluate, IInv, TypeOK
<1>5. \/ ~disposed /\ call'[c] \in Open
      \/ call'[c] \in Refusals
  BY DEF Evaluate, PostEvaluate, IInv, TypeOK, Open, Refusals
<1>6. QED
  BY <1>1, <1>3, <1>4, <1>5, CallRefines

\* A rejected startup refuses the call that waits for it and the pending
\* ones; when it is createSandbox()'s own, the sandbox never opens.
LEMMA RejectRefines ==
  ASSUME IInv, NEW g, NEW S \in SUBSET Pending, RejectConfigure(g, S), UNCHANGED disposed
  PROVE  Contract!Next
<1> DEFINE T == S \cup Restarting(g)
<1>1. call' = [c \in Evals |-> IF c \in T THEN "failed" ELSE call[c]]
  BY DEF RejectConfigure, SettlePending
<1>2. T \in SUBSET Evals /\ \A c \in T : call[c] \in Open
  BY DEF Pending, Restarting, Open
<1>3. phaseBar' \in {phaseBar, "closed"}
  BY DEF RejectConfigure, phaseBar
<1>4. /\ \A c \in T : call'[c] \in Refusals
      /\ \A c \in Evals \ T : call'[c] = call[c]
  BY <1>1, <1>2 DEF Refusals
<1> HIDE DEF T
<1>5. QED
  BY <1>2, <1>3, <1>4, RefuseRefines

LEMMA OnErrorRefines ==
  ASSUME IInv, OnError, UNCHANGED disposed
  PROVE  Contract!Next
<1>1. CASE RejectConfigure(StartupToReject, Pending)
  BY <1>1, RejectRefines
<1>2. CASE SettlePending(Pending, "failed") /\ UNCHANGED created
  <2>1. Pending \in SUBSET Evals /\ \A c \in Pending : call[c] \in Open
    BY DEF Pending, Open
  <2>2. /\ \A c \in Pending : call'[c] \in Refusals
        /\ \A c \in Evals \ Pending : call'[c] = call[c]
    BY <1>2, <2>1 DEF SettlePending, Refusals
  <2>3. phaseBar' = phaseBar
    BY <1>2 DEF phaseBar
  <2>4. QED
    BY <2>1, <2>2, <2>3, RefuseRefines
<1>3. QED
  BY <1>1, <1>2 DEF OnError

\* createSandbox() resolves, or a restarted evaluate() is posted.
LEMMA ConfiguredRefines ==
  ASSUME IInv, NEW g \in Gens, Configured(g)
  PROVE  [Contract!Next]_(Contract!vars)
<1>1. created \in {"starting", "ready"} /\ ~disposed
  BY HeardIsCurrent DEF Configured, IInv, TypeOK
<1>2. created' = "ready" /\ disposed' = disposed
  BY DEF Configured
<1>3. CASE created = "starting"
  <2>1. Restarting(g) = {}
    BY <1>3 DEF IInv, NothingBeforeReady, Restarting
  <2>2. call' = call
    BY <2>1 DEF Configured
  <2>3. Contract!Ready
    BY <1>1, <1>2, <1>3, <2>2 DEF Contract!Ready, phaseBar, statusBar
  <2>4. QED
    BY <2>3 DEF Contract!Next
<1>4. CASE created = "ready"
  <2>1. phaseBar' = phaseBar
    BY <1>2, <1>4 DEF phaseBar
  <2>2. CASE call' = call
    BY <2>1, <2>2, StutterRefines
  <2>3. ASSUME NEW c \in Restarting(g), PostEvaluate(c, -1)
        PROVE  [Contract!Next]_(Contract!vars)
    <3>1. c \in Evals /\ call[c] = "restarting"
      BY DEF Restarting
    <3>2. call'[c] \in {"pending", "aborted"} /\ \A x \in Evals \ {c} : call'[x] = call[x]
      BY <2>3, <3>1, PostKeeps
    <3>3. CASE call'[c] = "pending"
      BY <2>1, <3>1, <3>2, <3>3, StutterRefines DEF Open
    <3>4. CASE call'[c] = "aborted"
      <4>1. \A x \in {c} : call[x] \in Open /\ call'[x] \in Refusals
        BY <3>1, <3>4 DEF Open, Refusals
      <4>2. {c} \in SUBSET Evals
        BY <3>1
      <4>3. QED
        BY <2>1, <3>2, <4>1, <4>2, RefuseRefines
    <3>5. QED
      BY <3>2, <3>3, <3>4
  <2>4. QED
    BY <2>2, <2>3 DEF Configured
<1>5. QED
  BY <1>1, <1>3, <1>4

\* An answer is taken only by a call that is pending, so not after dispose().
LEMMA ResultRefines ==
  ASSUME IInv, NEW g \in Gens, Result(g)
  PROVE  [Contract!Next]_(Contract!vars)
<1>1. phaseBar' = phaseBar
  BY DEF Result, sandboxVars, phaseBar
<1>2. CASE UNCHANGED <<callVars, opVars>>
  BY <1>1, <1>2, StutterRefines DEF callVars
<1>3. ASSUME NEW c, HasEntry(c), SettlePending({c}, "resolved")
      PROVE  Contract!Next
  <2>1. /\ c \in Evals /\ call[c] = "pending"
        /\ call' = [x \in Evals |-> IF x = c THEN "resolved" ELSE call[x]]
    BY <1>3 DEF HasEntry, Pending, SettlePending
  <2>2. phaseBar = "open"
    BY <2>1 DEF IInv, NothingBeforeReady, DisposedIsIdle, phaseBar
  <2>3. statusBar[c] = "active" /\ statusBar'[c] = "answered"
    BY <2>1, StatusOf, StatusOfNext DEF Open
  <2>4. \A x \in Evals : statusBar'[x] = IF x = c THEN "answered" ELSE statusBar[x]
    BY <2>1, <2>3, StatusOfNext
  <2>5. statusBar' = [statusBar EXCEPT ![c] = "answered"]
    <3>1. [statusBar EXCEPT ![c] = "answered"]
            = [x \in Evals |-> IF x = c THEN "answered" ELSE statusBar[x]]
      BY StatusOf
    <3>2. QED
      BY <2>4, <3>1, StatusOfNext
  <2>6. Contract!Answer(c)
    BY <1>1, <2>2, <2>3, <2>5 DEF Contract!Answer
  <2>7. QED
    BY <2>1, <2>6 DEF Contract!Next
<1>4. QED
  BY <1>2, <1>3 DEF Result

\* A timer, a signal or dispose() refuses the calls it settles.
LEMMA KillRefines ==
  ASSUME IInv, NEW c \in Evals, call[c] = "pending", NEW v \in Refusals,
         call' = [call EXCEPT ![c] = v], UNCHANGED <<created, disposed>>
  PROVE  Contract!Next
<1>1. {c} \in SUBSET Evals /\ phaseBar' = phaseBar
  BY DEF phaseBar
<1>2. /\ \A x \in {c} : call[x] \in Open /\ call'[x] \in Refusals
      /\ \A x \in Evals \ {c} : call'[x] = call[x]
  BY DEF IInv, TypeOK, Open
<1>3. QED
  BY <1>1, <1>2, RefuseRefines

LEMMA DisposeRefines == ASSUME IInv, Dispose PROVE Contract!Next
<1>1. call' = [c \in Evals |-> IF c \in Pending THEN "disposed" ELSE call[c]]
  BY DEF Dispose, SettlePending
<1>2. phaseBar' = "closed"
  BY DEF Dispose, phaseBar
<1>3. /\ Pending \in SUBSET Evals
      /\ \A c \in Pending : call[c] \in Open /\ call'[c] \in Refusals
      /\ \A c \in Evals \ Pending : call'[c] = call[c]
  BY <1>1 DEF Pending, Open, Refusals
<1>4. QED
  BY <1>2, <1>3, RefuseRefines

LEMMA QuietRefines ==
  ASSUME IInv, Quiet
  PROVE  UNCHANGED Contract!vars
<1>1. phaseBar' = phaseBar /\ call' = call
  BY DEF Quiet, sandboxVars, phaseBar
<1>2. QED
  BY <1>1, StutterRefines

LEMMA RefineNext == IInv /\ [Next]_vars => [Contract!Next]_(Contract!vars)
<1> SUFFICES ASSUME IInv, [Next]_vars PROVE [Contract!Next]_(Contract!vars)
  OBVIOUS
<1>0. TypeOK
  BY DEF IInv
<1>1. CASE UNCHANGED vars
  <2>1. Quiet
    BY <1>1 DEF Quiet, vars, sandboxVars, opVars, callVars, threadVars
  <2>2. QED
    BY <2>1, QuietRefines
<1>2. ASSUME NEW c \in Evals, Evaluate(c) PROVE Contract!Next
  BY <1>2, EvaluateRefines
<1>3. ASSUME NEW c \in Evals, Timeout(c) PROVE Contract!Next
  <2>1. call[c] = "pending"
    BY <1>3 DEF Timeout, IInv, TimersMatchPending, Pending
  <2>2. call' = [call EXCEPT ![c] = "timeout"] /\ UNCHANGED <<created, disposed>>
    BY <1>3, <2>1 DEF Timeout, Pending
  <2>3. "timeout" \in Refusals
    BY DEF Refusals
  <2>4. QED
    BY <2>1, <2>2, <2>3, KillRefines
<1>4. ASSUME NEW c \in Evals, Abort(c) PROVE [Contract!Next]_(Contract!vars)
  <2>1. CASE /\ HasEntry(c) /\ call' = [call EXCEPT ![c] = "aborted"]
             /\ UNCHANGED <<created, disposed>>
    <3>1. call[c] = "pending" /\ "aborted" \in Refusals
      BY <2>1 DEF HasEntry, Pending, Refusals
    <3>2. QED
      BY <2>1, <3>1, KillRefines
  <2>2. CASE UNCHANGED <<sandboxVars, opVars, call, timer, threadVars>>
    <3>1. Quiet
      BY <1>4, <2>2 DEF Quiet, Abort, sandboxVars, opVars, threadVars
    <3>2. QED
      BY <3>1, QuietRefines
  <2>3. QED
    BY <1>4, <2>1, <2>2 DEF Abort
<1>5. CASE Dispose
  BY <1>5, DisposeRefines
<1>6. CASE \/ \E d \in Defs : DefineModule(d)
           \/ \E k \in Caps : CapabilitySettles(k)
           \/ \E g \in Gens : WorkerRuns(g)
  BY <1>0, <1>6, QuietSteps, QuietRefines
<1>7. ASSUME NEW g \in Gens, HostReceives(g) PROVE [Contract!Next]_(Contract!vars)
  <2>1. CASE Configured(g)
    BY <2>1, ConfiguredRefines
  <2>2. CASE ConfigureFailed(g)
    <3>1. RejectConfigure(g, {}) /\ UNCHANGED disposed
      BY <2>2 DEF ConfigureFailed
    <3>2. QED
      BY <3>1, RejectRefines
  <2>3. CASE NobodyListens(g) \/ ModuleDefined(g) \/ CapabilityCall(g)
    BY <1>0, <2>3, QuietSteps, QuietRefines
  <2>4. CASE Result(g)
    BY <2>4, ResultRefines
  <2>5. CASE WorkerError(g)
    BY <2>5, OnErrorRefines DEF WorkerError
  <2>6. CASE WorkerExit(g)
    <3>1. CASE OnError
      BY <2>6, <3>1, OnErrorRefines DEF WorkerExit
    <3>2. CASE UNCHANGED <<created, worker, conf, rejectConfigure, opVars, callVars, thread, inbox>>
      <4>1. Quiet
        BY <2>6, <3>2 DEF WorkerExit, Quiet, sandboxVars, opVars, callVars
      <4>2. QED
        BY <4>1, QuietRefines
    <3>3. QED
      BY <2>6, <3>1, <3>2 DEF WorkerExit
  <2>7. QED
    BY <1>7, <2>1, <2>2, <2>3, <2>4, <2>5, <2>6 DEF HostReceives
<1>8. QED
  BY <1>1, <1>2, <1>3, <1>4, <1>5, <1>6, <1>7 DEF Next

\* The Sandbox implements its contract: each evaluate() call is settled at
\* most once, and never answered once the sandbox is closed.
THEOREM LifecycleImplementsContract == Spec => ImplementsContract
<1>1. Init => Contract!Init
  BY RefineInit
<1>2. IInv /\ [Next]_vars => [Contract!Next]_(Contract!vars)
  BY RefineNext
<1>3. QED
  BY <1>1, <1>2, Invariance, PTL DEF Spec, ImplementsContract, Contract!Spec
=============================================================================
