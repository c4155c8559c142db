-------------------------- MODULE SandboxLifecycle --------------------------
(***************************************************************************)
(* The host side of createSandbox() (src/src/sandbox.mjs): one Sandbox     *)
(* object, the Workers it creates one after the other, and the evaluate(), *)
(* defineModule() and dispose() calls that share them; with the part of    *)
(* the Worker's runtime (worker-source.mjs) and of the Node adapter        *)
(* (node-worker.mjs) that answers those calls.                             *)
(*                                                                         *)
(* Granularity: one action is one task of the host's event loop together   *)
(* with the microtasks it runs (the continuations of the promises it       *)
(* settles), or one task of a Worker's event loop.  Workers are numbered   *)
(* in creation order; both directions of postMessage() are FIFO.           *)
(***************************************************************************)
EXTENDS Integers, Sequences, FiniteSets

CONSTANTS
  Evals,      \* evaluate() calls the host makes
  Defs,       \* defineModule() calls the host makes, all for one module name
  Caps,       \* host.call() calls sandboxed code makes
  Timed,      \* the evaluate() calls with a timeoutMs > 0
  Abortable,  \* the evaluate() calls given an AbortSignal
  MaxGen,     \* bound: Workers one sandbox creates
  CanThrow,   \* may a Worker's constructor throw (a CSP, a detached container)
  Unref,      \* the `unref` option
  Node        \* TRUE: node-worker.mjs threads; FALSE: browser Workers

ASSUME LifecycleAssumption ==
  /\ IsFiniteSet(Evals) /\ IsFiniteSet(Defs) /\ IsFiniteSet(Caps)
  /\ Timed \subseteq Evals /\ Abortable \subseteq Evals
  /\ MaxGen \in Nat \ {0}
  /\ CanThrow \in BOOLEAN /\ Unref \in BOOLEAN /\ Node \in BOOLEAN

Gens == 1 .. MaxGen
None == 0           \* `null` where a Worker is expected

VARIABLES
  created,          \* createSandbox(): "starting", "ready" or "failed"
  disposed,
  worker,           \* the current Worker, or None
  gen,              \* Workers created so far
  conf,             \* conf[g]: the promise of the configureWorker() for g
  rejectConfigure,  \* the Worker whose configure promise it rejects, or None
  activeOps, refd,  \* `unref` bookkeeping: operations, and is the thread ref'd
  call,             \* call[c]: where the evaluate() call c is
  on,               \* on[c]: the Worker c waits for or was posted to
  timer,            \* timer[c]: c's setTimeout is armed
  aborted,          \* calls whose AbortSignal has fired
  want,             \* want[c]: the module's version when c was posted
  virtualModules,   \* the module's latest version (one per defineModule)
  def, defOn,       \* defineModule() calls, and the Worker each was posted to
  cap,              \* cap[k]: where the capability call k is
  capFrom, capTo,   \* the Worker that made k; the one the host bound k to
  thread,           \* thread[g]: is Worker g's thread running
  dead,             \* dead[g]: the adapter's `dead` flag
  inbox, outbox,    \* messages (and events) to and from Worker g
  table,            \* table[g]: the module's version in Worker g
  code              \* code[c]: c's code in its Worker

sandboxVars == <<created, disposed, worker, gen, conf, rejectConfigure>>
opVars      == <<activeOps, refd>>
callVars    == <<call, on, timer, aborted, want>>
defVars     == <<virtualModules, def, defOn>>
capVars     == <<cap, capFrom, capTo>>
threadVars  == <<thread, dead, inbox, outbox, table, code>>
vars == <<sandboxVars, opVars, callVars, defVars, capVars, threadVars>>

Msg(type, arg) == [type |-> type, arg |-> arg]

Open    == {"restarting", "pending"}
Settled == {"resolved", "timeout", "aborted", "failed", "disposed"}

Init ==
  /\ created = "starting" /\ disposed = FALSE
  /\ worker = 1 /\ gen = 1
  /\ conf = [g \in Gens |-> IF g = 1 THEN "waiting" ELSE "none"]
  /\ rejectConfigure = 1
  /\ activeOps = 1 /\ refd = TRUE
  /\ call = [c \in Evals |-> "idle"]
  /\ on = [c \in Evals |-> None]
  /\ timer = [c \in Evals |-> FALSE]
  /\ aborted = {}
  /\ want = [c \in Evals |-> 0]
  /\ virtualModules = 0
  /\ def = [d \in Defs |-> "idle"] /\ defOn = [d \in Defs |-> None]
  /\ cap = [k \in Caps |-> "idle"]
  /\ capFrom = [k \in Caps |-> None] /\ capTo = [k \in Caps |-> None]
  /\ thread = [g \in Gens |-> IF g = 1 THEN "up" ELSE "none"]
  /\ dead = [g \in Gens |-> FALSE]
  /\ inbox = [g \in Gens |-> IF g = 1 THEN <<Msg("configure", 0)>> ELSE <<>>]
  /\ outbox = [g \in Gens |-> <<>>]
  /\ table = [g \in Gens |-> 0]
  /\ code = [c \in Evals |-> "none"]

-----------------------------------------------------------------------------
(* What several handlers do.                                               *)

Pending == {c \in Evals : call[c] = "pending"}

\* The evaluate() call suspended in `await restartWorker()` on Worker g.
Restarting(g) == {c \in Evals : call[c] = "restarting" /\ on[c] = g}

\* Mutant of Account: beginOp() counts but does not ref() the thread.
AccountWithoutRef(n, w) ==
  /\ activeOps' = activeOps + n
  /\ refd' = (w # None /\ ~(Unref /\ activeOps + n = 0) /\ (refd \/ w # worker))

\* beginOp() and endOp(): n operations begin (or end, n < 0) in this step,
\* after which w is the current Worker.  A dead thread's ref() and unref() do
\* nothing; `refd` says what was last asked for.
Account(n, w) ==
  /\ activeOps' = activeOps + n
  /\ refd' = /\ w # None
             /\ ~(Unref /\ activeOps + n = 0)
             /\ refd \/ n > 0 \/ w # worker

\* worker.postMessage(): lost when the thread is gone.
Send(box, g, m) ==
  IF g \in Gens /\ thread[g] = "up" THEN [box EXCEPT ![g] = Append(@, m)] ELSE box

\* f after terminateWorker(), which leaves v at the current Worker.
Kill(f, v) == [g \in Gens |-> IF g = worker THEN v ELSE f[g]]

\* A browser discards what a terminated Worker had posted; a Node thread's
\* port is drained to the adapter's handlers, which terminate() leaves set.
KilledOutbox == IF Node THEN outbox ELSE Kill(outbox, <<>>)

\* worker.terminate().  Mutant: the old Worker is forgotten, not terminated.
NotTerminated == thread
Terminated == Kill(thread, "terminated")

\* terminateWorker() with no successor.
TerminateWorker ==
  /\ worker' = None
  /\ thread' = Terminated
  /\ inbox' = Kill(inbox, <<>>)
  /\ outbox' = KilledOutbox

\* The virtual modules configureWorker() sends.  Mutant: a restart sends none.
NoModules == 0
ModulesToSend == virtualModules

\* Whose promise rejectConfigure rejects once Worker gen + 1 is created.
\* Mutants: the slot keeps the replaced Worker's; or the replaced restart is
\* rejected, and its `finally` clears the slot the new one has just set.
OldRejecter == IF rejectConfigure = None THEN gen + 1 ELSE rejectConfigure
ClearedRejecter == IF rejectConfigure = None THEN gen + 1 ELSE None
NewRejecter == gen + 1

\* terminateWorker(); createWorker(); configureWorker() up to its await.
ReplaceWorker ==
  /\ gen < MaxGen
  /\ gen' = gen + 1
  /\ worker' = gen + 1
  /\ thread' = [Terminated EXCEPT ![gen + 1] = "up"]
  /\ inbox' = [Kill(inbox, <<>>) EXCEPT
                 ![gen + 1] = <<Msg("configure", ModulesToSend)>>]
  /\ outbox' = KilledOutbox
  /\ conf' = [conf EXCEPT ![gen + 1] = "waiting"]
  /\ rejectConfigure' = NewRejecter

\* restartWorker() for a caller whose own operations change by n.  It adds
\* one, held until the configure promise settles; when the factory throws
\* there is no Worker, no promise and no operation.
RestartWorker(n) ==
  \/ ReplaceWorker /\ Account(n + 1, gen + 1)
  \/ /\ CanThrow
     /\ TerminateWorker /\ Account(n, None)
     /\ UNCHANGED <<gen, conf, rejectConfigure>>

\* Does evaluate() arm a timer?  Mutant: not for a call that has a signal.
TimedWithoutSignal(c) == c \in Timed \ Abortable
HasTimer(c) == c \in Timed

\* evaluate() from beginOp() to worker.postMessage(), in a step that also
\* changes the number of operations by n.
PostEvaluate(c, n) ==
  \/ /\ c \in aborted
     /\ call' = [call EXCEPT ![c] = "aborted"]
     /\ Account(n, worker)
     /\ UNCHANGED <<on, timer, want, inbox>>
  \/ /\ c \notin aborted
     /\ call' = [call EXCEPT ![c] = "pending"]
     /\ on' = [on EXCEPT ![c] = worker]
     /\ timer' = [timer EXCEPT ![c] = HasTimer(c)]
     /\ want' = [want EXCEPT ![c] = virtualModules]
     /\ inbox' = Send(inbox, worker, Msg("evaluate", c))
     /\ Account(n + 1, worker)

\* clearTimeout() for the calls in S.  Mutant: it is left out.
Uncleared(S) == timer
Cleared(S) == [c \in Evals |-> timer[c] /\ c \notin S]

\* The `pending` entries in S are deleted, their timers cleared and their
\* promises settled.
SettlePending(S, outcome) ==
  /\ call' = [c \in Evals |-> IF c \in S THEN outcome ELSE call[c]]
  /\ timer' = Cleared(S)
  /\ UNCHANGED <<on, aborted, want>>

\* The endOp()s of rejected calls.  Mutant: endOp() in a then(), not a finally().
NoEnds(S) == 0
Ends(S) == Cardinality(S)

\* pending.get(id) finds an entry.  Mutant: nobody looks.
AnyEntry(c) == TRUE
HasEntry(c) == c \in Pending

-----------------------------------------------------------------------------
(* Calls of the host.                                                      *)

Usable == IF worker = None THEN FALSE ELSE ~dead[worker]

Evaluate(c) ==
  /\ created = "ready" /\ call[c] = "idle"
  /\ \/ /\ disposed
        /\ call' = [call EXCEPT ![c] = "disposed"]
        /\ UNCHANGED <<sandboxVars, opVars, on, timer, want, threadVars>>
     \/ /\ ~disposed /\ Usable
        /\ PostEvaluate(c, 0)
        /\ UNCHANGED <<sandboxVars, thread, dead, outbox, table, code>>
     \/ /\ ~disposed /\ ~Usable
        /\ RestartWorker(0)
        /\ call' = [call EXCEPT ![c] = IF worker' = None THEN "failed" ELSE "restarting"]
        /\ on' = [on EXCEPT ![c] = worker']
        /\ UNCHANGED <<created, disposed, timer, want, dead, table, code>>
  /\ UNCHANGED <<aborted, defVars, capVars>>

\* The setTimeout callback of evaluate().  It looks at nothing: only the
\* clearTimeout()s of the other handlers keep it from firing late.
Timeout(c) ==
  /\ timer[c]
  /\ timer' = [timer EXCEPT ![c] = FALSE]
  /\ call' = [call EXCEPT ![c] = IF c \in Pending THEN "timeout" ELSE @]
  /\ RestartWorker(IF c \in Pending THEN -1 ELSE 0)
  /\ UNCHANGED <<created, disposed, on, aborted, want, defVars, capVars, dead, table, code>>

\* The AbortSignal of c fires.
Abort(c) ==
  /\ c \in Abortable \ aborted
  /\ aborted' = aborted \cup {c}
  /\ \/ /\ HasEntry(c)
        /\ call' = [call EXCEPT ![c] = "aborted"]
        /\ timer' = Cleared({c})
        /\ RestartWorker(-1)
        /\ UNCHANGED <<created, disposed, dead, table, code>>
     \/ /\ ~HasEntry(c)
        /\ UNCHANGED <<sandboxVars, opVars, call, timer, threadVars>>
  /\ UNCHANGED <<on, want, defVars, capVars>>

\* defineModule() posts to the current Worker, dead or not, and waits.
DefineModule(d) ==
  /\ created = "ready" /\ ~disposed /\ def[d] = "idle"
  /\ virtualModules' = virtualModules + 1
  /\ defOn' = [defOn EXCEPT ![d] = worker]
  /\ \/ /\ worker # None
        /\ def' = [def EXCEPT ![d] = "waiting"]
        /\ inbox' = Send(inbox, worker, Msg("defineModule", virtualModules'))
        /\ Account(1, worker)
     \/ /\ worker = None
        /\ def' = [def EXCEPT ![d] = "done"]
        /\ UNCHANGED <<inbox, opVars>>
  /\ UNCHANGED <<sandboxVars, callVars, capVars, thread, dead, outbox, table, code>>

Dispose ==
  /\ created = "ready" /\ ~disposed
  /\ disposed' = TRUE
  /\ SettlePending(Pending, "disposed")
  /\ TerminateWorker
  /\ Account(-Ends(Pending), None)
  /\ UNCHANGED <<created, gen, conf, rejectConfigure, defVars, capVars, dead, table, code>>

-----------------------------------------------------------------------------
(* What the host receives from Worker g.                                   *)

Arrives(g, types) ==
  /\ outbox[g] # <<>>
  /\ Head(outbox[g]).type \in types
Taken(g) == [outbox EXCEPT ![g] = Tail(@)]

\* The same when the handler may be the one that gives up createSandbox().
TakenOrKilled(g) ==
  IF created = "starting" /\ ~Node THEN Kill(outbox, <<>>) ELSE Taken(g)

\* terminate() removes the listeners that configureWorker() and
\* defineModule() added, but not the handlers createWorker() set.
Listening(g) == thread[g] # "terminated"

\* The configure promise of g resolves; whoever awaited it goes on.
Configured(g) ==
  /\ Arrives(g, {"configured"})
  /\ Listening(g) /\ conf[g] = "waiting"
  /\ outbox' = Taken(g)
  /\ conf' = [conf EXCEPT ![g] = "ok"]
  /\ rejectConfigure' = None
  /\ created' = "ready"
  /\ \/ /\ Restarting(g) = {}
        /\ Account(-1, worker)
        /\ UNCHANGED <<call, on, timer, want, inbox>>
     \/ \E c \in Restarting(g) : PostEvaluate(c, -1)
  /\ UNCHANGED <<disposed, worker, gen, aborted, defVars, capVars, thread, dead, table, code>>

\* The configure promise of g rejects and the pending calls in S do too.
\* A restart passes the error to the evaluate() call that awaits it, if
\* any; createSandbox() terminates the Worker.
RejectConfigure(g, S) ==
  /\ conf' = [conf EXCEPT ![g] = "failed"]
  /\ rejectConfigure' = None
  /\ SettlePending(S \cup Restarting(g), "failed")
  /\ \/ /\ created = "starting"
        /\ created' = "failed"
        /\ worker' = None
        /\ thread' = Kill(thread, "terminated")
        /\ inbox' = Kill(inbox, <<>>)
        /\ Account(-1 - Ends(S), None)
     \/ /\ created # "starting"
        /\ Account(-1 - Ends(S), worker)
        /\ UNCHANGED <<created, worker, thread, inbox>>

ConfigureFailed(g) ==
  /\ Arrives(g, {"configureFailed"})
  /\ Listening(g) /\ conf[g] = "waiting"
  /\ RejectConfigure(g, {})
  /\ outbox' = TakenOrKilled(g)
  /\ UNCHANGED <<disposed, gen, defVars, capVars, dead, table, code>>

\* An answer that comes for listeners that are gone: nothing happens.
NobodyListens(g) ==
  /\ \/ /\ Arrives(g, {"configured", "configureFailed"})
        /\ ~(Listening(g) /\ conf[g] = "waiting")
     \/ /\ Arrives(g, {"moduleDefined"})
        /\ ~Listening(g)
  /\ outbox' = Taken(g)
  /\ UNCHANGED <<sandboxVars, opVars, callVars, defVars, capVars,
                 thread, dead, inbox, table, code>>

\* Every defineModule() of this name waiting on g resolves.
ModuleDefined(g) ==
  /\ Arrives(g, {"moduleDefined"})
  /\ Listening(g)
  /\ LET D == {d \in Defs : def[d] = "waiting" /\ defOn[d] = g}
     IN  /\ def' = [d \in Defs |-> IF d \in D THEN "done" ELSE def[d]]
         /\ Account(-Cardinality(D), worker)
  /\ outbox' = Taken(g)
  /\ UNCHANGED <<sandboxVars, callVars, virtualModules, defOn, capVars,
                 thread, dead, inbox, table, code>>

\* `result`: only a call still in `pending` takes it.
Result(g) ==
  /\ Arrives(g, {"result"})
  /\ LET c == Head(outbox[g]).arg
     IN  \/ HasEntry(c) /\ SettlePending({c}, "resolved") /\ Account(-1, worker)
         \/ ~HasEntry(c) /\ UNCHANGED <<callVars, opVars>>
  /\ outbox' = Taken(g)
  /\ UNCHANGED <<sandboxVars, defVars, capVars, thread, dead, inbox, table, code>>

\* handleCapabilityCall() binds the call to whatever Worker is current.  An
\* unknown name is answered at once, a gated capability when it settles:
\* both are the CapabilitySettles step.
CapabilityCall(g) ==
  /\ Arrives(g, {"capabilityCall"})
  /\ LET k == Head(outbox[g]).arg
     IN  /\ cap' = [cap EXCEPT ![k] = IF worker = None THEN "dropped" ELSE "running"]
         /\ capTo' = [capTo EXCEPT ![k] = worker]
  /\ outbox' = Taken(g)
  /\ UNCHANGED <<sandboxVars, opVars, callVars, defVars, capFrom,
                 thread, dead, inbox, table, code>>

\* reply()'s check that the caller is still there.  Mutant: any Worker will do.
SomeWorker(k) == worker # None
CallerIsCurrent(k) == capTo[k] = worker

\* The host function settles: the answer goes to the Worker it was bound to,
\* or nowhere when that one is no longer current.
CapabilitySettles(k) ==
  /\ cap[k] = "running"
  /\ \/ /\ CallerIsCurrent(k)
        /\ cap' = [cap EXCEPT ![k] = "replied"]
        /\ inbox' = Send(inbox, worker, Msg("capabilityResult", k))
     \/ /\ ~CallerIsCurrent(k)
        /\ cap' = [cap EXCEPT ![k] = "dropped"]
        /\ UNCHANGED inbox
  /\ UNCHANGED <<sandboxVars, opVars, callVars, defVars, capFrom, capTo,
                 thread, dead, outbox, table, code>>

\* The startup an error rejects.  Mutant: an error rejects pending calls only.
NoStartup == None
StartupToReject == rejectConfigure

\* worker.onerror: a startup in progress and every pending call are rejected.
OnError ==
  \/ /\ StartupToReject # None
     /\ RejectConfigure(StartupToReject, Pending)
  \/ /\ StartupToReject = None
     /\ SettlePending(Pending, "failed")
     /\ Account(-Ends(Pending), worker)
     /\ UNCHANGED <<created, worker, conf, rejectConfigure, thread, inbox>>

WorkerError(g) ==
  /\ Arrives(g, {"error"})
  /\ OnError
  /\ outbox' = TakenOrKilled(g)
  /\ UNCHANGED <<disposed, gen, defVars, capVars, dead, table, code>>

\* The Node adapter's 'exit' handler: an exit with code 0 only sets `dead`.
WorkerExit(g) ==
  /\ Arrives(g, {"exit0", "exit1"})
  /\ dead' = [dead EXCEPT ![g] = TRUE]
  /\ \/ /\ Listening(g) /\ Head(outbox[g]).type = "exit1"
        /\ OnError
     \/ /\ ~(Listening(g) /\ Head(outbox[g]).type = "exit1")
        /\ UNCHANGED <<created, worker, conf, rejectConfigure, opVars, callVars, thread, inbox>>
  /\ outbox' = TakenOrKilled(g)
  /\ UNCHANGED <<disposed, gen, defVars, capVars, table, code>>

HostReceives(g) ==
  \/ Configured(g) \/ ConfigureFailed(g) \/ NobodyListens(g) \/ ModuleDefined(g)
  \/ Result(g) \/ CapabilityCall(g) \/ WorkerError(g) \/ WorkerExit(g)

-----------------------------------------------------------------------------
(* What Worker g does: its message handler, and the code it runs.          *)

Takes(g, type) ==
  /\ thread[g] = "up"
  /\ inbox[g] # <<>>
  /\ Head(inbox[g]).type = type
  /\ inbox' = [inbox EXCEPT ![g] = Tail(@)]

Posts(g, msgs) == outbox' = [outbox EXCEPT ![g] = @ \o msgs]

\* Sandboxed code has run in g, so it may have left timers behind.
Started(g) == \E c \in Evals : on[c] = g /\ code[c] # "none"

\* The configure handler; installing the bridges or loading the engine may fail.
RunConfigure(g) ==
  /\ Takes(g, "configure")
  /\ table' = [table EXCEPT ![g] = Head(inbox[g]).arg]
  /\ \E answer \in {"configured", "configureFailed"} : Posts(g, <<Msg(answer, None)>>)
  /\ UNCHANGED <<sandboxVars, opVars, callVars, defVars, capVars, thread, dead, code>>

RunDefineModule(g) ==
  /\ Takes(g, "defineModule")
  /\ table' = [table EXCEPT ![g] = Head(inbox[g]).arg]
  /\ Posts(g, <<Msg("moduleDefined", None)>>)
  /\ UNCHANGED <<sandboxVars, opVars, callVars, defVars, capVars, thread, dead, code>>

RunEvaluate(g) ==
  /\ Takes(g, "evaluate")
  /\ code' = [code EXCEPT ![Head(inbox[g]).arg] = "running"]
  /\ UNCHANGED <<sandboxVars, opVars, callVars, defVars, capVars, thread, dead, outbox, table>>

\* `capabilityResult`: the runtime knows only the ids it made itself.
RunCapabilityResult(g) ==
  /\ Takes(g, "capabilityResult")
  /\ LET k == Head(inbox[g]).arg
     IN  cap' = [cap EXCEPT ![k] = IF capFrom[k] = g THEN "answered" ELSE "dropped"]
  /\ UNCHANGED <<sandboxVars, opVars, callVars, defVars, capFrom, capTo,
                 thread, dead, outbox, table, code>>

\* The evaluated code returns or throws.
CodeEnds(g, c) ==
  /\ thread[g] = "up" /\ on[c] = g /\ code[c] = "running"
  /\ code' = [code EXCEPT ![c] = "finished"]
  /\ Posts(g, <<Msg("result", c)>>)
  /\ UNCHANGED <<sandboxVars, opVars, callVars, defVars, capVars, thread, dead, inbox, table>>

CodeCallsHost(g, k) ==
  /\ thread[g] = "up" /\ Started(g) /\ cap[k] = "idle"
  /\ cap' = [cap EXCEPT ![k] = "sent"]
  /\ capFrom' = [capFrom EXCEPT ![k] = g]
  /\ Posts(g, <<Msg("capabilityCall", k)>>)
  /\ UNCHANGED <<sandboxVars, opVars, callVars, defVars, capTo, thread, dead, inbox, table, code>>

\* An uncaught error.  A Node thread reports it and exits with code 1.  A
\* browser Worker reports it and lives on, unless its script failed before
\* it could handle a message.  Bound: one report in flight per Worker.
Crashes(g) ==
  /\ thread[g] = "up"
  /\ \A i \in DOMAIN outbox[g] : outbox[g][i].type # "error"
  /\ \/ /\ Node \/ (inbox[g] # <<>> /\ Head(inbox[g]).type = "configure")
        /\ thread' = [thread EXCEPT ![g] = "gone"]
        /\ inbox' = [inbox EXCEPT ![g] = <<>>]
        /\ Posts(g, <<Msg("error", None)>> \o IF Node THEN <<Msg("exit1", None)>> ELSE <<>>)
     \/ /\ ~Node /\ Started(g)
        /\ Posts(g, <<Msg("error", None)>>)
        /\ UNCHANGED <<thread, inbox>>
  /\ UNCHANGED <<sandboxVars, opVars, callVars, defVars, capVars, dead, table, code>>

\* Sandboxed code ends its own Worker: process.exit(), or close(), which a
\* browser reports to nobody.
ClosesItself(g) ==
  /\ thread[g] = "up" /\ Started(g)
  /\ thread' = [thread EXCEPT ![g] = "gone"]
  /\ inbox' = [inbox EXCEPT ![g] = <<>>]
  /\ IF Node
     THEN \E exit \in {"exit0", "exit1"} : Posts(g, <<Msg(exit, None)>>)
     ELSE UNCHANGED outbox
  /\ UNCHANGED <<sandboxVars, opVars, callVars, defVars, capVars, dead, table, code>>

WorkerRuns(g) ==
  \/ RunConfigure(g) \/ RunDefineModule(g) \/ RunEvaluate(g) \/ RunCapabilityResult(g)
  \/ Crashes(g) \/ ClosesItself(g)
  \/ \E c \in Evals : CodeEnds(g, c)
  \/ \E k \in Caps : CodeCallsHost(g, k)

Next ==
  \/ \E c \in Evals : Evaluate(c) \/ Timeout(c) \/ Abort(c)
  \/ \E d \in Defs : DefineModule(d)
  \/ Dispose
  \/ \E k \in Caps : CapabilitySettles(k)
  \/ \E g \in Gens : HostReceives(g) \/ WorkerRuns(g)

Spec == Init /\ [][Next]_vars

\* The host's event loop delivers what has arrived and fires what is due; a
\* new thread reaches its first message.  Nothing is assumed of sandboxed
\* code, of capabilities, or of the host's own calls.
Fairness ==
  /\ \A g \in Gens : WF_vars(HostReceives(g)) /\ WF_vars(RunConfigure(g))
  /\ \A c \in Evals : WF_vars(Timeout(c))

FairSpec == Spec /\ Fairness

-----------------------------------------------------------------------------
(* Properties.                                                             *)

HostMsg ==
  [type : {"configure", "defineModule"}, arg : Nat]
    \cup [type : {"evaluate"}, arg : Evals]
    \cup [type : {"capabilityResult"}, arg : Caps]

WorkerMsg ==
  [type : {"configured", "configureFailed", "moduleDefined", "error", "exit0", "exit1"},
   arg : {None}]
    \cup [type : {"result"}, arg : Evals]
    \cup [type : {"capabilityCall"}, arg : Caps]

\* The type invariant of the sandbox, its calls and its Workers.
TypeOK ==
  /\ created \in {"starting", "ready", "failed"} /\ disposed \in BOOLEAN
  /\ gen \in Gens /\ worker \in {None, gen}
  /\ conf \in [Gens -> {"none", "waiting", "ok", "failed"}]
  /\ rejectConfigure \in {None, gen}
  /\ activeOps \in Int /\ refd \in BOOLEAN
  /\ call \in [Evals -> {"idle"} \cup Open \cup Settled]
  /\ on \in [Evals -> Gens \cup {None}]
  /\ timer \in [Evals -> BOOLEAN]
  /\ aborted \subseteq Abortable
  /\ want \in [Evals -> Nat]
  /\ virtualModules \in Nat
  /\ def \in [Defs -> {"idle", "waiting", "done"}]
  /\ defOn \in [Defs -> Gens \cup {None}]
  /\ cap \in [Caps -> {"idle", "sent", "running", "replied", "answered", "dropped"}]
  /\ capFrom \in [Caps -> Gens \cup {None}] /\ capTo \in [Caps -> Gens \cup {None}]
  /\ thread \in [Gens -> {"none", "up", "gone", "terminated"}]
  /\ dead \in [Gens -> BOOLEAN]
  /\ inbox \in [Gens -> Seq(HostMsg)] /\ outbox \in [Gens -> Seq(WorkerMsg)]
  /\ table \in [Gens -> Nat]
  /\ code \in [Evals -> {"none", "running", "finished"}]

\* However restarts by timeouts, aborts and evaluate() overlap, no replaced
\* Worker keeps a running thread: only the current one has one.
NoOrphanThread ==
  \A g \in Gens : thread[g] = "up" => g = worker

\* A timer is armed exactly while its call is pending: a late timer would
\* kill a Worker that runs other calls.
TimersMatchPending ==
  \A c \in Evals : timer[c] <=> c \in Pending \cap Timed

\* dispose() is final: whatever timers, signals and restarts were in
\* progress, no thread runs and no timer is left to start one.
DisposedIsFinal ==
  disposed => /\ worker = None
              /\ \A g \in Gens : thread[g] # "up"
              /\ \A c \in Evals : ~timer[c]

\* A Worker that fails while it starts up rejects the configureWorker() that
\* waits for it, also after an overlapping restart replaced another one.
StartupIsWatched ==
  worker # None /\ conf[worker] = "waiting" => rejectConfigure = worker

\* `unref` never lets the process exit under an operation in flight: the
\* current thread is ref'd while any is counted.
RefWhileBusy ==
  activeOps > 0 /\ worker # None => refd

\* Every beginOp() is matched by one endOp() once its operation settles, on
\* every path; what is counted is what has not settled.
OpsAccounted ==
  activeOps = Cardinality(Pending)
                + Cardinality({g \in Gens : conf[g] = "waiting"})
                + Cardinality({d \in Defs : def[d] = "waiting"})

\* Evaluated code sees the virtual modules defined before its call, in
\* whichever Worker, fresh or not, it ends up running.
ModulesAreFresh ==
  \A c \in Evals : code[c] = "running" => table[on[c]] >= want[c]

\* A capability result reaches only the Worker that made the call.
ReplyGoesToCaller ==
  \A g \in Gens : \A i \in DOMAIN inbox[g] :
    inbox[g][i].type = "capabilityResult" => capFrom[inbox[g][i].arg] = g

\* A posted evaluate() with a timeout settles, whatever its code, its Worker
\* and the other calls do.
PostedSettles ==
  \A c \in Timed : c \in Pending ~> call[c] \in Settled

\* A Worker that is starting up is configured, reported as failed or
\* replaced: restartWorker() does not wait on a live thread for ever.
StartupSettles ==
  \A g \in Gens : conf[g] = "waiting" ~> conf[g] # "waiting" \/ thread[g] = "terminated"
-----------------------------------------------------------------------------
(* The contract this implements.                                           *)

phaseBar ==
  IF created = "starting" THEN "starting"
  ELSE IF created = "failed" \/ disposed THEN "closed" ELSE "open"

statusBar ==
  [c \in Evals |->
     CASE call[c] = "idle" -> "idle"
       [] call[c] \in Open -> "active"
       [] call[c] = "resolved" -> "answered"
       [] OTHER -> "refused"]

Contract == INSTANCE EvalContract WITH phase <- phaseBar, status <- statusBar

\* Every evaluate() call is settled at most once, and never answered after
\* dispose(), however late results, timers and Worker errors arrive.
ImplementsContract == Contract!Spec

-----------------------------------------------------------------------------
(* What the documentation says, and the code does not do.                  *)

\* README.md:582, sandbox.mjs:933: dispose() "rejects all pending
\* evaluations".  An evaluate() that was still waiting for its fresh Worker
\* is in no table dispose() looks at, and its wait never ends.
DisposeSettlesAll ==
  disposed => \A c \in Evals : call[c] \notin Open

\* README.md:141: with `unref` "the thread is unref'd between calls".  When a
\* restart terminates a Worker whose restart is still in progress, the first
\* one's operation never ends, and no later endOp() reaches zero.
IdleIsUnrefd ==
  Unref /\ worker # None /\ conf[worker] # "waiting"
        /\ (\A c \in Evals : call[c] \notin Open)
        /\ (\A d \in Defs : def[d] # "waiting")
    => ~refd

\* sandbox.mjs:743: a capability call is bound "to the worker that made the
\* call".  One that a terminated Node thread had posted arrives when a
\* replacement is current: it runs, bound to a Worker that never asked.
BoundToCaller ==
  \A k \in Caps : cap[k] = "running" => capTo[k] = capFrom[k]
=============================================================================
