---------------------------- MODULE WasmRuntime ----------------------------
(***************************************************************************)
(* The Worker of `mode: 'wasm'` (src/src/wasm-worker-source.mjs): its      *)
(* message handler, the QuickJS engine all evaluations share, and the life *)
(* of one evaluation: a guest context, a deadline timer, and host calls    *)
(* whose answers come as messages and pump the guest's jobs.               *)
(*                                                                         *)
(* The engine and the guest's code are external: a run of the guest polls  *)
(* the interrupt handler and calls the host some number of times, and then *)
(* waits, returns, throws, hits a limit, or takes the engine down.         *)
(* One run is one task of the Worker, so it is one step here.  Nothing in  *)
(* src/ posts this Worker a 'dispose' message; its handler is left out.    *)
(***************************************************************************)
EXTENDS Integers, FiniteSets

CONSTANTS
  Evals,      \* evaluate() calls
  Deadlined,  \* the calls with deadlineMs > 0
  Fuel,       \* limits.fuel; 0 is unlimited
  MaxPolls,   \* bound: interrupt polls of one run of a guest
  MaxCalls,   \* bound: host calls the guests make
  MaxLoads    \* bound: times the engine is loaded

ASSUME WasmAssumption ==
  /\ IsFiniteSet(Evals) /\ Deadlined \subseteq Evals
  /\ Fuel \in Nat /\ MaxPolls \in Nat /\ MaxCalls \in Nat
  /\ MaxLoads \in Nat \ {0}

VARIABLES
  configured,    \* "waiting", "ok" or "error": the answer to 'configure'
  enginePromise, \* the load it is the promise of; 0 is null
  load,          \* load[g]: "none", "loading", "ready" or "failed"
  faulty,        \* history: the engines an exception has escaped from
  state,         \* state[e]: "idle", "waiting" for the engine, "running", or its result
  on,            \* on[e]: the load it has awaited; 0 is none yet
  known,         \* history: known[e]: the faulty engines when e was received
  guest,         \* guest[e]: its context: "none", "live", "freed", or "lost" in a fault
  polls,         \* polls[e]: the polls of its guest's interrupt handler
  timer,         \* the evaluations whose deadline timer is armed
  rpcSeq,        \* the number of the last host call
  pendingRpc,    \* the host calls that have an entry
  asked          \* the host calls the host has not answered

vars == <<configured, enginePromise, load, faulty, state, on, known, guest, polls, timer,
          rpcSeq, pendingRpc, asked>>

evalVars == <<state, guest, polls, timer>>
rpcVars  == <<rpcSeq, pendingRpc, asked>>

Loads  == 1..MaxLoads
Rpcs   == [id : 1..MaxCalls, of : Evals]
Failed == {"threw", "fuel", "memory", "deadline", "engine", "noEngine"}
Done   == {"value"} \cup Failed

\* 'configure' has been received, and the first load of the engine begun.
Init ==
  /\ configured = "waiting"
  /\ enginePromise = 1 /\ load = [g \in Loads |-> IF g = 1 THEN "loading" ELSE "none"]
  /\ faulty = {}
  /\ state = [e \in Evals |-> "idle"] /\ on = [e \in Evals |-> 0]
  /\ known = [e \in Evals |-> {}]
  /\ guest = [e \in Evals |-> "none"]
  /\ polls = [e \in Evals |-> 0]
  /\ timer = {}
  /\ rpcSeq = 0 /\ pendingRpc = {} /\ asked = {}

-----------------------------------------------------------------------------
(* How an evaluation ends.                                                 *)

\* The caller's promise is resolved, the timer cleared.  Mutant: it is not.
SettleOnly(e, r) ==
  /\ state' = [state EXCEPT ![e] = r]
  /\ UNCHANGED timer
Settle(e, r) ==
  /\ state' = [state EXCEPT ![e] = r]
  /\ timer' = timer \ {e}

\* The host calls in `entries` that teardown() leaves.  Mutant: all.
AllKept(e, entries) == entries
Kept(e, entries) == {r \in entries : r.of # e}

\* The engine is dropped for what comes next; others that use it go on.
\* Mutant: it is kept for the next call.
KeepEngine(e) ==
  /\ faulty' = faulty \cup {on[e]}
  /\ UNCHANGED enginePromise
DropEngine(e) ==
  /\ enginePromise' = 0
  /\ faulty' = faulty \cup {on[e]}

\* finish() and teardown(): disposing of the context may itself fail.
Finish(e, r, entries) ==
  /\ Settle(e, r)
  /\ guest' = [guest EXCEPT ![e] = "freed"]
  /\ pendingRpc' = Kept(e, entries)
  /\ \/ UNCHANGED <<enginePromise, faulty>>
     \/ DropEngine(e)

\* An exception escapes the engine: no teardown, and the entries stay.
Fault(e, entries) ==
  /\ Settle(e, "engine")
  /\ guest' = [guest EXCEPT ![e] = "lost"]
  /\ pendingRpc' = entries
  /\ DropEngine(e)

-----------------------------------------------------------------------------
(* One run of a guest: its jobs until none is left, then pump().           *)

\* The interrupt handler asks for a stop at the first poll above `fuel`, and the
\* engine (external) stops the guest there.
\* Mutant: `fuel` is for each run of the guest.
OutOfFuelInRun(e, n) == Fuel > 0 /\ n > Fuel
OutOfFuel(e, n) == Fuel > 0 /\ polls[e] + n > Fuel
Polled(e, n) == IF OutOfFuel(e, n) THEN Fuel + 1 - polls[e] ELSE n

\* The deadline timer.  Mutant: only the interrupt handler watches the deadline.
NoneArmed(e) == {}
Armed(e) == {e} \cap Deadlined

Waits(e, entries) ==
  /\ state' = [state EXCEPT ![e] = "running"]
  /\ guest' = [guest EXCEPT ![e] = "live"]
  /\ timer' = timer \cup Armed(e)
  /\ pendingRpc' = entries
  /\ UNCHANGED <<enginePromise, faulty>>

Outcome(e, n, entries) ==
  \/ OutOfFuel(e, n) /\ Finish(e, "fuel", entries)
  \/ /\ ~OutOfFuel(e, n)
     /\ \/ \E r \in {"value", "threw", "memory"} : Finish(e, r, entries)
        \/ e \in Deadlined /\ Finish(e, "deadline", entries)
        \/ Waits(e, entries)
  \/ Fault(e, entries)

\* nativeCall(), for each time the guest asks the host.
NewCalls(e, last) == [id : (rpcSeq + 1)..last, of : {e}]

\* A run of e's guest, with these entries and open host calls to begin with.
Run(e, entries, open) ==
  \E n \in 0..MaxPolls, last \in rpcSeq..MaxCalls :
    /\ polls' = [polls EXCEPT ![e] = @ + Polled(e, n)]
    /\ rpcSeq' = last
    /\ asked' = open \cup NewCalls(e, last)
    /\ Outcome(e, n, entries \cup NewCalls(e, last))

-----------------------------------------------------------------------------
(* The tasks of the Worker.  The evaluations that awaited an engine go on, *)
(* one by one, as soon as its load has ended and before any other task.    *)

Due == {e \in Evals : state[e] = "waiting" /\ load[on[e]] # "loading"}

\* getEngine(): what it returns, and the load it may begin.
NextLoad == Cardinality({g \in Loads : load[g] # "none"}) + 1
GetEngine == IF enginePromise = 0 THEN NextLoad ELSE enginePromise
BeginsLoad ==
  /\ GetEngine \in Loads
  /\ enginePromise' = GetEngine
  /\ load' = [load EXCEPT ![GetEngine] = IF @ = "none" THEN "loading" ELSE @]

\* loadEngine() ends; a failure is forgotten, so that the next call retries.
LoadEnds(g) ==
  /\ load[g] = "loading"
  /\ \/ /\ load' = [load EXCEPT ![g] = "ready"]
        /\ UNCHANGED enginePromise
     \/ /\ load' = [load EXCEPT ![g] = "failed"]
        /\ enginePromise' = 0
  /\ configured' = IF g # 1 THEN configured
                   ELSE IF load'[g] = "ready" THEN "ok" ELSE "error"
  /\ UNCHANGED <<faulty, on, known, evalVars, rpcVars>>

\* 'evaluate': the host sends none before 'configured', or after its error.
Receive(e) ==
  /\ configured = "ok" /\ Due = {}
  /\ state[e] = "idle"
  /\ BeginsLoad
  /\ state' = [state EXCEPT ![e] = "waiting"]
  /\ on' = [on EXCEPT ![e] = GetEngine]
  /\ known' = [known EXCEPT ![e] = faulty]
  /\ UNCHANGED <<configured, faulty, guest, polls, timer, rpcVars>>

\* The rest of runEval(): the guest is set up and runs for the first time.  (A
\* setup that fails, by a syntax error say, is a run without a host call.)
Start(e) ==
  /\ e \in Due
  /\ \/ /\ load[on[e]] = "failed"
        /\ Settle(e, "noEngine")
        /\ UNCHANGED <<enginePromise, faulty, guest, polls, rpcVars>>
     \/ /\ load[on[e]] = "ready"
        /\ Run(e, pendingRpc, asked)
  /\ UNCHANGED <<configured, load, on, known>>

\* May an answer still be handed to e's guest?  (done || !deferred.alive)
\* Mutant: nobody asks.
HearsAlways(e) == TRUE
Hears(e) == state[e] = "running"

\* 'capabilityResult': its promise is settled in the guest, whose jobs run.
\* The host answers in any order, late, or never.
CapabilityResult(r) ==
  /\ Due = {} /\ r \in asked
  /\ \/ /\ r \in pendingRpc /\ Hears(r.of)
        /\ Run(r.of, pendingRpc \ {r}, asked \ {r})
     \/ /\ r \notin pendingRpc \/ ~Hears(r.of)
        /\ pendingRpc' = pendingRpc \ {r} /\ asked' = asked \ {r}
        /\ UNCHANGED <<enginePromise, faulty, evalVars, rpcSeq>>
  /\ UNCHANGED <<configured, load, on, known>>

\* The timer of deadlineMs, for the time spent awaiting the host.
DeadlineTimer(e) ==
  /\ Due = {} /\ e \in timer
  /\ Finish(e, "deadline", pendingRpc)
  /\ UNCHANGED <<configured, load, on, known, polls, rpcSeq, asked>>

Next ==
  \/ \E g \in Loads : LoadEnds(g)
  \/ \E e \in Evals : Receive(e) \/ Start(e) \/ DeadlineTimer(e)
  \/ \E r \in Rpcs : CapabilityResult(r)

Spec == Init /\ [][Next]_vars

\* The Worker's event loop runs what is due and fires its timers, and the
\* import of the engine ends.  Nothing is assumed of the host or the guest.
FairSpec ==
  /\ Spec
  /\ \A g \in Loads : WF_vars(LoadEnds(g))
  /\ \A e \in Evals : WF_vars(Start(e)) /\ WF_vars(DeadlineTimer(e))

-----------------------------------------------------------------------------
(* Properties.                                                             *)

\* The variables have their types; only running evaluations have a timer.
TypeOK ==
  /\ configured \in {"waiting", "ok", "error"}
  /\ enginePromise \in Loads \cup {0}
  /\ load \in [Loads -> {"none", "loading", "ready", "failed"}]
  /\ faulty \subseteq Loads
  /\ state \in [Evals -> {"idle", "waiting", "running"} \cup Done]
  /\ on \in [Evals -> Loads \cup {0}]
  /\ known \in [Evals -> SUBSET Loads]
  /\ guest \in [Evals -> {"none", "live", "freed", "lost"}]
  /\ polls \in [Evals -> Nat]
  /\ timer \subseteq {e \in Deadlined : state[e] = "running"}
  /\ rpcSeq \in 0..MaxCalls
  /\ pendingRpc \subseteq Rpcs /\ asked \subseteq Rpcs

\* An answer of the host finds its entry for as long as the guest that asked
\* exists, and no entry leads to a context that teardown() has freed.  (Those
\* of a guest lost in a fault stay until they are answered.)
EntriesFollowGuests ==
  pendingRpc = {r \in asked : guest[r.of] \in {"live", "lost"}}

\* `fuel` is a budget of the whole call, also across the host calls it
\* awaits: a guest stops at the first poll above it, and only by running out
\* of it, or in a fault, can a call have polled more.
FuelCoversCall ==
  Fuel > 0 => \A e \in Evals :
    /\ polls[e] <= Fuel + 1
    /\ polls[e] > Fuel => state[e] \in {"fuel", "engine"}

\* README.md:237: after an engine fault "the engine is reloaded for the next
\* call": no call received after a fault runs on an engine known to be faulty,
\* whichever loads and faults of other calls overlap.
EngineIsReloaded ==
  \A e \in Evals : on[e] \notin known[e]

\* A call with a deadline ends, whatever its code and the host do: no host
\* call that is never answered keeps it, or the Worker, waiting.
DeadlinedSettles ==
  \A e \in Deadlined : state[e] = "waiting" ~> state[e] \in Done

\* The contract of evaluate(), as one Worker sees it.
statusBar ==
  [e \in Evals |->
     IF state[e] = "idle" THEN "idle"
     ELSE IF state[e] \in {"waiting", "running"} THEN "active"
     ELSE IF state[e] = "value" THEN "answered" ELSE "refused"]

Contract == INSTANCE EvalContract WITH
  phase <- IF configured = "waiting" THEN "starting"
           ELSE IF configured = "ok" THEN "open" ELSE "closed",
  status <- statusBar

\* Each evaluation posts one result: an answer of the host, a deadline or the
\* end of its code that comes after it ended leaves it as it is.
ImplementsContract == Contract!Spec
=============================================================================
