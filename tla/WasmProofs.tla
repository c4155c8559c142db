----------------------------- MODULE WasmProofs -----------------------------
(***************************************************************************)
(* The invariants of the WASM Worker for any number of evaluations, host   *)
(* calls, polls and loads of the engine, and its refinement of the         *)
(* contract of evaluate().                                                 *)
(***************************************************************************)
EXTENDS WasmRuntime, FiniteSetTheorems, TLAPS

Begun == {"waiting", "running"}
Used  == {g \in Loads : load[g] # "none"}

\* A guest's context lives as long as the evaluation runs; none has called the
\* host before that.
GuestFollowsState ==
  \A e \in Evals :
    /\ guest[e] = "live" <=> state[e] = "running"
    /\ state[e] \in {"idle", "waiting"} => guest[e] = "none" /\ \A r \in asked : r.of # e

\* Engines are numbered in the order of their loads, none is loaded twice, and
\* the next call is given one that no exception has escaped from.
EnginesInOrder ==
  /\ Used = 1..Cardinality(Used)
  /\ faulty \subseteq Used
  /\ enginePromise # 0 => enginePromise \in Used \ faulty
  /\ \A e \in Evals : state[e] \in Begun => on[e] \in Used

\* The first load answers 'configure', and no call comes before it.
ConfiguredFirst ==
  /\ configured = "waiting" <=> load[1] = "loading"
  /\ load[1] # "none"
  /\ configured # "ok" => \A e \in Evals : state[e] = "idle"

IInv ==
  /\ TypeOK /\ EntriesFollowGuests /\ FuelCoversCall /\ EngineIsReloaded
  /\ GuestFollowsState /\ EnginesInOrder /\ ConfiguredFirst

LEMMA LoadsAreNumbers == /\ Loads \subseteq Nat \ {0} /\ 0 \notin Loads /\ 1 \in Loads
                         /\ IsFiniteSet(Loads) /\ IsFiniteSet(Used)
<1>1. MaxLoads \in Nat \ {0}
  BY WasmAssumption
<1>2. IsFiniteSet(1..MaxLoads)
  BY <1>1, FS_Interval
<1> QED BY <1>1, <1>2, FS_Subset DEF Loads, Used

-----------------------------------------------------------------------------

\* The initial states satisfy the invariant.
LEMMA InitInv == Init => IInv
<1> SUFFICES ASSUME Init PROVE IInv
  OBVIOUS
<1>1. Used = {1}
  BY LoadsAreNumbers DEF Init, Used
<1>2. Cardinality(Used) = 1 /\ Used = 1..Cardinality(Used)
  <2>1. Cardinality(Used) = 1
    BY <1>1, FS_Singleton
  <2> QED BY <1>1, <2>1
<1>3. EnginesInOrder
  BY <1>1, <1>2 DEF Init, EnginesInOrder, Begun
<1>4. TypeOK
  BY LoadsAreNumbers, WasmAssumption DEF Init, TypeOK
<1>5. ConfiguredFirst
  BY LoadsAreNumbers DEF Init, ConfiguredFirst
<1>6. EntriesFollowGuests /\ EngineIsReloaded /\ GuestFollowsState
  BY DEF Init, EntriesFollowGuests, EngineIsReloaded, GuestFollowsState
<1>7. FuelCoversCall
  BY WasmAssumption DEF Init, FuelCoversCall
<1> QED BY <1>3, <1>4, <1>5, <1>6, <1>7 DEF IInv

\* A run of e's guest leaves e in state r and its context in c.
Leaves(e, r, c) ==
  /\ state' = [state EXCEPT ![e] = r] /\ guest' = [guest EXCEPT ![e] = c]
  /\ timer' = timer \ {e} \/ (r = "running" /\ timer' = timer \cup Armed(e))
  /\ c = "live" <=> r = "running"

\* What that means for the variables it changes.
LEMMA LeavesTyped ==
  ASSUME IInv, NEW e \in Evals, NEW r \in Done \cup {"running"},
         NEW c \in {"live", "freed", "lost"}, Leaves(e, r, c)
  PROVE  /\ state' \in [Evals -> {"idle", "waiting", "running"} \cup Done]
         /\ guest' \in [Evals -> {"none", "live", "freed", "lost"}]
         /\ timer' \subseteq {x \in Deadlined : state'[x] = "running"}
         /\ \A x \in Evals \ {e} : state'[x] = state[x] /\ guest'[x] = guest[x]
         /\ state'[e] = r /\ (guest'[e] = "live" <=> state'[e] = "running")
<1>1. /\ state \in [Evals -> {"idle", "waiting", "running"} \cup Done]
      /\ guest \in [Evals -> {"none", "live", "freed", "lost"}]
      /\ timer \subseteq {x \in Deadlined : state[x] = "running"}
  BY DEF IInv, TypeOK
<1>2. /\ \A x \in Evals \ {e} : state'[x] = state[x] /\ guest'[x] = guest[x]
      /\ state'[e] = r /\ guest'[e] = c
  BY <1>1 DEF Leaves
<1>3. /\ state' \in [Evals -> {"idle", "waiting", "running"} \cup Done]
      /\ guest' \in [Evals -> {"none", "live", "freed", "lost"}]
  BY <1>1 DEF Leaves
<1>4. timer' \subseteq {x \in Deadlined : state'[x] = "running"}
  BY <1>1, <1>2, WasmAssumption DEF Leaves, Armed
<1>5. c = "live" <=> r = "running"
  BY DEF Leaves
<1> QED BY <1>2, <1>3, <1>4, <1>5

\* What ends, or pauses, an evaluation that has an engine.
LEMMA OutcomeLeaves ==
  ASSUME IInv, NEW e \in Evals, NEW entries \in SUBSET Rpcs, NEW n, Outcome(e, n, entries)
  PROVE  /\ pendingRpc' \in SUBSET Rpcs
         /\ \E r \in Done \cup {"running"}, c \in {"live", "freed", "lost"} :
              Leaves(e, r, c) /\ (OutOfFuel(e, n) => r \in {"fuel", "engine"})
<1>1. CASE Waits(e, entries) /\ ~OutOfFuel(e, n)
  BY <1>1 DEF Waits, Leaves
<1>2. CASE Fault(e, entries)
  <2>1. "engine" \in Done /\ Leaves(e, "engine", "lost") /\ pendingRpc' \in SUBSET Rpcs
    BY <1>2 DEF Fault, Settle, Done, Failed, Leaves
  <2> QED BY <2>1
<1>3. ASSUME NEW r \in Done, Finish(e, r, entries), OutOfFuel(e, n) => r = "fuel"
      PROVE  Leaves(e, r, "freed") /\ pendingRpc' \in SUBSET Rpcs
  BY <1>3 DEF Finish, Settle, Kept, Leaves, Done, Failed
<1>4. CASE \E r \in Done : Finish(e, r, entries) /\ (OutOfFuel(e, n) => r = "fuel")
  <2>1. PICK r \in Done : Finish(e, r, entries) /\ (OutOfFuel(e, n) => r = "fuel")
    BY <1>4
  <2>2. Leaves(e, r, "freed") /\ pendingRpc' \in SUBSET Rpcs
    BY <1>3, <2>1
  <2>3. "freed" \in {"live", "freed", "lost"} /\ r \in Done \cup {"running"}
    OBVIOUS
  <2>4. Leaves(e, r, "freed") /\ (OutOfFuel(e, n) => r \in {"fuel", "engine"})
    BY <2>1, <2>2 DEF OutOfFuel
  <2>5. \E c \in {"live", "freed", "lost"} :
          Leaves(e, r, c) /\ (OutOfFuel(e, n) => r \in {"fuel", "engine"})
    BY <2>3, <2>4, Zenon
  <2> QED BY <2>2, <2>3, <2>5, Zenon
<1>5. \/ \E r \in Done : Finish(e, r, entries) /\ (OutOfFuel(e, n) => r = "fuel")
      \/ Fault(e, entries)
      \/ Waits(e, entries) /\ ~OutOfFuel(e, n)
  BY DEF Outcome, Done, Failed, OutOfFuel
<1> QED BY <1>1, <1>2, <1>4, <1>5, Zenon

\* The parts of the invariant but for those about polls and host calls.
LEMMA OutcomeTyped ==
  ASSUME IInv, NEW e \in Evals, state[e] \in Begun, NEW entries \in SUBSET Rpcs,
         NEW n, Outcome(e, n, entries)
  PROVE  /\ state' \in [Evals -> {"idle", "waiting", "running"} \cup Done]
         /\ guest' \in [Evals -> {"none", "live", "freed", "lost"}]
         /\ timer' \subseteq {x \in Deadlined : state'[x] = "running"}
         /\ pendingRpc' \in SUBSET Rpcs
         /\ \A x \in Evals \ {e} : state'[x] = state[x] /\ guest'[x] = guest[x]
         /\ state'[e] \in Done \cup {"running"}
         /\ guest'[e] = "live" <=> state'[e] = "running"
         /\ OutOfFuel(e, n) => state'[e] \in {"fuel", "engine"}
<1>1. PICK r \in Done \cup {"running"}, c \in {"live", "freed", "lost"} :
        Leaves(e, r, c) /\ (OutOfFuel(e, n) => r \in {"fuel", "engine"})
  BY OutcomeLeaves
<1>2. pendingRpc' \in SUBSET Rpcs
  BY OutcomeLeaves
<1> QED BY <1>1, <1>2, LeavesTyped

\* What an evaluation's end does to the engines.
LEMMA OutcomeEngines ==
  ASSUME IInv, NEW e \in Evals, state[e] \in Begun, NEW entries, NEW n,
         Outcome(e, n, entries)
  PROVE  \/ UNCHANGED <<enginePromise, faulty>>
         \/ DropEngine(e)
BY DEF Outcome, Finish, Fault, Waits

\* The entries are those of the open host calls of the guests that exist.
LEMMA OutcomeEntries ==
  ASSUME IInv, NEW e \in Evals, state[e] \in Begun, NEW open \in SUBSET asked,
         NEW entries \in SUBSET Rpcs, NEW n, NEW new \in SUBSET {r \in Rpcs : r.of = e},
         entries = {r \in open : guest[r.of] \in {"live", "lost"}} \cup new,
         asked' = open \cup new,
         Outcome(e, n, entries)
  PROVE  EntriesFollowGuests'
<1>1. guest \in [Evals -> {"none", "live", "freed", "lost"}] /\ asked \subseteq Rpcs
  BY DEF IInv, TypeOK
<1>2. \A r \in open : r.of \in Evals /\ (r.of = e => guest[e] = "live")
  BY <1>1 DEF IInv, GuestFollowsState, Rpcs, Begun
<1>3. \A r \in open : r.of # e => guest'[r.of] = guest[r.of]
  BY <1>2, OutcomeTyped
<1>4. CASE guest'[e] \in {"live", "lost"} /\ pendingRpc' = entries
  BY <1>2, <1>3, <1>4 DEF EntriesFollowGuests
<1>5. CASE guest'[e] = "freed" /\ pendingRpc' = Kept(e, entries)
  BY <1>2, <1>3, <1>5 DEF EntriesFollowGuests, Kept
<1>6. \/ guest'[e] \in {"live", "lost"} /\ pendingRpc' = entries
      \/ guest'[e] = "freed" /\ pendingRpc' = Kept(e, entries)
  BY <1>1 DEF Outcome, Finish, Fault, Waits
<1> QED BY <1>4, <1>5, <1>6

\* Dropping an engine that is in use leaves the engines in order.
LEMMA EnginesKept ==
  ASSUME IInv, NEW e \in Evals, state[e] \in Begun,
         UNCHANGED <<load, on>>,
         \A x \in Evals : state'[x] \in Begun => state[x] \in Begun,
         UNCHANGED <<enginePromise, faulty>> \/ DropEngine(e)
  PROVE  EnginesInOrder' /\ faulty' \subseteq Loads /\ enginePromise' \in Loads \cup {0}
<1>1. Used' = Used
  BY DEF Used
<1>2. on[e] \in Used /\ Used \subseteq Loads
  BY DEF IInv, EnginesInOrder, Used
<1> QED BY <1>1, <1>2 DEF IInv, TypeOK, EnginesInOrder, DropEngine

\* A run of a guest keeps the invariant.
LEMMA RunKeeps ==
  ASSUME IInv, NEW e \in Evals, state[e] \in Begun, NEW open \in SUBSET asked,
         NEW entries, entries = {r \in open : guest[r.of] \in {"live", "lost"}},
         Run(e, entries, open), UNCHANGED <<configured, load, on, known>>
  PROVE  IInv'
<1> PICK n \in 0..MaxPolls, last \in rpcSeq..MaxCalls :
      /\ polls' = [polls EXCEPT ![e] = @ + Polled(e, n)]
      /\ rpcSeq' = last
      /\ asked' = open \cup NewCalls(e, last)
      /\ Outcome(e, n, entries \cup NewCalls(e, last))
  BY DEF Run
<1> DEFINE new == NewCalls(e, last)
<1>1. /\ rpcSeq \in 0..MaxCalls /\ asked \subseteq Rpcs /\ polls \in [Evals -> Nat]
      /\ MaxCalls \in Nat /\ MaxPolls \in Nat /\ Fuel \in Nat /\ n \in Nat
  BY WasmAssumption DEF IInv, TypeOK
<1>2. /\ new \subseteq {r \in Rpcs : r.of = e} /\ rpcSeq' \in 0..MaxCalls
      /\ asked' \subseteq Rpcs /\ entries \cup new \in SUBSET Rpcs
      /\ asked' = open \cup new /\ Outcome(e, n, entries \cup new)
  BY <1>1 DEF NewCalls, Rpcs
<1> HIDE DEF new
<1>3. OutOfFuel(e, n) => state'[e] \in {"fuel", "engine"}
  BY <1>2, OutcomeTyped
<1>4. Fuel > 0 => polls[e] <= Fuel
  BY <1>1 DEF IInv, FuelCoversCall, Begun
<1>5. /\ Polled(e, n) \in Nat
      /\ Fuel > 0 => polls[e] + Polled(e, n) <= Fuel + 1
      /\ Fuel > 0 /\ polls[e] + Polled(e, n) > Fuel => OutOfFuel(e, n)
  <2>1. polls[e] \in Nat
    BY <1>1
  <2> QED BY <1>1, <1>4, <2>1 DEF Polled, OutOfFuel
<1>6. TypeOK'
  <2>1. polls' \in [Evals -> Nat]
    BY <1>1, <1>5
  <2>2. \A x \in Evals : state'[x] \in Begun => state[x] \in Begun
    BY <1>2, OutcomeTyped DEF Begun
  <2>3. faulty' \subseteq Loads /\ enginePromise' \in Loads \cup {0}
    BY <2>2, OutcomeEngines, EnginesKept
  <2>4. /\ state' \in [Evals -> {"idle", "waiting", "running"} \cup Done]
        /\ guest' \in [Evals -> {"none", "live", "freed", "lost"}]
        /\ timer' \subseteq {x \in Deadlined : state'[x] = "running"}
        /\ pendingRpc' \in SUBSET Rpcs
    BY <1>2, OutcomeTyped
  <2> QED BY <1>2, <2>1, <2>3, <2>4 DEF IInv, TypeOK
<1>7. EntriesFollowGuests'
  BY <1>2, OutcomeEntries
<1>8. FuelCoversCall'
  <2>1. \A x \in Evals \ {e} : state'[x] = state[x] /\ polls'[x] = polls[x]
    BY <1>1, <1>2, OutcomeTyped
  <2>2. polls'[e] = polls[e] + Polled(e, n)
    BY <1>1
  <2> QED BY <1>3, <1>5, <2>1, <2>2 DEF IInv, FuelCoversCall
<1>9. GuestFollowsState'
  <2>1. /\ \A x \in Evals \ {e} : state'[x] = state[x] /\ guest'[x] = guest[x]
        /\ state'[e] \in Done \cup {"running"}
        /\ guest'[e] = "live" <=> state'[e] = "running"
    BY <1>2, OutcomeTyped
  <2>2. state'[e] \notin {"idle", "waiting"}
    BY <2>1 DEF Done, Failed
  <2>3. \A x \in Evals \ {e}, r \in asked' : r.of = x => r \in asked
    BY <1>2
  <2> QED BY <2>1, <2>2, <2>3 DEF IInv, GuestFollowsState
<1>10. EnginesInOrder'
  <2>1. \A x \in Evals : state'[x] \in Begun => state[x] \in Begun
    BY <1>2, OutcomeTyped DEF Begun
  <2> QED BY <2>1, OutcomeEngines, EnginesKept
<1>11. ConfiguredFirst'
  BY DEF IInv, ConfiguredFirst, Begun
<1>12. EngineIsReloaded'
  BY DEF IInv, EngineIsReloaded
<1> QED BY <1>6, <1>7, <1>8, <1>9, <1>10, <1>11, <1>12 DEF IInv

-----------------------------------------------------------------------------

\* The end of a load keeps the invariant.
LEMMA LoadEndsKeeps ==
  ASSUME IInv, NEW g \in Loads, LoadEnds(g)
  PROVE  IInv'
<1>1. /\ UNCHANGED <<faulty, on, known, state, guest, polls, timer, rpcSeq, pendingRpc, asked>>
      /\ load \in [Loads -> {"none", "loading", "ready", "failed"}]
      /\ load[g] = "loading" /\ configured \in {"waiting", "ok", "error"}
  BY DEF LoadEnds, evalVars, rpcVars, IInv, TypeOK
<1>2. PICK r \in {"ready", "failed"} :
        /\ load' = [load EXCEPT ![g] = r]
        /\ enginePromise' = IF r = "ready" THEN enginePromise ELSE 0
  BY DEF LoadEnds
<1>3. configured' = IF g # 1 THEN configured ELSE IF r = "ready" THEN "ok" ELSE "error"
  BY <1>1, <1>2 DEF LoadEnds
<1>4. Used' = Used
  BY <1>1, <1>2 DEF Used
<1>5. EnginesInOrder'
  BY <1>1, <1>2, <1>4 DEF IInv, EnginesInOrder
<1>6. TypeOK'
  BY <1>1, <1>2, <1>3 DEF IInv, TypeOK
<1>7. ConfiguredFirst'
  BY <1>1, <1>2, <1>3, LoadsAreNumbers DEF IInv, ConfiguredFirst
<1>8. EntriesFollowGuests' /\ FuelCoversCall' /\ EngineIsReloaded' /\ GuestFollowsState'
  BY <1>1 DEF IInv, EntriesFollowGuests, FuelCoversCall, EngineIsReloaded, GuestFollowsState
<1> QED BY <1>5, <1>6, <1>7, <1>8 DEF IInv

\* A call that is received awaits the engine of the last load, or one more.
LEMMA ReceiveKeeps ==
  ASSUME IInv, NEW e \in Evals, Receive(e)
  PROVE  IInv'
<1> DEFINE g == GetEngine
<1>1. /\ configured = "ok" /\ state[e] = "idle" /\ g \in Loads /\ enginePromise' = g
      /\ load' = [load EXCEPT ![g] = IF @ = "none" THEN "loading" ELSE @]
      /\ state' = [state EXCEPT ![e] = "waiting"] /\ on' = [on EXCEPT ![e] = g]
      /\ known' = [known EXCEPT ![e] = faulty]
      /\ UNCHANGED <<configured, faulty, guest, polls, timer, rpcSeq, pendingRpc, asked>>
  BY DEF Receive, BeginsLoad, rpcVars
<1>2. /\ load \in [Loads -> {"none", "loading", "ready", "failed"}]
      /\ state \in [Evals -> {"idle", "waiting", "running"} \cup Done]
      /\ on \in [Evals -> Loads \cup {0}] /\ known \in [Evals -> SUBSET Loads]
  BY DEF IInv, TypeOK
<1>3. Cardinality(Used) \in Nat
  BY LoadsAreNumbers, FS_CardinalityType
<1>4. g \notin faulty /\ Used' = Used \cup {g}
      /\ (g \in Used \/ g = Cardinality(Used) + 1)
  <2>1. Used' = Used \cup {g}
    BY <1>1, <1>2 DEF Used
  <2>2. CASE enginePromise = 0
    <3>1. g = Cardinality(Used) + 1
      BY <2>2 DEF GetEngine, NextLoad, Used
    <3>2. g \notin Used
      BY <3>1, <1>3 DEF IInv, EnginesInOrder
    <3> QED BY <2>1, <3>1, <3>2 DEF IInv, EnginesInOrder
  <2>3. CASE enginePromise # 0
    BY <2>1, <2>3 DEF GetEngine, IInv, EnginesInOrder
  <2> QED BY <2>2, <2>3
<1>5. Used' = 1..Cardinality(Used')
  <2>1. CASE g \in Used
    BY <2>1, <1>4 DEF IInv, EnginesInOrder
  <2>2. CASE g \notin Used
    <3>1. Cardinality(Used') = Cardinality(Used) + 1
      BY <2>2, <1>4, LoadsAreNumbers, FS_AddElement
    <3>2. Used = 1..Cardinality(Used) /\ g = Cardinality(Used) + 1
      BY <2>2, <1>4 DEF IInv, EnginesInOrder
    <3> QED BY <3>1, <3>2, <1>3, <1>4
  <2> QED BY <2>1, <2>2
<1>6. EnginesInOrder'
  BY <1>1, <1>2, <1>4, <1>5 DEF IInv, EnginesInOrder, Begun
<1>7. TypeOK'
  BY <1>1, <1>2 DEF IInv, TypeOK
<1>8. ConfiguredFirst'
  BY <1>1, <1>2, LoadsAreNumbers DEF IInv, ConfiguredFirst
<1>9. EngineIsReloaded'
  BY <1>1, <1>2, <1>4 DEF IInv, EngineIsReloaded
<1>10. EntriesFollowGuests' /\ FuelCoversCall' /\ GuestFollowsState'
  BY <1>1, <1>2 DEF IInv, EntriesFollowGuests, FuelCoversCall, GuestFollowsState
<1> QED BY <1>6, <1>7, <1>8, <1>9, <1>10 DEF IInv

\* An evaluation starts, or fails for want of an engine.
LEMMA StartKeeps ==
  ASSUME IInv, NEW e \in Evals, Start(e)
  PROVE  IInv'
<1>1. state[e] = "waiting" /\ state[e] \in Begun /\ UNCHANGED <<configured, load, on, known>>
  BY DEF Start, Due, Begun
<1>2. CASE Run(e, pendingRpc, asked)
  <2>1. pendingRpc = {r \in asked : guest[r.of] \in {"live", "lost"}}
    BY DEF IInv, EntriesFollowGuests
  <2> QED BY <1>1, <1>2, <2>1, RunKeeps
<1>3. CASE /\ state' = [state EXCEPT ![e] = "noEngine"] /\ timer' = timer \ {e}
           /\ UNCHANGED <<enginePromise, faulty, guest, polls, rpcSeq, pendingRpc, asked>>
  <2>1. state \in [Evals -> {"idle", "waiting", "running"} \cup Done]
    BY DEF IInv, TypeOK
  <2>2. /\ "noEngine" \in Done /\ state'[e] = "noEngine"
        /\ \A x \in Evals \ {e} : state'[x] = state[x]
    BY <1>3, <2>1 DEF Done, Failed
  <2>3. TypeOK'
    BY <1>1, <1>3, <2>1, <2>2 DEF IInv, TypeOK
  <2>4. EnginesInOrder'
    <3>1. \A x \in Evals : state'[x] \in Begun => state[x] \in Begun
      BY <2>2 DEF Begun
    <3> QED BY <3>1, <1>1, <1>3, EnginesKept
  <2>5. ConfiguredFirst' /\ EngineIsReloaded' /\ EntriesFollowGuests'
    BY <1>1, <1>3 DEF IInv, ConfiguredFirst, EngineIsReloaded, EntriesFollowGuests
  <2>6. GuestFollowsState' /\ FuelCoversCall'
    BY <1>1, <1>3, <2>2 DEF IInv, GuestFollowsState, FuelCoversCall
  <2> QED BY <2>3, <2>4, <2>5, <2>6 DEF IInv
<1> QED BY <1>2, <1>3 DEF Start, Settle, rpcVars

\* An answer of the host runs the guest that asked, or is dropped.
LEMMA ResultKeeps ==
  ASSUME IInv, NEW r \in Rpcs, CapabilityResult(r)
  PROVE  IInv'
<1>1. r \in asked /\ UNCHANGED <<configured, load, on, known>>
      /\ pendingRpc = {q \in asked : guest[q.of] \in {"live", "lost"}}
  BY DEF CapabilityResult, IInv, EntriesFollowGuests
<1>2. CASE Hears(r.of) /\ Run(r.of, pendingRpc \ {r}, asked \ {r})
  <2>1. r.of \in Evals /\ state[r.of] \in Begun
    BY <1>2 DEF Hears, Begun, Rpcs
  <2>2. pendingRpc \ {r} = {q \in asked \ {r} : guest[q.of] \in {"live", "lost"}}
    BY <1>1
  <2> QED BY <1>1, <1>2, <2>1, <2>2, RunKeeps
<1>3. CASE /\ pendingRpc' = pendingRpc \ {r} /\ asked' = asked \ {r}
           /\ UNCHANGED <<enginePromise, faulty, evalVars, rpcSeq>>
  BY <1>1, <1>3
     DEF evalVars, IInv, TypeOK, EntriesFollowGuests, FuelCoversCall, EngineIsReloaded,
         GuestFollowsState, EnginesInOrder, ConfiguredFirst, Used
<1> QED BY <1>2, <1>3 DEF CapabilityResult

\* The deadline ends an evaluation that waits for the host.
LEMMA DeadlineKeeps ==
  ASSUME IInv, NEW e \in Evals, DeadlineTimer(e)
  PROVE  IInv'
<1>1. /\ state[e] = "running" /\ guest[e] = "live"
      /\ UNCHANGED <<configured, load, on, known, polls, rpcSeq, asked>>
      /\ state' = [state EXCEPT ![e] = "deadline"] /\ timer' = timer \ {e}
      /\ guest' = [guest EXCEPT ![e] = "freed"] /\ pendingRpc' = Kept(e, pendingRpc)
      /\ UNCHANGED <<enginePromise, faulty>> \/ DropEngine(e)
  BY DEF DeadlineTimer, Finish, Settle, IInv, TypeOK, GuestFollowsState
<1>2. /\ state \in [Evals -> {"idle", "waiting", "running"} \cup Done]
      /\ guest \in [Evals -> {"none", "live", "freed", "lost"}] /\ asked \subseteq Rpcs
  BY DEF IInv, TypeOK
<1>3. /\ "deadline" \in Done /\ state'[e] = "deadline" /\ guest'[e] = "freed"
      /\ \A x \in Evals \ {e} : state'[x] = state[x] /\ guest'[x] = guest[x]
  BY <1>1, <1>2 DEF Done, Failed
<1>4. EnginesInOrder' /\ faulty' \subseteq Loads /\ enginePromise' \in Loads \cup {0}
  <2>1. \A x \in Evals : state'[x] \in Begun => state[x] \in Begun
    BY <1>3 DEF Begun
  <2> QED BY <2>1, <1>1, EnginesKept DEF Begun
<1>5. TypeOK'
  <2>1. timer' \subseteq {x \in Deadlined : state'[x] = "running"}
    BY <1>1, <1>3, WasmAssumption DEF IInv, TypeOK
  <2>2. pendingRpc' \subseteq Rpcs
    BY <1>1 DEF IInv, TypeOK, Kept
  <2>3. state' \in [Evals -> {"idle", "waiting", "running"} \cup Done]
        /\ guest' \in [Evals -> {"none", "live", "freed", "lost"}]
    BY <1>1, <1>2, <1>3
  <2> QED BY <1>1, <1>4, <2>1, <2>2, <2>3 DEF IInv, TypeOK
<1>6. EntriesFollowGuests'
  BY <1>1, <1>2, <1>3 DEF IInv, EntriesFollowGuests, Kept, Rpcs
<1>7. GuestFollowsState' /\ FuelCoversCall'
  BY <1>1, <1>3 DEF IInv, GuestFollowsState, FuelCoversCall
<1>8. ConfiguredFirst' /\ EngineIsReloaded'
  BY <1>1 DEF IInv, ConfiguredFirst, EngineIsReloaded
<1> QED BY <1>4, <1>5, <1>6, <1>7, <1>8 DEF IInv

\* The invariant is inductive.
LEMMA NextInv == IInv /\ [Next]_vars => IInv'
<1> SUFFICES ASSUME IInv, [Next]_vars PROVE IInv'
  OBVIOUS
<1>1. ASSUME NEW g \in Loads, LoadEnds(g) PROVE IInv'
  BY <1>1, LoadEndsKeeps
<1>2. ASSUME NEW e \in Evals, Receive(e) PROVE IInv'
  BY <1>2, ReceiveKeeps
<1>3. ASSUME NEW e \in Evals, Start(e) PROVE IInv'
  BY <1>3, StartKeeps
<1>4. ASSUME NEW e \in Evals, DeadlineTimer(e) PROVE IInv'
  BY <1>4, DeadlineKeeps
<1>5. ASSUME NEW r \in Rpcs, CapabilityResult(r) PROVE IInv'
  BY <1>5, ResultKeeps
<1>6. CASE UNCHANGED vars
  BY <1>6 DEF vars, evalVars, rpcVars, IInv, TypeOK, EntriesFollowGuests, FuelCoversCall,
              EngineIsReloaded, GuestFollowsState, EnginesInOrder, ConfiguredFirst, Used
<1> QED BY <1>1, <1>2, <1>3, <1>4, <1>5, <1>6 DEF Next

LEMMA WasmInvariant == Spec => []IInv
BY InitInv, NextInv, PTL DEF Spec

\* The variables of the WASM Worker have their types; only running evaluations
\* have a deadline timer.
THEOREM WasmTypeOK == Spec => []TypeOK
<1>1. IInv => TypeOK
  BY DEF IInv
<1> QED BY <1>1, WasmInvariant, PTL

\* The map of host calls in progress follows the guests that made them.
THEOREM WasmEntriesFollowGuests == Spec => []EntriesFollowGuests
<1>1. IInv => EntriesFollowGuests
  BY DEF IInv
<1> QED BY <1>1, WasmInvariant, PTL

\* `fuel` covers a whole call, for every value of it.
THEOREM WasmFuelCoversCall == Spec => []FuelCoversCall
<1>1. IInv => FuelCoversCall
  BY DEF IInv
<1> QED BY <1>1, WasmInvariant, PTL

\* No call is given an engine an exception had escaped from before it came.
THEOREM WasmEngineIsReloaded == Spec => []EngineIsReloaded
<1>1. IInv => EngineIsReloaded
  BY DEF IInv
<1> QED BY <1>1, WasmInvariant, PTL

-----------------------------------------------------------------------------
(* The refinement: what a step does to the evaluations, seen by callers.   *)

\* What the caller of an evaluation sees.
LEMMA BarOf ==
  /\ statusBar = [e \in Evals |-> statusBar[e]]
  /\ \A e \in Evals : /\ state[e] = "idle" => statusBar[e] = "idle"
                      /\ state[e] \in Begun => statusBar[e] = "active"
BY DEF statusBar, Begun

LEMMA BarOfNext ==
  /\ statusBar' = [e \in Evals |-> statusBar'[e]]
  /\ \A e \in Evals : /\ state'[e] \in Begun => statusBar'[e] = "active"
                      /\ state'[e] = "value" => statusBar'[e] = "answered"
                      /\ state'[e] \in Failed => statusBar'[e] = "refused"
                      /\ state'[e] = state[e] => statusBar'[e] = statusBar[e]
BY DEF statusBar, Begun, Failed

\* A status that changes for one evaluation.
LEMMA BarChanges ==
  ASSUME NEW e \in Evals, \A x \in Evals \ {e} : state'[x] = state[x], NEW v, statusBar'[e] = v
  PROVE  statusBar' = [statusBar EXCEPT ![e] = v]
<1>1. \A x \in Evals : statusBar'[x] = IF x = e THEN v ELSE statusBar[x]
  BY BarOfNext
<1>2. [statusBar EXCEPT ![e] = v] = [x \in Evals |-> IF x = e THEN v ELSE statusBar[x]]
  BY BarOf
<1> QED BY <1>1, <1>2, BarOfNext

\* A step of a call that has begun answers it, refuses it, or leaves it active.
LEMMA BegunRefines ==
  ASSUME IInv, NEW e \in Evals, state[e] \in Begun, state'[e] \in Done \cup {"running"},
         \A x \in Evals \ {e} : state'[x] = state[x], UNCHANGED configured
  PROVE  [Contract!Next]_(Contract!vars)
<1>1. configured = "ok" /\ statusBar[e] = "active"
  <2>1. state[e] # "idle"
    BY DEF Begun
  <2> QED BY <2>1, BarOf DEF IInv, ConfiguredFirst
<1>2. CASE state'[e] = "running"
  <2>1. statusBar' = [statusBar EXCEPT ![e] = "active"]
    BY <1>2, BarChanges, BarOfNext DEF Begun
  <2>2. statusBar' = statusBar
    BY <1>1, <2>1, BarOf
  <2> QED BY <2>2 DEF Contract!vars
<1>3. CASE state'[e] = "value"
  <2>1. statusBar' = [statusBar EXCEPT ![e] = "answered"]
    BY <1>3, BarChanges, BarOfNext
  <2>2. Contract!Answer(e)
    BY <1>1, <2>1 DEF Contract!Answer
  <2> QED BY <2>2 DEF Contract!Next
<1>4. CASE state'[e] \in Failed
  <2>1. statusBar' = [statusBar EXCEPT ![e] = "refused"]
    BY <1>4, BarChanges, BarOfNext
  <2>2. statusBar' = [x \in Evals |-> IF x \in {e} THEN "refused" ELSE statusBar[x]]
    BY <2>1, BarOf
  <2>3. Contract!Refuse({e})
    BY <1>1, <2>2 DEF Contract!Refuse
  <2> QED BY <2>3 DEF Contract!Next
<1> QED BY <1>2, <1>3, <1>4 DEF Done

\* So does a run of its guest.
LEMMA RunRefines ==
  ASSUME IInv, NEW e \in Evals, state[e] \in Begun, NEW open \in SUBSET asked,
         NEW entries \in SUBSET Rpcs, Run(e, entries, open), UNCHANGED configured
  PROVE  [Contract!Next]_(Contract!vars)
<1>1. PICK n \in 0..MaxPolls, last \in rpcSeq..MaxCalls :
        Outcome(e, n, entries \cup NewCalls(e, last))
  BY DEF Run
<1>2. entries \cup NewCalls(e, last) \in SUBSET Rpcs
  BY WasmAssumption DEF NewCalls, Rpcs, IInv, TypeOK
<1>3. /\ \A x \in Evals \ {e} : state'[x] = state[x]
      /\ state'[e] \in Done \cup {"running"}
  BY <1>1, <1>2, OutcomeTyped
<1> QED BY <1>3, BegunRefines

\* Every step of the Worker is a step of the contract, or changes nothing that
\* callers see.
LEMMA RefineNext == IInv /\ [Next]_vars => [Contract!Next]_(Contract!vars)
<1> SUFFICES ASSUME IInv, [Next]_vars PROVE [Contract!Next]_(Contract!vars)
  OBVIOUS
<1> USE DEF evalVars, rpcVars
<1>1. ASSUME NEW g \in Loads, LoadEnds(g) PROVE [Contract!Next]_(Contract!vars)
  <2>1. statusBar' = statusBar
    BY <1>1 DEF LoadEnds, statusBar
  <2>2. CASE g # 1
    BY <1>1, <2>1, <2>2 DEF LoadEnds, Contract!vars
  <2>3. CASE g = 1
    <3>1. configured = "waiting" /\ configured' \in {"ok", "error"}
      BY <1>1, <2>3 DEF LoadEnds, IInv, ConfiguredFirst
    <3>2. statusBar' = [x \in Evals |-> IF x \in {} THEN "refused" ELSE statusBar[x]]
      BY <2>1, BarOf
    <3>3. CASE configured' = "ok"
      <4>1. Contract!Ready
        BY <3>1, <3>3, <2>1 DEF Contract!Ready
      <4> QED BY <4>1 DEF Contract!Next
    <3>4. CASE configured' = "error"
      <4>1. Contract!Refuse({})
        BY <3>1, <3>2, <3>4 DEF Contract!Refuse
      <4> QED BY <4>1 DEF Contract!Next
    <3> QED BY <3>1, <3>3, <3>4
  <2> QED BY <2>2, <2>3
<1>2. ASSUME NEW e \in Evals, Receive(e) PROVE [Contract!Next]_(Contract!vars)
  <2>1. /\ configured = "ok" /\ configured' = configured /\ state[e] = "idle"
        /\ state'[e] = "waiting" /\ \A x \in Evals \ {e} : state'[x] = state[x]
    BY <1>2 DEF Receive, IInv, TypeOK
  <2>2. statusBar[e] = "idle" /\ statusBar' = [statusBar EXCEPT ![e] = "active"]
    BY <2>1, BarOf, BarOfNext, BarChanges DEF Begun
  <2>3. Contract!Call(e)
    BY <2>1, <2>2 DEF Contract!Call
  <2> QED BY <2>3 DEF Contract!Next
<1>3. ASSUME NEW e \in Evals, Start(e) PROVE [Contract!Next]_(Contract!vars)
  <2>1. state[e] \in Begun /\ UNCHANGED configured /\ pendingRpc \in SUBSET Rpcs
    BY <1>3 DEF Start, Due, Begun, IInv, TypeOK
  <2>2. CASE Run(e, pendingRpc, asked)
    BY <2>1, <2>2, RunRefines
  <2>3. CASE Settle(e, "noEngine")
    <3>1. state'[e] \in Done \cup {"running"} /\ \A x \in Evals \ {e} : state'[x] = state[x]
      BY <2>3 DEF Settle, IInv, TypeOK, Done, Failed
    <3> QED BY <2>1, <3>1, BegunRefines
  <2> QED BY <1>3, <2>2, <2>3 DEF Start
<1>4. ASSUME NEW e \in Evals, DeadlineTimer(e) PROVE [Contract!Next]_(Contract!vars)
  <2>1. /\ state[e] \in Begun /\ UNCHANGED configured /\ state'[e] \in Done \cup {"running"}
        /\ \A x \in Evals \ {e} : state'[x] = state[x]
    BY <1>4 DEF DeadlineTimer, Finish, Settle, IInv, TypeOK, Begun, Done, Failed
  <2> QED BY <2>1, BegunRefines
<1>5. ASSUME NEW r \in Rpcs, CapabilityResult(r) PROVE [Contract!Next]_(Contract!vars)
  <2>1. UNCHANGED configured /\ r.of \in Evals /\ pendingRpc \ {r} \in SUBSET Rpcs
        /\ asked \ {r} \in SUBSET asked
    BY <1>5 DEF CapabilityResult, Rpcs, IInv, TypeOK
  <2>2. CASE Hears(r.of) /\ Run(r.of, pendingRpc \ {r}, asked \ {r})
    <3>1. state[r.of] \in Begun
      BY <2>2 DEF Hears, Begun
    <3> QED BY <2>1, <2>2, <3>1, RunRefines
  <2>3. CASE UNCHANGED state
    BY <2>1, <2>3 DEF Contract!vars, statusBar
  <2> QED BY <1>5, <2>2, <2>3 DEF CapabilityResult
<1>6. CASE UNCHANGED vars
  BY <1>6 DEF vars, Contract!vars, statusBar
<1> QED BY <1>1, <1>2, <1>3, <1>4, <1>5, <1>6 DEF Next

\* The WASM Worker implements the contract of evaluate(): each call is settled
\* at most once, whichever answers and deadlines come after its end.
THEOREM WasmImplementsContract == Spec => ImplementsContract
<1>1. Init => Contract!Init
  BY DEF Init, statusBar, Contract!Init
<1>2. QED
  BY <1>1, WasmInvariant, RefineNext, PTL DEF Spec, ImplementsContract, Contract!Spec
=============================================================================
