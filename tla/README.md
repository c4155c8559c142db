# A TLA+ model of andbox

andbox runs untrusted JavaScript in a Worker (a browser Worker, a Node worker
thread, a sandboxed iframe, or QuickJS inside a Worker) and lets it call back
into the host through capabilities and bridges. This directory holds a model of
the parts of it where the order of events matters, the TLC configurations that
check the model on small instances, and proofs, checked by TLAPS, of what
matters most.

Paths like `sandbox.mjs:832` are lines of `src/src/`; `README.md:582` is a line
of the library's own README, `src/README.md`.

## The system

| Part | State it keeps | Operations | Talks to | What makes it correct |
|---|---|---|---|---|
| Sandbox (`sandbox.mjs`, `createSandbox`) | current Worker, `pending`, timers, `rejectConfigure`, `activeOps`, `virtualModules`, `disposed` | `evaluate`, `defineModule`, `dispose`, restart; events of the Worker | Worker by `postMessage`, gate by calls, bridge session by calls | calls settle once; timers match pending calls; one live thread; disposal is final |
| Node adapter (`node-worker.mjs`) | `dead`, `#terminated`, listeners | events of the thread, `ref`/`unref`, `terminate` | thread, sandbox handlers | errors and exits reach whoever waits |
| Worker runtime (`worker-source.mjs`) | module table, pending RPCs | `configure`, `defineModule`, `evaluate`, `capabilityResult`, `host.call` | sandbox by `postMessage` | answers carry the ids they were asked with |
| Capability gate (`capability-gate.mjs`) | counters, per name and in total | one gated call: check, count, run, give back | capabilities, bridges | no limit is exceeded; no slot is lost |
| Bridge host (`bridge-host.mjs`, `openSession`) | calls, streams, handles, released functions, reverse calls | `bridgeCall`, `Abort`, `Pull`, `Cancel`, `Release`, `CallbackResult`, timeouts, `close` | bridge client by messages, gate, host objects | objects destroyed exactly once; limits; streams and functions end with their owner |
| Bridge client (`bridge-client.mjs`) | calls, streams, live handles, functions | start a call, abort, pull, cancel, `destroy`, run a callback | bridge host by messages | every answered call settles |
| WASM runtime (`wasm-worker-source.mjs`) | engine promise, live evaluations, RPCs | evaluate, finish, tear down, engine fault | sandbox | one result per evaluation, no use after teardown |
| Iframe host (`iframe-host.mjs`) | handshake, startup timer, `dead`, noted place and attributes | factory, hello, load, timeout, terminate | frame, page | fails once or starts; a replacement keeps its place |
| Network policy (`network-policy.mjs`) | none between requests | allowlist check, redirect loop | host `fetch` | every hop is asked, chains end |
| Import map (`import-map-resolver.mjs`) | none | longest-prefix match | runtime | the most specific entry wins |
| Module registry, VFS (`virtual-module-registry.mjs`, `node-vfs.mjs`) | path to URL | define, resolve, dispose | loader | replaced URLs are revoked |
| Service worker mode (`sandbox.mjs`, `service-worker-source.mjs`) | registration; the worker's table of files | register, `waitForActive`, `send`, define, remove, dispose | service worker | the worker serves the page's files and no others |
| Stdio (`stdio.mjs`) | buffer, one waiter slot, `done` | push, next, end, return | sandbox console | every line is delivered once |
| Inline, data-uri (`sandbox.mjs`) | two globals during a data-uri run | evaluate | none | runs do not overlap |
| Chrome AI bridge (`bridges/chrome-ai.mjs`) | tokens used | charge, create, prompt | bridge host | the budget holds over overlapping prompts |

What is hard: calls on one sandbox overlap and any of them may replace the
Worker under the others (a timeout, an abort, an `evaluate()` that finds it
dead); messages of a replaced Worker are still in flight; a Worker crashes or
closes itself at any point; the host's own functions take as long as they like
and settle after their caller is gone; limits are checked before an `await` and
used after it. `PROJECT.json` lists these hazards with their lines.

## Modules

| Module | Models | Composed with |
|---|---|---|
| `SandboxLifecycle` | the sandbox, the Node adapter, the runtime's message handler | refines `EvalContract` |
| `EvalContract` | what `evaluate()` promises, without Workers, engines or timers | |
| `WasmRuntime` | the Worker of `mode: 'wasm'` | refines `EvalContract` |
| `IframeHost` | the frames of `mode: 'iframe'` | |
| `CapabilityGate` | `gateCapabilities()` | `MCHostServices` |
| `BridgeSession`, `MCBridgeSession` | one `openSession()` and the client it talks to | refines `BridgeContract` |
| `BridgeContract` | what a session promises of calls, objects and functions, without messages, streams, timers or consents | |
| `NetworkFetch` | one `fetch()` under `network`: shim, policy, redirects | `MCHostServices` |
| `TokenBudget` | `charge()` and `create()` of the Chrome AI bridge | `MCHostServices` |
| `ServiceWorkerSandbox` | a page and its service worker | `MCHostServices` |
| `Stdio` | one console stream | `MCHostServices` |
| `ModuleRegistry` | the registry over blob URLs or Node's hooks, and the loader's cache | `MCHostServices` |
| `ImportResolution` | import maps and module lookup, in all their copies | `MCHostServices` |
| `SandboxProofs`, `SandboxProtocolProofs` | proofs about `SandboxLifecycle`: its state, and its messages | |
| `BridgeProofs`, `BridgeDeliveryProofs` | proofs about `BridgeSession`: what it keeps, and what it owes the other side | |
| `WasmProofs`, `IframeProofs`, `CapabilityGateProofs`, `HostServiceProofs` | proofs about the others | |

Throughout, an action is one task of an event loop with the microtasks it runs,
or the synchronous part of a handler between two awaits. Histories, variables
that only properties read, are marked as such where they are declared.

### SandboxLifecycle

`Timeout`, `Abort`, `Evaluate` contain the whole synchronous part of
`restartWorker()` (terminate, create, post `configure`), and `Configured`
contains what the `evaluate()` awaiting it does next. Workers are numbered;
`inbox[g]`/`outbox[g]` are the two message queues of Worker `g`; `conf[g]` is the
promise `configureWorker()` awaits. `call[c]` is `restarting` while `evaluate()`
waits at `sandbox.mjs:832` and `pending` once it is in the `pending` map. An
`evaluate()` on a sandbox whose Worker is missing or `dead` restarts it. With
`Node`, terminating a thread leaves the messages it had posted to be delivered
to the adapter's handlers; in a browser they are gone. A Node thread that fails
reports `error` and then exits with 1; a browser Worker reports `error` and lives
on, or ends itself silently.

Abstractions: code is a call that may run for ever, throw, return, call the
host, crash or close the Worker; all `defineModule()` calls define one name and
a module's source is its version number; values are left out.

### WasmRuntime

All evaluations of the Worker share one QuickJS engine, the promise
`enginePromise`; loads of it are numbered. A run of a guest, from the message or
timer that starts it to the end of `pump()`, is one task and one step (`Run`): it
polls the interrupt handler and asks the host some number of times, and then
waits, ends, hits a limit or takes the engine down. The handler counts a poll and answers; that QuickJS stops
the guest at the first poll that is answered true is taken from `README.md:231`
(`Polled`). `Start` is what
`runEval()` does after it has awaited the engine; those evaluations go on before
any other task, hence the guard `Due = {}`. `Finish` is `finish()` with
`teardown()`, whose disposal of the context may itself fail; `Fault` is an
exception that escapes the engine, after which nothing is torn down. `asked` is
the host's side: calls it may answer in any order, late, or never.

Nothing in `src/` posts this Worker a `dispose` message; its handler for one is
left out.

### IframeHost

A frame is the "Worker" of its mode. `Create` and `Restart` are the factory (in
the same step as the `terminate()` of its predecessor), `Terminate` a disposal.
`Boots`, `OnHello`, `OnInit` are the handshake, `StartTimeout` the startup timer,
`Load` a load event of the frame or, with `frameSrc`, of the wrapper or the frame
in it. The page may attach the container or not, and move and style the element;
the document may navigate (`Navigate`), also before it has loaded. `slot` is the
place and attributes `terminate()` notes for the next frame.

### CapabilityGate

A call is admitted and counted in one synchronous step (`Enter`) or refused
(`Refuse`), and leaves when the host function settles, either way (`Leave`).
Argument sizes are chosen from a set.
The gate is one of the parts that `MCHostServices` draws.

### BridgeSession

The sandbox's calls, the host's session and the two queues between them. A call
names what it creates: the stream it opens, the object it (or a chunk of its
stream) creates, the function it passes. Host methods return a value, an object
or a stream, fail, or take for ever; `onRequest` and the gate answer at any
time; the session may close at any step, and host functions go on after that.
Reverse calls are made at most once per function. A result that is too large is
`ReturnsUnsendable`.

`BridgeContract` is the same session seen from above both sides at once. It has
no queues: a call is `open` in the sandbox and `running` on the host, an object
is `registered` there and its handle `live` here, a function is `kept` here
until `released` there. Its actions say when one side may act on what only the
other knows: a handle is taken of an object that is registered, an object on
which calls run is freed when its handle was destroyed, a function is forgotten
when the host has let it go, a reverse call runs where its function is kept.
`Contract` in `BridgeSession` reads its state off the real one: a call is
`running` while the host has a record of it, an object that was made and is not
registered is `freed`.

### The host services

Seven small modules, each one part with its own state: the gate and

* `NetworkFetch`: `AskPolicy` is one turn of the loop in `policyFetch()`, up to
  the request; `Respond` is a response, with its rewriting of method, body and
  `Authorization` and the end of the chain. A URL is its origin, which is all a
  policy and the `Authorization` rule look at. The first request is any that
  `fetchCapability()` takes, a GET with a body among them, which code can ask for
  with `host.call('fetch', ...)` but not through the shim. The shim may abort at any time
  (`AbortFetch`), unheard by the host.
* `TokenBudget`: `Begin` to the await of the measurement, `Charge` after it.
* `ServiceWorkerSandbox`: worker 1 is one of an earlier visit, with any table,
  or none; worker 2 is a new version. `Stops` is the browser stopping a worker,
  whose table is a global and is lost; what `unregister()` in `dispose()` does to
  the worker is that too.
* `Stdio`: any number of `next()` calls share the one `resolve` slot.
* `ModuleRegistry`: URLs are numbered; `loaded` is the loader's module map,
  which never forgets.
* `ImportResolution`: pure lookups. A specifier is its sequence of segments. The
  code compares a scope with the importing URL by `startsWith()`, and a scope may
  end anywhere: both are sequences of pieces of text of which none begins another
  (`/` is a piece of its own), so that a prefix of the text is a prefix of the
  sequence. `<<"p", "/", "q">>` is '/p/q', and begins '/p/qx', `<<"p", "/", "q",
  "x">>`. One question is drawn from the bounded sets and answered, and the answer compared
  with a definition that has nothing in common with the loops of the code:
  `BestOf` by maximality, `LeadsTo` by depth (the k-th name of a normal path is
  the last one that was written at depth k). A loop is a recursive function of
  the rounds done.

`MCHostServices` draws one of them to run. They share no variable and never call
each other, so interleaving them would multiply states and show nothing more.

## Runs

| Run | Instance | Shows |
|---|---|---|
| `lifecycle_node` | two evaluates with timeouts, one abortable, `unref`, Node threads, a throwing factory | safety of the lifecycle, operation counts, the refinement of `EvalContract` |
| `lifecycle_browser` | browser Workers, two evaluates (one with a timeout, one abortable), a `defineModule()`, a capability call, a throwing factory; fair host | modules are fresh, replies go to their caller, posted calls and startups settle |
| `dispose_settles_all`, `idle_is_unrefd`, `bound_to_caller`, `max_streams`, `scopes_as_in_browser` | two calls each; the import maps of `host_services` | a document's statement is violated, see below |
| `bridge_session` | a call for a handle or a value and a stream call, each on the bridge or on the other's object, each with a function; limits of 1, timeouts | ownership, streams, functions, the refinement of `BridgeContract` with its `maxHandles` |
| `bridge_live` | the same with one function, messages delivered | answers, aborts and released functions arrive |
| `wasm` | three evaluations, one with a deadline, two host calls, three loads; fair Worker | entries follow guests, fuel, reloading, deadlines, the refinement of `EvalContract` |
| `iframe` | two frames, with and without wrapper, attached and not; fair browser | errors are timely, places kept, frames start or fail |
| `host_services` | each of the seven parts | redirects, budget, served files, streams, URLs, imports, limits of the gate |

### Bounds

* Lifecycle. Two `evaluate()` calls are what overlapping restarts need: one
  started by each, in either order, with the other waiting or pending. A call
  causes at most two restarts (one to get a Worker, one by its timeout or
  abort), so with two calls `MaxGen = 5` is never reached in `lifecycle_node`.
  `lifecycle_browser` stops creating Workers at 3, which still allows
  overlapping restarts; it has one module version beyond the initial one, enough
  for a Worker to have the old one.
* Bridge. With a limit of one object two creations compete, and each call can be
  on the object of the other.
* Wasm. Three evaluations: one faults the engine, one is running on it, one
  comes after. One has a deadline: others show nothing but the same timer again.
  `Fuel = 1` with up to two polls a run is exceeded in one run or
  over two; two host calls may belong to one guest or to two, and be answered in
  either order; three loads allow a second fault on the reloaded engine.
* Iframe. A frame and its replacement are all a frame's events can tell apart;
  a third would relate to the second as the second to the first.
* Host services. Two origins and two redirects: a chain that comes back to where
  it began, and one hop too many. Three budget calls of up to 4 tokens with 5 in
  total and 3 a call. Two paths, two contents and three operations of a page on
  its service worker. Four reads and four messages. Two files, two sources and
  four URLs. Four gated calls of two capabilities with arguments of 1 or 3 bytes
  reach and would exceed each limit (3 calls, 5 bytes, 2 at a time; one call of
  the one, 2 bytes a call of the other). The specifiers, keys, scopes and names of `MCHostServices` hold
  exact, prefix and nested matches, `..` above the root, URLs of two hosts, scopes
  that end in '/', within a name, at a URL's end and at once; an import map has at most `MaxKeys = 2` keys and scopes, a scope or the
  map of a module at most `FewKeys = 1`: two compete, a third would compete with
  the winner.

Deadlock is not checked: a sandbox that is disposed, or whose calls are all
done, stops; so do all parts here.

### Fairness

* Lifecycle: the host's event loop delivers each Worker's messages and fires
  timers that are due, and a new thread reaches its first message. Nothing is
  assumed of sandboxed code, capabilities or callers: code may run for ever.
* Bridge: messages are delivered in both directions. A host method may never
  settle and a timer may be late.
* Wasm: the Worker's loop runs what is due, fires its timers, and the import of
  the engine ends. The host may never answer.
* Iframe: messages arrive, timers fire, and a document has its load event in the
  end. The bootstrap need never run: the page's `html` or `csp` may break it.

These are what the platforms' event loops guarantee.

### Mutants

Each property of a passing run has a mutant: the definition in `PROJECT.json`
("of") replaced by the one beside it ("as", marked `Mutant` in the modules)
breaks it. The mutated definitions are what a plausible bug would change; the
unmutated modules never use them.

## Where code and documents differ

Shown by a run:

* `dispose_settles_all`: `dispose()` "rejects all pending evaluations"
  (`README.md:582`). One waiting for its fresh Worker at `sandbox.mjs:832` is not
  in `pending`; its promise never settles.
* `idle_is_unrefd`: with `unref` "the thread is unref'd between calls"
  (`README.md:141`). When a restart terminates a Worker whose own restart is
  still waiting, that restart never reaches its `endOp()`, so the count never
  returns to zero. Two calls that time out together are enough.
* `bound_to_caller`: capability calls are bound "to the worker that made the
  call" (`sandbox.mjs:743`). They are bound to the current Worker when the
  message arrives, which after a restart need not be the one that made it.
* `max_streams`: `limits` cap the open streams (`README.md:751`). The count is
  taken before the method runs (`bridge-host.mjs:601`), so two calls that
  overlap both pass. `maxHandles` is counted again at registration and holds.

* `scopes_as_in_browser`: `resolveWithImportMap()` follows "the browser import
  map algorithm" (`README.md:604`), where a scope is for the URLs below it only if
  it ends in '/', and else for the one URL it is. The code asks
  `parentURL.startsWith(scope)` (`import-map-resolver.mjs:23`, and so
  `worker-source.mjs:238` and `node-vfs.mjs:77`): '/p/q' also applies to '/p/qx'
  and to '/p/q/r'. `test/virtual-module-registry.test.mjs:137` relies on it, with a
  `blob:` scope that matches "by simple prefix". `ImportsResolve` states what the
  code and its test agree on: of all scopes that the URL begins with, the longest
  that knows the specifier.

Met while modelling and part of the model, without a run, because no document
states the contrary plainly or because it rests on an external part:

* A document that navigates after its hello and before its first load event has
  the load event of its successor taken for its own (`iframe-host.mjs:333`); the
  frame is then not replaced, as `README.md:282-288` says of frames that navigate.
  `StartsOrFails` excludes this case by name (`Unnoticed`).
* An `onFrame` that throws leaves a frame that was nowhere as the noted one, and
  the place of its predecessor is lost (`iframe-host.mjs:390`).
* `waitForActive()` accepts the worker of an earlier version; when the new one
  takes over, or the browser stops the one that was told, the table is empty and
  nothing restores it (`ServiceWorkerSandbox.lost`). `send()` has no timeout
  (`sandbox.mjs:258`).
* A second `next()` of a stream before the first has settled overwrites its
  slot, and `return()` leaves a waiting one unsettled (`stdio.mjs:46`).
* Calls that run or load on an engine when another call faults stay on it
  (`wasm-worker-source.mjs:415`). Ids of host calls are unique per Worker only.
* `sandboxImport()` in a Worker looks at the `imports` of an import map and not
  at its `scopes`, which `README.md:520` lists; scopes of the registry match
  the importing `blob:` URL.
* A bridge method that ignores `ctx.signal` outlives `limits.timeoutMs`: its
  timer aborts the signal and stops streams, nothing else.

## Proofs

TLAPS proves the following for every value of the constants that the `ASSUME`s
allow (finite sets of calls, natural limits, and `none` being no call:
`LifecycleAssumption`, `GateAssumption`, `BridgeAssumption`, `WasmAssumption`,
`IframeAssumption`, `NetAssumption`, `BudgetAssumption`, `SwAssumption`,
`StdioAssumption`, `RegistryAssumption`, `ImportAssumption`, `MCAssumption`).
TLC evaluates each of them.

**Lifecycle, state** (`SandboxProofs`): `TypeOK`,
`NoOrphanThread`, `TimersMatchPending`, `DisposedIsFinal`, `StartupIsWatched`,
`RefWhileBusy`, and the refinement of `EvalContract`. They are proved together
from one inductive invariant, `IInv`. None of them is inductive alone: that a
late timer cannot start a thread after `dispose()` needs `TimersMatchPending`;
that a restart finds no second thread needs that only the current Worker lives
and that Workers beyond `gen` have none; that the current startup is watched
needs that the slot holds the current Worker or nothing; that `configured` never
comes to a sandbox that failed or was disposed needs that such a sandbox has no
live Worker and that nothing is called before it is ready. The refinement maps
each action to `Ready`, `Call`, `Answer`, `Refuse` or a stutter.

**Lifecycle, messages** (`SandboxProtocolProofs`), three theorems, each from an
invariant of its own over `IInv`:

* `ModulesAreFresh`, from `FreshInv`. Every `configure` and `define` in the mail
  of a Worker carries a source at least as new as the one before it and as the
  Worker's table, so its table only grows towards the present
  (`VersionsGrow`); a running Worker has the present source in its table or in its
  mail (`LatestIsSent`); and an `evaluate` stands in the mail behind the source
  that was present when it was posted (`CallsFollowModules`). Code that runs was
  posted, to a Worker that exists (`PostedFirst`).
* `ReplyGoesToCaller`, under the hypothesis `~Node`, from `CapInv`. In a browser
  only the current Worker has mail for the host (`OnlyCurrentIsHeard`), a
  capability's call and its result are only in the queues of the Worker whose code
  made the call (`CallsOfSender`), and with that the binding the host makes when
  the message arrives is the right one. The hypothesis is needed: what a terminated Node
  thread had posted still arrives, and `bound_to_caller` shows the wrong binding.
* `OpsAccounted`, from `OpsInv`. `activeOps` counts the pending calls, the
  configurations and the definitions that wait. The proof needs that
  `rejectConfigure` is the rejecter of a configuration that still waits
  (`RejecterWaits`), so that failing it takes one from both sides, and that no
  Worker yet to be made has one (`NotYetMade`).

**Gate** (`CapabilityGateProofs`): `WithinLimits`, `CountersExact`. The slots
counted are the calls running, so a call that leaves was counted, and the limit
the check compares with is the limit on the real set.

**Bridge** (`BridgeProofs`): all invariants of `bridge_session`, and
`WithinMaxHandles`, which that run checks as part of the contract. `IInv` adds
three things. `CallsOnce`: a call's message is the
only one of its id and comes before anything the host knows of it, so that a
record, an object or a function is never made twice. `LiveCalls`: a call whose
signal has not aborted is on a live object, and no stream of an aborted one is
open, which is what `destroy()` has to re-establish for everything on a handle.
`ForgetsGone` and `FunctionsKept`: a message that lets a function go is under
way only when no owner has it, and until then the sandbox keeps it, so a reverse
call always finds it, whatever is in the queues before it.

**Bridge, delivery** (`BridgeDeliveryProofs`): `BridgeLosesNothing`, the safety
half of what `bridge_live` checks under fairness (`Answered`,
`FunctionsForgotten`, `AbortsReachHost`), for any number of calls. If the host is
done with a call that the sandbox waits for, its answer or the end of its stream
is in the queue (`AnswersUnderWay`); if it has let a function go that the sandbox
keeps, a `bridgeForget` with it is in the queue (`ForgetsUnderWay`); if the
sandbox has given up a call that still runs, a `bridgeAbort`, `bridgeCancel` or a
release of its object is in the other queue, behind the call itself
(`AbortsUnderWay`). What remains for liveness is that messages are delivered. It
is proved from an invariant over both queues: a last chunk comes behind the
`stream` that announces it, or the sandbox would drop it unread
(`StreamsAnnounced`); a record goes unanswered only when the sandbox had given
the call up (`OpenCallsHaveRecords`, `EndsAreMeant`); the sandbox hears of an
object once, so that no call can be open on one it is destroying
(`ObjectsComeOnce`, `NoCallsOnDestroyed`); and the host is done with a call whose
answer is under way, so that a call that settles has nothing left to abort
(`AnswersAreLast`).

**Bridge, contract** (`BridgeDeliveryProofs`): `BridgeImplementsContract`, that
every step of the session is a step of `BridgeContract` or a stutter, and
`BridgeHandlesWork`, that the object of a live handle is registered. One side's
step is a step of the contract only if what it believes of the other is true, so
the invariant (`SidesInv`, over the two above) relates the two sides through the
queues. `HandlesWork`: while the session is open, an object whose handle is live,
or on its way to the sandbox, is registered. `ReadersAreCalls`: a stream is read
only for an open call, whose settling the contract sees. `ReverseOnce`: a
reverse call or its result is in the queues once, and at the stage its message
says, so that it runs once. `ClosedIsSilent`: when the session has ended the
host has no records and nothing is under way. `OnlyLent`: only a function that was
passed is ever owned. The
contract step for each action is then read off: a reply that carries a handle is
`Take`, an abort, a timeout, a release and a result that cannot be sent are
`End` with the calls and the object they end, `dispose()` is `Close`, and the
messages that change what neither side promises are stutters.

**Wasm** (`WasmProofs`): `EntriesFollowGuests`, `FuelCoversCall`,
`EngineIsReloaded`, and the refinement of `EvalContract`. A context lives
exactly as long as its evaluation runs, and no guest has asked before
(`GuestFollowsState`); engines are loaded in order and the promise never holds
one that has faulted (`EnginesInOrder`); no call precedes `configured`
(`ConfiguredFirst`).

**Iframe** (`IframeProofs`): `ErrorsAreTimely` and `PlaceIsKept`, action
properties, from the invariant that every frame but the current one is
terminated and that one that is not dead was not reported.

**Host services** (`HostServiceProofs`): all safety invariants of
`host_services`.

* `RedirectsStayInPolicy`, for any origins and limit: the request being
  considered is related to those sent (`Authorization` is there only as long as
  all went to its origin).
* `BudgetHolds`, for any calls, sizes and overlap. That the host's total is the
  sum of what each call was charged needs facts about a sum over a set of any
  size. `MapThenSumSet` is a fold in some order; that it does not depend on the
  order (`FoldsAgree`), that it exists (`FoldExists`), and that charging one more
  call adds its amount (`TotalAdd`) are proved by least counterexample: among the
  subsets that would violate it, `LeastSubset` takes one of least cardinality.
* `SwServes`, for any paths, contents and number of operations. The mail of
  the active worker, applied to its table, is the page's table (`OnItsWay`, unless
  that worker was stopped or replaced since it was told); for a path, the last
  message that touches it decides (`ComesTo`). A worker that has taken its mail
  therefore serves the page's files.
* `StdioDelivers`: buffer, reads and slot are related (a reader waits only when
  nothing is buffered).
* `RegistryUrlsLoad`: a path's URL was issued for its present source and is among
  those not revoked.
* `ImportsResolve`, for any maps, scopes, files and paths of any length. That a
  loop over rounds is a function of the round is itself proved
  (`LoopExists`), by the least round where it would not be; then what it keeps
  is. For `matchSpecifier()` that is: the best so far is a longest match among the
  keys seen (`MatchIsBest`), and the answer cannot depend on their order, since
  two matches of one length are one key (`LongerStarts`: of two directories around
  one specifier the shorter is around the longer). Among scopes the longest exists
  (`LongestExists`), and all the others begin it (`LongerBegins`), wherever in a
  URL they end. For the paths
  (`WalkLeads`): after n segments `parts` has the depth that the reference
  computes from the segments alone, and its k-th name is the one last written at
  depth k, because what was written there before has been taken off by a `..` or is
  below what `..` has reached.
* `HostServicesKeep`: the composed specification keeps all of these, and
  `TypeOK` of `MCHostServices`. Whichever part is drawn to run, the others rest
  in a state that satisfies their invariants.

Only model-checked: the liveness properties (`PostedSettles`, `StartupSettles`,
`Answered`, `AbortsReachHost`, `FunctionsForgotten`, `DeadlinedSettles`,
`StartsOrFails`), which with fairness and `ENABLED` are beyond the prover; of
those of the bridge, the part that is not is proved. Every invariant and
every action property that a passing run checks is a theorem;
`ReplyGoesToCaller` for browser Workers, the only ones for which it holds.

## Not modelled

* Inline and data-uri sandboxes: no isolation and no state but two globals that
  overlapping data-uri runs share (`sandbox.mjs:89`), about which no document
  says anything.
* Option validation, console routing, `stats()`, public types: no state of their
  own, or formatting.
* The hardening prelude of Node threads and the scrubbing of globals: sequences
  of deletions, no order to get wrong.
* Bridge: argument encoding, property getters and `props`, the installation of
  globals, user activation.
* Wasm: marshalling of values and reading the engine's bytes. The memory limit
  is one of the ways a run ends.
* Iframe: the text of the document and the policy string of `frameSrc`.
* Network: `allowedHosts: '*'`, which checks nothing.
* Service worker: how a request's path finds its entry.
* Registry: the rewriting of import text.

## Roadmap

1. Done: the modules, runs and proofs above.
2. Done: the contract of the bridge, and the lookups of `ImportResolution` by
   recursive functions.
3. `IframeHost` and `WasmRuntime` as the Workers of `SandboxLifecycle`: the
   lifecycle assumes of a Worker what their properties say.
