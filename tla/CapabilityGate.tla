--------------------------- MODULE CapabilityGate ---------------------------
(***************************************************************************)
(* gateCapabilities() (src/src/capability-gate.mjs): the counters every    *)
(* capability and bridge call of a sandbox passes.  A call is checked and  *)
(* counted in one synchronous step; it holds its concurrency slot until    *)
(* the host function settles, which may be after its Worker is gone.       *)
(***************************************************************************)
EXTENDS Integers, FiniteSets

CONSTANTS
  GatedCalls,       \* calls that reach the gate
  Capabilities,     \* granted capabilities
  ArgSizes,         \* byte lengths JSON.stringify(args) may have
  MaxCalls, MaxArgBytes, MaxConcurrent,   \* policy.limits; 0 is unlimited
  CapMaxCalls, CapMaxArgBytes             \* policy.capabilities[name].max...

ASSUME GateAssumption ==
  /\ IsFiniteSet(GatedCalls) /\ IsFiniteSet(Capabilities)
  /\ ArgSizes \subseteq Nat
  /\ MaxCalls \in Nat /\ MaxArgBytes \in Nat /\ MaxConcurrent \in Nat
  /\ CapMaxCalls \in [Capabilities -> Nat] /\ CapMaxArgBytes \in [Capabilities -> Nat]

VARIABLES
  totalCalls, totalArgBytes, concurrent,   \* the gate's counters
  calls, argBytes,                         \* perCap: name -> { calls, argBytes }
  callState,                               \* callState[c]: "idle", "running", "settled", "refused"
  capOf                                    \* the capability each call calls

counters == <<totalCalls, totalArgBytes, concurrent, calls, argBytes>>
gateVars == <<counters, callState, capOf>>

GateInit ==
  /\ totalCalls = 0 /\ totalArgBytes = 0 /\ concurrent = 0
  /\ calls = [n \in Capabilities |-> 0] /\ argBytes = [n \in Capabilities |-> 0]
  /\ callState = [c \in GatedCalls |-> "idle"]
  /\ capOf \in [GatedCalls -> Capabilities]

\* `limit > 0 && used >= limit` does not hold.  Mutant: the limit is passed by one.
HasRoomOrOne(used, limit) == limit = 0 \/ used <= limit
HasRoom(used, limit) == limit = 0 \/ used < limit

\* `limit > 0 && size > limit` does not hold.
Fits(size, limit) == limit = 0 \/ size <= limit

Admitted(n, b) ==
  /\ HasRoom(totalCalls, MaxCalls)
  /\ Fits(totalArgBytes + b, MaxArgBytes)
  /\ HasRoom(concurrent, MaxConcurrent)
  /\ HasRoom(calls[n], CapMaxCalls[n])
  /\ Fits(b, CapMaxArgBytes[n])

\* gated[name](...args) up to the await of the host function.
Enter(c, b) ==
  LET n == capOf[c] IN
  /\ callState[c] = "idle" /\ Admitted(n, b)
  /\ totalCalls' = totalCalls + 1
  /\ totalArgBytes' = totalArgBytes + b
  /\ calls' = [calls EXCEPT ![n] = @ + 1]
  /\ argBytes' = [argBytes EXCEPT ![n] = @ + b]
  /\ concurrent' = concurrent + 1
  /\ callState' = [callState EXCEPT ![c] = "running"]
  /\ UNCHANGED capOf

\* A limit is exceeded: the call throws and counts nowhere.
Refuse(c, b) ==
  /\ callState[c] = "idle" /\ ~Admitted(capOf[c], b)
  /\ callState' = [callState EXCEPT ![c] = "refused"]
  /\ UNCHANGED <<counters, capOf>>

\* The slots the `finally` gives back.  Mutant: only a call that succeeded
\* gives its slot back.
FreedOnSuccess(success) == IF success THEN 1 ELSE 0
Freed(success) == 1

\* The host function returns or throws.
Leave(c, success) ==
  /\ callState[c] = "running"
  /\ concurrent' = concurrent - Freed(success)
  /\ callState' = [callState EXCEPT ![c] = "settled"]
  /\ UNCHANGED <<totalCalls, totalArgBytes, calls, argBytes, capOf>>

GateNext ==
  \E c \in GatedCalls :
    \/ \E b \in ArgSizes : Enter(c, b) \/ Refuse(c, b)
    \/ \E success \in BOOLEAN : Leave(c, success)

GateSpec == GateInit /\ [][GateNext]_gateVars

-----------------------------------------------------------------------------
(* Properties.                                                             *)

Running == {c \in GatedCalls : callState[c] = "running"}
Counted == {c \in GatedCalls : callState[c] \in {"running", "settled"}}

\* The type invariant; no counter goes below zero.
GateTypeOK ==
  /\ totalCalls \in Nat /\ totalArgBytes \in Nat /\ concurrent \in Nat
  /\ calls \in [Capabilities -> Nat] /\ argBytes \in [Capabilities -> Nat]
  /\ callState \in [GatedCalls -> {"idle", "running", "settled", "refused"}]
  /\ capOf \in [GatedCalls -> Capabilities]

\* No limit of the policy is ever exceeded, in whatever order calls enter,
\* fail and settle.
WithinLimits ==
  /\ Fits(totalCalls, MaxCalls)
  /\ Fits(totalArgBytes, MaxArgBytes)
  /\ Fits(Cardinality(Running), MaxConcurrent)
  /\ \A n \in Capabilities : Fits(calls[n], CapMaxCalls[n])

\* The counters are what really happened: a slot per running call, a call per
\* admitted call, nothing for a refused one.
CountersExact ==
  /\ concurrent = Cardinality(Running)
  /\ totalCalls = Cardinality(Counted)
=============================================================================
