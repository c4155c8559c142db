------------------------ MODULE CapabilityGateProofs ------------------------
(***************************************************************************)
(* The gate's limits hold for every policy, every set of calls and every   *)
(* order in which they enter and settle.                                   *)
(***************************************************************************)
EXTENDS CapabilityGate, FiniteSetTheorems, TLAPS

\* The inductive invariant: the limits are checked against the counters, so
\* they hold of the calls only because the counters are exact.
GateInv == GateTypeOK /\ WithinLimits /\ CountersExact

\* Admitting a call adds it to the running and to the counted calls.
LEMMA EnterCounts ==
  ASSUME GateAssumption, GateTypeOK, NEW c \in GatedCalls, NEW b \in ArgSizes, Enter(c, b)
  PROVE  /\ Cardinality(Running') = Cardinality(Running) + 1
         /\ Cardinality(Counted') = Cardinality(Counted) + 1
<1>1. /\ Running' = Running \cup {c} /\ c \notin Running
      /\ Counted' = Counted \cup {c} /\ c \notin Counted
  BY DEF Enter, GateTypeOK, Running, Counted
<1>2. IsFiniteSet(Running) /\ IsFiniteSet(Counted)
  BY FS_Subset DEF GateAssumption, Running, Counted
<1>3. QED
  BY <1>1, <1>2, FS_AddElement

\* A call that settles leaves the running calls and stays counted.
LEMMA LeaveCounts ==
  ASSUME GateAssumption, GateTypeOK, NEW c \in GatedCalls, NEW s \in BOOLEAN, Leave(c, s)
  PROVE  /\ Cardinality(Running') = Cardinality(Running) - 1
         /\ Counted' = Counted
         /\ Cardinality(Running) \in Nat \ {0}
<1>1. /\ Running' = Running \ {c} /\ c \in Running
      /\ Counted' = Counted
  BY DEF Leave, GateTypeOK, Running, Counted
<1>2. IsFiniteSet(Running)
  BY FS_Subset DEF GateAssumption, Running
<1>3. /\ Cardinality(Running') = Cardinality(Running) - 1
      /\ Cardinality(Running) \in Nat
  BY <1>1, <1>2, FS_RemoveElement, FS_CardinalityType
<1>4. Cardinality(Running) # 0
  BY <1>1, <1>2, FS_EmptySet
<1>5. QED
  BY <1>1, <1>3, <1>4

LEMMA GateInitInv == ASSUME GateAssumption, GateInit PROVE GateInv
<1>1. Running = {} /\ Counted = {}
  BY DEF GateInit, Running, Counted
<1>2. Cardinality(Running) = 0 /\ Cardinality(Counted) = 0
  BY <1>1, FS_EmptySet
<1>3. QED
  BY <1>2 DEF GateAssumption, GateInit, GateInv, GateTypeOK, WithinLimits, CountersExact, Fits

\* Every step keeps the limits and the counters' meaning.
LEMMA GateNextInv == ASSUME GateAssumption, GateInv, [GateNext]_gateVars PROVE GateInv'
<1>1. ASSUME NEW c \in GatedCalls, NEW b \in ArgSizes, Enter(c, b)
      PROVE  GateInv'
  <2>1. b \in Nat /\ capOf[c] \in Capabilities
    BY DEF GateAssumption, GateInv, GateTypeOK
  <2>2. GateTypeOK'
    BY <1>1, <2>1 DEF GateInv, GateTypeOK, Enter
  <2>3. CountersExact'
    BY <1>1, EnterCounts DEF GateInv, CountersExact, Enter
  <2>4. Fits(totalCalls, MaxCalls)' /\ Fits(totalArgBytes, MaxArgBytes)'
    BY <1>1 DEF GateAssumption, GateInv, GateTypeOK, Enter, Admitted, HasRoom, Fits
  <2>5. Fits(Cardinality(Running), MaxConcurrent)'
    BY <1>1, <2>3 DEF GateAssumption, GateInv, GateTypeOK, CountersExact, Enter, Admitted, HasRoom, Fits
  <2>6. ASSUME NEW n \in Capabilities
        PROVE  Fits(calls[n], CapMaxCalls[n])'
    BY <1>1, <2>1 DEF GateAssumption, GateInv, GateTypeOK, WithinLimits, Enter, Admitted, HasRoom, Fits
  <2>7. QED
    BY <2>2, <2>3, <2>4, <2>5, <2>6 DEF GateInv, WithinLimits
<1>2. ASSUME NEW c \in GatedCalls, NEW s \in BOOLEAN, Leave(c, s)
      PROVE  GateInv'
  <2>1. /\ concurrent \in Nat \ {0}
        /\ concurrent' = concurrent - 1 /\ concurrent' = Cardinality(Running')
    BY <1>2, LeaveCounts DEF GateInv, GateTypeOK, CountersExact, Leave, Freed
  <2>2. GateTypeOK'
    BY <1>2, <2>1 DEF GateInv, GateTypeOK, Leave
  <2>3. CountersExact'
    BY <1>2, <2>1, LeaveCounts DEF GateInv, CountersExact, Leave
  <2>4. WithinLimits'
    BY <1>2, <2>1 DEF GateAssumption, GateInv, GateTypeOK, WithinLimits, CountersExact, Leave, Fits
  <2>5. QED
    BY <2>2, <2>3, <2>4 DEF GateInv
<1>3. ASSUME NEW c \in GatedCalls, NEW b \in ArgSizes, Refuse(c, b)
      PROVE  GateInv'
  <2>1. Running' = Running /\ Counted' = Counted
    BY <1>3 DEF GateInv, GateTypeOK, Refuse, Running, Counted
  <2>2. QED
    BY <1>3, <2>1 DEF GateInv, GateTypeOK, WithinLimits, CountersExact, Refuse, counters, Fits
<1>4. CASE UNCHANGED gateVars
  BY <1>4 DEF GateInv, GateTypeOK, WithinLimits, CountersExact, Running, Counted, gateVars, counters, Fits
<1>5. QED
  BY <1>1, <1>2, <1>3, <1>4 DEF GateNext

LEMMA GateInvHolds == GateSpec => []GateInv
<1>1. GateInit => GateInv
  BY GateAssumption, GateInitInv
<1>2. GateInv /\ [GateNext]_gateVars => GateInv'
  BY GateAssumption, GateNextInv
<1>3. QED
  BY <1>1, <1>2, PTL DEF GateSpec

\* Every counter stays a natural number: no `finally` takes one below zero.
THEOREM GateIsTyped == GateSpec => []GateTypeOK
<1>1. GateInv => GateTypeOK
  BY DEF GateInv
<1>2. QED
  BY <1>1, GateInvHolds, PTL

\* No policy limit is ever exceeded, whatever the limits and the calls are.
THEOREM GateWithinLimits == GateSpec => []WithinLimits
<1>1. GateInv => WithinLimits
  BY DEF GateInv
<1>2. QED
  BY <1>1, GateInvHolds, PTL

\* The gate's counters always equal what has been admitted and is running.
THEOREM GateCountersExact == GateSpec => []CountersExact
<1>1. GateInv => CountersExact
  BY DEF GateInv
<1>2. QED
  BY <1>1, GateInvHolds, PTL
=============================================================================
