---------------------------- MODULE TokenBudget ----------------------------
(***************************************************************************)
(* The token budgets of the Chrome AI bridge (src/src/bridges/chrome-ai.   *)
(* mjs): charge() measures the input of a call with the platform and then  *)
(* counts it; create() counts what initial prompts used, after the fact.   *)
(* Calls overlap at every await.  The platform is external: it measures,   *)
(* creates and runs, or fails.                                             *)
(***************************************************************************)
EXTENDS Integers, FiniteSets, FiniteSetsExt

CONSTANTS
  Calls,       \* calls of methods with input, and of languageModel.create()
  MaxTotal,    \* budgets.maxInputTokens; 0 is unlimited
  MaxPerCall,  \* budgets.maxInputTokensPerCall; 0 is unlimited
  Sizes        \* bound: the token counts the platform measures

ASSUME BudgetAssumption ==
  /\ IsFiniteSet(Calls) /\ Sizes \subseteq Nat
  /\ MaxTotal \in Nat /\ MaxPerCall \in Nat

VARIABLES
  inputTokens, \* the state of the sandbox's bridge
  at,          \* at[c]: "idle", "measuring", "creating", "running", "done" or "refused"
  tokens,      \* tokens[c]: what the platform measured for c
  seen         \* history: seen[c]: inputTokens when c began

budgetVars == <<inputTokens, at, tokens, seen>>

BudgetInit ==
  /\ inputTokens = 0
  /\ at = [c \in Calls |-> "idle"]
  /\ tokens = [c \in Calls |-> 0] /\ seen = [c \in Calls |-> 0]

\* A platform that cannot measure gets no call through a budget.
Begin(c) ==
  /\ at[c] = "idle"
  /\ \E stage \in {"measuring", "creating", "refused"} : at' = [at EXCEPT ![c] = stage]
  /\ seen' = [seen EXCEPT ![c] = inputTokens]
  /\ UNCHANGED <<inputTokens, tokens>>

\* Is there room for n more?  Mutant: as far as was known before the await.
RoomAtStart(c, n) == MaxTotal > 0 => seen[c] + n <= MaxTotal
Room(c, n) == MaxTotal > 0 => inputTokens + n <= MaxTotal

\* Without a budget charge() counts nothing; create() counts for a total only.
Counts(c) == MaxTotal > 0 \/ (at[c] = "measuring" /\ MaxPerCall > 0)
TooLong(c, n) == at[c] = "measuring" /\ MaxPerCall > 0 /\ n > MaxPerCall

\* The platform has measured the input, or created a session: checked and
\* counted in one step.  An instance over the budget is destroyed.
Charge(c) ==
  /\ at[c] \in {"measuring", "creating"}
  /\ \E n \in Sizes :
       /\ tokens' = [tokens EXCEPT ![c] = n]
       /\ \/ /\ Room(c, n)
             /\ ~TooLong(c, n)
             /\ inputTokens' = IF Counts(c) THEN inputTokens + n ELSE inputTokens
             /\ at' = [at EXCEPT ![c] = "running"]
          \/ /\ ~Room(c, n) \/ TooLong(c, n)
             /\ at' = [at EXCEPT ![c] = "refused"]
             /\ UNCHANGED inputTokens
  /\ UNCHANGED seen

\* The measurement or the creation fails or is aborted.
ChargeFails(c) ==
  /\ at[c] \in {"measuring", "creating"}
  /\ at' = [at EXCEPT ![c] = "refused"]
  /\ UNCHANGED <<inputTokens, tokens, seen>>

\* The call ends, in whatever way; what it was charged stays charged.
Ends(c) ==
  /\ at[c] = "running"
  /\ at' = [at EXCEPT ![c] = "done"]
  /\ UNCHANGED <<inputTokens, tokens, seen>>

BudgetNext == \E c \in Calls : Begin(c) \/ Charge(c) \/ ChargeFails(c) \/ Ends(c)

BudgetSpec == BudgetInit /\ [][BudgetNext]_budgetVars

BudgetTypeOK ==
  /\ inputTokens \in Nat
  /\ at \in [Calls -> {"idle", "measuring", "creating", "running", "done", "refused"}]
  /\ tokens \in [Calls -> Nat] /\ seen \in [Calls -> Nat]

\* README.md:496: the budget holds over calls that measure at the same time,
\* and no refused or failed call uses it up.
WithinBudget == MaxTotal > 0 => inputTokens <= MaxTotal
BudgetHolds ==
  /\ WithinBudget
  /\ MaxTotal > 0 => inputTokens =
       MapThenSumSet(LAMBDA c : tokens[c], {c \in Calls : at[c] \in {"running", "done"}})
=============================================================================
