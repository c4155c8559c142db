---------------------------- MODULE EvalContract ----------------------------
(***************************************************************************)
(* What a Sandbox object promises the callers of evaluate(), without       *)
(* Workers, timers or restarts: each call is settled at most once, with    *)
(* the code's answer or with a refusal (timeout, abort, Worker error,      *)
(* disposal), and no call is answered once the sandbox is closed.          *)
(***************************************************************************)
CONSTANT Evals     \* evaluate() calls

VARIABLES phase,   \* the sandbox: "starting", "open" or "closed"
          status   \* status[c]: "idle", "active", "answered" or "refused"

vars == <<phase, status>>

Init == phase = "starting" /\ status = [c \in Evals |-> "idle"]

\* createSandbox() resolves.
Ready == phase = "starting" /\ phase' = "open" /\ UNCHANGED status

\* Some active calls are refused; the sandbox may close with that, or never open.
Refuse(S) ==
  /\ \A c \in S : status[c] = "active"
  /\ status' = [c \in Evals |-> IF c \in S THEN "refused" ELSE status[c]]
  /\ phase' \in {phase, "closed"}

\* A call starts, or is refused without having started.
Call(c) ==
  /\ status[c] = "idle" /\ phase # "starting"
  /\ \/ phase = "open" /\ status' = [status EXCEPT ![c] = "active"]
     \/ status' = [status EXCEPT ![c] = "refused"]
  /\ UNCHANGED phase

Answer(c) ==
  /\ phase = "open" /\ status[c] = "active"
  /\ status' = [status EXCEPT ![c] = "answered"]
  /\ UNCHANGED phase

Next ==
  \/ Ready
  \/ \E S \in SUBSET Evals : Refuse(S)
  \/ \E c \in Evals : Call(c) \/ Answer(c)

Spec == Init /\ [][Next]_vars
=============================================================================
