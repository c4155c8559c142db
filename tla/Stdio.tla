------------------------------- MODULE Stdio -------------------------------
(***************************************************************************)
(* The stdout and stderr streams of a sandbox (src/src/stdio.mjs): a       *)
(* buffer, and one slot for a reader that waits.                           *)
(***************************************************************************)
EXTENDS Integers, Sequences

CONSTANTS
  Reads,      \* calls of next(), by any number of iterators
  MaxPushed   \* bound: messages

ASSUME StdioAssumption == "none" \notin Reads /\ MaxPushed \in Nat

VARIABLES
  buffer,
  slot,       \* `resolve`: the read it settles, or "none"
  done,
  read,       \* read[r]: "unborn", "waiting", "value", "done"
  pushed,     \* messages push() accepted: 1, 2, ...
  got,        \* history: the messages reads settled with, in order
  returned    \* history: an iterator's return() was called

stdioVars == <<buffer, slot, done, read, pushed, got, returned>>

StdioInit ==
  /\ buffer = <<>> /\ slot = "none" /\ done = FALSE
  /\ read = [r \in Reads |-> "unborn"]
  /\ pushed = 0 /\ got = <<>> /\ returned = FALSE

\* The slot's read settles; settling a promise again does nothing.
Resolved(how) ==
  IF slot # "none" /\ read[slot] = "waiting" THEN [read EXCEPT ![slot] = how] ELSE read

\* `resolve` after it was called.  Mutant: it stays.
SlotKept == slot
SlotTaken == "none"

Push ==
  /\ pushed < MaxPushed /\ ~done
  /\ pushed' = pushed + 1
  /\ \/ /\ slot # "none"
        /\ read' = Resolved("value") /\ slot' = SlotTaken
        /\ got' = IF read[slot] = "waiting" THEN Append(got, pushed') ELSE got
        /\ UNCHANGED buffer
     \/ /\ slot = "none"
        /\ buffer' = Append(buffer, pushed')
        /\ UNCHANGED <<read, slot, got>>
  /\ UNCHANGED <<done, returned>>

End ==
  /\ done' = TRUE
  /\ read' = Resolved("done") /\ slot' = SlotTaken
  /\ UNCHANGED <<buffer, pushed, got, returned>>

\* A read that must wait takes the slot, whoever is in it.
Read(r) ==
  /\ read[r] = "unborn"
  /\ \/ /\ buffer # <<>>
        /\ got' = Append(got, Head(buffer)) /\ buffer' = Tail(buffer)
        /\ read' = [read EXCEPT ![r] = "value"] /\ UNCHANGED slot
     \/ /\ buffer = <<>> /\ done
        /\ read' = [read EXCEPT ![r] = "done"] /\ UNCHANGED <<got, buffer, slot>>
     \/ /\ buffer = <<>> /\ ~done
        /\ slot' = r
        /\ read' = [read EXCEPT ![r] = "waiting"] /\ UNCHANGED <<got, buffer>>
  /\ UNCHANGED <<done, pushed, returned>>

\* `break` in a `for await`.
Return ==
  /\ done' = TRUE /\ buffer' = <<>> /\ returned' = TRUE
  /\ UNCHANGED <<slot, read, pushed, got>>

StdioNext == Push \/ End \/ Return \/ \E r \in Reads : Read(r)

StdioSpec == StdioInit /\ [][StdioNext]_stdioVars

StdioTypeOK ==
  /\ buffer \in Seq(1..MaxPushed) /\ got \in Seq(1..MaxPushed)
  /\ slot \in Reads \cup {"none"} /\ done \in BOOLEAN /\ returned \in BOOLEAN
  /\ read \in [Reads -> {"unborn", "waiting", "value", "done"}]
  /\ pushed \in 0..MaxPushed

\* Until a return(), what was read and what is buffered are the messages pushed,
\* each once and in order; after it what was read is still their beginning.  A
\* read waits in the slot only when nothing is buffered, and end() frees it.
StdioDelivers ==
  /\ \A i \in DOMAIN got : got[i] = i
  /\ ~returned => got \o buffer = [i \in 1..pushed |-> i]
  /\ slot # "none" => buffer = <<>> /\ read[slot] = "waiting" /\ (done => returned)
=============================================================================
