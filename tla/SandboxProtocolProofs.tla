------------------------ MODULE SandboxProtocolProofs ------------------------
(***************************************************************************)
(* What passes between the Sandbox object and its Workers, for any number  *)
(* of calls, Workers and options: a call runs behind the virtual modules   *)
(* it wants, a capability's result goes back to the Worker that called,    *)
(* and the operations that hold the event loop are counted exactly.  Each  *)
(* has an inductive invariant of its own, on top of IInv.                  *)
(***************************************************************************)
EXTENDS SandboxProofs

-----------------------------------------------------------------------------
(* Virtual modules: in what order a Worker is told of them.                *)

\* A message that gives the module another version.
Sets(m) == m.type \in {"configure", "defineModule"}

\* Once the messages of box before the i-th are taken, a Worker that has
\* version v has version n or a later one.
Reaches(box, v, n, i) ==
  n <= v \/ \E j \in DOMAIN box : j < i /\ Sets(box[j]) /\ n <= box[j].arg

\* No message of box takes a Worker back to an earlier version than it has.
Grows(box, v, top) ==
  /\ v <= top
  /\ \A i \in DOMAIN box : Sets(box[i]) => v <= box[i].arg /\ box[i].arg <= top
  /\ \A i, j \in DOMAIN box :
       j < i /\ Sets(box[i]) /\ Sets(box[j]) => box[j].arg <= box[i].arg

VersionsGrow == \A g \in Gens : Grows(inbox[g], table[g], virtualModules)

\* A running Worker has the latest version, or has been sent it.
LatestIsSent ==
  \A g \in Gens :
    thread[g] = "up" => Reaches(inbox[g], table[g], virtualModules, Len(inbox[g]) + 1)

Unposted == {"idle", "restarting"}

\* A call on its way to a Worker comes behind the modules it wants.
CallsFollowModules ==
  \A g \in Gens : \A i \in DOMAIN inbox[g] : \A c \in Evals :
    inbox[g][i] = Msg("evaluate", c) =>
      on[c] = g /\ call[c] \notin Unposted /\ Reaches(inbox[g], table[g], want[c], i)

\* Code runs only when its call has been posted to a Worker.
PostedFirst == \A c \in Evals : code[c] # "none" => call[c] \notin Unposted /\ on[c] \in Gens

FreshInv ==
  VersionsGrow /\ LatestIsSent /\ CallsFollowModules /\ PostedFirst /\ ModulesAreFresh

\* What the host sends.
LEMMA HostMsgTyped ==
  \A m \in HostMsg :
    /\ m = Msg(m.type, m.arg)
    /\ Sets(m) => m.arg \in Nat
    /\ m.type = "evaluate" => m.arg \in Evals
    /\ m.type \in {"configure", "defineModule", "evaluate", "capabilityResult"}
BY DEF HostMsg, Msg, Sets

\* A message that is put behind the others changes nothing for them.
LEMMA AppendReaches ==
  ASSUME NEW box \in Seq(HostMsg), NEW m \in HostMsg, NEW v \in Nat, NEW n \in Nat,
         NEW i \in Int, Reaches(box, v, n, i)
  PROVE  Reaches(Append(box, m), v, n, i)
<1>1. \A j \in DOMAIN box : j \in DOMAIN Append(box, m) /\ Append(box, m)[j] = box[j]
  OBVIOUS
<1>2. QED
  BY <1>1 DEF Reaches

LEMMA AppendGrows ==
  ASSUME NEW box \in Seq(HostMsg), NEW m \in HostMsg, NEW v \in Nat,
         NEW top \in Nat, NEW up \in Nat, top <= up,
         Sets(m) => m.arg = up, Grows(box, v, top)
  PROVE  Grows(Append(box, m), v, up)
<1>1. \A i \in DOMAIN Append(box, m) :
        \/ i \in DOMAIN box /\ Append(box, m)[i] = box[i]
        \/ i = Len(box) + 1 /\ Append(box, m)[i] = m
  OBVIOUS
<1>2. /\ \A i \in DOMAIN box : i \in Nat /\ i < Len(box) + 1 /\ box[i] \in HostMsg
      /\ Len(box) \in Nat
  OBVIOUS
<1>3. \A i \in DOMAIN box : Sets(box[i]) => box[i].arg \in Nat
  BY <1>2, HostMsgTyped
<1>4. QED
  BY <1>1, <1>2, <1>3 DEF Grows

\* Taking the first message: a Worker that obeys it keeps up with the rest.
LEMMA TailIndices ==
  ASSUME NEW box \in Seq(HostMsg), box # <<>>
  PROVE  /\ Tail(box) \in Seq(HostMsg) /\ Len(Tail(box)) + 1 = Len(box)
         /\ Head(box) = box[1] /\ Head(box) \in HostMsg /\ 1 \in DOMAIN box
         /\ \A i \in DOMAIN Tail(box) :
              i \in Nat /\ i + 1 \in DOMAIN box /\ 1 < i + 1 /\ Tail(box)[i] = box[i + 1]
         /\ \A i \in DOMAIN box :
              i \in Nat /\ (i = 1 \/ (i - 1 \in DOMAIN Tail(box) /\ Tail(box)[i - 1] = box[i]))
OBVIOUS

LEMMA TailReaches ==
  ASSUME NEW box \in Seq(HostMsg), box # <<>>, NEW v \in Nat, NEW n \in Nat, NEW i \in Int,
         NEW u \in Nat, v <= u, Sets(Head(box)) => u = Head(box).arg,
         Reaches(box, v, n, i + 1)
  PROVE  Reaches(Tail(box), u, n, i)
<1>1. CASE n <= v
  BY <1>1 DEF Reaches
<1>2. ASSUME NEW j \in DOMAIN box, j < i + 1, Sets(box[j]), n <= box[j].arg
      PROVE  Reaches(Tail(box), u, n, i)
  <2>1. CASE j = 1
    BY <1>2, <2>1, TailIndices DEF Reaches
  <2>2. CASE j - 1 \in DOMAIN Tail(box) /\ Tail(box)[j - 1] = box[j]
    <3>1. j - 1 < i
      BY <1>2, TailIndices
    <3>2. QED
      BY <1>2, <2>2, <3>1 DEF Reaches
  <2>3. QED
    BY <2>1, <2>2, TailIndices
<1>3. QED
  BY <1>1, <1>2 DEF Reaches

LEMMA TailGrows ==
  ASSUME NEW box \in Seq(HostMsg), box # <<>>, NEW v \in Nat, NEW top \in Nat,
         NEW u \in Nat, v <= top => u <= top,
         Sets(Head(box)) => u = Head(box).arg, ~Sets(Head(box)) => u = v,
         Grows(box, v, top)
  PROVE  Grows(Tail(box), u, top)
<1>1. u <= top
  BY DEF Grows
<1>2. ASSUME NEW i \in DOMAIN Tail(box), Sets(Tail(box)[i])
      PROVE  u <= Tail(box)[i].arg /\ Tail(box)[i].arg <= top
  BY <1>2, TailIndices DEF Grows
<1>3. ASSUME NEW i \in DOMAIN Tail(box), NEW j \in DOMAIN Tail(box), j < i,
             Sets(Tail(box)[i]), Sets(Tail(box)[j])
      PROVE  Tail(box)[j].arg <= Tail(box)[i].arg
  <2>1. i + 1 \in DOMAIN box /\ j + 1 \in DOMAIN box /\ j + 1 < i + 1
    BY <1>3, TailIndices
  <2>2. QED
    BY <1>3, <2>1, TailIndices DEF Grows
<1>4. QED
  BY <1>1, <1>2, <1>3 DEF Grows

\* Steps that empty inboxes and start Workers with the present modules.
ResetsInboxes ==
  /\ \A g \in Gens : inbox'[g] \in {inbox[g], <<>>, <<Msg("configure", virtualModules)>>}
  /\ \A g \in Gens : thread'[g] = "up" =>
       \/ thread[g] = "up" /\ inbox'[g] = inbox[g]
       \/ inbox'[g] = <<Msg("configure", virtualModules)>>

\* Steps that settle calls, make one wait for a Worker, or end code.
KeepsPosted ==
  /\ UNCHANGED <<table, virtualModules, want>>
  /\ \A c \in Evals :
       /\ code'[c] = code[c] \/ (code[c] = "running" /\ code'[c] = "finished")
       /\ call'[c] \in Unposted => call[c] \in Unposted
       /\ on'[c] = on[c] \/ call[c] \in Unposted

LEMMA ResetKeepsFresh ==
  ASSUME TypeOK, FreshInv, ResetsInboxes, KeepsPosted
  PROVE  FreshInv'
<1> USE DEF ResetsInboxes, KeepsPosted
<1>1. \A g \in Gens : table[g] \in Nat /\ inbox[g] \in Seq(HostMsg)
  BY DEF TypeOK
<1>2. VersionsGrow'
  <2>1. ASSUME NEW g \in Gens
        PROVE  Grows(inbox'[g], table[g], virtualModules)
    <3>1. Grows(inbox[g], table[g], virtualModules)
      BY DEF FreshInv, VersionsGrow
    <3>2. CASE inbox'[g] = <<Msg("configure", virtualModules)>>
      <4>1. DOMAIN inbox'[g] = {1} /\ inbox'[g][1].arg = virtualModules
        BY <3>2 DEF Msg
      <4>2. QED
        BY <1>1, <3>1, <4>1 DEF Grows, TypeOK
    <3>3. CASE inbox'[g] = <<>>
      BY <3>1, <3>3 DEF Grows
    <3>4. QED
      BY <3>1, <3>2, <3>3
  <2>2. QED
    BY <2>1 DEF VersionsGrow
<1>3. LatestIsSent'
  <2>1. ASSUME NEW g \in Gens, thread'[g] = "up"
        PROVE  Reaches(inbox'[g], table[g], virtualModules, Len(inbox'[g]) + 1)
    <3>1. CASE thread[g] = "up" /\ inbox'[g] = inbox[g]
      BY <3>1 DEF FreshInv, LatestIsSent
    <3>2. CASE inbox'[g] = <<Msg("configure", virtualModules)>>
      <4>1. /\ 1 \in DOMAIN inbox'[g] /\ 1 < Len(inbox'[g]) + 1
            /\ Sets(inbox'[g][1]) /\ virtualModules <= inbox'[g][1].arg
        BY <3>2 DEF Msg, Sets, TypeOK
      <4>2. QED
        BY <4>1 DEF Reaches
    <3>3. QED
      BY <2>1, <3>1, <3>2
  <2>2. QED
    BY <2>1 DEF LatestIsSent
<1>4. CallsFollowModules'
  <2>1. ASSUME NEW g \in Gens, NEW i \in DOMAIN inbox'[g], NEW c \in Evals,
               inbox'[g][i] = Msg("evaluate", c)
        PROVE  on'[c] = g /\ call'[c] \notin Unposted /\ Reaches(inbox'[g], table[g], want[c], i)
    <3>1. inbox'[g] = inbox[g]
      BY <2>1 DEF Msg
    <3>2. QED
      BY <2>1, <3>1 DEF FreshInv, CallsFollowModules
  <2>2. QED
    BY <2>1 DEF CallsFollowModules
<1>5. PostedFirst'
  BY DEF FreshInv, PostedFirst
<1>6. ModulesAreFresh'
  <2>1. ASSUME NEW c \in Evals, code'[c] = "running" PROVE table'[on'[c]] >= want'[c]
    <3>1. code[c] = "running" /\ on'[c] = on[c]
      BY <2>1 DEF FreshInv, PostedFirst
    <3>2. QED
      BY <3>1 DEF FreshInv, ModulesAreFresh
  <2>2. QED
    BY <2>1 DEF ModulesAreFresh
<1>7. QED
  BY <1>2, <1>3, <1>4, <1>5, <1>6 DEF FreshInv

\* Steps that send a message to the current Worker: the modules' newest
\* version, a call that wants it, or a capability's result.
LEMMA SendKeepsFresh ==
  ASSUME TypeOK, TypeOK', OnlyWorkerLives, FreshInv,
         NEW m \in HostMsg, inbox' = Send(inbox, worker, m),
         UNCHANGED <<table, thread, code>>,
         virtualModules <= virtualModules',
         Sets(m) => m.arg = virtualModules',
         ~Sets(m) => virtualModules' = virtualModules,
         \A c \in Evals :
           m = Msg("evaluate", c) =>
             on'[c] = worker /\ call'[c] \notin Unposted /\ want'[c] = virtualModules,
         \A c \in Evals :
           /\ call[c] \notin Unposted => on'[c] = on[c] /\ want'[c] = want[c]
           /\ call'[c] \in Unposted => call[c] \in Unposted
  PROVE  FreshInv'
<1>1. \A g \in Gens : inbox[g] \in Seq(HostMsg) /\ table[g] \in Nat
  BY DEF TypeOK
<1>2. virtualModules \in Nat /\ virtualModules' \in Nat /\ \A c \in Evals : want'[c] \in Nat
  BY DEF TypeOK
<1>3. ASSUME NEW g \in Gens
      PROVE  \/ inbox'[g] = inbox[g] /\ thread[g] # "up"
             \/ inbox'[g] = Append(inbox[g], m) /\ g = worker /\ thread[g] = "up"
  <2>1. CASE thread[g] = "up"
    BY <2>1 DEF Send, TypeOK, OnlyWorkerLives
  <2>2. CASE thread[g] # "up"
    BY <2>2 DEF Send, TypeOK
  <2>3. QED
    BY <2>1, <2>2
<1>4. VersionsGrow'
  <2>1. ASSUME NEW g \in Gens PROVE Grows(inbox'[g], table[g], virtualModules')
    <3>1. Grows(inbox[g], table[g], virtualModules)
      BY DEF FreshInv, VersionsGrow
    <3>2. CASE inbox'[g] = Append(inbox[g], m)
      BY <1>1, <1>2, <3>1, <3>2, AppendGrows
    <3>3. CASE inbox'[g] = inbox[g]
      <4>1. \A i \in DOMAIN inbox[g] : Sets(inbox[g][i]) => inbox[g][i].arg \in Nat
        BY <1>1, HostMsgTyped
      <4>2. QED
        BY <1>1, <1>2, <3>1, <3>3, <4>1 DEF Grows
    <3>4. QED
      BY <1>3, <3>2, <3>3
  <2>2. QED
    BY <2>1 DEF VersionsGrow
<1>5. LatestIsSent'
  <2>1. ASSUME NEW g \in Gens, thread[g] = "up"
        PROVE  Reaches(inbox'[g], table[g], virtualModules', Len(inbox'[g]) + 1)
    <3>1. inbox'[g] = Append(inbox[g], m) /\ Len(inbox'[g]) = Len(inbox[g]) + 1
      BY <1>1, <1>3, <2>1
    <3>2. CASE Sets(m)
      <4>1. /\ Len(inbox[g]) + 1 \in DOMAIN inbox'[g]
            /\ inbox'[g][Len(inbox[g]) + 1] = m /\ Len(inbox[g]) \in Nat
        BY <1>1, <3>1
      <4>2. QED
        BY <1>2, <3>1, <3>2, <4>1 DEF Reaches
    <3>3. CASE ~Sets(m)
      <4>1. Reaches(inbox[g], table[g], virtualModules', Len(inbox[g]) + 1)
        BY <2>1, <3>3 DEF FreshInv, LatestIsSent
      <4>2. Reaches(inbox'[g], table[g], virtualModules', Len(inbox[g]) + 1)
        BY <1>1, <1>2, <3>1, <4>1, AppendReaches
      <4>3. Len(inbox[g]) \in Nat /\ \A j \in DOMAIN inbox'[g] : j \in Nat
        BY <1>1, <3>1
      <4>4. QED
        BY <3>1, <4>2, <4>3 DEF Reaches
    <3>4. QED
      BY <3>2, <3>3
  <2>2. QED
    BY <2>1 DEF LatestIsSent
<1>6. CallsFollowModules'
  <2>1. ASSUME NEW g \in Gens, NEW i \in DOMAIN inbox'[g], NEW c \in Evals,
               inbox'[g][i] = Msg("evaluate", c)
        PROVE  on'[c] = g /\ call'[c] \notin Unposted /\ Reaches(inbox'[g], table[g], want'[c], i)
    <3>1. CASE i \in DOMAIN inbox[g] /\ inbox'[g][i] = inbox[g][i]
      <4>1. on[c] = g /\ call[c] \notin Unposted /\ Reaches(inbox[g], table[g], want[c], i)
        BY <2>1, <3>1 DEF FreshInv, CallsFollowModules
      <4>2. on'[c] = g /\ call'[c] \notin Unposted /\ want'[c] = want[c]
        BY <4>1
      <4>3. i \in Int
        BY <1>1, <3>1
      <4>4. CASE inbox'[g] = inbox[g]
        BY <4>1, <4>2, <4>4
      <4>5. CASE inbox'[g] = Append(inbox[g], m)
        <5>1. Reaches(inbox[g], table[g], want'[c], i) /\ want'[c] \in Nat
          BY <1>2, <4>1, <4>2
        <5>2. QED
          BY <1>1, <4>2, <4>3, <4>5, <5>1, AppendReaches
      <4>6. QED
        BY <1>3, <4>4, <4>5
    <3>2. CASE g = worker /\ thread[g] = "up" /\ i = Len(inbox[g]) + 1 /\ inbox'[g][i] = m
      <4>1. on'[c] = g /\ call'[c] \notin Unposted /\ want'[c] = virtualModules
        BY <2>1, <3>2
      <4>2. Reaches(inbox[g], table[g], virtualModules, i)
        BY <3>2 DEF FreshInv, LatestIsSent
      <4>3. i \in Int
        BY <1>1, <3>2
      <4>4. inbox'[g] = Append(inbox[g], m)
        BY <1>3, <3>2
      <4>5. Reaches(inbox'[g], table[g], want'[c], i)
        BY <1>1, <1>2, <4>1, <4>2, <4>3, <4>4, AppendReaches
      <4>6. QED
        BY <4>1, <4>5
    <3>3. QED
      BY <1>1, <1>3, <3>1, <3>2
  <2>2. QED
    BY <2>1 DEF CallsFollowModules
<1>7. PostedFirst'
  BY DEF FreshInv, PostedFirst
<1>8. ModulesAreFresh'
  <2>1. ASSUME NEW c \in Evals, code[c] = "running" PROVE table[on'[c]] >= want'[c]
    <3>1. call[c] \notin Unposted
      BY <2>1 DEF FreshInv, PostedFirst
    <3>2. QED
      BY <2>1, <3>1 DEF FreshInv, ModulesAreFresh
  <2>2. QED
    BY <2>1 DEF ModulesAreFresh
<1>9. QED
  BY <1>4, <1>5, <1>6, <1>7, <1>8 DEF FreshInv

\* Steps of a Worker that takes a message.
LEMMA TakeKeepsFresh ==
  ASSUME TypeOK, TypeOK', FreshInv, NEW g \in Gens, inbox[g] # <<>>,
         inbox' = [inbox EXCEPT ![g] = Tail(@)],
         IF Sets(Head(inbox[g]))
           THEN table' = [table EXCEPT ![g] = Head(inbox[g]).arg]
           ELSE table' = table,
         \A c \in Evals : code'[c] = code[c] \/ Head(inbox[g]) = Msg("evaluate", c),
         UNCHANGED <<virtualModules, thread, call, on, want>>
  PROVE  FreshInv'
<1> DEFINE box == inbox[g]
           m == Head(box)
<1>1. box \in Seq(HostMsg) /\ table[g] \in Nat /\ virtualModules \in Nat
  BY DEF TypeOK
<1>2. /\ m \in HostMsg /\ m = box[1] /\ 1 \in DOMAIN box
      /\ Len(Tail(box)) + 1 = Len(box) /\ Len(Tail(box)) \in Nat
      /\ \A i \in DOMAIN Tail(box) :
           i \in Int /\ i + 1 \in DOMAIN box /\ Tail(box)[i] = box[i + 1]
  <2>1. box # <<>>
    OBVIOUS
  <2> HIDE DEF box
  <2>2. Tail(box) \in Seq(HostMsg)
    BY <1>1, <2>1, TailIndices
  <2>3. QED
    BY <1>1, <2>1, <2>2, TailIndices
<1>3. /\ table'[g] \in Nat /\ table'[g] = IF Sets(m) THEN m.arg ELSE table[g]
      /\ inbox'[g] = Tail(box)
      /\ \A h \in Gens \ {g} : inbox'[h] = inbox[h]
      /\ \A h \in Gens \ {g} : table'[h] = table[h]
  BY DEF TypeOK
<1>4. Grows(box, table[g], virtualModules)
  BY DEF FreshInv, VersionsGrow
<1>5. table[g] <= table'[g] /\ table'[g] <= virtualModules
  BY <1>1, <1>2, <1>3, <1>4 DEF Grows
<1>6. ASSUME NEW n \in Nat, NEW i \in Int, Reaches(box, table[g], n, i + 1)
      PROVE  Reaches(inbox'[g], table'[g], n, i)
  <2>1. box # <<>> /\ (Sets(Head(box)) => table'[g] = Head(box).arg)
    BY <1>3
  <2> HIDE DEF box
  <2>2. Reaches(Tail(box), table'[g], n, i)
    BY <1>1, <1>3, <1>5, <1>6, <2>1, TailReaches
  <2>3. QED
    BY <1>3, <2>2
<1>7. VersionsGrow'
  <2>1. Grows(inbox'[g], table'[g], virtualModules)
    BY <1>1, <1>3, <1>4, <1>5, TailGrows
  <2>2. \A h \in Gens \ {g} : Grows(inbox'[h], table'[h], virtualModules)
    BY <1>3 DEF FreshInv, VersionsGrow
  <2>3. QED
    BY <2>1, <2>2 DEF VersionsGrow
<1>8. LatestIsSent'
  <2>1. ASSUME thread[g] = "up"
        PROVE  Reaches(inbox'[g], table'[g], virtualModules, Len(inbox'[g]) + 1)
    <3>1. Reaches(box, table[g], virtualModules, Len(box) + 1)
      BY <2>1 DEF FreshInv, LatestIsSent
    <3>2. Len(box) = Len(inbox'[g]) + 1 /\ Len(inbox'[g]) \in Nat
      BY <1>2, <1>3
    <3>3. QED
      BY <1>1, <1>6, <3>1, <3>2
  <2>2. ASSUME NEW h \in Gens \ {g}, thread[h] = "up"
        PROVE  Reaches(inbox'[h], table'[h], virtualModules, Len(inbox'[h]) + 1)
    BY <1>3, <2>2 DEF FreshInv, LatestIsSent
  <2>3. QED
    BY <2>1, <2>2 DEF LatestIsSent
<1>9. CallsFollowModules'
  <2>1. ASSUME NEW i \in DOMAIN inbox'[g], NEW c \in Evals, inbox'[g][i] = Msg("evaluate", c)
        PROVE  on[c] = g /\ call[c] \notin Unposted /\ Reaches(inbox'[g], table'[g], want[c], i)
    <3>1. i \in Int /\ i + 1 \in DOMAIN box /\ box[i + 1] = Msg("evaluate", c)
      BY <1>2, <1>3, <2>1
    <3>2. on[c] = g /\ call[c] \notin Unposted /\ Reaches(box, table[g], want[c], i + 1)
      BY <3>1 DEF FreshInv, CallsFollowModules
    <3>3. want[c] \in Nat
      BY DEF TypeOK
    <3>4. QED
      BY <1>6, <3>1, <3>2, <3>3
  <2>2. ASSUME NEW h \in Gens \ {g}, NEW i \in DOMAIN inbox'[h], NEW c \in Evals,
               inbox'[h][i] = Msg("evaluate", c)
        PROVE  on[c] = h /\ call[c] \notin Unposted /\ Reaches(inbox'[h], table'[h], want[c], i)
    BY <1>3, <2>2 DEF FreshInv, CallsFollowModules
  <2>3. QED
    BY <2>1, <2>2 DEF CallsFollowModules
<1>10. ASSUME NEW c \in Evals, m = Msg("evaluate", c)
       PROVE  on[c] = g /\ call[c] \notin Unposted /\ want[c] <= table[g]
  <2>1. on[c] = g /\ call[c] \notin Unposted /\ Reaches(box, table[g], want[c], 1)
    BY <1>2, <1>10 DEF FreshInv, CallsFollowModules
  <2>2. \A j \in DOMAIN box : ~(j < 1)
    BY <1>1
  <2>3. QED
    BY <2>1, <2>2 DEF Reaches
<1>11. PostedFirst'
  BY <1>10 DEF FreshInv, PostedFirst
<1>12. ModulesAreFresh'
  <2>1. ASSUME NEW c \in Evals, code'[c] = "running" PROVE table'[on[c]] >= want[c]
    <3>1. want[c] \in Nat
      BY DEF TypeOK
    <3>2. CASE m = Msg("evaluate", c)
      BY <1>1, <1>3, <1>5, <1>10, <3>1, <3>2
    <3>3. CASE code[c] = "running"
      <4>1. table[on[c]] >= want[c]
        BY <3>3 DEF FreshInv, ModulesAreFresh
      <4>2. CASE on[c] = g
        BY <1>1, <1>3, <1>5, <3>1, <4>1, <4>2
      <4>3. CASE on[c] \in Gens \ {g}
        BY <1>3, <4>1, <4>3
      <4>4. QED
        BY <3>3, <4>2, <4>3 DEF FreshInv, PostedFirst
    <3>4. QED
      BY <2>1, <3>2, <3>3
  <2>2. QED
    BY <2>1 DEF ModulesAreFresh
<1>13. QED
  BY <1>7, <1>8, <1>9, <1>11, <1>12 DEF FreshInv

-----------------------------------------------------------------------------
(* The same for each action.                                               *)

LEMMA InitFresh == Init => FreshInv
<1> SUFFICES ASSUME Init PROVE FreshInv
  OBVIOUS
<1>1. \A g \in Gens : /\ inbox[g] = IF g = 1 THEN <<Msg("configure", 0)>> ELSE <<>>
                      /\ table[g] = 0 /\ thread[g] = IF g = 1 THEN "up" ELSE "none"
  BY DEF Init
<1>2. virtualModules = 0 /\ \A c \in Evals : code[c] = "none"
  BY DEF Init
<1>3. VersionsGrow
  <2>1. ASSUME NEW g \in Gens PROVE Grows(inbox[g], table[g], 0)
    <3>1. \A i \in DOMAIN inbox[g] : i = 1 /\ inbox[g][i].arg = 0
      BY <1>1 DEF Msg
    <3>2. QED
      BY <1>1, <3>1 DEF Grows
  <2>2. QED
    BY <1>2, <2>1 DEF VersionsGrow
<1>4. LatestIsSent
  BY <1>1, <1>2 DEF LatestIsSent, Reaches
<1>5. CallsFollowModules
  BY <1>1 DEF CallsFollowModules, Msg
<1>6. PostedFirst /\ ModulesAreFresh
  BY <1>2 DEF PostedFirst, ModulesAreFresh
<1>7. QED
  BY <1>3, <1>4, <1>5, <1>6 DEF FreshInv

\* terminate() empties an inbox; a restart fills one, with the modules.
LEMMA KillResets ==
  ASSUME TypeOK, inbox' = Kill(inbox, <<>>), thread' = Kill(thread, "terminated")
  PROVE  ResetsInboxes
BY DEF ResetsInboxes, Kill

LEMMA RestartResets ==
  ASSUME TypeOK, NEW n, RestartWorker(n)
  PROVE  ResetsInboxes
<1>1. CASE ReplaceWorker
  <2>1. gen + 1 \in Gens
    BY <1>1, ReplaceTyped DEF ReplaceWorker
  <2>2. /\ \A g \in Gens : inbox'[g] = IF g = gen + 1 THEN <<Msg("configure", virtualModules)>>
                                       ELSE IF g = worker THEN <<>> ELSE inbox[g]
        /\ \A g \in Gens : thread'[g] = IF g = gen + 1 THEN "up"
                                        ELSE IF g = worker THEN "terminated" ELSE thread[g]
    BY <1>1, <2>1 DEF ReplaceWorker, Terminated, Kill, ModulesToSend
  <2>3. QED
    BY <2>2 DEF ResetsInboxes
<1>2. CASE TerminateWorker
  BY <1>2, KillResets DEF TerminateWorker, Terminated
<1>3. QED
  BY <1>1, <1>2 DEF RestartWorker

\* evaluate() posts its call behind the modules it wants, or gives up.
LEMMA PostKeepsFresh ==
  ASSUME IInv, TypeOK', FreshInv, NEW c \in Evals, NEW n, PostEvaluate(c, n),
         call[c] \in Unposted, UNCHANGED <<table, virtualModules, thread, code>>
  PROVE  FreshInv'
<1> USE DEF IInv
<1>1. CASE call' = [call EXCEPT ![c] = "aborted"] /\ UNCHANGED <<on, timer, want, inbox>>
  <2>1. ResetsInboxes
    BY <1>1 DEF ResetsInboxes
  <2>2. KeepsPosted
    BY <1>1 DEF KeepsPosted, TypeOK, Unposted
  <2>3. QED
    BY <2>1, <2>2, ResetKeepsFresh
<1>2. CASE /\ call' = [call EXCEPT ![c] = "pending"]
           /\ on' = [on EXCEPT ![c] = worker]
           /\ want' = [want EXCEPT ![c] = virtualModules]
           /\ inbox' = Send(inbox, worker, Msg("evaluate", c))
  <2> DEFINE m == Msg("evaluate", c)
  <2>1. m \in HostMsg /\ ~Sets(m) /\ \A x \in Evals : m = Msg("evaluate", x) => x = c
    BY DEF Msg, HostMsg, Sets
  <2>2. /\ on'[c] = worker /\ call'[c] = "pending" /\ want'[c] = virtualModules
        /\ \A x \in Evals \ {c} : on'[x] = on[x] /\ call'[x] = call[x] /\ want'[x] = want[x]
    BY <1>2 DEF TypeOK
  <2>3. inbox' = Send(inbox, worker, m) /\ virtualModules <= virtualModules'
    BY <1>2 DEF TypeOK
  <2> HIDE DEF m
  <2>4. \A x \in Evals :
          m = Msg("evaluate", x) =>
            on'[x] = worker /\ call'[x] \notin Unposted /\ want'[x] = virtualModules
    BY <2>1, <2>2 DEF Unposted
  <2>5. \A x \in Evals :
          /\ call[x] \notin Unposted => on'[x] = on[x] /\ want'[x] = want[x]
          /\ call'[x] \in Unposted => call[x] \in Unposted
    BY <2>2
  <2>6. QED
    BY <2>1, <2>3, <2>4, <2>5, SendKeepsFresh
<1>3. QED
  BY <1>1, <1>2 DEF PostEvaluate

\* A rejected startup, or an uncaught error, settles calls.
LEMMA RejectKeepsFresh ==
  ASSUME TypeOK, FreshInv, NEW g, NEW S, RejectConfigure(g, S),
         UNCHANGED <<virtualModules, table, code>>
  PROVE  FreshInv'
<1>1. ResetsInboxes
  <2>1. CASE UNCHANGED <<thread, inbox>>
    BY <2>1 DEF ResetsInboxes
  <2>2. CASE inbox' = Kill(inbox, <<>>) /\ thread' = Kill(thread, "terminated")
    BY <2>2, KillResets
  <2>3. QED
    BY <2>1, <2>2 DEF RejectConfigure
<1>2. KeepsPosted
  BY DEF RejectConfigure, SettlePending, KeepsPosted, Unposted
<1>3. QED
  BY <1>1, <1>2, ResetKeepsFresh

LEMMA OnErrorKeepsFresh ==
  ASSUME TypeOK, FreshInv, OnError, UNCHANGED <<virtualModules, table, code>>
  PROVE  FreshInv'
<1>1. CASE RejectConfigure(StartupToReject, Pending)
  BY <1>1, RejectKeepsFresh
<1>2. CASE SettlePending(Pending, "failed") /\ UNCHANGED <<thread, inbox>>
  <2>1. ResetsInboxes /\ KeepsPosted
    BY <1>2 DEF SettlePending, ResetsInboxes, KeepsPosted, Unposted
  <2>2. QED
    BY <2>1, ResetKeepsFresh
<1>3. QED
  BY <1>1, <1>2 DEF OnError

\* The host's calls.
LEMMA CallsKeepFresh ==
  ASSUME IInv, TypeOK', FreshInv,
         \/ \E c \in Evals : Evaluate(c) \/ Timeout(c) \/ Abort(c)
         \/ \E d \in Defs : DefineModule(d)
         \/ Dispose
         \/ \E k \in Caps : CapabilitySettles(k)
  PROVE  FreshInv'
<1> USE DEF IInv
<1>1. ASSUME NEW c \in Evals, Evaluate(c) PROVE FreshInv'
  <2>1. call[c] \in Unposted /\ virtualModules' = virtualModules
    BY <1>1 DEF Evaluate, Unposted, defVars
  <2>2. CASE call' = [call EXCEPT ![c] = "disposed"] /\ UNCHANGED <<on, timer, want, threadVars>>
    <3>1. ResetsInboxes /\ KeepsPosted
      BY <2>1, <2>2 DEF ResetsInboxes, KeepsPosted, Unposted, threadVars, TypeOK
    <3>2. QED
      BY <3>1, ResetKeepsFresh
  <2>3. CASE PostEvaluate(c, 0) /\ UNCHANGED <<thread, table, code>>
    BY <2>1, <2>3, PostKeepsFresh
  <2>4. CASE /\ RestartWorker(0) /\ on' = [on EXCEPT ![c] = worker']
             /\ call' = [call EXCEPT ![c] = IF worker' = None THEN "failed" ELSE "restarting"]
             /\ UNCHANGED <<want, table, code>>
    <3>1. KeepsPosted
      BY <2>1, <2>4 DEF KeepsPosted, TypeOK
    <3>2. QED
      BY <2>4, <3>1, RestartResets, ResetKeepsFresh
  <2>5. QED
    BY <1>1, <2>2, <2>3, <2>4 DEF Evaluate
<1>2. ASSUME NEW c \in Evals, Timeout(c) PROVE FreshInv'
  <2>1. KeepsPosted
    BY <1>2 DEF Timeout, KeepsPosted, Unposted, TypeOK, defVars
  <2>2. \E n \in Int : RestartWorker(n)
    BY <1>2 DEF Timeout
  <2>3. QED
    BY <2>1, <2>2, RestartResets, ResetKeepsFresh
<1>3. ASSUME NEW c \in Evals, Abort(c) PROVE FreshInv'
  <2>1. KeepsPosted
    BY <1>3 DEF Abort, KeepsPosted, Unposted, TypeOK, defVars, threadVars
  <2>2. ResetsInboxes
    BY <1>3, RestartResets DEF Abort, ResetsInboxes, threadVars
  <2>3. QED
    BY <2>1, <2>2, ResetKeepsFresh
<1>4. ASSUME NEW d \in Defs, DefineModule(d) PROVE FreshInv'
  <2> DEFINE m == Msg("defineModule", virtualModules')
  <2>1. virtualModules' = virtualModules + 1 /\ virtualModules <= virtualModules'
    BY <1>4 DEF DefineModule, TypeOK
  <2>2. /\ m \in HostMsg /\ Sets(m) /\ m.arg = virtualModules'
        /\ \A c \in Evals : m # Msg("evaluate", c)
    BY <2>1 DEF TypeOK, Msg, HostMsg, Sets
  <2>3. inbox' = Send(inbox, worker, m)
    BY <1>4 DEF DefineModule, Send, Gens, None
  <2>4. UNCHANGED <<table, thread, code, call, on, want>>
    BY <1>4 DEF DefineModule, callVars
  <2> HIDE DEF m
  <2>5. QED
    BY <2>1, <2>2, <2>3, <2>4, SendKeepsFresh
<1>5. ASSUME Dispose PROVE FreshInv'
  <2>1. ResetsInboxes
    BY <1>5, KillResets DEF Dispose, TerminateWorker, Terminated
  <2>2. KeepsPosted
    BY <1>5 DEF Dispose, SettlePending, KeepsPosted, Unposted, defVars
  <2>3. QED
    BY <2>1, <2>2, ResetKeepsFresh
<1>6. ASSUME NEW k \in Caps, CapabilitySettles(k) PROVE FreshInv'
  <2>1. UNCHANGED <<table, virtualModules, thread, code, call, on, want>>
    BY <1>6 DEF CapabilitySettles, callVars, defVars
  <2>2. CASE inbox' = inbox
    <3>1. ResetsInboxes /\ KeepsPosted
      BY <2>1, <2>2 DEF ResetsInboxes, KeepsPosted
    <3>2. QED
      BY <3>1, ResetKeepsFresh
  <2>3. CASE inbox' = Send(inbox, worker, Msg("capabilityResult", k))
    <3> DEFINE m == Msg("capabilityResult", k)
    <3>1. m \in HostMsg /\ ~Sets(m) /\ \A c \in Evals : m # Msg("evaluate", c)
      BY DEF Msg, HostMsg, Sets
    <3>2. inbox' = Send(inbox, worker, m) /\ virtualModules <= virtualModules'
      BY <2>1, <2>3 DEF TypeOK
    <3> HIDE DEF m
    <3>3. QED
      BY <2>1, <3>1, <3>2, SendKeepsFresh
  <2>4. QED
    BY <1>6, <2>2, <2>3 DEF CapabilitySettles
<1>7. QED
  BY <1>1, <1>2, <1>3, <1>4, <1>5, <1>6

\* What the host receives.
LEMMA ReceivesKeepFresh ==
  ASSUME IInv, TypeOK', FreshInv, NEW g \in Gens, HostReceives(g)
  PROVE  FreshInv'
<1> USE DEF IInv
<1>1. CASE Configured(g)
  <2>1. UNCHANGED <<table, virtualModules, thread, code>>
    BY <1>1 DEF Configured, defVars
  <2>2. CASE UNCHANGED <<call, on, timer, want, inbox>>
    <3>1. ResetsInboxes /\ KeepsPosted
      BY <2>1, <2>2 DEF ResetsInboxes, KeepsPosted
    <3>2. QED
      BY <3>1, ResetKeepsFresh
  <2>3. ASSUME NEW c \in Restarting(g), PostEvaluate(c, -1) PROVE FreshInv'
    <3>1. c \in Evals /\ call[c] \in Unposted
      BY DEF Restarting, Unposted
    <3>2. QED
      BY <2>1, <2>3, <3>1, PostKeepsFresh
  <2>4. QED
    BY <1>1, <2>2, <2>3 DEF Configured
<1>2. CASE ConfigureFailed(g)
  BY <1>2, RejectKeepsFresh DEF ConfigureFailed, defVars
<1>3. CASE NobodyListens(g) \/ ModuleDefined(g) \/ Result(g) \/ CapabilityCall(g)
  <2>1. UNCHANGED <<table, virtualModules, want, on, code, thread, inbox>>
    BY <1>3 DEF NobodyListens, ModuleDefined, Result, CapabilityCall, SettlePending, callVars, defVars
  <2>2. \A c \in Evals : call'[c] = call[c] \/ call'[c] = "resolved"
    BY <1>3 DEF NobodyListens, ModuleDefined, Result, CapabilityCall, SettlePending, callVars
  <2>3. ResetsInboxes /\ KeepsPosted
    BY <2>1, <2>2 DEF ResetsInboxes, KeepsPosted, Unposted
  <2>4. QED
    BY <2>3, ResetKeepsFresh
<1>4. CASE WorkerError(g)
  BY <1>4, OnErrorKeepsFresh DEF WorkerError, defVars
<1>5. CASE WorkerExit(g)
  <2>1. UNCHANGED <<virtualModules, table, code>>
    BY <1>5 DEF WorkerExit, defVars
  <2>2. CASE OnError
    BY <2>1, <2>2, OnErrorKeepsFresh
  <2>3. CASE UNCHANGED <<callVars, thread, inbox>>
    <3>1. ResetsInboxes /\ KeepsPosted
      BY <2>1, <2>3 DEF ResetsInboxes, KeepsPosted, callVars
    <3>2. QED
      BY <3>1, ResetKeepsFresh
  <2>4. QED
    BY <1>5, <2>2, <2>3 DEF WorkerExit
<1>6. QED
  BY <1>1, <1>2, <1>3, <1>4, <1>5 DEF HostReceives

\* What a Worker does.
LEMMA RunsKeepFresh ==
  ASSUME TypeOK, TypeOK', FreshInv, NEW g \in Gens, WorkerRuns(g)
  PROVE  FreshInv'
<1>1. UNCHANGED <<virtualModules, call, on, want>>
  BY DEF WorkerRuns, RunConfigure, RunDefineModule, RunEvaluate, RunCapabilityResult,
         Crashes, ClosesItself, CodeEnds, CodeCallsHost, callVars, defVars
<1>2. CASE RunConfigure(g) \/ RunDefineModule(g)
  <2>1. /\ Head(inbox[g]).type \in {"configure", "defineModule"} /\ inbox[g] # <<>>
        /\ inbox' = [inbox EXCEPT ![g] = Tail(@)]
        /\ table' = [table EXCEPT ![g] = Head(inbox[g]).arg]
        /\ UNCHANGED <<thread, code>>
    BY <1>2 DEF RunConfigure, RunDefineModule, Takes
  <2>2. Sets(Head(inbox[g]))
    BY <2>1 DEF Sets
  <2>3. QED
    BY <1>1, <2>1, <2>2, TakeKeepsFresh
<1>3. CASE RunEvaluate(g)
  <2>1. /\ Head(inbox[g]).type = "evaluate" /\ inbox[g] # <<>>
        /\ inbox' = [inbox EXCEPT ![g] = Tail(@)]
        /\ code' = [code EXCEPT ![Head(inbox[g]).arg] = "running"]
        /\ UNCHANGED <<thread, table>>
    BY <1>3 DEF RunEvaluate, Takes
  <2>2. ~Sets(Head(inbox[g]))
    BY <2>1 DEF Sets
  <2>3. Head(inbox[g]) = Msg("evaluate", Head(inbox[g]).arg)
    <3>1. Head(inbox[g]) \in HostMsg
      BY <1>3, TakesTyped DEF RunEvaluate
    <3>2. QED
      BY <2>1, <3>1, HostMsgTyped
  <2>4. \A c \in Evals : code'[c] = code[c] \/ Head(inbox[g]) = Msg("evaluate", c)
    <3>1. \A c \in Evals : c # Head(inbox[g]).arg => code'[c] = code[c]
      <4>1. code \in [Evals -> {"none", "running", "finished"}]
        BY DEF TypeOK
      <4>2. QED
        BY <2>1, <4>1
    <3>2. QED
      BY <2>3, <3>1
  <2>5. QED
    BY <1>1, <2>1, <2>2, <2>4, TakeKeepsFresh
<1>4. CASE RunCapabilityResult(g)
  <2>1. /\ Head(inbox[g]).type = "capabilityResult" /\ inbox[g] # <<>>
        /\ inbox' = [inbox EXCEPT ![g] = Tail(@)]
        /\ UNCHANGED <<thread, table, code>>
    BY <1>4 DEF RunCapabilityResult, Takes
  <2>2. ~Sets(Head(inbox[g]))
    BY <2>1 DEF Sets
  <2>3. QED
    BY <1>1, <2>1, <2>2, TakeKeepsFresh
<1>5. CASE \/ Crashes(g) \/ ClosesItself(g)
           \/ \E c \in Evals : CodeEnds(g, c)
           \/ \E k \in Caps : CodeCallsHost(g, k)
  <2>1. ResetsInboxes
    <3>1. \/ UNCHANGED <<thread, inbox>>
          \/ /\ thread' = [thread EXCEPT ![g] = "gone"]
             /\ inbox' = [inbox EXCEPT ![g] = <<>>]
      BY <1>5 DEF Crashes, ClosesItself, CodeEnds, CodeCallsHost
    <3>2. DOMAIN thread = Gens /\ DOMAIN inbox = Gens
      BY DEF TypeOK
    <3>3. QED
      BY <3>1, <3>2 DEF ResetsInboxes
  <2>2. KeepsPosted
    <3>1. \/ UNCHANGED code
          \/ \E c \in Evals : code[c] = "running" /\ code' = [code EXCEPT ![c] = "finished"]
      BY <1>5 DEF Crashes, ClosesItself, CodeEnds, CodeCallsHost
    <3>2. DOMAIN code = Evals /\ UNCHANGED table
      BY <1>5 DEF TypeOK, Crashes, ClosesItself, CodeEnds, CodeCallsHost
    <3>3. QED
      BY <1>1, <3>1, <3>2 DEF KeepsPosted
  <2>3. QED
    BY <2>1, <2>2, ResetKeepsFresh
<1>6. QED
  BY <1>2, <1>3, <1>4, <1>5 DEF WorkerRuns

LEMMA NextFresh == IInv /\ FreshInv /\ TypeOK' /\ [Next]_vars => FreshInv'
<1> SUFFICES ASSUME IInv, FreshInv, TypeOK', [Next]_vars PROVE FreshInv'
  OBVIOUS
<1>1. TypeOK
  BY DEF IInv
<1>2. CASE UNCHANGED vars
  <2>1. ResetsInboxes /\ KeepsPosted
    BY <1>2 DEF vars, callVars, defVars, threadVars, ResetsInboxes, KeepsPosted
  <2>2. QED
    BY <1>1, <2>1, ResetKeepsFresh
<1>3. CASE Next
  BY <1>1, <1>3, CallsKeepFresh, ReceivesKeepFresh, RunsKeepFresh DEF Next
<1>4. QED
  BY <1>2, <1>3

\* Code sees the virtual modules that were defined before its call was made,
\* whatever was terminated, restarted and configured between the two.
THEOREM LifecycleModulesAreFresh == Spec => []ModulesAreFresh
<1>1. IInv => TypeOK
  BY DEF IInv
<1>2. FreshInv => ModulesAreFresh
  BY DEF FreshInv
<1>3. QED
  BY <1>1, <1>2, InitFresh, NextFresh, Invariance, PTL DEF Spec

-----------------------------------------------------------------------------
(* Capability calls of a browser sandbox.  A terminated browser Worker is  *)
(* heard no more, so a call is bound to the Worker that made it.  On Node  *)
(* the ports are drained and this is not so: BoundToCaller is refuted.     *)

Holds(box, m) == \E i \in DOMAIN box : box[i] = m

\* Nothing is on its way from a Worker that is not the current one.
OnlyCurrentIsHeard == \A g \in Gens : g # worker => outbox[g] = <<>>

\* A capability call comes from the Worker whose code made it, a result goes
\* back there.
CallsOfSender ==
  \A g \in Gens : \A k \in Caps :
    /\ Holds(outbox[g], Msg("capabilityCall", k)) => capFrom[k] = g /\ cap[k] # "idle"
    /\ Holds(inbox[g], Msg("capabilityResult", k)) => capFrom[k] = g /\ cap[k] # "idle"

CapInv == OnlyCurrentIsHeard /\ CallsOfSender /\ BoundToCaller

\* No message of a capability appears.
NoNewCapMail ==
  \A g \in Gens : \A k \in Caps :
    /\ Holds(outbox'[g], Msg("capabilityCall", k)) => Holds(outbox[g], Msg("capabilityCall", k))
    /\ Holds(inbox'[g], Msg("capabilityResult", k)) => Holds(inbox[g], Msg("capabilityResult", k))

\* Only the current Worker's messages change, and it is replaced only when
\* they are discarded.
HearsCurrent ==
  /\ \A g \in Gens \ {worker} : outbox'[g] = outbox[g]
  /\ worker' = worker \/ \A g \in Gens : g = worker => outbox'[g] = <<>>

\* What is in a queue.
LEMMA HoldsTail ==
  ASSUME NEW M, NEW box \in Seq(M), box # <<>>
  PROVE  Holds(box, Head(box)) /\ \A m : Holds(Tail(box), m) => Holds(box, m)
<1>1. /\ 1 \in DOMAIN box /\ Head(box) = box[1]
      /\ \A i \in DOMAIN Tail(box) : i + 1 \in DOMAIN box /\ Tail(box)[i] = box[i + 1]
  OBVIOUS
<1>2. QED
  BY <1>1 DEF Holds

LEMMA HoldsSent ==
  ASSUME NEW box \in Seq(HostMsg), NEW x \in HostMsg, NEW m, Holds(Append(box, x), m)
  PROVE  Holds(box, m) \/ m = x
<1>1. \A i \in DOMAIN Append(box, x) :
        (i \in DOMAIN box /\ Append(box, x)[i] = box[i]) \/ Append(box, x)[i] = x
  OBVIOUS
<1>2. QED
  BY <1>1 DEF Holds

LEMMA HoldsPosted ==
  ASSUME NEW box \in Seq(WorkerMsg), NEW x \in WorkerMsg, NEW m, Holds(box \o <<x>>, m)
  PROVE  Holds(box, m) \/ m = x
<1>1. \A i \in DOMAIN (box \o <<x>>) :
        (i \in DOMAIN box /\ (box \o <<x>>)[i] = box[i]) \/ (box \o <<x>>)[i] = x
  OBVIOUS
<1>2. QED
  BY <1>1 DEF Holds

LEMMA HeldTyped ==
  ASSUME NEW m \in HostMsg, m.type = "capabilityResult"
  PROVE  m.arg \in Caps /\ m = Msg("capabilityResult", m.arg)
BY DEF HostMsg, Msg

LEMMA CalledTyped ==
  ASSUME NEW m \in WorkerMsg, m.type = "capabilityCall"
  PROVE  m.arg \in Caps /\ m = Msg("capabilityCall", m.arg)
BY DEF WorkerMsg, Msg

\* Steps that leave the capabilities and their messages alone.
LEMMA CapQuietKeeps ==
  ASSUME CapInv, UNCHANGED capVars, NoNewCapMail, HearsCurrent
  PROVE  CapInv'
<1>1. OnlyCurrentIsHeard'
  BY DEF CapInv, OnlyCurrentIsHeard, HearsCurrent
<1>2. CallsOfSender' /\ BoundToCaller'
  BY DEF CapInv, CallsOfSender, BoundToCaller, NoNewCapMail, capVars
<1>3. QED
  BY <1>1, <1>2 DEF CapInv

\* Inboxes that are emptied, or start with the modules, or get a message of
\* another kind.
LEMMA InboxQuiet ==
  ASSUME TypeOK, NEW w,
         \/ ResetsInboxes
         \/ \E m \in HostMsg : m.type # "capabilityResult" /\ inbox' = Send(inbox, w, m)
         \/ \E g \in Gens : inbox[g] # <<>> /\ inbox' = [inbox EXCEPT ![g] = Tail(@)],
         NEW g \in Gens, NEW k \in Caps, Holds(inbox'[g], Msg("capabilityResult", k))
  PROVE  Holds(inbox[g], Msg("capabilityResult", k))
<1>1. inbox[g] \in Seq(HostMsg)
  BY DEF TypeOK
<1>2. CASE ResetsInboxes
  <2>1. inbox'[g] \in {inbox[g], <<>>, <<Msg("configure", virtualModules)>>}
    BY <1>2 DEF ResetsInboxes
  <2>2. QED
    BY <2>1 DEF Holds, Msg
<1>3. ASSUME NEW m \in HostMsg, m.type # "capabilityResult", inbox' = Send(inbox, w, m)
      PROVE  Holds(inbox[g], Msg("capabilityResult", k))
  <2>1. inbox'[g] = inbox[g] \/ inbox'[g] = Append(inbox[g], m)
    BY <1>3 DEF Send, TypeOK
  <2>2. m # Msg("capabilityResult", k)
    BY <1>3 DEF Msg
  <2>3. CASE inbox'[g] = Append(inbox[g], m)
    <3>1. Holds(Append(inbox[g], m), Msg("capabilityResult", k))
      BY <2>3
    <3>2. QED
      BY <1>1, <2>2, <3>1, HoldsSent
  <2>4. QED
    BY <2>1, <2>3
<1>4. ASSUME NEW h \in Gens, inbox[h] # <<>>, inbox' = [inbox EXCEPT ![h] = Tail(@)]
      PROVE  Holds(inbox[g], Msg("capabilityResult", k))
  <2>1. inbox'[g] = inbox[g] \/ (inbox[g] # <<>> /\ inbox'[g] = Tail(inbox[g]))
    BY <1>4 DEF TypeOK
  <2>2. QED
    BY <1>1, <2>1, HoldsTail
<1>5. QED
  BY <1>2, <1>3, <1>4

\* Messages that are discarded, taken by the host, or of another kind.
LEMMA OutboxQuiet ==
  ASSUME TypeOK,
         \/ UNCHANGED outbox
         \/ outbox' = Kill(outbox, <<>>)
         \/ \E g \in Gens : outbox[g] # <<>> /\ outbox' = Taken(g)
         \/ \E g \in Gens : \E m \in WorkerMsg :
              m.type # "capabilityCall" /\ Posts(g, <<m>>),
         NEW g \in Gens, NEW k \in Caps, Holds(outbox'[g], Msg("capabilityCall", k))
  PROVE  Holds(outbox[g], Msg("capabilityCall", k))
<1>1. outbox[g] \in Seq(WorkerMsg)
  BY DEF TypeOK
<1>2. CASE UNCHANGED outbox \/ outbox' = Kill(outbox, <<>>)
  BY <1>2 DEF Kill, Holds
<1>3. ASSUME NEW h \in Gens, outbox[h] # <<>>, outbox' = Taken(h)
      PROVE  Holds(outbox[g], Msg("capabilityCall", k))
  <2>1. outbox'[g] = outbox[g] \/ (outbox[g] # <<>> /\ outbox'[g] = Tail(outbox[g]))
    BY <1>3 DEF TypeOK, Taken
  <2>2. QED
    BY <1>1, <2>1, HoldsTail
<1>4. ASSUME NEW h \in Gens, NEW m \in WorkerMsg, m.type # "capabilityCall", Posts(h, <<m>>)
      PROVE  Holds(outbox[g], Msg("capabilityCall", k))
  <2>1. outbox'[g] = outbox[g] \/ outbox'[g] = outbox[g] \o <<m>>
    BY <1>4 DEF TypeOK, Posts
  <2>2. m # Msg("capabilityCall", k)
    BY <1>4 DEF Msg
  <2>3. CASE outbox'[g] = outbox[g] \o <<m>>
    <3>1. Holds(outbox[g] \o <<m>>, Msg("capabilityCall", k))
      BY <2>3
    <3>2. QED
      BY <1>1, <2>2, <3>1, HoldsPosted
  <2>4. QED
    BY <2>1, <2>3
<1>5. QED
  BY <1>2, <1>3, <1>4

\* A message comes from the current Worker.
LEMMA HeardFromCurrent ==
  ASSUME CapInv, NEW g \in Gens, outbox[g] # <<>>
  PROVE  g = worker
BY DEF CapInv, OnlyCurrentIsHeard

LEMMA InitCap == Init => CapInv
BY DEF Init, CapInv, OnlyCurrentIsHeard, CallsOfSender, BoundToCaller, Holds, Msg

\* evaluate() posts to the Worker or posts nothing.
LEMMA PostsNoCap ==
  ASSUME TypeOK, NEW c \in Evals, NEW n, PostEvaluate(c, n), UNCHANGED thread
  PROVE  ResetsInboxes \/ \E m \in HostMsg : m.type # "capabilityResult" /\ inbox' = Send(inbox, worker, m)
<1>1. CASE inbox' = inbox
  BY <1>1 DEF ResetsInboxes
<1>2. CASE inbox' = Send(inbox, worker, Msg("evaluate", c))
  <2>1. Msg("evaluate", c) \in HostMsg /\ Msg("evaluate", c).type = "evaluate"
    BY MsgTyped DEF Msg
  <2>2. QED
    BY <1>2, <2>1
<1>3. QED
  BY <1>1, <1>2 DEF PostEvaluate

\* The host's calls.
LEMMA CallsKeepCap ==
  ASSUME ~Node, TypeOK, CapInv,
         \/ \E c \in Evals : Evaluate(c) \/ Timeout(c) \/ Abort(c)
         \/ \E d \in Defs : DefineModule(d)
         \/ Dispose
  PROVE  CapInv'
<1>1. UNCHANGED capVars
  BY DEF Evaluate, Timeout, Abort, DefineModule, Dispose
<1>2. \/ outbox' = Kill(outbox, <<>>)
      \/ outbox' = outbox /\ worker' = worker
  BY DEF Evaluate, Timeout, Abort, DefineModule, Dispose, RestartWorker, ReplaceWorker,
         TerminateWorker, KilledOutbox, sandboxVars, threadVars
<1>3. HearsCurrent
  BY <1>2 DEF HearsCurrent, Kill
<1>4. ResetsInboxes \/ \E m \in HostMsg : m.type # "capabilityResult" /\ inbox' = Send(inbox, worker, m)
  <2>1. ASSUME NEW c \in Evals, Evaluate(c) \/ Timeout(c) \/ Abort(c)
        PROVE  \/ ResetsInboxes
               \/ \E m \in HostMsg : m.type # "capabilityResult" /\ inbox' = Send(inbox, worker, m)
    <3>1. CASE UNCHANGED <<inbox, thread>>
      BY <3>1 DEF ResetsInboxes
    <3>2. CASE RestartWorker(0) \/ RestartWorker(-1)
      BY <3>2, RestartResets
    <3>3. CASE PostEvaluate(c, 0) /\ UNCHANGED thread
      BY <3>3, PostsNoCap
    <3>4. QED
      BY <2>1, <3>1, <3>2, <3>3 DEF Evaluate, Timeout, Abort, threadVars
  <2>2. ASSUME NEW d \in Defs, DefineModule(d)
        PROVE  \/ ResetsInboxes
               \/ \E m \in HostMsg : m.type # "capabilityResult" /\ inbox' = Send(inbox, worker, m)
    <3>1. Msg("defineModule", virtualModules') \in HostMsg
      BY <2>2, MsgTyped DEF DefineModule, TypeOK
    <3>2. Msg("defineModule", virtualModules').type = "defineModule"
      BY DEF Msg
    <3>3. QED
      BY <2>2, <3>1, <3>2 DEF DefineModule, ResetsInboxes
  <2>3. CASE Dispose
    BY <2>3, KillResets DEF Dispose, TerminateWorker, Terminated
  <2>4. QED
    BY <2>1, <2>2, <2>3
<1>5. NoNewCapMail
  BY <1>2, <1>4, InboxQuiet, OutboxQuiet DEF NoNewCapMail
<1>6. QED
  BY <1>1, <1>3, <1>5, CapQuietKeeps

\* A host function settles: its answer goes to the caller.
LEMMA SettlesKeepCap ==
  ASSUME TypeOK, CapInv, NEW k \in Caps, CapabilitySettles(k)
  PROVE  CapInv'
<1>1. UNCHANGED <<worker, outbox, thread, capFrom, capTo>> /\ cap[k] = "running"
  BY DEF CapabilitySettles, sandboxVars
<1>2. /\ cap'[k] \in {"replied", "dropped"}
      /\ \A x \in Caps \ {k} : cap'[x] = cap[x]
  BY DEF CapabilitySettles, TypeOK
<1>3. ASSUME NEW g \in Gens, NEW x \in Caps, Holds(inbox'[g], Msg("capabilityResult", x))
      PROVE  capFrom[x] = g /\ cap[x] # "idle"
  <2>1. CASE Holds(inbox[g], Msg("capabilityResult", x))
    BY <2>1 DEF CapInv, CallsOfSender
  <2>2. CASE x = k /\ g = worker /\ capTo[k] = worker
    BY <1>1, <2>2 DEF CapInv, BoundToCaller
  <2>3. \/ inbox'[g] = inbox[g]
        \/ /\ g = worker /\ capTo[k] = worker
           /\ inbox'[g] = Append(inbox[g], Msg("capabilityResult", k))
    BY DEF CapabilitySettles, CallerIsCurrent, Send, TypeOK
  <2>4. inbox[g] \in Seq(HostMsg) /\ Msg("capabilityResult", k) \in HostMsg
    BY MsgTyped DEF TypeOK
  <2>5. Msg("capabilityResult", x) = Msg("capabilityResult", k) => x = k
    BY DEF Msg
  <2>6. CASE inbox'[g] = inbox[g]
    BY <1>3, <2>1, <2>6
  <2>7. CASE /\ g = worker /\ capTo[k] = worker
             /\ inbox'[g] = Append(inbox[g], Msg("capabilityResult", k))
    <3>1. Holds(Append(inbox[g], Msg("capabilityResult", k)), Msg("capabilityResult", x))
      BY <1>3, <2>7
    <3>2. Holds(inbox[g], Msg("capabilityResult", x)) \/ x = k
      BY <2>4, <2>5, <3>1, HoldsSent
    <3>3. QED
      BY <2>1, <2>2, <2>7, <3>2
  <2>8. QED
    BY <2>3, <2>6, <2>7
<1>4. CallsOfSender'
  BY <1>1, <1>2, <1>3 DEF CapInv, CallsOfSender
<1>5. OnlyCurrentIsHeard' /\ BoundToCaller'
  BY <1>1, <1>2 DEF CapInv, OnlyCurrentIsHeard, BoundToCaller
<1>6. QED
  BY <1>4, <1>5 DEF CapInv

\* The host receives a call: the Worker it is bound to is the one that made it.
LEMMA CallKeepsCap ==
  ASSUME TypeOK, CapInv, NEW g \in Gens, CapabilityCall(g)
  PROVE  CapInv'
<1> DEFINE k == Head(outbox[g]).arg
<1>1. outbox[g] # <<>> /\ Head(outbox[g]).type = "capabilityCall" /\ outbox' = Taken(g)
  BY DEF CapabilityCall, Arrives
<1>2. k \in Caps /\ Head(outbox[g]) = Msg("capabilityCall", k)
  BY <1>1, TakenTyped, CalledTyped
<1>3. Holds(outbox[g], Msg("capabilityCall", k))
  <2>1. outbox[g] \in Seq(WorkerMsg)
    BY DEF TypeOK
  <2>2. QED
    BY <1>1, <1>2, <2>1, HoldsTail
<1>4. g = worker /\ capFrom[k] = worker
  BY <1>1, <1>2, <1>3, HeardFromCurrent DEF CapInv, CallsOfSender
<1>5. /\ cap' = [cap EXCEPT ![k] = IF worker = None THEN "dropped" ELSE "running"]
      /\ capTo' = [capTo EXCEPT ![k] = worker]
      /\ UNCHANGED <<worker, capFrom, thread, inbox>>
  BY DEF CapabilityCall, sandboxVars
<1> HIDE DEF k
<1>6. /\ cap'[k] # "idle" /\ capTo'[k] = worker
      /\ \A x \in Caps \ {k} : cap'[x] = cap[x] /\ capTo'[x] = capTo[x]
  BY <1>2, <1>5 DEF TypeOK
<1>7. NoNewCapMail
  <2>1. inbox' = inbox
    BY <1>5
  <2>2. \A h \in Gens : \A x \in Caps :
          Holds(outbox'[h], Msg("capabilityCall", x)) => Holds(outbox[h], Msg("capabilityCall", x))
    BY <1>1, OutboxQuiet
  <2>3. QED
    BY <2>1, <2>2 DEF NoNewCapMail
<1>8. CallsOfSender'
  BY <1>5, <1>6, <1>7 DEF CapInv, CallsOfSender, NoNewCapMail
<1>9. OnlyCurrentIsHeard'
  BY <1>1, <1>4, <1>5 DEF CapInv, OnlyCurrentIsHeard, Taken, TypeOK
<1>10. BoundToCaller'
  BY <1>4, <1>5, <1>6 DEF CapInv, BoundToCaller
<1>11. QED
  BY <1>8, <1>9, <1>10 DEF CapInv

\* Everything else the host receives.
LEMMA ReceivesKeepCap ==
  ASSUME ~Node, TypeOK, CapInv, NEW g \in Gens, HostReceives(g)
  PROVE  CapInv'
<1>1. CASE CapabilityCall(g)
  BY <1>1, CallKeepsCap
<1>2. CASE ~CapabilityCall(g)
  <2>1. UNCHANGED capVars /\ outbox[g] # <<>> /\ g = worker
    BY <1>2, HeardFromCurrent
       DEF HostReceives, Configured, ConfigureFailed, NobodyListens, ModuleDefined, Result,
           WorkerError, WorkerExit, Arrives
  <2>2. /\ outbox' = Taken(g) \/ outbox' = Kill(outbox, <<>>)
        /\ worker' = worker \/ (created = "starting" /\ outbox' = TakenOrKilled(g))
    BY <1>2
       DEF HostReceives, Configured, ConfigureFailed, NobodyListens, ModuleDefined, Result,
           WorkerError, WorkerExit, OnError, RejectConfigure, TakenOrKilled, sandboxVars
  <2>3. HearsCurrent
    BY <2>1, <2>2 DEF HearsCurrent, Taken, TakenOrKilled, Kill, TypeOK
  <2>4. ResetsInboxes \/ \E m \in HostMsg : m.type # "capabilityResult" /\ inbox' = Send(inbox, worker, m)
    <3>1. CASE UNCHANGED <<inbox, thread>>
      BY <3>1 DEF ResetsInboxes
    <3>2. CASE inbox' = Kill(inbox, <<>>) /\ thread' = Kill(thread, "terminated")
      BY <3>2, KillResets
    <3>3. CASE \E c \in Evals : PostEvaluate(c, -1) /\ UNCHANGED thread
      BY <3>3, PostsNoCap
    <3>4. QED
      BY <1>2, <3>1, <3>2, <3>3
         DEF HostReceives, Configured, Restarting, ConfigureFailed, NobodyListens, ModuleDefined,
             Result, WorkerError, WorkerExit, OnError, RejectConfigure
  <2>5. NoNewCapMail
    BY <2>1, <2>2, <2>4, InboxQuiet, OutboxQuiet DEF NoNewCapMail
  <2>6. QED
    BY <2>1, <2>3, <2>5, CapQuietKeeps
<1>3. QED
  BY <1>1, <1>2

\* What a Worker does.
LEMMA RunsKeepCap ==
  ASSUME ~Node, TypeOK, OnlyWorkerLives, CapInv, NEW g \in Gens, WorkerRuns(g)
  PROVE  CapInv'
<1>1. g = worker /\ thread[g] = "up" /\ worker' = worker
  BY DEF WorkerRuns, RunConfigure, RunDefineModule, RunEvaluate, RunCapabilityResult, Takes,
         Crashes, ClosesItself, CodeEnds, CodeCallsHost, OnlyWorkerLives, sandboxVars
<1>2. ASSUME UNCHANGED outbox \/ \E msgs : Posts(g, msgs) PROVE HearsCurrent
  BY <1>1, <1>2 DEF HearsCurrent, Posts, TypeOK
<1>3. CASE \/ RunConfigure(g) \/ RunDefineModule(g) \/ RunEvaluate(g)
           \/ Crashes(g) \/ ClosesItself(g) \/ \E c \in Evals : CodeEnds(g, c)
  <2>1. UNCHANGED capVars
    BY <1>3 DEF RunConfigure, RunDefineModule, RunEvaluate, Crashes, ClosesItself, CodeEnds
  <2>2. UNCHANGED outbox \/ \E m \in WorkerMsg : m.type # "capabilityCall" /\ Posts(g, <<m>>)
    <3>1. \/ UNCHANGED outbox
          \/ \E t \in {"configured", "configureFailed", "moduleDefined", "error", "exit0", "exit1"} :
               Posts(g, <<Msg(t, None)>>)
          \/ \E c \in Evals : Posts(g, <<Msg("result", c)>>)
      <4>1. <<Msg("error", None)>> \o <<>> = <<Msg("error", None)>>
        OBVIOUS
      <4>2. QED
        BY <1>3, <4>1 DEF RunConfigure, RunDefineModule, RunEvaluate, Crashes, ClosesItself, CodeEnds
    <3>2. \A t, a : Msg(t, a).type = t
      BY DEF Msg
    <3>3. /\ \A t \in {"configured", "configureFailed", "moduleDefined", "error", "exit0", "exit1"} :
               Msg(t, None) \in WorkerMsg /\ Msg(t, None).type # "capabilityCall"
          /\ \A c \in Evals : Msg("result", c) \in WorkerMsg /\ Msg("result", c).type # "capabilityCall"
      BY <3>2, MsgTyped
    <3>4. QED
      BY <3>1, <3>3
  <2>3. \/ ResetsInboxes
        \/ \E h \in Gens : inbox[h] # <<>> /\ inbox' = [inbox EXCEPT ![h] = Tail(@)]
    <3>1. \/ UNCHANGED <<thread, inbox>>
          \/ thread' = [thread EXCEPT ![g] = "gone"] /\ inbox' = [inbox EXCEPT ![g] = <<>>]
          \/ inbox[g] # <<>> /\ inbox' = [inbox EXCEPT ![g] = Tail(@)]
      BY <1>3 DEF RunConfigure, RunDefineModule, RunEvaluate, Takes, Crashes, ClosesItself, CodeEnds
    <3>2. DOMAIN thread = Gens /\ DOMAIN inbox = Gens
      BY DEF TypeOK
    <3>3. QED
      BY <3>1, <3>2 DEF ResetsInboxes
  <2>4. NoNewCapMail
    BY <2>2, <2>3, InboxQuiet, OutboxQuiet DEF NoNewCapMail
  <2>5. QED
    BY <1>2, <2>1, <2>2, <2>4, CapQuietKeeps
<1>4. CASE RunCapabilityResult(g)
  <2>1. /\ inbox[g] # <<>> /\ Head(inbox[g]).type = "capabilityResult"
        /\ inbox' = [inbox EXCEPT ![g] = Tail(@)]
        /\ UNCHANGED <<capFrom, capTo, outbox, thread>>
    BY <1>4 DEF RunCapabilityResult, Takes
  <2>2. \A k \in Caps : cap'[k] = cap[k] \/ cap'[k] \in {"answered", "dropped"}
    BY <1>4 DEF RunCapabilityResult, TypeOK
  <2>3. NoNewCapMail
    BY <2>1, InboxQuiet DEF NoNewCapMail
  <2>4. CallsOfSender'
    BY <2>1, <2>2, <2>3 DEF CapInv, CallsOfSender, NoNewCapMail
  <2>5. OnlyCurrentIsHeard' /\ BoundToCaller'
    BY <1>1, <2>1, <2>2 DEF CapInv, OnlyCurrentIsHeard, BoundToCaller
  <2>6. QED
    BY <2>4, <2>5 DEF CapInv
<1>5. ASSUME NEW k \in Caps, CodeCallsHost(g, k) PROVE CapInv'
  <2> DEFINE m == Msg("capabilityCall", k)
  <2>1. /\ cap[k] = "idle" /\ cap' = [cap EXCEPT ![k] = "sent"]
        /\ capFrom' = [capFrom EXCEPT ![k] = g] /\ Posts(g, <<m>>)
        /\ UNCHANGED <<capTo, inbox, thread>>
    BY <1>5 DEF CodeCallsHost
  <2>2. /\ cap'[k] = "sent" /\ capFrom'[k] = g
        /\ \A x \in Caps \ {k} : cap'[x] = cap[x] /\ capFrom'[x] = capFrom[x]
    BY <2>1 DEF TypeOK
  <2>3. ASSUME NEW h \in Gens, NEW x \in Caps, Holds(outbox'[h], Msg("capabilityCall", x))
        PROVE  capFrom'[x] = h /\ cap'[x] # "idle"
    <3>1. outbox[h] \in Seq(WorkerMsg) /\ m \in WorkerMsg
      BY MsgTyped DEF TypeOK
    <3>2. outbox'[h] = outbox[h] \/ (h = g /\ outbox'[h] = outbox[h] \o <<m>>)
      BY <2>1 DEF Posts, TypeOK
    <3>3. Msg("capabilityCall", x) = m => x = k
      BY DEF Msg
    <3> HIDE DEF m
    <3>4. CASE Holds(outbox[h], Msg("capabilityCall", x))
      BY <2>1, <2>2, <3>4 DEF CapInv, CallsOfSender
    <3>5. CASE x = k /\ h = g
      BY <2>2, <3>5
    <3>6. CASE h = g /\ outbox'[h] = outbox[h] \o <<m>>
      <4>1. Holds(outbox[h] \o <<m>>, Msg("capabilityCall", x))
        BY <2>3, <3>6
      <4>2. Holds(outbox[h], Msg("capabilityCall", x)) \/ x = k
        BY <3>1, <3>3, <4>1, HoldsPosted
      <4>3. QED
        BY <3>4, <3>5, <3>6, <4>2
    <3>7. QED
      BY <2>3, <3>2, <3>4, <3>6
  <2>4. CallsOfSender'
    BY <2>1, <2>2, <2>3 DEF CapInv, CallsOfSender
  <2>5. OnlyCurrentIsHeard' /\ BoundToCaller'
    BY <1>1, <2>1, <2>2 DEF CapInv, OnlyCurrentIsHeard, BoundToCaller, Posts, TypeOK
  <2>6. QED
    BY <2>4, <2>5 DEF CapInv
<1>6. QED
  BY <1>3, <1>4, <1>5 DEF WorkerRuns

LEMMA NextCap ==
  ASSUME ~Node, IInv, CapInv, [Next]_vars
  PROVE  CapInv'
<1>1. TypeOK /\ OnlyWorkerLives
  BY DEF IInv
<1>2. CASE UNCHANGED vars
  <2>1. UNCHANGED <<worker, thread, inbox, outbox>> /\ UNCHANGED capVars
    BY <1>2 DEF vars, sandboxVars, threadVars
  <2>2. NoNewCapMail /\ HearsCurrent
    BY <2>1 DEF NoNewCapMail, HearsCurrent
  <2>3. QED
    BY <2>1, <2>2, CapQuietKeeps
<1>3. CASE Next
  BY <1>1, <1>3, CallsKeepCap, SettlesKeepCap, ReceivesKeepCap, RunsKeepCap DEF Next
<1>4. QED
  BY <1>2, <1>3

\* In a browser a capability result reaches the Worker that made the call,
\* because a call is bound to the Worker that made it.
THEOREM LifecycleReplyGoesToCaller ==
  ASSUME ~Node
  PROVE  Spec => [](ReplyGoesToCaller /\ BoundToCaller)
<1>1. CapInv => BoundToCaller
  BY DEF CapInv
<1>2. TypeOK /\ CapInv => ReplyGoesToCaller
  <2> SUFFICES ASSUME TypeOK, CapInv, NEW g \in Gens, NEW i \in DOMAIN inbox[g],
                      inbox[g][i].type = "capabilityResult"
               PROVE  capFrom[inbox[g][i].arg] = g
    BY DEF ReplyGoesToCaller
  <2>1. inbox[g][i] \in HostMsg
    BY DEF TypeOK
  <2>2. inbox[g][i].arg \in Caps /\ inbox[g][i] = Msg("capabilityResult", inbox[g][i].arg)
    BY <2>1, HeldTyped
  <2>3. QED
    BY <2>2 DEF CapInv, CallsOfSender, Holds
<1>3. IInv => TypeOK
  BY DEF IInv
<1>4. IInv /\ CapInv /\ [Next]_vars => CapInv'
  BY NextCap
<1>5. QED
  BY <1>1, <1>2, <1>3, <1>4, InitCap, Invariance, PTL DEF Spec

-----------------------------------------------------------------------------
(* The operations that hold the event loop.                                *)

Waiting  == {g \in Gens : conf[g] = "waiting"}
Defining == {d \in Defs : def[d] = "waiting"}

\* The startup that an error would reject is one that is waited for.
RejecterWaits == rejectConfigure # None => conf[rejectConfigure] = "waiting"

\* No configure promise is made before its Worker.
NotYetMade == \A g \in Gens : g > gen => conf[g] = "none"

OpsInv == RejecterWaits /\ NotYetMade /\ OpsAccounted

\* How many there are of each kind, before and after a step.
LEMMA FiniteOps ==
  /\ IsFiniteSet(Pending) /\ IsFiniteSet(Waiting) /\ IsFiniteSet(Defining)
  /\ Cardinality(Pending) \in Nat /\ Cardinality(Waiting) \in Nat /\ Cardinality(Defining) \in Nat
<1>1. IsFiniteSet(Gens)
  BY LifecycleAssumption, FS_Interval DEF LifecycleAssumption, Gens
<1>2. IsFiniteSet(Pending) /\ IsFiniteSet(Waiting) /\ IsFiniteSet(Defining)
  <2>1. Pending \subseteq Evals /\ Waiting \subseteq Gens /\ Defining \subseteq Defs
    BY DEF Pending, Waiting, Defining
  <2>2. QED
    BY <1>1, <2>1, LifecycleAssumption, FS_Subset DEF LifecycleAssumption
<1>3. QED
  BY <1>2, FS_CardinalityType

LEMMA Fewer ==
  ASSUME NEW S, IsFiniteSet(S), NEW T \in SUBSET S
  PROVE  Cardinality(S \ T) = Cardinality(S) - Cardinality(T)
<1>1. S \cap T = T
  OBVIOUS
<1>2. QED
  BY <1>1, FS_Difference

\* The operations counted in a step are those that began or ended in it.
LEMMA Counted ==
  ASSUME OpsAccounted, NEW p \in Int, NEW w \in Int, NEW d \in Int, activeOps \in Int,
         activeOps' = activeOps + (p + w + d),
         Cardinality(Pending') = Cardinality(Pending) + p,
         Cardinality(Waiting') = Cardinality(Waiting) + w,
         Cardinality(Defining') = Cardinality(Defining) + d
  PROVE  OpsAccounted'
<1>1. activeOps = Cardinality(Pending) + Cardinality(Waiting) + Cardinality(Defining)
  BY DEF OpsAccounted, Waiting, Defining
<1>2. activeOps' = Cardinality(Pending') + Cardinality(Waiting') + Cardinality(Defining')
  BY <1>1, FiniteOps
<1>3. QED
  BY <1>2 DEF OpsAccounted, Waiting, Defining

\* Calls that end: those of S were pending, those of T were not.
LEMMA PendingEnd ==
  ASSUME NEW S \in SUBSET Pending, NEW T, T \cap Pending = {},
         \A c \in Evals : call'[c] = "pending" <=> call[c] = "pending" /\ c \notin S \cup T
  PROVE  Cardinality(Pending') = Cardinality(Pending) - Cardinality(S) /\ Cardinality(S) \in Nat
<1>1. Pending' = Pending \ S
  BY DEF Pending
<1>2. Cardinality(S) \in Nat
  BY FiniteOps, FS_Subset, FS_CardinalityType
<1>3. QED
  BY <1>1, <1>2, FiniteOps, Fewer

LEMMA PendingEndsOne ==
  ASSUME NEW c \in Evals, call[c] = "pending", call'[c] # "pending",
         \A x \in Evals \ {c} : call'[x] = call[x]
  PROVE  Cardinality(Pending') = Cardinality(Pending) + (-1)
<1>1. Pending' = Pending \ {c} /\ c \in Pending
  BY DEF Pending
<1>2. QED
  BY <1>1, FiniteOps, FS_RemoveElement

LEMMA PendingBegins ==
  ASSUME NEW c \in Evals, call[c] # "pending", call'[c] = "pending",
         \A x \in Evals \ {c} : call'[x] = call[x]
  PROVE  Cardinality(Pending') = Cardinality(Pending) + 1
<1>1. Pending' = Pending \cup {c} /\ c \notin Pending
  BY DEF Pending
<1>2. QED
  BY <1>1, FiniteOps, FS_AddElement

LEMMA PendingSame ==
  ASSUME \A c \in Evals : call'[c] = "pending" <=> call[c] = "pending"
  PROVE  Cardinality(Pending') = Cardinality(Pending) + 0
<1>1. Pending' = Pending
  BY DEF Pending
<1>2. QED
  BY <1>1, FiniteOps

LEMMA WaitingSame ==
  ASSUME UNCHANGED conf
  PROVE  Cardinality(Waiting') = Cardinality(Waiting) + 0
<1>1. Waiting' = Waiting
  BY DEF Waiting
<1>2. QED
  BY <1>1, FiniteOps

LEMMA WaitingEnds ==
  ASSUME TypeOK, NEW g \in Gens, conf[g] = "waiting", NEW v, v # "waiting",
         conf' = [conf EXCEPT ![g] = v]
  PROVE  Cardinality(Waiting') = Cardinality(Waiting) + (-1)
<1>1. Waiting' = Waiting \ {g} /\ g \in Waiting
  BY DEF Waiting, TypeOK
<1>2. QED
  BY <1>1, FiniteOps, FS_RemoveElement

LEMMA DefiningSame ==
  ASSUME UNCHANGED def
  PROVE  Cardinality(Defining') = Cardinality(Defining) + 0
<1>1. Defining' = Defining
  BY DEF Defining
<1>2. QED
  BY <1>1, FiniteOps

\* A restart adds the startup it waits for.
LEMMA RestartCounted ==
  ASSUME TypeOK, NotYetMade, NEW n \in Int, RestartWorker(n), RejecterWaits
  PROVE  /\ \E w \in Int : /\ activeOps' = activeOps + (n + w)
                           /\ Cardinality(Waiting') = Cardinality(Waiting) + w
         /\ RejecterWaits' /\ NotYetMade'
<1>1. CASE ReplaceWorker /\ Account(n + 1, gen + 1)
  <2>1. gen + 1 \in Gens /\ gen' = gen + 1 /\ rejectConfigure' = gen + 1
    BY <1>1, ReplaceTyped DEF ReplaceWorker
  <2>2. \A g \in Gens : conf'[g] = IF g = gen + 1 THEN "waiting" ELSE conf[g]
    BY <1>1, <2>1 DEF ReplaceWorker, TypeOK
  <2>3. gen \in Nat /\ gen + 1 > gen
    BY DEF TypeOK, Gens
  <2>4. Waiting' = Waiting \cup {gen + 1} /\ gen + 1 \notin Waiting
    BY <2>1, <2>2, <2>3 DEF Waiting, NotYetMade
  <2>5. Cardinality(Waiting') = Cardinality(Waiting) + 1
    BY <2>4, FiniteOps, FS_AddElement
  <2>6. activeOps' = activeOps + (n + 1)
    BY <1>1 DEF Account
  <2>7. RejecterWaits'
    BY <2>1, <2>2 DEF RejecterWaits
  <2>8. NotYetMade'
    <3> SUFFICES ASSUME NEW g \in Gens, g > gen + 1 PROVE conf'[g] = "none"
      BY <2>1 DEF NotYetMade
    <3>1. g > gen /\ g # gen + 1
      BY <2>3 DEF Gens
    <3>2. QED
      BY <2>2, <3>1 DEF NotYetMade
  <2>9. QED
    BY <2>5, <2>6, <2>7, <2>8
<1>2. CASE Account(n, None) /\ UNCHANGED <<gen, conf, rejectConfigure>>
  <2>1. activeOps' = activeOps + (n + 0)
    BY <1>2 DEF Account
  <2>2. Cardinality(Waiting') = Cardinality(Waiting) + 0
    BY <1>2, WaitingSame
  <2>3. RejecterWaits' /\ NotYetMade'
    BY <1>2 DEF RejecterWaits, NotYetMade
  <2>4. QED
    BY <2>1, <2>2, <2>3
<1>3. QED
  BY <1>1, <1>2 DEF RestartWorker

\* A call that is posted is one more operation.
LEMMA PostCounted ==
  ASSUME TypeOK, NEW c \in Evals, NEW n \in Int, PostEvaluate(c, n), call[c] # "pending"
  PROVE  \E p \in Int : /\ activeOps' = activeOps + (p + n)
                        /\ Cardinality(Pending') = Cardinality(Pending) + p
<1>1. CASE call' = [call EXCEPT ![c] = "aborted"] /\ Account(n, worker)
  <2>1. Cardinality(Pending') = Cardinality(Pending) + 0
    BY <1>1, PendingSame DEF TypeOK
  <2>2. activeOps' = activeOps + (0 + n)
    BY <1>1 DEF Account
  <2>3. QED
    BY <2>1, <2>2
<1>2. CASE call' = [call EXCEPT ![c] = "pending"] /\ Account(n + 1, worker)
  <2>1. Cardinality(Pending') = Cardinality(Pending) + 1
    BY <1>2, PendingBegins DEF TypeOK
  <2>2. activeOps' = activeOps + (1 + n)
    BY <1>2 DEF Account
  <2>3. QED
    BY <2>1, <2>2
<1>3. QED
  BY <1>1, <1>2 DEF PostEvaluate

\* A rejected startup ends its own operation and those of the calls in S.
LEMMA RejectCounted ==
  ASSUME TypeOK, OpsInv, NEW g \in Gens, conf[g] = "waiting",
         NEW S \in SUBSET Pending, RejectConfigure(g, S), UNCHANGED <<gen, def>>
  PROVE  OpsInv'
<1>1. /\ call' = [c \in Evals |-> IF c \in S \cup Restarting(g) THEN "failed" ELSE call[c]]
      /\ conf' = [conf EXCEPT ![g] = "failed"] /\ rejectConfigure' = None
      /\ \E w : Account(-1 - Ends(S), w)
  BY DEF RejectConfigure, SettlePending
<1>2. Restarting(g) \cap Pending = {}
  BY DEF Restarting, Pending
<1>3. Cardinality(Pending') = Cardinality(Pending) - Cardinality(S) /\ Cardinality(S) \in Nat
  <2>1. \A c \in Evals : call'[c] = "pending" <=> call[c] = "pending" /\ c \notin S \cup Restarting(g)
    BY <1>1
  <2>2. QED
    BY <1>2, <2>1, PendingEnd
<1>4. Cardinality(Pending') = Cardinality(Pending) + (-Cardinality(S))
  BY <1>3, FiniteOps
<1>5. Cardinality(Waiting') = Cardinality(Waiting) + (-1)
  BY <1>1, WaitingEnds
<1>6. Cardinality(Defining') = Cardinality(Defining) + 0
  BY DefiningSame
<1>7. activeOps' = activeOps + ((-Cardinality(S)) + (-1) + 0)
  BY <1>1, <1>3 DEF Account, Ends, TypeOK
<1>8. OpsAccounted'
  BY <1>3, <1>4, <1>5, <1>6, <1>7, Counted DEF OpsInv, TypeOK
<1>9. RejecterWaits'
  BY <1>1 DEF RejecterWaits
<1>10. NotYetMade'
  BY <1>1 DEF OpsInv, NotYetMade, TypeOK
<1>11. QED
  BY <1>8, <1>9, <1>10 DEF OpsInv

LEMMA OnErrorCounted ==
  ASSUME TypeOK, OpsInv, OnError, UNCHANGED <<gen, def>>
  PROVE  OpsInv'
<1>1. CASE rejectConfigure # None /\ RejectConfigure(rejectConfigure, Pending)
  <2>1. rejectConfigure \in Gens /\ conf[rejectConfigure] = "waiting"
    BY <1>1 DEF TypeOK, OpsInv, RejecterWaits
  <2>2. QED
    BY <1>1, <2>1, RejectCounted
<1>2. CASE /\ SettlePending(Pending, "failed") /\ Account(-Ends(Pending), worker)
           /\ UNCHANGED <<conf, rejectConfigure>>
  <2>1. Cardinality(Pending') = Cardinality(Pending) - Cardinality(Pending)
    <3>1. \A c \in Evals : call'[c] = "pending" <=> call[c] = "pending" /\ c \notin Pending \cup {}
      BY <1>2 DEF SettlePending
    <3>2. QED
      BY <3>1, PendingEnd
  <2>2. Cardinality(Pending') = Cardinality(Pending) + (-Cardinality(Pending))
    BY <2>1, FiniteOps
  <2>3. /\ Cardinality(Waiting') = Cardinality(Waiting) + 0
        /\ Cardinality(Defining') = Cardinality(Defining) + 0
    BY <1>2, WaitingSame, DefiningSame
  <2>4. activeOps' = activeOps + ((-Cardinality(Pending)) + 0 + 0)
    BY <1>2, FiniteOps DEF Account, Ends
  <2>5. OpsAccounted'
    BY <2>2, <2>3, <2>4, FiniteOps, Counted DEF OpsInv, TypeOK
  <2>6. QED
    BY <1>2, <2>5 DEF OpsInv, RejecterWaits, NotYetMade
<1>3. QED
  BY <1>1, <1>2 DEF OnError, StartupToReject

\* Steps that begin and end nothing.
LEMMA NothingCounted ==
  ASSUME TypeOK, OpsInv, UNCHANGED <<activeOps, conf, rejectConfigure, gen, def>>,
         \A c \in Evals : call'[c] = "pending" <=> call[c] = "pending"
  PROVE  OpsInv'
<1>1. /\ Cardinality(Pending') = Cardinality(Pending) + 0
      /\ Cardinality(Waiting') = Cardinality(Waiting) + 0
      /\ Cardinality(Defining') = Cardinality(Defining) + 0
  BY PendingSame, WaitingSame, DefiningSame
<1>2. OpsAccounted'
  BY <1>1, Counted DEF OpsInv, TypeOK
<1>3. QED
  BY <1>2 DEF OpsInv, RejecterWaits, NotYetMade

\* Steps that replace the Worker, and settle a pending call or none.
LEMMA KillCounted ==
  ASSUME TypeOK, OpsInv, NEW n \in Int, RestartWorker(n),
         Cardinality(Pending') = Cardinality(Pending) + n, UNCHANGED def
  PROVE  OpsInv'
<1>1. PICK w \in Int : /\ activeOps' = activeOps + (n + w)
                       /\ Cardinality(Waiting') = Cardinality(Waiting) + w
  BY RestartCounted DEF OpsInv
<1>2. RejecterWaits' /\ NotYetMade'
  BY RestartCounted DEF OpsInv
<1>3. activeOps' = activeOps + (n + w + 0) /\ Cardinality(Defining') = Cardinality(Defining) + 0
  BY <1>1, DefiningSame DEF TypeOK
<1>4. OpsAccounted'
  BY <1>1, <1>3, Counted DEF OpsInv, TypeOK
<1>5. QED
  BY <1>2, <1>4 DEF OpsInv

LEMMA InitOps == Init => OpsInv
<1> SUFFICES ASSUME Init PROVE OpsInv
  OBVIOUS
<1>1. 1 \in Gens
  BY LifecycleAssumption DEF LifecycleAssumption, Gens
<1>2. Pending = {} /\ Waiting = {1} /\ Defining = {}
  BY <1>1 DEF Init, Pending, Waiting, Defining
<1>3. /\ Cardinality(Pending) = 0 /\ Cardinality(Waiting) = 1 /\ Cardinality(Defining) = 0
  BY <1>2, FS_EmptySet, FS_Singleton
<1>4. OpsAccounted
  BY <1>3 DEF Init, OpsAccounted, Waiting, Defining
<1>5. RejecterWaits /\ NotYetMade
  BY <1>1 DEF Init, RejecterWaits, NotYetMade
<1>6. QED
  BY <1>4, <1>5 DEF OpsInv

\* The host's calls.
LEMMA CallsCounted ==
  ASSUME IInv, OpsInv,
         \/ \E c \in Evals : Evaluate(c) \/ Timeout(c) \/ Abort(c)
         \/ \E d \in Defs : DefineModule(d)
         \/ Dispose
  PROVE  OpsInv'
<1> USE DEF IInv
<1>1. ASSUME NEW c \in Evals, Evaluate(c) PROVE OpsInv'
  <2>1. call[c] = "idle" /\ UNCHANGED def
    BY <1>1 DEF Evaluate, defVars
  <2>2. CASE call' = [call EXCEPT ![c] = "disposed"] /\ UNCHANGED <<sandboxVars, opVars>>
    BY <2>1, <2>2, NothingCounted DEF sandboxVars, opVars, TypeOK
  <2>3. CASE PostEvaluate(c, 0) /\ UNCHANGED sandboxVars
    <3>1. PICK p \in Int : /\ activeOps' = activeOps + (p + 0)
                           /\ Cardinality(Pending') = Cardinality(Pending) + p
      BY <2>1, <2>3, PostCounted
    <3>2. /\ Cardinality(Waiting') = Cardinality(Waiting) + 0
          /\ Cardinality(Defining') = Cardinality(Defining) + 0
      BY <2>1, <2>3, WaitingSame, DefiningSame DEF sandboxVars
    <3>3. activeOps' = activeOps + (p + 0 + 0)
      BY <3>1
    <3>4. OpsAccounted'
      BY <3>1, <3>2, <3>3, Counted DEF OpsInv, TypeOK
    <3>5. QED
      BY <2>3, <3>4 DEF OpsInv, RejecterWaits, NotYetMade, sandboxVars
  <2>4. CASE /\ RestartWorker(0)
             /\ call' = [call EXCEPT ![c] = IF worker' = None THEN "failed" ELSE "restarting"]
    <3>1. Cardinality(Pending') = Cardinality(Pending) + 0
      BY <2>1, <2>4, PendingSame DEF TypeOK
    <3>2. QED
      BY <2>1, <2>4, <3>1, KillCounted
  <2>5. QED
    BY <1>1, <2>2, <2>3, <2>4 DEF Evaluate
<1>2. ASSUME NEW c \in Evals, Timeout(c) PROVE OpsInv'
  <2>1. call[c] = "pending" /\ c \in Pending
    BY <1>2 DEF Timeout, TimersMatchPending, Pending
  <2>2. RestartWorker(-1) /\ call' = [call EXCEPT ![c] = "timeout"] /\ UNCHANGED def
    BY <1>2, <2>1 DEF Timeout, defVars
  <2>3. Cardinality(Pending') = Cardinality(Pending) + (-1)
    BY <2>1, <2>2, PendingEndsOne DEF TypeOK
  <2>4. QED
    BY <2>2, <2>3, KillCounted
<1>3. ASSUME NEW c \in Evals, Abort(c) PROVE OpsInv'
  <2>1. UNCHANGED def
    BY <1>3 DEF Abort, defVars
  <2>2. CASE HasEntry(c) /\ RestartWorker(-1) /\ call' = [call EXCEPT ![c] = "aborted"]
    <3>1. Cardinality(Pending') = Cardinality(Pending) + (-1)
      BY <2>2, PendingEndsOne DEF HasEntry, Pending, TypeOK
    <3>2. QED
      BY <2>1, <2>2, <3>1, KillCounted
  <2>3. CASE UNCHANGED <<sandboxVars, opVars, call>>
    BY <2>1, <2>3, NothingCounted DEF sandboxVars, opVars
  <2>4. QED
    BY <1>3, <2>2, <2>3 DEF Abort
<1>4. ASSUME NEW d \in Defs, DefineModule(d) PROVE OpsInv'
  <2>1. UNCHANGED <<call, conf, rejectConfigure, gen>> /\ def[d] = "idle"
    BY <1>4 DEF DefineModule, sandboxVars, callVars
  <2>2. /\ Cardinality(Pending') = Cardinality(Pending) + 0
        /\ Cardinality(Waiting') = Cardinality(Waiting) + 0
    BY <2>1, PendingSame, WaitingSame
  <2>3. CASE def' = [def EXCEPT ![d] = "waiting"] /\ Account(1, worker)
    <3>1. Defining' = Defining \cup {d} /\ d \notin Defining
      BY <2>1, <2>3 DEF Defining, TypeOK
    <3>2. Cardinality(Defining') = Cardinality(Defining) + 1
      BY <3>1, FiniteOps, FS_AddElement
    <3>3. activeOps' = activeOps + (0 + 0 + 1)
      BY <2>3 DEF Account
    <3>4. OpsAccounted'
      BY <2>2, <3>2, <3>3, Counted DEF OpsInv, TypeOK
    <3>5. QED
      BY <2>1, <3>4 DEF OpsInv, RejecterWaits, NotYetMade
  <2>4. CASE def' = [def EXCEPT ![d] = "done"] /\ UNCHANGED opVars
    <3>1. Defining' = Defining
      BY <2>1, <2>4 DEF Defining, TypeOK
    <3>2. Cardinality(Defining') = Cardinality(Defining) + 0
      BY <3>1, FiniteOps
    <3>3. activeOps' = activeOps + (0 + 0 + 0)
      BY <2>4 DEF opVars, TypeOK
    <3>4. OpsAccounted'
      BY <2>2, <3>2, <3>3, Counted DEF OpsInv, TypeOK
    <3>5. QED
      BY <2>1, <3>4 DEF OpsInv, RejecterWaits, NotYetMade
  <2>5. QED
    BY <1>4, <2>3, <2>4 DEF DefineModule
<1>5. ASSUME Dispose PROVE OpsInv'
  <2>1. /\ SettlePending(Pending, "disposed") /\ Account(-Ends(Pending), None)
        /\ UNCHANGED <<conf, rejectConfigure, gen, def>>
    BY <1>5 DEF Dispose, defVars
  <2>2. Cardinality(Pending') = Cardinality(Pending) - Cardinality(Pending)
    <3>1. \A c \in Evals : call'[c] = "pending" <=> call[c] = "pending" /\ c \notin Pending \cup {}
      BY <2>1 DEF SettlePending
    <3>2. QED
      BY <3>1, PendingEnd
  <2>3. Cardinality(Pending') = Cardinality(Pending) + (-Cardinality(Pending))
    BY <2>2, FiniteOps
  <2>4. /\ Cardinality(Waiting') = Cardinality(Waiting) + 0
        /\ Cardinality(Defining') = Cardinality(Defining) + 0
    BY <2>1, WaitingSame, DefiningSame
  <2>5. activeOps' = activeOps + ((-Cardinality(Pending)) + 0 + 0)
    BY <2>1, FiniteOps DEF Account, Ends
  <2>6. OpsAccounted'
    BY <2>3, <2>4, <2>5, FiniteOps, Counted DEF OpsInv, TypeOK
  <2>7. QED
    BY <2>1, <2>6 DEF OpsInv, RejecterWaits, NotYetMade
<1>6. QED
  BY <1>1, <1>2, <1>3, <1>4, <1>5

\* What the host receives.
LEMMA ReceivesCounted ==
  ASSUME IInv, OpsInv, NEW g \in Gens, HostReceives(g)
  PROVE  OpsInv'
<1> USE DEF IInv
<1>1. CASE Configured(g)
  <2>1. /\ conf[g] = "waiting" /\ conf' = [conf EXCEPT ![g] = "ok"]
        /\ rejectConfigure' = None /\ UNCHANGED <<gen, def>>
    BY <1>1 DEF Configured, defVars
  <2>2. \E p \in Int : /\ activeOps' = activeOps + (p + (-1))
                       /\ Cardinality(Pending') = Cardinality(Pending) + p
    <3>1. CASE Account(-1, worker) /\ UNCHANGED call
      <4>1. Cardinality(Pending') = Cardinality(Pending) + 0
        BY <3>1, PendingSame
      <4>2. activeOps' = activeOps + (0 + (-1))
        BY <3>1 DEF Account
      <4>3. QED
        BY <4>1, <4>2
    <3>2. ASSUME NEW c \in Restarting(g), PostEvaluate(c, -1)
          PROVE  \E p \in Int : /\ activeOps' = activeOps + (p + (-1))
                                /\ Cardinality(Pending') = Cardinality(Pending) + p
      <4>1. c \in Evals /\ call[c] # "pending"
        BY DEF Restarting
      <4>2. QED
        BY <3>2, <4>1, PostCounted
    <3>3. QED
      BY <1>1, <3>1, <3>2 DEF Configured
  <2>3. PICK p \in Int : /\ activeOps' = activeOps + (p + (-1))
                         /\ Cardinality(Pending') = Cardinality(Pending) + p
    BY <2>2
  <2>4. /\ Cardinality(Waiting') = Cardinality(Waiting) + (-1)
        /\ Cardinality(Defining') = Cardinality(Defining) + 0
    BY <2>1, WaitingEnds, DefiningSame
  <2>5. activeOps' = activeOps + (p + (-1) + 0)
    BY <2>3
  <2>6. OpsAccounted'
    BY <2>3, <2>4, <2>5, Counted DEF OpsInv, TypeOK
  <2>7. RejecterWaits'
    BY <2>1 DEF RejecterWaits
  <2>8. NotYetMade'
    BY <2>1 DEF OpsInv, NotYetMade, TypeOK
  <2>9. QED
    BY <2>6, <2>7, <2>8 DEF OpsInv
<1>2. CASE ConfigureFailed(g)
  <2>1. conf[g] = "waiting" /\ RejectConfigure(g, {}) /\ UNCHANGED <<gen, def>>
    BY <1>2 DEF ConfigureFailed, defVars
  <2>2. QED
    BY <2>1, RejectCounted
<1>3. CASE NobodyListens(g) \/ CapabilityCall(g)
  BY <1>3, NothingCounted
     DEF NobodyListens, CapabilityCall, sandboxVars, opVars, callVars, defVars
<1>4. CASE ModuleDefined(g)
  <2> DEFINE D == {d \in Defs : def[d] = "waiting" /\ defOn[d] = g}
  <2>1. /\ def' = [d \in Defs |-> IF d \in D THEN "done" ELSE def[d]]
        /\ Account(-Cardinality(D), worker)
        /\ UNCHANGED <<call, conf, rejectConfigure, gen>>
    BY <1>4 DEF ModuleDefined, sandboxVars, callVars
  <2>2. Defining' = Defining \ D /\ D \in SUBSET Defining /\ D \in SUBSET Defs
    BY <2>1 DEF Defining
  <2>3. Cardinality(D) \in Nat
    BY EndsTyped
  <2> HIDE DEF D
  <2>4. Cardinality(Defining') = Cardinality(Defining) + (-Cardinality(D))
    BY <2>2, <2>3, FiniteOps, Fewer
  <2>5. /\ Cardinality(Pending') = Cardinality(Pending) + 0
        /\ Cardinality(Waiting') = Cardinality(Waiting) + 0
    BY <2>1, PendingSame, WaitingSame
  <2>6. activeOps' = activeOps + (0 + 0 + (-Cardinality(D)))
    BY <2>1, <2>3 DEF Account
  <2>7. OpsAccounted'
    BY <2>3, <2>4, <2>5, <2>6, Counted DEF OpsInv, TypeOK
  <2>8. QED
    BY <2>1, <2>7 DEF OpsInv, RejecterWaits, NotYetMade
<1>5. CASE Result(g)
  <2>1. UNCHANGED <<conf, rejectConfigure, gen, def>>
    BY <1>5 DEF Result, sandboxVars, defVars
  <2>2. CASE UNCHANGED <<callVars, opVars>>
    BY <2>1, <2>2, NothingCounted DEF callVars, opVars
  <2>3. ASSUME NEW c, HasEntry(c), SettlePending({c}, "resolved"), Account(-1, worker)
        PROVE  OpsInv'
    <3>1. /\ c \in Evals /\ call[c] = "pending"
          /\ call' = [x \in Evals |-> IF x = c THEN "resolved" ELSE call[x]]
      BY <2>3 DEF HasEntry, Pending, SettlePending
    <3>2. Cardinality(Pending') = Cardinality(Pending) + (-1)
      BY <3>1, PendingEndsOne
    <3>3. /\ Cardinality(Waiting') = Cardinality(Waiting) + 0
          /\ Cardinality(Defining') = Cardinality(Defining) + 0
      BY <2>1, WaitingSame, DefiningSame
    <3>4. activeOps' = activeOps + ((-1) + 0 + 0)
      BY <2>3 DEF Account
    <3>5. OpsAccounted'
      BY <3>2, <3>3, <3>4, Counted DEF OpsInv, TypeOK
    <3>6. QED
      BY <2>1, <3>5 DEF OpsInv, RejecterWaits, NotYetMade
  <2>4. QED
    BY <1>5, <2>2, <2>3 DEF Result
<1>6. CASE WorkerError(g)
  BY <1>6, OnErrorCounted DEF WorkerError, defVars
<1>7. CASE WorkerExit(g)
  <2>1. CASE OnError
    BY <1>7, <2>1, OnErrorCounted DEF WorkerExit, defVars
  <2>2. CASE UNCHANGED <<conf, rejectConfigure, opVars, callVars>>
    BY <1>7, <2>2, NothingCounted DEF WorkerExit, opVars, callVars, defVars
  <2>3. QED
    BY <1>7, <2>1, <2>2 DEF WorkerExit
<1>8. QED
  BY <1>1, <1>2, <1>3, <1>4, <1>5, <1>6, <1>7 DEF HostReceives

LEMMA NextOps == IInv /\ OpsInv /\ [Next]_vars => OpsInv'
<1> SUFFICES ASSUME IInv, OpsInv, [Next]_vars PROVE OpsInv'
  OBVIOUS
<1>1. TypeOK
  BY DEF IInv
<1>2. CASE \/ UNCHANGED vars
           \/ \E k \in Caps : CapabilitySettles(k)
           \/ \E g \in Gens : WorkerRuns(g)
  <2>1. UNCHANGED <<activeOps, conf, rejectConfigure, gen, def, call>>
    BY <1>2 DEF vars, CapabilitySettles, WorkerRuns, RunConfigure, RunDefineModule, RunEvaluate,
       RunCapabilityResult, Crashes, ClosesItself, CodeEnds, CodeCallsHost,
       sandboxVars, opVars, callVars, defVars
  <2>2. QED
    BY <1>1, <2>1, NothingCounted
<1>3. QED
  BY <1>2, CallsCounted, ReceivesCounted DEF Next

\* Every operation that begins is counted until it settles, on every path.
THEOREM LifecycleOpsAccounted == Spec => []OpsAccounted
<1>1. OpsInv => OpsAccounted
  BY DEF OpsInv
<1>2. QED
  BY <1>1, InitOps, NextOps, Invariance, PTL DEF Spec
=============================================================================
