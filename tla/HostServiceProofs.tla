-------------------------- MODULE HostServiceProofs --------------------------
(***************************************************************************)
(* Invariants of the small host services, for every value of their         *)
(* constants: each is strengthened to an inductive one, which every action *)
(* is shown to keep.                                                       *)
(***************************************************************************)
EXTENDS MCHostServices, CapabilityGateProofs, SequenceTheorems, FiniteSetTheorems, TLAPS

-----------------------------------------------------------------------------
(* The network policy.                                                     *)

\* What holds of the request about to be sent, and of the last one sent.
NetInv ==
  /\ NetTypeOK
  /\ RedirectsStayInPolicy
  /\ req.method = "GET" /\ req.body /\ Len(sent) > 0 => sent[1].method = "GET" /\ sent[1].body
  /\ shim = "idle" => stage = "idle"
  /\ stage = "idle" => Len(sent) = 0
  /\ stage \in {"idle", "asking"} =>
       /\ Len(sent) <= MAX_REDIRECTS
       /\ policy = "list" \/ mode # "follow" => Len(sent) = 0
       /\ req.auth => \A j \in 1..Len(sent) : sent[j].to = req.to
  /\ stage = "sending" => Len(sent) > 0 /\ sent[Len(sent)] = req

\* The initial states satisfy the network invariant.
LEMMA NetInitInv == NetInit => NetInv
BY NetAssumption DEF NetInit, NetInv, NetTypeOK, RedirectsStayInPolicy, Requests, Methods

\* A request that the policy allows is sent as it was asked about.
LEMMA AskPolicyKeeps ==
  ASSUME NetInv, AskPolicy
  PROVE  NetInv'
<1>1. CASE asked' = asked /\ sent' = sent /\ Report("failed")
  BY <1>1 DEF NetInv, NetTypeOK, RedirectsStayInPolicy, AskPolicy, Report
<1>2. CASE /\ policy = "function" \/ req.to \in hosts
           /\ asked' = Append(asked, req.to)
           /\ sent' = Append(sent, req)
           /\ stage' = "sending" /\ UNCHANGED shim
  <2> DEFINE n == Len(sent)
  <2>1. /\ n \in Nat /\ n <= MAX_REDIRECTS /\ Len(asked) = n
        /\ sent \in Seq(Requests) /\ asked \in Seq(Origins) /\ req \in Requests
        /\ req.to \in Origins /\ stage = "asking"
    BY <1>2 DEF NetInv, NetTypeOK, RedirectsStayInPolicy, AskPolicy, Requests
  <2>2. /\ Len(sent') = n + 1 /\ Len(asked') = n + 1
        /\ sent' \in Seq(Requests) /\ asked' \in Seq(Origins)
        /\ sent'[n + 1] = req /\ asked'[n + 1] = req.to
        /\ \A i \in 1..n : sent'[i] = sent[i] /\ asked'[i] = asked[i]
    BY <1>2, <2>1
  <2>3. UNCHANGED <<policy, hosts, req, mode>> /\ stage' = "sending" /\ shim' = shim
    BY <1>2 DEF AskPolicy
  <2>4. NetTypeOK'
    BY <2>1, <2>2, <2>3 DEF NetInv, NetTypeOK
  <2>5. \A j \in 1..n : req.auth => sent[j].to = req.to
    BY <2>1 DEF NetInv
  <2>6. RedirectsStayInPolicy'
    <3>1. Len(asked') = Len(sent') /\ Len(sent') <= MAX_REDIRECTS + 1
      BY <2>1, <2>2, NetAssumption
    <3>2. policy' = "list" \/ mode' # "follow" => Len(sent') <= 1
      BY <2>1, <2>2, <2>3 DEF NetInv
    <3>3. ASSUME NEW i \in DOMAIN sent'
          PROVE  /\ sent'[i].to = asked'[i] /\ (policy' = "list" => sent'[i].to \in hosts')
                 /\ sent'[i].auth => \A j \in 1..i : sent'[j].to = sent'[1].to
                 /\ sent'[i].method = "GET" /\ sent'[i].body => sent'[1].method = "GET" /\ sent'[1].body
      <4>1. i \in 1..(n + 1)
        BY <2>2
      <4>2. CASE i = n + 1
        <5>1. policy' = "list" => req.to \in hosts'
          BY <1>2, <2>3 
        <5>2. req.method = "GET" /\ req.body => sent'[1].method = "GET" /\ sent'[1].body
          <6>1. CASE n = 0
            BY <6>1, <2>2
          <6>2. CASE n > 0
            BY <6>2, <2>1, <2>2 DEF NetInv
          <6> QED BY <2>1, <6>1, <6>2
        <5>3. ASSUME req.auth, NEW j \in 1..(n + 1) PROVE sent'[j].to = sent'[1].to
          BY <5>3, <2>1, <2>2, <2>5
        <5> QED BY <4>2, <2>2, <5>1, <5>2, <5>3
      <4>3. CASE i \in 1..n
        <5>1. /\ sent[i].to = asked[i] /\ (policy = "list" => sent[i].to \in hosts)
              /\ sent[i].auth => \A j \in 1..i : sent[j].to = sent[1].to
              /\ sent[i].method = "GET" /\ sent[i].body => sent[1].method = "GET" /\ sent[1].body
          BY <4>3, <2>1 DEF NetInv, RedirectsStayInPolicy
        <5> QED BY <5>1, <4>3, <2>1, <2>2, <2>3
      <4> QED BY <4>1, <4>2, <4>3, <2>1
    <3> QED BY <3>1, <3>2, <3>3 DEF RedirectsStayInPolicy
  <2> QED BY <2>1, <2>2, <2>3, <2>4, <2>6 DEF NetInv
<1> QED BY <1>1, <1>2 DEF AskPolicy

\* A response is returned, refused, or leads to one more request, that has not
\* been asked about.
LEMMA RespondKeeps ==
  ASSUME NetInv, NEW status \in Statuses, NEW location \in Origins \cup {"bad", "none"},
         Respond(status, location)
  PROVE  NetInv'
<1>1. CASE req' = req /\ \E result \in {"ok", "failed"} : Report(result)
  BY <1>1 DEF NetInv, NetTypeOK, RedirectsStayInPolicy, Respond, Report
<1>2. CASE /\ mode = "follow" /\ policy = "function" /\ Len(sent) <= MAX_REDIRECTS /\ location \in Origins
           /\ req' = Redirected(status, location) /\ stage' = "asking" /\ shim' = shim
  <2>1. req \in Requests /\ stage = "sending" /\ Len(sent) > 0 /\ sent[Len(sent)] = req
    BY DEF NetInv, NetTypeOK, Respond
  <2>2. /\ req' \in Requests /\ (req'.auth => req.auth /\ req'.to = req.to)
        /\ req'.method = "GET" /\ req'.body => sent[1].method = "GET" /\ sent[1].body
    BY <1>2, <2>1 DEF Redirected, Requests, Methods, NetInv, Rewritten
  <2>3. UNCHANGED <<policy, hosts, mode, sent, asked>>
    BY DEF Respond
  <2>4. ASSUME req'.auth, NEW j \in 1..Len(sent) PROVE sent[j].to = req'.to
    <3>1. Len(sent) \in DOMAIN sent /\ sent \in Seq(Requests)
      BY <2>1 DEF NetInv, NetTypeOK
    <3>2. \A k \in 1..Len(sent) : sent[k].to = sent[1].to
      BY <3>1, <2>1, <2>2, <2>4 DEF NetInv, RedirectsStayInPolicy
    <3> QED BY <3>1, <3>2, <2>1, <2>2, <2>4
  <2>5. NetTypeOK' /\ RedirectsStayInPolicy'
    BY <1>2, <2>1, <2>2, <2>3 DEF NetInv, NetTypeOK, RedirectsStayInPolicy
  <2>6. shim' # "idle" /\ stage' = "asking" /\ Len(sent') <= MAX_REDIRECTS
        /\ policy' = "function" /\ mode' = "follow"
    BY <1>2, <2>1, <2>3 DEF NetInv
  <2>7. req'.auth => \A j \in 1..Len(sent') : sent'[j].to = req'.to
    BY <2>3, <2>4
  <2>8. req'.method = "GET" /\ req'.body => sent'[1].method = "GET" /\ sent'[1].body
    BY <2>2, <2>3
  <2> QED BY <2>5, <2>6, <2>7, <2>8 DEF NetInv
<1>3. MAX_REDIRECTS \in Nat /\ Len(sent) \in Nat
  BY NetAssumption DEF NetInv, NetTypeOK
<1> QED BY <1>1, <1>2, <1>3 DEF Respond, TooManyRedirects, BadLocation, NetInv, NetTypeOK

\* The network invariant is inductive.
LEMMA NetNextInv == NetInv /\ [NetNext]_netVars => NetInv'
<1> SUFFICES ASSUME NetInv, [NetNext]_netVars PROVE NetInv'
  OBVIOUS
<1>1. CASE Fetch
  BY <1>1 DEF NetInv, NetTypeOK, RedirectsStayInPolicy, Fetch
<1>2. CASE AbortFetch
  BY <1>2 DEF NetInv, NetTypeOK, RedirectsStayInPolicy, AbortFetch
<1>3. CASE AskPolicy
  BY <1>3, AskPolicyKeeps
<1>4. CASE NetFails
  BY <1>4 DEF NetInv, NetTypeOK, RedirectsStayInPolicy, NetFails, Report
<1>5. CASE RespondUnreadably
  BY <1>5 DEF NetInv, NetTypeOK, RedirectsStayInPolicy, RespondUnreadably, Report
<1>6. CASE \E status \in Statuses : RespondToList(status)
  BY <1>6 DEF NetInv, NetTypeOK, RedirectsStayInPolicy, RespondToList, Report
<1>7. CASE \E status \in Statuses, location \in Origins \cup {"bad", "none"} : Respond(status, location)
  BY <1>7, RespondKeeps
<1>8. CASE UNCHANGED netVars
  BY <1>8 DEF NetInv, NetTypeOK, RedirectsStayInPolicy, netVars
<1> QED BY <1>1, <1>2, <1>3, <1>4, <1>5, <1>6, <1>7, <1>8 DEF NetNext

\* For any number of redirects allowed, any origins and any answers of the
\* servers, every request andbox sends under a network policy is one the policy
\* was asked about.
THEOREM NetworkStaysInPolicy == NetSpec => []RedirectsStayInPolicy
<1>1. NetInv => RedirectsStayInPolicy
  BY DEF NetInv
<1> QED BY <1>1, NetInitInv, NetNextInv, PTL DEF NetSpec

-----------------------------------------------------------------------------
(* The token budgets.  The sum over a set of calls is a fold that takes    *)
(* the calls in an order of its own: first, that this order does not       *)
(* matter, by a least counterexample, for there is no induction to cite.   *)

First(s) == CHOOSE x \in s : TRUE

\* iter is the fold of + over f, for the subsets of S.
IsFold(f, S, iter) ==
  iter = [s \in SUBSET S |-> IF s = {} THEN 0 ELSE f[First(s)] + iter[s \ {First(s)}]]
Fold(f, S) == CHOOSE iter : IsFold(f, S, iter)
Total(f, S) == Fold(f, S)[S]

\* The sum of the model is this fold.
LEMMA SumIsTotal ==
  ASSUME NEW f, NEW S
  PROVE  MapThenSumSet(LAMBDA c : f[c], S) = Total(f, S)
BY DEF MapThenSumSet, MapThenFoldSet, Total, Fold, IsFold, First

\* Of some subsets of a finite set, one has none of the others inside it.
LEMMA LeastSubset ==
  ASSUME NEW S, IsFiniteSet(S), NEW B \in SUBSET (SUBSET S), B # {}
  PROVE  \E s \in B : \A t \in B : t \subseteq s => t = s
<1>1. IsWellFoundedOn(StrictSubsetOrdering(S), SUBSET S)
  BY FS_StrictSubsetOrderingWellFounded, FS_FiniteSubsetsOfFinite
<1>2. PICK s \in B : \A t \in B : ~(<<t, s>> \in StrictSubsetOrdering(S))
  BY <1>1, WFMin
<1> QED BY <1>2 DEF StrictSubsetOrdering

\* What a fold gives for a nonempty set, and for none.
LEMMA FoldStep ==
  ASSUME NEW f, NEW S, NEW iter, IsFold(f, S, iter)
  PROVE  /\ iter[{}] = 0
         /\ \A s \in SUBSET S : s # {} =>
              /\ First(s) \in s /\ s \ {First(s)} \in SUBSET S
              /\ iter[s] = f[First(s)] + iter[s \ {First(s)}]
BY DEF IsFold, First

\* Two folds agree where both are defined.
LEMMA FoldsAgree ==
  ASSUME NEW f, NEW S, NEW T, IsFiniteSet(S), NEW a, NEW b, IsFold(f, S, a), IsFold(f, T, b),
         NEW s \in SUBSET S, s \in SUBSET T
  PROVE  a[s] = b[s]
<1> DEFINE B == {t \in SUBSET S : t \in SUBSET T /\ a[t] # b[t]}
<1>1. SUFFICES ASSUME B # {} PROVE FALSE
  OBVIOUS
<1>2. PICK t \in B : \A u \in B : u \subseteq t => u = t
  <2>1. B \in SUBSET (SUBSET S)
    OBVIOUS
  <2> HIDE DEF B
  <2> QED BY <1>1, <2>1, LeastSubset
<1>3. a[{}] = 0 /\ b[{}] = 0
  BY FoldStep
<1>4. /\ First(t) \in t /\ a[t] = f[First(t)] + a[t \ {First(t)}] /\ b[t] = f[First(t)] + b[t \ {First(t)}]
  <2>1. t # {} /\ t \in SUBSET S /\ t \in SUBSET T
    BY <1>2, <1>3
  <2>2. First(t) \in t /\ a[t] = f[First(t)] + a[t \ {First(t)}]
    BY <2>1 DEF IsFold, First
  <2>3. b[t] = f[First(t)] + b[t \ {First(t)}]
    BY <2>1 DEF IsFold
  <2> QED BY <2>2, <2>3
<1>5. t \ {First(t)} \notin B
  BY <1>2, <1>4
<1> QED BY <1>2, <1>4, <1>5

\* There is such a fold.
LEMMA FoldExists ==
  ASSUME NEW f, NEW S, IsFiniteSet(S)
  PROVE  IsFold(f, S, Fold(f, S))
<1> DEFINE B == {T \in SUBSET S : ~IsFold(f, T, Fold(f, T))}
<1>1. SUFFICES ASSUME B # {} PROVE FALSE
  OBVIOUS
<1>2. PICK T \in B : \A u \in B : u \subseteq T => u = T
  <2>1. B \in SUBSET (SUBSET S)
    OBVIOUS
  <2> HIDE DEF B
  <2> QED BY <1>1, <2>1, LeastSubset
<1> DEFINE iter == [s \in SUBSET T |-> IF s = {} THEN 0 ELSE f[First(s)] + Total(f, s \ {First(s)})]
<1>3. ASSUME NEW u \in SUBSET T, u # T PROVE IsFold(f, u, Fold(f, u)) /\ IsFiniteSet(u)
  BY <1>2, <1>3, FS_Subset
<1>4. ASSUME NEW u \in SUBSET T, u # T PROVE iter[u] = Total(f, u)
  <2>1. CASE u = {}
    BY <1>3, <1>4, <2>1, FoldStep DEF Total
  <2>2. CASE u # {}
    <3> DEFINE w == u \ {First(u)}
    <3>1. First(u) \in u /\ w \in SUBSET u /\ w # T /\ w \in SUBSET T
      BY <1>4, <2>2 DEF First
    <3>2. Total(f, u) = f[First(u)] + Fold(f, u)[w]
      <4>1. u \in SUBSET u /\ IsFold(f, u, Fold(f, u))
        BY <1>3, <1>4
      <4> QED BY <4>1, <2>2, FoldStep DEF Total
    <3>3. Fold(f, u)[w] = Total(f, w)
      <4>1. /\ IsFold(f, u, Fold(f, u)) /\ IsFold(f, w, Fold(f, w)) /\ IsFiniteSet(u)
            /\ w \in SUBSET u /\ w \in SUBSET w
        BY <1>3, <1>4, <3>1
      <4> QED BY <4>1, FoldsAgree DEF Total
    <3>4. iter[u] = f[First(u)] + Total(f, w)
      BY <2>2
    <3> QED BY <3>2, <3>3, <3>4
  <2> QED BY <2>1, <2>2
<1>5. IsFold(f, T, iter)
  <2>1. ASSUME NEW s \in SUBSET T
        PROVE  iter[s] = IF s = {} THEN 0 ELSE f[First(s)] + iter[s \ {First(s)}]
    <3>1. CASE s # {}
      <4>1. s \ {First(s)} \in SUBSET T /\ s \ {First(s)} # T
        BY <3>1 DEF First
      <4>2. iter[s \ {First(s)}] = Total(f, s \ {First(s)})
        BY <4>1, <1>4
      <4>3. iter[s] = f[First(s)] + Total(f, s \ {First(s)})
        BY <3>1
      <4> HIDE DEF iter
      <4> QED BY <3>1, <4>2, <4>3
    <3>2. CASE s = {}
      BY <3>2
    <3> QED BY <3>1, <3>2
  <2>2. iter = [s \in SUBSET T |-> iter[s]]
    OBVIOUS
  <2> HIDE DEF iter
  <2> QED BY <2>1, <2>2 DEF IsFold
<1>6. IsFold(f, T, Fold(f, T))
  <2> HIDE DEF iter
  <2> QED BY <1>5 DEF Fold
<1> QED BY <1>2, <1>6

\* The sum over a finite set, one element at a time.
LEMMA TotalStep ==
  ASSUME NEW f, NEW S, IsFiniteSet(S)
  PROVE  /\ Total(f, {}) = 0
         /\ S # {} => First(S) \in S /\ Total(f, S) = f[First(S)] + Total(f, S \ {First(S)})
<1>1. Total(f, {}) = 0
  BY FoldExists, FoldStep, FS_EmptySet DEF Total
<1>2. ASSUME S # {} PROVE First(S) \in S /\ Total(f, S) = f[First(S)] + Total(f, S \ {First(S)})
  <2> DEFINE w == S \ {First(S)}
  <2>1. S \in SUBSET S /\ IsFold(f, S, Fold(f, S)) /\ w \in SUBSET S /\ IsFiniteSet(w)
    BY FoldExists, FS_Subset
  <2>2. First(S) \in S /\ Fold(f, S)[S] = f[First(S)] + Fold(f, S)[w]
    BY <1>2, <2>1, FoldStep
  <2>3. IsFold(f, w, Fold(f, w)) /\ w \in SUBSET w
    BY <2>1, FoldExists
  <2>4. Fold(f, S)[w] = Fold(f, w)[w]
    <3>1. \A a, b : IsFold(f, S, a) /\ IsFold(f, w, b) => a[w] = b[w]
      BY <2>1, <2>3, FoldsAgree
    <3> QED BY <2>1, <2>3, <3>1
  <2> QED BY <2>2, <2>4 DEF Total
<1> QED BY <1>1, <1>2

\* A sum of naturals is a natural.
LEMMA TotalNat ==
  ASSUME NEW C, NEW f \in [C -> Nat], NEW S \in SUBSET C, IsFiniteSet(S)
  PROVE  Total(f, S) \in Nat
<1> DEFINE B == {T \in SUBSET S : Total(f, T) \notin Nat}
<1>1. SUFFICES ASSUME B # {} PROVE FALSE
  OBVIOUS
<1>2. PICK T \in B : \A u \in B : u \subseteq T => u = T
  <2>1. B \in SUBSET (SUBSET S)
    OBVIOUS
  <2> HIDE DEF B
  <2> QED BY <1>1, <2>1, LeastSubset
<1>3. IsFiniteSet(T)
  BY <1>2, FS_Subset
<1>4. T # {}
  <2>1. Total(f, {}) = 0
    BY TotalStep
  <2>2. ASSUME T = {} PROVE Total(f, T) \in Nat
    <3>1. Total(f, T) = 0
      BY <2>1, <2>2, Zenon
    <3> QED BY <3>1
  <2> QED BY <1>2, <2>2
<1>5. First(T) \in T /\ Total(f, T) = f[First(T)] + Total(f, T \ {First(T)})
  BY <1>3, <1>4, TotalStep
<1>6. T \ {First(T)} \notin B
  BY <1>2, <1>5
<1>7. Total(f, T \ {First(T)}) \in Nat /\ f[First(T)] \in Nat
  BY <1>2, <1>5, <1>6
<1> QED BY <1>2, <1>5, <1>7

\* Only the summands count.
LEMMA TotalSame ==
  ASSUME NEW f, NEW g, NEW S, IsFiniteSet(S), \A x \in S : f[x] = g[x]
  PROVE  Total(f, S) = Total(g, S)
<1> DEFINE B == {T \in SUBSET S : Total(f, T) # Total(g, T)}
<1>1. SUFFICES ASSUME B # {} PROVE FALSE
  OBVIOUS
<1>2. PICK T \in B : \A u \in B : u \subseteq T => u = T
  <2>1. B \in SUBSET (SUBSET S)
    OBVIOUS
  <2> HIDE DEF B
  <2> QED BY <1>1, <2>1, LeastSubset
<1>3. IsFiniteSet(T)
  BY <1>2, FS_Subset
<1>4. T # {}
  BY <1>2, <1>3, TotalStep
<1>5. /\ First(T) \in T /\ Total(f, T) = f[First(T)] + Total(f, T \ {First(T)})
      /\ Total(g, T) = g[First(T)] + Total(g, T \ {First(T)})
  BY <1>3, <1>4, TotalStep
<1>6. T \ {First(T)} \notin B
  BY <1>2, <1>5
<1>7. Total(f, T \ {First(T)}) = Total(g, T \ {First(T)}) /\ f[First(T)] = g[First(T)]
  BY <1>2, <1>5, <1>6
<1> QED BY <1>2, <1>5, <1>7

\* One more element adds its number, whichever the fold takes first.
LEMMA TotalAdd ==
  ASSUME NEW C, NEW f \in [C -> Nat], NEW S \in SUBSET C, IsFiniteSet(S), NEW x \in C, x \notin S
  PROVE  Total(f, S \cup {x}) = f[x] + Total(f, S)
<1> DEFINE B == {T \in SUBSET S : \E z \in C : z \notin T /\ Total(f, T \cup {z}) # f[z] + Total(f, T)}
<1>1. SUFFICES ASSUME B # {} PROVE FALSE
  OBVIOUS
<1>2. PICK T \in B : \A u \in B : u \subseteq T => u = T
  <2>1. B \in SUBSET (SUBSET S)
    OBVIOUS
  <2> HIDE DEF B
  <2> QED BY <1>1, <2>1, LeastSubset
<1>3. PICK z \in C : z \notin T /\ Total(f, T \cup {z}) # f[z] + Total(f, T)
  BY <1>2
<1> DEFINE all == T \cup {z}
           y   == First(all)
<1>4. IsFiniteSet(T) /\ IsFiniteSet(all) /\ T \subseteq C
  BY <1>2, FS_Subset, FS_AddElement
<1>5. y \in all /\ Total(f, all) = f[y] + Total(f, all \ {y})
  <2>1. all # {}
    OBVIOUS
  <2> HIDE DEF all
  <2> QED BY <1>4, <2>1, TotalStep
<1>6. y # z
  <2>1. ASSUME y = z PROVE all \ {y} = T
    BY <1>3, <2>1
  <2> HIDE DEF all, y
  <2> QED BY <1>3, <1>5, <2>1 DEF all
<1> DEFINE rest == T \ {y}
<1>7. /\ y \in T /\ y \in C /\ rest \subseteq T /\ rest # T /\ rest \in SUBSET S
      /\ all \ {y} = rest \cup {z} /\ T = rest \cup {y} /\ y \notin rest /\ z \notin rest
  BY <1>2, <1>3, <1>4, <1>5, <1>6
<1> HIDE DEF y, rest
<1>8. \A u \in C : u \notin rest => Total(f, rest \cup {u}) = f[u] + Total(f, rest)
  BY <1>2, <1>7
<1>9. /\ Total(f, all) = f[y] + (f[z] + Total(f, rest))
      /\ Total(f, T) = f[y] + Total(f, rest)
  BY <1>5, <1>7, <1>8
<1>10. f[z] \in Nat /\ f[y] \in Nat /\ Total(f, rest) \in Nat
  <2>1. IsFiniteSet(rest) /\ rest \in SUBSET C
    BY <1>4, <1>7, FS_Subset
  <2> QED BY <1>7, <2>1, TotalNat
<1> QED BY <1>3, <1>9, <1>10

Charged == {c \in Calls : at[c] \in {"running", "done"}}
BudgetInv ==
  /\ BudgetTypeOK /\ WithinBudget
  /\ MaxTotal > 0 => inputTokens = Total(tokens, Charged)

\* A step that charges nobody leaves the sum, whatever it measured.
LEMMA NoCharge ==
  ASSUME BudgetInv, NEW c \in Calls, c \notin Charged, NEW n \in Nat,
         tokens' = tokens \/ tokens' = [tokens EXCEPT ![c] = n], Charged' = Charged, inputTokens' = inputTokens,
         at' \in [Calls -> {"idle", "measuring", "creating", "running", "done", "refused"}],
         seen' \in [Calls -> Nat]
  PROVE  BudgetInv'
<1>1. tokens' \in [Calls -> Nat] /\ \A d \in Charged : tokens'[d] = tokens[d]
  BY DEF BudgetInv, BudgetTypeOK, Charged
<1>2. IsFiniteSet(Charged)
  BY BudgetAssumption, FS_Subset DEF Charged
<1>3. Total(tokens', Charged) = Total(tokens, Charged)
  BY <1>1, <1>2, TotalSame
<1>4. inputTokens' = inputTokens /\ Total(tokens', Charged') = Total(tokens, Charged)
  BY <1>3
<1> QED BY <1>1, <1>4 DEF BudgetInv, BudgetTypeOK, WithinBudget

\* No call has been charged at first.
LEMMA BudgetInitInv == BudgetInit => BudgetInv
<1> SUFFICES ASSUME BudgetInit PROVE BudgetInv
  OBVIOUS
<1>1. Charged = {} /\ inputTokens = 0
  BY DEF BudgetInit, Charged
<1>2. Total(tokens, {}) = 0
  BY TotalStep, FS_EmptySet
<1>3. Total(tokens, Charged) = 0
  BY <1>1, <1>2, Zenon
<1>4. BudgetTypeOK
  BY DEF BudgetInit, BudgetTypeOK
<1> QED BY <1>1, <1>3, <1>4, BudgetAssumption DEF BudgetInv, WithinBudget

\* Every step keeps the sum and the budget.
LEMMA BudgetNextInv == BudgetInv /\ [BudgetNext]_budgetVars => BudgetInv'
<1> SUFFICES ASSUME BudgetInv, [BudgetNext]_budgetVars PROVE BudgetInv'
  OBVIOUS
<1>0. BudgetTypeOK
  BY DEF BudgetInv
<1>1. ASSUME NEW c \in Calls, Begin(c) PROVE BudgetInv'
  <2>1. c \notin Charged /\ Charged' = Charged
    BY <1>0, <1>1 DEF Begin, Charged, BudgetTypeOK
  <2>2. /\ tokens' = tokens /\ inputTokens' = inputTokens /\ seen' \in [Calls -> Nat]
        /\ at' \in [Calls -> {"idle", "measuring", "creating", "running", "done", "refused"}]
    BY <1>0, <1>1 DEF Begin, BudgetTypeOK
  <2> QED BY <2>1, <2>2, NoCharge
<1>2. ASSUME NEW c \in Calls, Charge(c) PROVE BudgetInv'
  <2>1. PICK n \in Sizes :
          /\ tokens' = [tokens EXCEPT ![c] = n]
          /\ \/ /\ Room(c, n) /\ ~TooLong(c, n)
                /\ inputTokens' = IF Counts(c) THEN inputTokens + n ELSE inputTokens
                /\ at' = [at EXCEPT ![c] = "running"]
             \/ at' = [at EXCEPT ![c] = "refused"] /\ UNCHANGED inputTokens
    BY <1>2 DEF Charge
  <2>2. /\ c \notin Charged /\ n \in Nat /\ seen' = seen
        /\ at' \in [Calls -> {"idle", "measuring", "creating", "running", "done", "refused"}]
    BY <1>0, <1>2, <2>1, BudgetAssumption DEF Charge, Charged, BudgetTypeOK
  <2>3. CASE at' = [at EXCEPT ![c] = "refused"] /\ UNCHANGED inputTokens
    <3>1. Charged' = Charged
      BY <1>0, <2>2, <2>3 DEF Charged, BudgetTypeOK
    <3> QED BY <1>0, <2>1, <2>2, <2>3, <3>1, NoCharge DEF BudgetTypeOK
  <2>4. CASE /\ Room(c, n)
             /\ inputTokens' = IF Counts(c) THEN inputTokens + n ELSE inputTokens
             /\ at' = [at EXCEPT ![c] = "running"]
    <3>1. Charged' = Charged \cup {c}
      BY <1>0, <2>2, <2>4 DEF Charged, BudgetTypeOK
    <3>2. /\ tokens' \in [Calls -> Nat] /\ tokens'[c] = n
          /\ \A d \in Charged : tokens'[d] = tokens[d]
      BY <1>0, <2>1, <2>2 DEF BudgetTypeOK, Charged
    <3>3. IsFiniteSet(Charged) /\ Charged \in SUBSET Calls
      BY BudgetAssumption, FS_Subset DEF Charged
    <3>4. Total(tokens', Charged) = Total(tokens, Charged)
      BY <3>2, <3>3, TotalSame
    <3>5. Total(tokens', Charged \cup {c}) = n + Total(tokens, Charged)
      BY <2>2, <3>2, <3>3, <3>4, TotalAdd
    <3>6. Total(tokens', Charged') = n + Total(tokens, Charged)
      BY <3>1, <3>5
    <3>7. MaxTotal > 0 => inputTokens' = inputTokens + n /\ inputTokens + n <= MaxTotal
      BY <2>4 DEF Counts, Room
    <3>8. inputTokens \in Nat /\ inputTokens' \in Nat
      BY <1>0, <2>2, <2>4 DEF BudgetTypeOK
    <3>9. BudgetTypeOK'
      BY <1>0, <2>2, <3>2, <3>8 DEF BudgetTypeOK
    <3> QED BY <2>2, <3>6, <3>7, <3>8, <3>9 DEF BudgetInv, WithinBudget
  <2> QED BY <2>1, <2>3, <2>4
<1>3. ASSUME NEW c \in Calls, ChargeFails(c) PROVE BudgetInv'
  <2>1. c \notin Charged /\ Charged' = Charged
    BY <1>0, <1>3 DEF ChargeFails, Charged, BudgetTypeOK
  <2>2. /\ tokens' = tokens /\ inputTokens' = inputTokens /\ seen' \in [Calls -> Nat]
        /\ at' \in [Calls -> {"idle", "measuring", "creating", "running", "done", "refused"}]
    BY <1>0, <1>3 DEF ChargeFails, BudgetTypeOK
  <2> QED BY <2>1, <2>2, NoCharge
<1>4. ASSUME NEW c \in Calls, Ends(c) PROVE BudgetInv'
  <2>1. Charged' = Charged
    BY <1>0, <1>4 DEF Ends, Charged, BudgetTypeOK
  <2>2. BudgetTypeOK' /\ UNCHANGED <<tokens, inputTokens>>
    BY <1>0, <1>4 DEF Ends, BudgetTypeOK
  <2> QED BY <2>1, <2>2 DEF BudgetInv, WithinBudget
<1>5. CASE UNCHANGED budgetVars
  <2>1. Charged' = Charged /\ BudgetTypeOK' /\ UNCHANGED <<tokens, inputTokens>>
    BY <1>0, <1>5 DEF budgetVars, Charged, BudgetTypeOK
  <2> QED BY <2>1 DEF BudgetInv, WithinBudget
<1> QED BY <1>1, <1>2, <1>3, <1>4, <1>5 DEF BudgetNext

\* The invariant is the property, for the fold is the sum.
LEMMA BudgetInvHolds == BudgetInv => BudgetHolds
<1>1. MapThenSumSet(LAMBDA c : tokens[c], Charged) = Total(tokens, Charged)
  BY SumIsTotal
<1> QED BY <1>1 DEF BudgetInv, BudgetHolds, Charged

\* The sum of the calls that were charged is what the sandbox has used, and so
\* the check against the counter keeps the budget: for any calls, sizes and
\* order of measuring, charging, failing and ending.
THEOREM BudgetIsKept == BudgetSpec => []BudgetHolds
BY BudgetInvHolds, BudgetInitInv, BudgetNextInv, PTL DEF BudgetSpec

-----------------------------------------------------------------------------
(* The service worker.                                                     *)

\* A message settles what its worker serves at p, and settles it so.
Touches(msg, p) == msg.type = "configure" \/ msg.path = p
Leaves(msg, p) ==
  CASE msg.type = "configure" -> msg.files[p]
    [] msg.type = "define"    -> msg.entry
    [] msg.type = "remove"    -> "none"

\* A worker that serves `held` at p comes to serve v, when it has taken the
\* messages of the box: the last one about p says v, or there is none.
ComesTo(held, box, p, v) ==
  \/ held = v /\ \A i \in DOMAIN box : ~Touches(box[i], p)
  \/ \E i \in DOMAIN box :
       /\ Touches(box[i], p) /\ Leaves(box[i], p) = v
       /\ \A j \in DOMAIN box : j > i => ~Touches(box[j], p)

Configures(box) == \E i \in DOMAIN box : box[i].type = "configure"

\* A message about p, posted last, decides.
LEMMA PostDecides ==
  ASSUME NEW box \in Seq(Messages), NEW msg \in Messages, NEW p, NEW held, Touches(msg, p)
  PROVE  ComesTo(held, Append(box, msg), p, Leaves(msg, p))
<1> DEFINE new == Append(box, msg)
<1>1. Len(box) \in Nat /\ DOMAIN new = 1..(Len(box) + 1) /\ new[Len(box) + 1] = msg
  OBVIOUS
<1> HIDE DEF new
<1>2. Len(box) + 1 \in DOMAIN new /\ \A j \in DOMAIN new : ~(j > Len(box) + 1)
  BY <1>1
<1> QED BY <1>1, <1>2 DEF ComesTo, new

\* A message about another path changes nothing for p.
LEMMA PostLeavesOthers ==
  ASSUME NEW box \in Seq(Messages), NEW msg \in Messages, NEW p, NEW held, NEW v,
         ~Touches(msg, p), ComesTo(held, box, p, v)
  PROVE  ComesTo(held, Append(box, msg), p, v)
<1> DEFINE new == Append(box, msg)
<1>1. /\ Len(box) \in Nat /\ DOMAIN box = 1..Len(box)
      /\ DOMAIN new = 1..(Len(box) + 1) /\ new[Len(box) + 1] = msg
      /\ \A i \in 1..Len(box) : new[i] = box[i]
  OBVIOUS
<1> HIDE DEF new
<1>2. \A i \in DOMAIN new : (i \in DOMAIN box /\ new[i] = box[i]) \/ new[i] = msg
  BY <1>1
<1>3. CASE held = v /\ \A i \in DOMAIN box : ~Touches(box[i], p)
  <2>1. \A i \in DOMAIN new : ~Touches(new[i], p)
    BY <1>2, <1>3
  <2> QED BY <1>3, <2>1 DEF ComesTo, new
<1>4. CASE \E i \in DOMAIN box :
             /\ Touches(box[i], p) /\ Leaves(box[i], p) = v
             /\ \A j \in DOMAIN box : j > i => ~Touches(box[j], p)
  <2>1. PICK i \in DOMAIN box :
             /\ Touches(box[i], p) /\ Leaves(box[i], p) = v
             /\ \A j \in DOMAIN box : j > i => ~Touches(box[j], p)
    BY <1>4
  <2>2. i \in DOMAIN new /\ new[i] = box[i]
    BY <1>1
  <2>3. \A j \in DOMAIN new : j > i => ~Touches(new[j], p)
    BY <1>2, <2>1
  <2> QED BY <2>1, <2>2, <2>3 DEF ComesTo, new
<1> QED BY <1>3, <1>4 DEF ComesTo

\* A message taken does what it says, and leaves the rest to the others.
LEMMA TakingComesTo ==
  ASSUME NEW box \in Seq(Messages), box # <<>>, NEW p, NEW held, NEW v,
         ComesTo(held, box, p, v)
  PROVE  ComesTo(IF Touches(Head(box), p) THEN Leaves(Head(box), p) ELSE held, Tail(box), p, v)
<1> DEFINE rest == Tail(box)
           now  == IF Touches(Head(box), p) THEN Leaves(Head(box), p) ELSE held
<1>1. /\ Len(box) \in Nat /\ Len(box) > 0 /\ DOMAIN box = 1..Len(box)
      /\ DOMAIN rest = 1..(Len(box) - 1) /\ Head(box) = box[1]
      /\ \A i \in 1..(Len(box) - 1) : rest[i] = box[i + 1]
  OBVIOUS
<1>2. \A i \in DOMAIN rest : i \in Int /\ i + 1 \in DOMAIN box /\ i + 1 > 1 /\ rest[i] = box[i + 1]
  BY <1>1
<1>3. 1 \in DOMAIN box
  BY <1>1
<1> HIDE DEF rest
<1>4. CASE held = v /\ \A i \in DOMAIN box : ~Touches(box[i], p)
  <2>1. now = v
    BY <1>1, <1>3, <1>4
  <2>2. \A i \in DOMAIN rest : ~Touches(rest[i], p)
    BY <1>2, <1>4
  <2> HIDE DEF now
  <2> QED BY <2>1, <2>2 DEF ComesTo, rest, now
<1>5. CASE \E i \in DOMAIN box :
             /\ Touches(box[i], p) /\ Leaves(box[i], p) = v
             /\ \A j \in DOMAIN box : j > i => ~Touches(box[j], p)
  <2>1. PICK i \in DOMAIN box :
             /\ Touches(box[i], p) /\ Leaves(box[i], p) = v
             /\ \A j \in DOMAIN box : j > i => ~Touches(box[j], p)
    BY <1>5
  <2>2. CASE i = 1
    <3>1. now = v
      BY <1>1, <2>1, <2>2
    <3>2. \A j \in DOMAIN rest : ~Touches(rest[j], p)
      BY <1>2, <2>1, <2>2
    <3> HIDE DEF now
    <3> QED BY <3>1, <3>2 DEF ComesTo, rest, now
  <2>3. CASE i # 1
    <3>1. i \in Int /\ i - 1 \in DOMAIN rest /\ rest[i - 1] = box[i]
      BY <1>1, <2>3
    <3>2. ASSUME NEW j \in DOMAIN rest, j > i - 1 PROVE ~Touches(rest[j], p)
      <4>1. j + 1 \in DOMAIN box /\ j + 1 > i /\ rest[j] = box[j + 1]
        BY <1>2, <3>1, <3>2
      <4> QED BY <4>1, <2>1
    <3> QED BY <2>1, <3>1, <3>2 DEF ComesTo, rest
  <2> QED BY <2>2, <2>3
<1> QED BY <1>4, <1>5 DEF ComesTo

\* A configure message ahead makes what the worker holds now indifferent.
LEMMA ConfigureAhead ==
  ASSUME NEW box, Configures(box), NEW p, NEW held, NEW v, NEW other, ComesTo(held, box, p, v)
  PROVE  ComesTo(other, box, p, v)
BY DEF Configures, ComesTo, Touches

\* A configure message stays ahead until it is taken.
LEMMA ConfigureStays ==
  ASSUME NEW box \in Seq(Messages)
  PROVE  /\ \A msg \in Messages : Configures(box) \/ msg.type = "configure" => Configures(Append(box, msg))
         /\ Configures(box) => Head(box).type = "configure" \/ Configures(Tail(box))
<1>1. ASSUME NEW msg \in Messages, Configures(box) \/ msg.type = "configure"
      PROVE  Configures(Append(box, msg))
  <2> DEFINE new == Append(box, msg)
  <2>1. /\ Len(box) \in Nat /\ DOMAIN box = 1..Len(box)
        /\ DOMAIN new = 1..(Len(box) + 1) /\ new[Len(box) + 1] = msg
        /\ \A i \in 1..Len(box) : new[i] = box[i]
    OBVIOUS
  <2> HIDE DEF new
  <2>2. Len(box) + 1 \in DOMAIN new /\ \A i \in DOMAIN box : i \in DOMAIN new /\ new[i] = box[i]
    BY <2>1
  <2>3. Configures(new)
    BY <1>1, <2>1, <2>2 DEF Configures
  <2> QED BY <2>3 DEF new
<1>2. ASSUME Configures(box), Head(box).type # "configure"
      PROVE  Configures(Tail(box))
  <2>1. PICK i \in DOMAIN box : box[i].type = "configure"
    BY <1>2 DEF Configures
  <2>2. i \in 1..Len(box) /\ i # 1 /\ Len(box) \in Nat
    BY <1>2, <2>1
  <2>3. i - 1 \in 1..(Len(box) - 1)
    BY <2>2
  <2>4. DOMAIN Tail(box) = 1..(Len(box) - 1) /\ Tail(box)[i - 1] = box[i]
    BY <2>2, <2>3
  <2> QED BY <2>1, <2>3, <2>4 DEF Configures
<1> QED BY <1>1, <1>2

Told == page \in {"configuring", "open", "disposed"}

\* No two workers are active, and only a new version is installed: the page asks.
OneIsActive ==
  /\ state[1] # "installing"
  /\ state[1] = "activated" => state[2] # "activated"
  /\ page = "new" => state[2] = "none"
  /\ page = "waiting" => watched = 2

\* What the page has asked of its active worker is done or on its way; until
\* the first message is answered, also after a stop.
OnItsWay ==
  Told /\ ~lost =>
    /\ \A p \in Paths : ComesTo(files[Active][p], mail[Active], p, table[p])
    /\ acks \/ Configures(mail[Active])

SwInv ==
  /\ SwTypeOK /\ OneIsActive
  /\ Told => Active # 0
  /\ page \in {"open", "disposed"} => acks
  /\ OnItsWay

\* `registration.active` is the active worker.
LEMMA ActiveIs ==
  ASSUME OneIsActive
  PROVE  /\ Active \in {0, 1, 2}
         /\ \A w \in Workers : state[w] = "activated" <=> Active = w
<1>1. CASE \E w \in Workers : state[w] = "activated"
  <2>1. Active \in Workers /\ state[Active] = "activated"
    BY <1>1 DEF Active
  <2> QED BY <2>1 DEF OneIsActive, Workers
<1>2. CASE ~\E w \in Workers : state[w] = "activated"
  BY <1>2 DEF Active, Workers
<1> QED BY <1>1, <1>2

\* So it is after a step.
LEMMA ActiveNext ==
  ASSUME OneIsActive'
  PROVE  /\ Active' \in {0, 1, 2}
         /\ \A w \in Workers : state'[w] = "activated" <=> Active' = w
<1>1. CASE \E w \in Workers : state'[w] = "activated"
  <2>1. Active' \in Workers /\ state'[Active'] = "activated"
    BY <1>1 DEF Active
  <2> QED BY <2>1 DEF OneIsActive, Workers
<1>2. CASE ~\E w \in Workers : state'[w] = "activated"
  BY <1>2 DEF Active, Workers
<1> QED BY <1>1, <1>2

\* The messages the page posts are messages.
LEMMA PostedTyped ==
  ASSUME SwTypeOK
  PROVE  /\ [type |-> "configure", files |-> table] \in Messages
         /\ \A p \in Paths, e \in Entries : [type |-> "define", path |-> p, entry |-> e] \in Messages
         /\ \A p \in Paths : [type |-> "remove", path |-> p] \in Messages
BY DEF SwTypeOK, Messages

\* The first message tells an active worker everything.
LEMMA ConfigureKeeps ==
  ASSUME SwInv, SendConfigure, OneIsActive', state' \in [Workers -> {"none", "installing", "activated", "redundant"}],
         \A w \in Workers : state[w] = "activated" <=> state'[w] = "activated",
         timer' \in BOOLEAN, watched' \in 0..2, UNCHANGED <<files, acks, ops, table, lost>>
  PROVE  SwInv'
<1> DEFINE msg == [type |-> "configure", files |-> table]
<1>1. Active \in {0, 1, 2} /\ Active' = Active
  <2>1. OneIsActive
    BY DEF SwInv
  <2>2. \A w \in Workers : Active = w <=> Active' = w
    BY <2>1, ActiveIs, ActiveNext
  <2> QED BY <2>1, <2>2, ActiveIs, ActiveNext DEF Workers
<1>2. CASE Active = 0
  <2>1. page' = "failed" /\ mail' = mail
    BY <1>2 DEF SendConfigure
  <2> QED BY <2>1 DEF SwInv, SwTypeOK, OnItsWay, Told
<1>3. CASE Active # 0
  <2>1. page' = "configuring" /\ mail' = [mail EXCEPT ![Active] = Append(@, msg)]
    BY <1>3 DEF SendConfigure, Post
  <2>2. Active \in Workers /\ mail[Active] \in Seq(Messages) /\ msg \in Messages
    BY <1>1, <1>3, PostedTyped DEF SwInv, SwTypeOK, Workers
  <2>3. mail'[Active] = Append(mail[Active], msg) /\ mail' \in [Workers -> Seq(Messages)]
    BY <2>1, <2>2 DEF SwInv, SwTypeOK
  <2>4. Configures(mail'[Active])
    BY <2>2, <2>3, ConfigureStays
  <2>5. ASSUME NEW p \in Paths PROVE ComesTo(files[Active][p], mail'[Active], p, table[p])
    <3>1. Touches(msg, p) /\ Leaves(msg, p) = table[p]
      BY DEF Touches, Leaves
    <3> QED BY <2>2, <2>3, <3>1, PostDecides
  <2>6. SwTypeOK'
    BY <2>1, <2>3 DEF SwInv, SwTypeOK
  <2> QED BY <1>1, <1>3, <2>1, <2>4, <2>5, <2>6 DEF SwInv, OnItsWay, Told
<1> QED BY <1>2, <1>3

\* A message about one path, while the page is open.
LEMMA PostKeeps ==
  ASSUME SwInv, page = "open", Active # 0, NEW q \in Paths, NEW msg \in Messages,
         NEW v \in Entries \cup {"none"}, msg.type # "configure", msg.path = q, Leaves(msg, q) = v,
         Post(Active, msg), table' = [table EXCEPT ![q] = v], ops' \in 0..MaxOps,
         UNCHANGED <<page, timer, watched, state, files, acks, lost>>
  PROVE  SwInv'
<1>1. Active \in Workers /\ mail[Active] \in Seq(Messages) /\ Active' = Active
  BY ActiveIs DEF SwInv, SwTypeOK, Workers, Active
<1>2. mail'[Active] = Append(mail[Active], msg) /\ mail' \in [Workers -> Seq(Messages)]
  BY <1>1 DEF SwInv, SwTypeOK, Post
<1>3. SwTypeOK'
  BY <1>2 DEF SwInv, SwTypeOK, Tables
<1>4. ASSUME NEW p \in Paths, ~lost PROVE ComesTo(files[Active][p], mail'[Active], p, table'[p])
  <2>1. CASE p = q
    <3>1. Touches(msg, p) /\ table'[p] = Leaves(msg, p)
      BY <2>1 DEF Touches, SwInv, SwTypeOK, Tables
    <3> QED BY <1>1, <1>2, <3>1, PostDecides
  <2>2. CASE p # q
    <3>1. ~Touches(msg, p) /\ table'[p] = table[p]
      BY <2>2 DEF Touches, SwInv, SwTypeOK, Tables
    <3>2. ComesTo(files[Active][p], mail[Active], p, table[p])
      BY <1>4 DEF SwInv, OnItsWay, Told
    <3> QED BY <1>1, <1>2, <3>1, <3>2, PostLeavesOthers
  <2> QED BY <2>1, <2>2
<1> QED BY <1>1, <1>3, <1>4 DEF SwInv, OneIsActive, OnItsWay, Told

\* The worker's handler does to its files what the message says.
LEMMA HandlerLeaves ==
  ASSUME SwInv, NEW w \in Workers, TakesMessage(w)
  PROVE  /\ Head(mail[w]) \in Messages /\ files' \in [Workers -> Tables]
         /\ \A p \in Paths : files'[w][p] =
              IF Touches(Head(mail[w]), p) THEN Leaves(Head(mail[w]), p) ELSE files[w][p]
<1>1. /\ mail[w] \in Seq(Messages) /\ mail[w] # <<>> /\ Head(mail[w]) \in Messages
      /\ files \in [Workers -> Tables] /\ files[w] \in Tables
  BY DEF SwInv, SwTypeOK, TakesMessage
<1> DEFINE msg == Head(mail[w])
<1>2. files' = [files EXCEPT ![w] =
        CASE msg.type = "configure" -> Replaced(files[w], msg.files)
          [] msg.type = "define"    -> [files[w] EXCEPT ![msg.path] = msg.entry]
          [] msg.type = "remove"    -> [files[w] EXCEPT ![msg.path] = "none"]]
  BY DEF TakesMessage
<1> HIDE DEF msg
<1>3. msg \in Messages
  BY <1>1 DEF msg
<1>4. CASE msg.type = "configure"
  <2>1. msg.files \in Tables /\ files' = [files EXCEPT ![w] = msg.files]
    BY <1>2, <1>3, <1>4 DEF Messages, Replaced
  <2> QED BY <1>1, <1>4, <2>1 DEF Touches, Leaves, msg
<1>5. CASE msg.type = "define"
  <2>1. msg.path \in Paths /\ msg.entry \in Entries
    BY <1>3, <1>5 DEF Messages
  <2>2. files'[w] = [files[w] EXCEPT ![msg.path] = msg.entry]
    BY <1>1, <1>2, <1>5
  <2>3. files' \in [Workers -> Tables]
    BY <1>1, <1>2, <1>5, <2>1 DEF Tables
  <2> QED BY <1>1, <1>5, <2>1, <2>2, <2>3 DEF Touches, Leaves, Tables, msg
<1>6. CASE msg.type = "remove"
  <2>1. msg.path \in Paths
    BY <1>3, <1>6 DEF Messages
  <2>2. files'[w] = [files[w] EXCEPT ![msg.path] = "none"]
    BY <1>1, <1>2, <1>6
  <2>3. files' \in [Workers -> Tables]
    BY <1>1, <1>2, <1>6, <2>1 DEF Tables
  <2> QED BY <1>1, <1>6, <2>1, <2>2, <2>3 DEF Touches, Leaves, Tables, msg
<1> QED BY <1>3, <1>4, <1>5, <1>6 DEF Messages

\* A message taken brings the worker closer to what the page wants.
LEMMA TakesKeeps ==
  ASSUME SwInv, NEW w \in Workers, TakesMessage(w)
  PROVE  SwInv'
<1> DEFINE msg == Head(mail[w])
<1>1. /\ mail[w] \in Seq(Messages) /\ mail[w] # <<>> /\ w = Active /\ Active' = Active
      /\ mail' = [mail EXCEPT ![w] = Tail(@)] /\ acks' = (acks \/ msg.type = "configure")
      /\ UNCHANGED <<page, timer, watched, state, ops, table, lost>>
  BY ActiveIs DEF SwInv, SwTypeOK, TakesMessage, Active
<1>2. mail'[w] = Tail(mail[w]) /\ mail' \in [Workers -> Seq(Messages)]
  BY <1>1 DEF SwInv, SwTypeOK
<1>3. SwTypeOK'
  BY <1>1, <1>2, HandlerLeaves DEF SwInv, SwTypeOK
<1>4. ASSUME Told, ~lost, NEW p \in Paths PROVE ComesTo(files'[w][p], mail'[w], p, table[p])
  <2>1. ComesTo(files[w][p], mail[w], p, table[p])
    BY <1>1, <1>4 DEF SwInv, OnItsWay
  <2>2. files'[w][p] = IF Touches(msg, p) THEN Leaves(msg, p) ELSE files[w][p]
    BY HandlerLeaves
  <2> QED BY <1>1, <1>2, <2>1, <2>2, TakingComesTo
<1>5. ASSUME Told, ~lost PROVE acks' \/ Configures(mail'[w])
  BY <1>1, <1>2, <1>5, ConfigureStays DEF SwInv, OnItsWay
<1> QED BY <1>1, <1>3, <1>4, <1>5 DEF SwInv, OneIsActive, OnItsWay, Told

\* Nobody has been told anything at first.
LEMMA SwInitInv == SwInit => SwInv
<1> SUFFICES ASSUME SwInit PROVE SwInv
  OBVIOUS
<1>1. page = "new" /\ watched = 0 /\ timer = FALSE /\ acks = FALSE /\ lost = FALSE
      /\ table \in Tables /\ ops = 0
  BY DEF SwInit
<1>2. state[1] # "installing" /\ state[2] = "none"
      /\ state \in [Workers -> {"none", "installing", "activated", "redundant"}]
  BY DEF SwInit, Workers
<1>3. files \in [Workers -> Tables]
  <2>1. NoFiles \in Tables
    BY DEF NoFiles, Tables
  <2>2. PICK t \in Tables : files = <<IF state[1] = "none" THEN NoFiles ELSE t, NoFiles>>
    BY DEF SwInit
  <2> QED BY <2>1, <2>2 DEF Workers
<1>4. mail \in [Workers -> Seq(Messages)]
  <2>1. mail = [w \in Workers |-> <<>>]
    BY DEF SwInit, Workers
  <2>2. <<>> \in Seq(Messages)
    OBVIOUS
  <2> QED BY <2>1, <2>2
<1>5. 0 \in 0..MaxOps
  BY SwAssumption
<1>6. SwTypeOK
  <2>1. timer \in BOOLEAN /\ acks \in BOOLEAN /\ lost \in BOOLEAN
    BY <1>1
  <2>2. watched \in 0..2 /\ ops \in 0..MaxOps
    BY <1>1, <1>5
  <2> QED BY <1>1, <1>2, <1>3, <1>4, <2>1, <2>2 DEF SwTypeOK
<1> QED BY <1>1, <1>2, <1>6 DEF SwInv, OneIsActive, OnItsWay, Told

\* Every step of the page, its workers and the browser keeps the invariant.
LEMMA SwNextInv == SwInv /\ [SwNext]_swVars => SwInv'
<1> SUFFICES ASSUME SwInv, [SwNext]_swVars PROVE SwInv'
  OBVIOUS
<1>0. OneIsActive /\ SwTypeOK
  BY DEF SwInv
<1>1. CASE Register
  <2>1. UNCHANGED <<files, acks, ops, table, lost>> /\ page = "new"
    BY <1>1 DEF Register
  <2>2. CASE /\ page' = "failed" /\ UNCHANGED <<timer, watched, mail>>
             /\ UNCHANGED state \/ state' = [state EXCEPT ![2] = "redundant"]
    <3>1. /\ state'[1] = state[1] /\ state'[2] \in {state[2], "redundant"}
          /\ state' \in [Workers -> {"none", "installing", "activated", "redundant"}]
      BY <1>0, <2>2 DEF SwTypeOK, Workers
    <3>2. OneIsActive'
      BY <1>0, <2>2, <3>1 DEF OneIsActive
    <3>3. SwTypeOK'
      BY <1>0, <2>1, <2>2, <3>1 DEF SwTypeOK
    <3> QED BY <2>2, <3>2, <3>3 DEF SwInv, OnItsWay, Told
  <2>3. CASE /\ Active # 0 
             /\ UNCHANGED state \/ state' = [state EXCEPT ![2] = "installing"]
             /\ SendConfigure /\ UNCHANGED <<timer, watched>>
    <3>1. /\ state[2] = "none" /\ state[1] # "installing"
          /\ state \in [Workers -> {"none", "installing", "activated", "redundant"}]
          /\ timer \in BOOLEAN /\ watched \in 0..2
      BY <2>1, <1>0 DEF OneIsActive, SwTypeOK
    <3>2. /\ state' \in [Workers -> {"none", "installing", "activated", "redundant"}]
          /\ \A w \in Workers : state[w] = "activated" <=> state'[w] = "activated"
          /\ state'[1] = state[1] /\ state'[2] # "activated"
      BY <2>3, <3>1 DEF Workers
    <3>3. page' = "configuring"
      BY <2>3 DEF SendConfigure
    <3>4. OneIsActive'
      BY <3>1, <3>2, <3>3 DEF OneIsActive
    <3> QED BY <2>1, <2>3, <3>1, <3>2, <3>4, ConfigureKeeps
  <2>4. CASE /\ Active = 0 /\ state' = [state EXCEPT ![2] = "installing"]
             /\ page' = "waiting" /\ watched' = 2 /\ timer' = TRUE
             /\ UNCHANGED mail
    <3>1. state[1] # "activated" /\ state'[1] = state[1] /\ state'[2] = "installing"
          /\ state' \in [Workers -> {"none", "installing", "activated", "redundant"}]
      BY <2>4, <1>0, ActiveIs DEF Workers, SwTypeOK
    <3> QED BY <2>1, <2>4, <3>1 DEF SwInv, SwTypeOK, OneIsActive, OnItsWay, Told
  <2> QED BY <1>1, <2>1, <2>2, <2>3, <2>4 DEF Register
<1>2. CASE StateChange
  <2>1. OneIsActive'
    BY <1>0, <1>2 DEF StateChange, OneIsActive, SendConfigure
  <2>2. /\ timer' = FALSE /\ watched' = 0
        /\ UNCHANGED <<state, files, acks, ops, table, lost>>
    BY <1>2 DEF StateChange
  <2>3. /\ timer' \in BOOLEAN /\ watched' \in 0..2
        /\ state' \in [Workers -> {"none", "installing", "activated", "redundant"}]
    <3>1. timer' \in BOOLEAN
      BY <2>2
    <3>2. watched' \in 0..2
      BY <2>2
    <3> QED BY <1>0, <2>2, <3>1, <3>2 DEF SwTypeOK
  <2>4. CASE SendConfigure
    BY <2>1, <2>2, <2>3, <2>4, ConfigureKeeps
  <2>5. CASE page' = "failed" /\ UNCHANGED mail
    <3>1. SwTypeOK'
      BY <1>0, <2>2, <2>3, <2>5 DEF SwTypeOK
    <3> QED BY <2>1, <2>5, <3>1 DEF SwInv, OnItsWay, Told
  <2> QED BY <1>2, <2>4, <2>5 DEF StateChange
<1>3. CASE ActivationTimeout
  <2>1. /\ timer' = FALSE /\ watched' = 0 /\ page' = "failed"
        /\ UNCHANGED <<state, files, mail, acks, ops, table, lost>>
    BY <1>3 DEF ActivationTimeout
  <2>2. SwTypeOK'
    <3>1. timer' \in BOOLEAN
      BY <2>1
    <3>2. watched' \in 0..2
      BY <2>1
    <3> QED BY <1>0, <2>1, <3>1, <3>2 DEF SwTypeOK
  <2> QED BY <1>0, <2>1, <2>2 DEF SwInv, OneIsActive, OnItsWay, Told
<1>4. CASE Configured
  BY <1>4 DEF Configured, SwInv, SwTypeOK, OneIsActive, OnItsWay, Told, Active
<1>5. CASE DisposePage
  BY <1>5 DEF DisposePage, SwInv, SwTypeOK, OneIsActive, OnItsWay, Told, Active
<1>6. ASSUME NEW p \in Paths, RemoveFile(p) PROVE SwInv'
  <2> DEFINE msg == [type |-> "remove", path |-> p]
  <2>1. msg \in Messages /\ msg.type # "configure" /\ msg.path = p /\ Leaves(msg, p) = "none"
    BY <1>0, PostedTyped DEF Leaves
  <2>2. page = "open" /\ Active # 0 /\ Post(Active, msg) /\ table' = [table EXCEPT ![p] = "none"]
        /\ UNCHANGED <<page, timer, watched, state, files, acks, lost>>
    BY <1>6 DEF RemoveFile
  <2>3. ops' \in 0..MaxOps
    BY <1>0, <1>6, SwAssumption DEF RemoveFile, SwTypeOK
  <2> HIDE DEF msg
  <2> QED BY <2>1, <2>2, <2>3, PostKeeps
<1>7. ASSUME NEW p \in Paths, NEW e \in Entries, DefineFile(p, e) PROVE SwInv'
  <2> DEFINE msg == [type |-> "define", path |-> p, entry |-> e]
  <2>1. msg \in Messages /\ msg.type # "configure" /\ msg.path = p /\ Leaves(msg, p) = e
    BY <1>0, PostedTyped DEF Leaves
  <2>2. page = "open" /\ Active # 0 /\ Post(Active, msg) /\ table' = [table EXCEPT ![p] = e]
        /\ UNCHANGED <<page, timer, watched, state, files, acks, lost>>
    BY <1>7 DEF DefineFile
  <2>3. ops' \in 0..MaxOps
    BY <1>0, <1>7, SwAssumption DEF DefineFile, SwTypeOK
  <2> HIDE DEF msg
  <2> QED BY <2>1, <2>2, <2>3, PostKeeps
<1>8. CASE Activates
  <2>1. /\ state[2] = "installing" /\ page # "new"
        /\ state' = <<IF state[1] = "activated" THEN "redundant" ELSE state[1], "activated">>
        /\ lost' = (lost \/ Told)
        /\ UNCHANGED <<page, timer, watched, files, mail, acks, ops, table>>
    BY <1>0, <1>8 DEF Activates, OneIsActive, Told
  <2>2. /\ state'[1] # "activated" /\ state'[1] # "installing" /\ state'[2] = "activated"
        /\ state' \in [Workers -> {"none", "installing", "activated", "redundant"}]
    BY <1>0, <2>1 DEF OneIsActive, SwTypeOK, Workers
  <2>3. OneIsActive'
    BY <1>0, <2>1, <2>2 DEF OneIsActive
  <2>4. Active' = 2
    BY <2>2, <2>3, ActiveNext DEF Workers
  <2>5. lost \in BOOLEAN /\ lost' \in BOOLEAN
    BY <1>0, <2>1 DEF SwTypeOK, Told
  <2>6. SwTypeOK'
    BY <1>0, <2>1, <2>2, <2>5 DEF SwTypeOK
  <2>7. Told' = Told /\ (Told => lost') /\ (page' \in {"open", "disposed"} => acks')
    BY <2>1 DEF Told, SwInv
  <2> QED BY <2>3, <2>4, <2>6, <2>7 DEF SwInv, OnItsWay
<1>9. CASE InstallFails
  <2>1. /\ state[2] = "installing" /\ state' = [state EXCEPT ![2] = "redundant"] /\ page # "new"
        /\ UNCHANGED <<page, timer, watched, files, mail, acks, ops, table, lost>>
    BY <1>0, <1>9 DEF InstallFails, OneIsActive
  <2>2. /\ state'[1] = state[1] /\ state'[2] = "redundant"
        /\ state' \in [Workers -> {"none", "installing", "activated", "redundant"}]
    BY <1>0, <2>1 DEF SwTypeOK, Workers
  <2>3. OneIsActive'
    BY <1>0, <2>1, <2>2 DEF OneIsActive
  <2>4. Active' = Active
    <3>1. \A w \in Workers : Active = w <=> Active' = w
      BY <1>0, <2>1, <2>2, <2>3, ActiveIs, ActiveNext DEF Workers
    <3> QED BY <1>0, <2>3, <3>1, ActiveIs, ActiveNext DEF Workers
  <2> QED BY <2>1, <2>2, <2>3, <2>4 DEF SwInv, SwTypeOK, OnItsWay, Told
<1>10. ASSUME NEW w \in Workers, TakesMessage(w) PROVE SwInv'
  BY <1>10, TakesKeeps
<1>11. ASSUME NEW w \in Workers, Stops(w) PROVE SwInv'
  <2>1. /\ w = Active /\ Active' = Active /\ files' = [files EXCEPT ![w] = NoFiles]
        /\ lost' = (lost \/ acks)
        /\ UNCHANGED <<page, timer, watched, state, mail, acks, ops, table>>
    BY <1>0, <1>11, ActiveIs DEF Stops, Active
  <2>2. SwTypeOK'
    BY <1>0, <2>1 DEF SwTypeOK, Tables, NoFiles
  <2>3. ASSUME Told, ~lost', NEW p \in Paths PROVE ComesTo(files'[w][p], mail[w], p, table[p])
    <3>1. Configures(mail[w]) /\ ComesTo(files[w][p], mail[w], p, table[p])
      BY <2>1, <2>3 DEF SwInv, OnItsWay
    <3> QED BY <3>1, ConfigureAhead
  <2> QED BY <2>1, <2>2, <2>3 DEF SwInv, OneIsActive, OnItsWay, Told
<1>12. CASE UNCHANGED swVars
  BY <1>12 DEF swVars, SwInv, SwTypeOK, OneIsActive, OnItsWay, Told, Active
<1> QED BY <1>1, <1>2, <1>3, <1>4, <1>5, <1>6, <1>7, <1>8, <1>9, <1>10, <1>11, <1>12 DEF SwNext

\* With no message left, what is on its way has come.
LEMMA SwInvServes == SwInv => SwServes
<1> SUFFICES ASSUME SwInv, page \in {"open", "disposed"}, ~lost, mail[Active] = <<>>
             PROVE  files[Active] = table
  BY DEF SwInv, SwServes, Told
<1>1. Active \in Workers /\ files[Active] \in Tables /\ table \in Tables
  BY ActiveIs DEF SwInv, SwTypeOK, Told, Workers
<1>2. ASSUME NEW p \in Paths PROVE files[Active][p] = table[p]
  <2>1. ComesTo(files[Active][p], mail[Active], p, table[p])
    BY DEF SwInv, OnItsWay, Told
  <2> QED BY <2>1 DEF ComesTo
<1> QED BY <1>1, <1>2 DEF Tables

\* For any paths, contents and order of calls and of the browser's steps: from
\* the time createSandbox() has resolved, the active worker serves the page's
\* files when it has taken its messages, unless it was stopped or replaced
\* after it had been told.
THEOREM ServiceWorkerServes == SwSpec => []SwServes
BY SwInvServes, SwInitInv, SwNextInv, PTL DEF SwSpec

-----------------------------------------------------------------------------
(* The console streams.                                                    *)

\* StdioDelivers message by message; after return() there is nothing to push.
StdioInv ==
  /\ StdioTypeOK
  /\ \A i \in 1..Len(got) : got[i] = i
  /\ ~returned => /\ Len(got) + Len(buffer) = pushed
                  /\ \A i \in 1..Len(buffer) : buffer[i] = Len(got) + i
  /\ returned => done /\ buffer = <<>>
  /\ slot # "none" => buffer = <<>> /\ read[slot] = "waiting" /\ (done => returned)

\* A message goes to the read that waits, or behind those that wait for one.
LEMMA PushKeeps ==
  ASSUME StdioInv, Push
  PROVE  StdioInv'
<1>1. /\ buffer \in Seq(1..MaxPushed) /\ got \in Seq(1..MaxPushed) /\ pushed \in Nat
      /\ pushed + 1 \in 1..MaxPushed /\ pushed' = pushed + 1
      /\ ~returned /\ ~done /\ done' = done /\ returned' = returned
  BY StdioAssumption DEF StdioInv, StdioTypeOK, Push
<1>2. CASE slot # "none"
  <2>1. buffer = <<>> /\ read[slot] = "waiting" /\ slot \in Reads /\ Len(got) = pushed
    BY <1>1, <1>2 DEF StdioInv, StdioTypeOK
  <2>2. /\ read' = [read EXCEPT ![slot] = "value"] /\ slot' = "none"
        /\ got' = Append(got, pushed + 1) /\ buffer' = buffer
    BY <1>1, <1>2, <2>1 DEF Push, Resolved, SlotTaken
  <2>3. /\ got' \in Seq(1..MaxPushed) /\ Len(got') = pushed + 1 /\ got'[pushed + 1] = pushed + 1
        /\ \A i \in 1..pushed : got'[i] = got[i]
    BY <1>1, <2>1, <2>2
  <2>4. StdioTypeOK'
    BY <1>1, <2>1, <2>2, <2>3 DEF StdioInv, StdioTypeOK
  <2>5. \A i \in 1..Len(got') : got'[i] = i
    BY <1>1, <2>1, <2>3 DEF StdioInv
  <2> QED BY <1>1, <2>1, <2>2, <2>3, <2>4, <2>5 DEF StdioInv
<1>3. CASE slot = "none"
  <2>1. buffer' = Append(buffer, pushed + 1) /\ UNCHANGED <<read, slot, got>>
    BY <1>1, <1>3 DEF Push
  <2>2. /\ buffer' \in Seq(1..MaxPushed) /\ Len(buffer') = Len(buffer) + 1
        /\ buffer'[Len(buffer) + 1] = pushed + 1
        /\ \A i \in 1..Len(buffer) : buffer'[i] = buffer[i]
    BY <1>1, <2>1
  <2>3. StdioTypeOK'
    BY <1>1, <2>1, <2>2 DEF StdioInv, StdioTypeOK
  <2>4. \A i \in 1..Len(buffer') : buffer'[i] = Len(got') + i
    BY <1>1, <2>1, <2>2 DEF StdioInv
  <2> QED BY <1>1, <1>3, <2>1, <2>2, <2>3, <2>4 DEF StdioInv
<1> QED BY <1>2, <1>3

\* A read takes the oldest message, or the slot when there is none.
LEMMA ReadKeeps ==
  ASSUME StdioInv, NEW r \in Reads, Read(r)
  PROVE  StdioInv'
<1>1. /\ buffer \in Seq(1..MaxPushed) /\ got \in Seq(1..MaxPushed)
      /\ UNCHANGED <<done, pushed, returned>> /\ pushed \in Nat
  BY DEF StdioInv, StdioTypeOK, Read
<1>2. CASE buffer # <<>>
  <2>1. /\ got' = Append(got, Head(buffer)) /\ buffer' = Tail(buffer) /\ slot' = slot
        /\ read' = [read EXCEPT ![r] = "value"]
    BY <1>2 DEF Read
  <2>2. ~returned /\ slot = "none" /\ Head(buffer) = Len(got) + 1 /\ Len(buffer) > 0
    <3>1. Len(buffer) > 0 /\ Head(buffer) = buffer[1]
      BY <1>1, <1>2
    <3>2. ~returned /\ slot = "none"
      BY <1>2 DEF StdioInv
    <3> QED BY <1>1, <3>1, <3>2 DEF StdioInv
  <2>3. /\ got' \in Seq(1..MaxPushed) /\ Len(got') = Len(got) + 1
        /\ got'[Len(got) + 1] = Len(got) + 1 /\ \A i \in 1..Len(got) : got'[i] = got[i]
    <3>1. Head(buffer) \in 1..MaxPushed
      BY <1>1, <1>2, HeadTailProperties
    <3> QED BY <1>1, <2>1, <2>2, <3>1
  <2>4. /\ buffer' \in Seq(1..MaxPushed) /\ Len(buffer') = Len(buffer) - 1
        /\ \A i \in 1..Len(buffer') : buffer'[i] = buffer[i + 1]
    BY <1>1, <1>2, <2>1, <2>2
  <2>5. StdioTypeOK'
    BY <1>1, <2>1, <2>3, <2>4 DEF StdioInv, StdioTypeOK
  <2>6. \A i \in 1..Len(got') : got'[i] = i
    BY <1>1, <2>3 DEF StdioInv
  <2>7. /\ Len(got') + Len(buffer') = pushed
        /\ \A i \in 1..Len(buffer') : buffer'[i] = Len(got') + i
    <3>1. Len(got) + Len(buffer) = pushed /\ Len(got) \in Nat /\ Len(buffer) \in Nat
          /\ \A i \in 1..Len(buffer) : buffer[i] = Len(got) + i
      BY <1>1, <2>2 DEF StdioInv
    <3>2. ASSUME NEW i \in 1..Len(buffer') PROVE buffer'[i] = Len(got') + i
      <4>1. i + 1 \in 1..Len(buffer) /\ buffer'[i] = buffer[i + 1]
        BY <2>4, <3>1
      <4> QED BY <4>1, <3>1, <2>3
    <3> QED BY <3>1, <3>2, <2>3, <2>4
  <2> QED BY <1>1, <2>1, <2>2, <2>5, <2>6, <2>7 DEF StdioInv
<1>3. CASE buffer = <<>>
  <2>1. CASE done
    <3>1. read' = [read EXCEPT ![r] = "done"] /\ UNCHANGED <<got, buffer, slot>>
      BY <1>3, <2>1 DEF Read
    <3>2. slot # "none" => slot # r
      BY DEF StdioInv, Read
    <3> QED BY <1>1, <3>1, <3>2 DEF StdioInv, StdioTypeOK
  <2>2. CASE ~done
    <3>1. slot' = r /\ read' = [read EXCEPT ![r] = "waiting"] /\ UNCHANGED <<got, buffer>>
      BY <1>3, <2>2 DEF Read
    <3>2. StdioTypeOK'
      BY <1>1, <3>1 DEF StdioInv, StdioTypeOK
    <3> QED BY <1>1, <1>3, <2>2, <3>1, <3>2 DEF StdioInv, StdioTypeOK
  <2> QED BY <2>1, <2>2
<1> QED BY <1>2, <1>3

\* An empty stream satisfies the invariant.
LEMMA StdioInitInv == StdioInit => StdioInv
<1> SUFFICES ASSUME StdioInit PROVE StdioInv
  OBVIOUS
<1>1. /\ buffer = <<>> /\ got = <<>> /\ Len(buffer) = 0 /\ Len(got) = 0
      /\ buffer \in Seq(1..MaxPushed) /\ got \in Seq(1..MaxPushed)
  BY DEF StdioInit
<1>2. pushed = 0 /\ 0 \in 0..MaxPushed
  BY StdioAssumption DEF StdioInit
<1>3. slot = "none" /\ done = FALSE /\ returned = FALSE /\ read = [r \in Reads |-> "unborn"]
  BY DEF StdioInit
<1>4. StdioTypeOK
  <2>1. pushed \in 0..MaxPushed
    BY <1>2
  <2>2. read \in [Reads -> {"unborn", "waiting", "value", "done"}]
    BY <1>3
  <2> QED BY <1>1, <1>3, <2>1, <2>2 DEF StdioTypeOK
<1> QED BY <1>1, <1>2, <1>3, <1>4 DEF StdioInv

\* Every step of a stream keeps the invariant.
LEMMA StdioNextInv == StdioInv /\ [StdioNext]_stdioVars => StdioInv'
<1> SUFFICES ASSUME StdioInv, [StdioNext]_stdioVars PROVE StdioInv'
  OBVIOUS
<1>1. CASE Push
  BY <1>1, PushKeeps
<1>2. CASE End
  BY <1>2, StdioAssumption DEF End, Resolved, SlotTaken, StdioInv, StdioTypeOK
<1>3. CASE Return
  BY <1>3 DEF Return, StdioInv, StdioTypeOK
<1>4. ASSUME NEW r \in Reads, Read(r) PROVE StdioInv'
  BY <1>4, ReadKeeps
<1>5. CASE UNCHANGED stdioVars
  BY <1>5 DEF stdioVars, StdioInv, StdioTypeOK
<1> QED BY <1>1, <1>2, <1>3, <1>4, <1>5 DEF StdioNext

\* What was read and what is buffered are the messages pushed, in order.
LEMMA StdioInvDelivers == StdioInv => StdioDelivers
<1> SUFFICES ASSUME StdioInv PROVE StdioDelivers
  OBVIOUS
<1>1. got \in Seq(1..MaxPushed) /\ buffer \in Seq(1..MaxPushed) /\ pushed \in Nat
  BY DEF StdioInv, StdioTypeOK
<1>2. ASSUME ~returned PROVE got \o buffer = [i \in 1..pushed |-> i]
  <2> DEFINE both == got \o buffer
  <2>1. Len(got) + Len(buffer) = pushed /\ Len(got) \in Nat /\ Len(buffer) \in Nat
    BY <1>1, <1>2 DEF StdioInv
  <2>2. both \in Seq(1..MaxPushed) /\ Len(both) = pushed
    BY <1>1, <2>1
  <2>3. \A i \in 1..pushed : both[i] = IF i <= Len(got) THEN got[i] ELSE buffer[i - Len(got)]
    BY <1>1, <2>1
  <2>4. ASSUME NEW i \in 1..pushed PROVE both[i] = i
    <3>1. CASE i <= Len(got)
      BY <3>1, <2>1, <2>3 DEF StdioInv
    <3>2. CASE i > Len(got)
      <4>1. i - Len(got) \in 1..Len(buffer)
        BY <3>2, <2>1
      <4> QED BY <4>1, <3>2, <2>1, <2>3, <1>2 DEF StdioInv
    <3> QED BY <3>1, <3>2, <2>1
  <2>5. both \in [1..pushed -> 1..MaxPushed]
    <3> HIDE DEF both
    <3> QED BY <2>2, LenProperties
  <2>6. both = [i \in 1..pushed |-> both[i]]
    <3> HIDE DEF both
    <3> QED BY <2>5
  <2> QED BY <2>4, <2>6
<1>3. DOMAIN got = 1..Len(got)
  BY <1>1
<1> QED BY <1>2, <1>3 DEF StdioInv, StdioDelivers

\* However many readers there are, and whenever the stream ends, messages come
\* once and in order, and a read waits only when there is nothing to read.
THEOREM StdioInOrder == StdioSpec => []StdioDelivers
BY StdioInvDelivers, StdioInitInv, StdioNextInv, PTL DEF StdioSpec

-----------------------------------------------------------------------------
(* The virtual module registry.                                            *)

\* Each path's URL is fetchable and is the one made for its present source.
RegistryInv ==
  /\ RegistryTypeOK
  /\ \A p \in Files : urls[p] # NoUrl =>
       urls[p] \in fetchable /\ issued[urls[p]] = [path |-> p, source |-> sources[p]]
  /\ backend = "blob" => fetchable = Range(urls) \ {NoUrl}
  /\ spent => fetchable = {}
  /\ backend = "node" /\ ~spent => \A u \in DOMAIN issued : urls[issued[u].path] # NoUrl

\* define() makes a fresh URL, or keeps the one of the same source.
LEMMA DefineKeeps ==
  ASSUME RegistryInv, NEW p \in Files, NEW src \in Sources, Define(p, src)
  PROVE  RegistryInv'
<1>1. /\ issued \in Seq([path : Files, source : Sources]) /\ urls \in [Files -> 0..MaxUrls]
      /\ sources \in [Files -> Sources \cup {"none"}] /\ Len(issued) \in Nat
      /\ DOMAIN issued = 1..Len(issued) /\ fetchable \subseteq 1..Len(issued)
      /\ sources' = [sources EXCEPT ![p] = src] /\ ~spent
      /\ UNCHANGED <<backend, loaded, spent>>
  BY RegistryAssumption DEF RegistryInv, RegistryTypeOK, Define
<1>2. CASE KeepsVersion(p, src)
  <2>1. UNCHANGED <<urls, issued, fetchable, sources>>
    BY <1>1, <1>2 DEF Define, KeepsVersion
  <2> QED BY <1>1, <2>1 DEF RegistryInv, RegistryTypeOK
<1>3. CASE ~KeepsVersion(p, src)
  <2> DEFINE n == Len(issued) + 1
  <2>1. /\ issued' = Append(issued, [path |-> p, source |-> src]) /\ Len(issued') = n
        /\ urls' = [urls EXCEPT ![p] = n] /\ n \in 1..MaxUrls
        /\ fetchable' = Unrevoked(p) \cup {n}
    <3>1. /\ Len(issued) < MaxUrls /\ issued' = Append(issued, [path |-> p, source |-> src])
          /\ urls' = [urls EXCEPT ![p] = Len(issued')]
          /\ fetchable' = Unrevoked(p) \cup {Len(issued')}
      BY <1>3 DEF Define
    <3>2. Len(issued') = n
      BY <1>1, <3>1
    <3>3. n \in 1..MaxUrls
      BY <1>1, <3>1, RegistryAssumption
    <3> QED BY <3>1, <3>2, <3>3
  <2>2. /\ issued' \in Seq([path : Files, source : Sources]) /\ DOMAIN issued' = 1..n
        /\ issued'[n] = [path |-> p, source |-> src]
        /\ \A u \in 1..Len(issued) : issued'[u] = issued[u]
    BY <1>1, <2>1
  <2>3. RegistryTypeOK'
    BY <1>1, <2>1, <2>2 DEF RegistryInv, RegistryTypeOK, Unrevoked
  <2>4. ASSUME NEW q \in Files, urls'[q] # NoUrl
        PROVE  urls'[q] \in fetchable' /\ issued'[urls'[q]] = [path |-> q, source |-> sources'[q]]
    <3>1. CASE q = p
      BY <3>1, <1>1, <2>1, <2>2
    <3>2. CASE q # p
      <4>1. urls[q] # NoUrl /\ urls'[q] = urls[q] /\ sources'[q] = sources[q]
        BY <3>2, <2>4, <1>1, <2>1
      <4>2. urls[q] \in fetchable /\ issued[urls[q]] = [path |-> q, source |-> sources[q]]
        BY <4>1 DEF RegistryInv
      <4>3. urls[q] # urls[p]
        <5>1. ASSUME urls[q] = urls[p] PROVE FALSE
          <6>1. issued[urls[p]] = [path |-> p, source |-> sources[p]]
            BY <5>1, <4>1 DEF RegistryInv
          <6> QED BY <6>1, <5>1, <4>2, <3>2
        <5> QED BY <5>1
      <4> QED BY <4>1, <4>2, <4>3, <1>1, <2>1, <2>2 DEF Unrevoked
    <3> QED BY <3>1, <3>2
  <2>5. ASSUME backend' = "blob" PROVE fetchable' = Range(urls') \ {NoUrl}
    <3>1. fetchable = Range(urls) \ {NoUrl} /\ fetchable' = (fetchable \ {urls[p]}) \cup {n}
      BY <2>5, <1>1, <2>1 DEF RegistryInv, Unrevoked
    <3>2. \A u \in fetchable' : u \in Range(urls') /\ u # NoUrl
      BY <3>1, <1>1, <2>1 DEF Range, NoUrl
    <3>3. \A q \in Files : urls'[q] # NoUrl => urls'[q] \in fetchable'
      BY <2>4
    <3> QED BY <3>2, <3>3, <1>1, <2>1 DEF Range
  <2>6. ASSUME backend' = "node", ~spent', NEW u \in DOMAIN issued' PROVE urls'[issued'[u].path] # NoUrl
    <3>1. CASE u = n
      BY <3>1, <1>1, <2>1, <2>2 DEF NoUrl
    <3>2. CASE u \in 1..Len(issued)
      <4>1. urls[issued[u].path] # NoUrl /\ issued[u].path \in Files /\ issued'[u] = issued[u]
        <5>1. issued[u] \in [path : Files, source : Sources]
          BY <3>2, <1>1, ElementOfSeq
        <5> QED BY <5>1, <3>2, <2>6, <1>1, <2>2 DEF RegistryInv
      <4> QED BY <4>1, <1>1, <2>1 DEF NoUrl
    <3> QED BY <3>1, <3>2, <1>1, <2>2
  <2> QED BY <1>1, <2>3, <2>4, <2>5, <2>6 DEF RegistryInv
<1> QED BY <1>2, <1>3

\* An empty registry satisfies the invariant.
LEMMA RegistryInitInv == RegistryInit => RegistryInv
<1> SUFFICES ASSUME RegistryInit PROVE RegistryInv
  OBVIOUS
<1>1. issued \in Seq([path : Files, source : Sources]) /\ Len(issued) = 0 /\ DOMAIN issued = {}
  BY DEF RegistryInit
<1>2. \A p \in Files : urls[p] = NoUrl
  BY DEF RegistryInit
<1>3. RegistryTypeOK
  <2>1. 0 \in 0..MaxUrls /\ Len(issued) <= MaxUrls
    BY <1>1, RegistryAssumption
  <2>2. urls \in [Files -> 0..MaxUrls] /\ sources \in [Files -> Sources \cup {"none"}]
    BY <2>1 DEF RegistryInit, NoUrl
  <2>3. backend \in {"blob", "node"} /\ fetchable = {} /\ loaded = {} /\ spent = FALSE
    BY DEF RegistryInit
  <2> QED BY <1>1, <2>1, <2>2, <2>3 DEF RegistryTypeOK
<1>4. Range(urls) \subseteq {NoUrl} /\ fetchable = {}
  BY DEF RegistryInit, Range
<1> QED BY <1>1, <1>2, <1>3, <1>4 DEF RegistryInv

\* Every step of the registry keeps the invariant.
LEMMA RegistryNextInv == RegistryInv /\ [RegistryNext]_registryVars => RegistryInv'
<1> SUFFICES ASSUME RegistryInv, [RegistryNext]_registryVars PROVE RegistryInv'
  OBVIOUS
<1>1. ASSUME NEW p \in Files, NEW src \in Sources, Define(p, src) PROVE RegistryInv'
  BY <1>1, DefineKeeps
<1>2. ASSUME NEW u \in 1..MaxUrls, Import(u) PROVE RegistryInv'
  BY <1>2 DEF Import, Imports, Hooked, RegistryInv, RegistryTypeOK
<1>3. CASE DisposeRegistry
  <2>1. backend \in {"blob", "node"} /\ fetchable' = {}
    BY <1>3 DEF DisposeRegistry, RegistryInv, RegistryTypeOK
  <2>2. /\ UNCHANGED <<backend, issued, loaded>> /\ spent' = TRUE
        /\ urls' = [p \in Files |-> NoUrl] /\ sources' = [p \in Files |-> "none"]
    BY <1>3 DEF DisposeRegistry
  <2> QED BY <2>1, <2>2, RegistryAssumption DEF RegistryInv, RegistryTypeOK, Range, NoUrl
<1>4. CASE UNCHANGED registryVars
  BY <1>4 DEF registryVars, RegistryInv, RegistryTypeOK
<1> QED BY <1>1, <1>2, <1>3, <1>4 DEF RegistryNext

\* The URL of a path loads what the path holds.
LEMMA RegistryInvLoads == RegistryInv => RegistryUrlsLoad
<1> SUFFICES ASSUME RegistryInv PROVE RegistryUrlsLoad
  OBVIOUS
<1>1. ASSUME NEW p \in Files, urls[p] # NoUrl
      PROVE  urls[p] \in fetchable /\ Hooked(urls[p]) = urls[p]
             /\ issued[urls[p]] = [path |-> p, source |-> sources[p]]
  <2>1. urls[p] \in fetchable /\ issued[urls[p]] = [path |-> p, source |-> sources[p]]
    BY <1>1 DEF RegistryInv
  <2>2. issued[urls[p]].path = p
    BY <2>1
  <2> QED BY <2>1, <2>2 DEF Hooked
<1>2. ASSUME NEW u \in DOMAIN issued, backend = "node", ~spent
      PROVE  Imports(u) /\ issued[Hooked(u)].source = sources[issued[u].path]
  <2>1. issued[u].path \in Files /\ urls[issued[u].path] # NoUrl
    <3>1. issued \in Seq([path : Files, source : Sources])
      BY DEF RegistryInv, RegistryTypeOK
    <3>2. issued[u] \in [path : Files, source : Sources]
      BY <3>1, <1>2, ElementOfSeq, LenProperties
    <3> QED BY <3>2, <1>2 DEF RegistryInv
  <2>2. Hooked(u) = urls[issued[u].path]
    BY <1>2 DEF Hooked
  <2>3. Hooked(u) \in fetchable /\ issued[Hooked(u)].source = sources[issued[u].path]
    <3> DEFINE q == issued[u].path
    <3>1. urls[q] \in fetchable /\ issued[urls[q]] = [path |-> q, source |-> sources[q]]
      BY <1>1, <2>1
    <3>2. issued[urls[q]].source = sources[q]
      BY <3>1
    <3> QED BY <3>1, <3>2, <2>2
  <2> QED BY <2>3 DEF Imports
<1>3. \A p \in Files : urls[p] # NoUrl =>
        Imports(urls[p]) /\ issued[Hooked(urls[p])] = [path |-> p, source |-> sources[p]]
  <2>1. ASSUME NEW p \in Files, urls[p] # NoUrl
        PROVE  Imports(urls[p]) /\ issued[Hooked(urls[p])] = [path |-> p, source |-> sources[p]]
    <3>1. Hooked(urls[p]) = urls[p] /\ urls[p] \in fetchable
      BY <1>1, <2>1
    <3> QED BY <3>1, <1>1, <2>1 DEF Imports
  <2> QED BY <2>1
<1>4. /\ backend = "blob" => fetchable = Range(urls) \ {NoUrl}
      /\ spent => fetchable = {}
  BY DEF RegistryInv
<1> QED BY <1>2, <1>3, <1>4 DEF RegistryUrlsLoad

\* For any files, sources and order of calls, with either backend: a path's URL
\* loads its present source, and blob: URLs that are replaced are revoked.
THEOREM RegistryIsCurrent == RegistrySpec => []RegistryUrlsLoad
BY RegistryInvLoads, RegistryInitInv, RegistryNextInv, PTL DEF RegistrySpec

-----------------------------------------------------------------------------
(* How specifiers find their modules.  A loop is a recursive function of   *)
(* its rounds: that there is one, and what holds after every round, is     *)
(* shown by a least round, for there is no induction to cite.              *)

\* A set of naturals with an element has a least one.
LEMMA LeastNatural ==
  ASSUME NEW B \in SUBSET Nat, B # {}
  PROVE  \E n \in B : \A m \in B : n <= m
<1>1. IsWellFoundedOn(OpToRel(<, Nat), Nat)
  BY NatLessThanWellFounded
<1>2. PICK n \in B : \A m \in B : ~(<<m, n>> \in OpToRel(<, Nat))
  BY <1>1, WFMin
<1>3. ASSUME NEW m \in B, m < n PROVE <<m, n>> \in OpToRel(<, Nat)
  BY <1>3 DEF OpToRel
<1>4. \A m \in B : ~(m < n)
  BY <1>2, <1>3, Zenon
<1> QED BY <1>4

\* What a loop of N rounds computes exists: step[n] is what round n does to the
\* value it finds.
IsLoop(f, N, base, step) ==
  /\ f[0] = base
  /\ \A n \in 1..N : f[n] = step[n][f[n - 1]]
LEMMA LoopExists ==
  ASSUME NEW N \in Nat, NEW A, NEW base \in A, NEW step,
         \A n \in 1..N : \A x \in A : step[n][x] \in A
  PROVE  \E f \in [0..N -> A] : IsLoop(f, N, base, step)
<1> DEFINE B == {n \in 0..N : ~\E f \in [0..n -> A] : IsLoop(f, n, base, step)}
<1>1. SUFFICES ASSUME B # {} PROVE FALSE
  OBVIOUS
<1>2. PICK n \in B : \A m \in B : n <= m
  <2>1. B \in SUBSET Nat
    OBVIOUS
  <2> HIDE DEF B
  <2> QED BY <1>1, <2>1, LeastNatural
<1>3. n # 0
  <2>1. [i \in 0..0 |-> base] \in [0..0 -> A] /\ IsLoop([i \in 0..0 |-> base], 0, base, step)
    BY DEF IsLoop
  <2> QED BY <1>2, <2>1
<1>4. n - 1 \in 0..N /\ n \in 1..N
  BY <1>2, <1>3
<1>5. PICK f \in [0..(n - 1) -> A] : IsLoop(f, n - 1, base, step)
  BY <1>2, <1>4
<1> DEFINE g == [i \in 0..n |-> IF i = n THEN step[n][f[n - 1]] ELSE f[i]]
<1>6. f[n - 1] \in A /\ step[n][f[n - 1]] \in A
  BY <1>4, <1>5
<1>7. g \in [0..n -> A]
  BY <1>4, <1>5, <1>6
<1>8. IsLoop(g, n, base, step)
  <2>1. g[0] = base
    BY <1>3, <1>4, <1>5 DEF IsLoop
  <2>2. ASSUME NEW i \in 1..n PROVE g[i] = step[i][g[i - 1]]
    <3>1. CASE i = n
      BY <1>4, <3>1
    <3>2. CASE i # n
      BY <1>4, <1>5, <3>2 DEF IsLoop
    <3> QED BY <3>1, <3>2
  <2> QED BY <2>1, <2>2 DEF IsLoop
<1> QED BY <1>2, <1>4, <1>7, <1>8

-----------------------------------------------------------------------------
(* Prefixes.                                                               *)

\* A sequence begins another when its elements are the first ones of the other.
LEMMA PrefixIs ==
  ASSUME NEW a \in Seq(STRING), NEW b \in Seq(STRING)
  PROVE  IsPrefix(a, b) <=> Len(a) <= Len(b) /\ \A i \in 1..Len(a) : a[i] = b[i]
<1>1. Len(a) \in Nat /\ Len(b) \in Nat
  BY LenProperties
<1>2. ASSUME Len(a) <= Len(b)
      PROVE  SubSeq(a, 1, Len(a)) = SubSeq(b, 1, Len(a)) <=> \A i \in 1..Len(a) : a[i] = b[i]
  <2>1. /\ SubSeq(a, 1, Len(a)) \in Seq(STRING) /\ Len(SubSeq(a, 1, Len(a))) = Len(a)
        /\ \A i \in 1..Len(a) : SubSeq(a, 1, Len(a))[i] = a[i]
    BY <1>1
  <2>2. /\ SubSeq(b, 1, Len(a)) \in Seq(STRING) /\ Len(SubSeq(b, 1, Len(a))) = Len(a)
        /\ \A i \in 1..Len(a) : SubSeq(b, 1, Len(a))[i] = b[i]
    BY <1>1, <1>2
  <2>3. (\A i \in 1..Len(a) : a[i] = b[i]) => SubSeq(a, 1, Len(a)) = SubSeq(b, 1, Len(a))
    BY <2>1, <2>2, SeqEqual
  <2> QED BY <2>1, <2>2, <2>3
<1> QED BY <1>2 DEF IsPrefix

\* A key that ends in '/' begins a specifier when all its segments but the empty
\* last do.
LEMMA DirectoryIs ==
  ASSUME NEW spec \in Written, NEW key \in Written
  PROVE  StartsWith(spec, key) <=>
           Len(spec) >= Len(key) /\ \A i \in 1..(Len(key) - 1) : key[i] = spec[i]
<1>1. spec \in Seq(STRING) /\ Len(spec) \in Nat /\ key \in Seq(STRING) /\ Len(key) \in Nat \ {0}
  BY EmptySeq, LenProperties DEF Written
<1>2. /\ Front(key) \in Seq(STRING) /\ Len(Front(key)) = Len(key) - 1
      /\ \A i \in 1..(Len(key) - 1) : Front(key)[i] = key[i]
  <2> DEFINE n == Len(key) - 1
  <2>1. Front(key) = SubSeq(key, 1, n)
    BY DEF Front
  <2>2. n \in 0..Len(key)
    BY <1>1
  <2> HIDE DEF n
  <2>3. /\ SubSeq(key, 1, n) \in Seq(STRING) /\ Len(SubSeq(key, 1, n)) = n
        /\ \A i \in 1..n : SubSeq(key, 1, n)[i] = key[i]
    BY <1>1, <2>2
  <2>4. Front(key) \in Seq(STRING) /\ Len(Front(key)) = n /\ \A i \in 1..n : Front(key)[i] = key[i]
    BY <2>1, <2>3
  <2> QED BY <2>4 DEF n
<1>3. IsPrefix(Front(key), spec) <=>
        Len(Front(key)) <= Len(spec) /\ \A i \in 1..Len(Front(key)) : Front(key)[i] = spec[i]
  BY <1>1, <1>2, PrefixIs
<1> QED BY <1>1, <1>2, <1>3 DEF StartsWith

\* Of two directories around one specifier, the shorter is around the longer.
LEMMA LongerStarts ==
  ASSUME NEW spec \in Written, NEW a \in Written, NEW b \in Written,
         StartsWith(spec, a), StartsWith(spec, b), Len(b) <= Len(a)
  PROVE  StartsWith(a, b)
<1>1. Len(a) \in Nat \ {0} /\ Len(b) \in Nat \ {0}
  BY EmptySeq, LenProperties DEF Written
<1>2. \A i \in 1..(Len(b) - 1) : i \in 1..(Len(a) - 1)
  BY <1>1
<1>3. \A i \in 1..(Len(b) - 1) : b[i] = a[i]
  BY <1>2, DirectoryIs
<1> QED BY <1>1, <1>3, DirectoryIs

\* Of two beginnings of one URL, the longer starts with the shorter.
LEMMA LongerBegins ==
  ASSUME NEW url \in Seq(STRING), NEW a \in Seq(STRING), NEW b \in Seq(STRING),
         IsPrefix(a, url), IsPrefix(b, url), Len(b) <= Len(a)
  PROVE  IsPrefix(b, a)
<1>1. Len(a) \in Nat /\ Len(b) \in Nat
  BY LenProperties
<1>2. \A i \in 1..Len(b) : i \in 1..Len(a)
  BY <1>1
<1> QED BY <1>1, <1>2, PrefixIs

-----------------------------------------------------------------------------
(* Import maps.                                                            *)

\* What the loop of Match() finds, round by round.
IsBest(best, spec, mapping) ==
  best = [n \in 0..Len(mapping) |->
            IF n = 0 THEN None
            ELSE IF /\ IsDirectory(mapping[n]) /\ StartsWith(spec, mapping[n])
                    /\ Better(best[n - 1], mapping[n])
                 THEN mapping[n] ELSE best[n - 1]]

LEMMA BestExists ==
  ASSUME NEW spec, NEW mapping \in Seq(Keys)
  PROVE  \E best : /\ IsBest(best, spec, mapping)
                   /\ best \in [0..Len(mapping) -> Keys \cup {None}]
                   /\ Match(spec, mapping) = IF spec \in Range(mapping) THEN spec ELSE best[Len(mapping)]
<1> DEFINE N == Len(mapping)
           A == Keys \cup {None}
           takes(n, x) == IsDirectory(mapping[n]) /\ StartsWith(spec, mapping[n]) /\ Better(x, mapping[n])
           step == [n \in 1..N |-> [x \in A |-> IF takes(n, x) THEN mapping[n] ELSE x]]
<1>1. N \in Nat /\ \A n \in 1..N : mapping[n] \in Keys
  BY LenProperties, ElementOfSeq
<1>2. \A n \in 1..N : \A x \in A : step[n][x] \in A
  BY <1>1
<1>3. PICK f \in [0..N -> A] : IsLoop(f, N, None, step)
  <2> HIDE DEF step, N
  <2> QED BY <1>1, <1>2, LoopExists
<1>4. IsBest(f, spec, mapping)
  <2>1. ASSUME NEW n \in 0..N
        PROVE  f[n] = IF n = 0 THEN None ELSE IF takes(n, f[n - 1]) THEN mapping[n] ELSE f[n - 1]
    <3>1. CASE n = 0
      BY <1>3, <3>1 DEF IsLoop
    <3>2. CASE n # 0
      <4>1. n \in 1..N /\ f[n - 1] \in A
        BY <1>1, <1>3, <3>2
      <4>2. f[n] = step[n][f[n - 1]]
        BY <1>3, <4>1 DEF IsLoop
      <4> QED BY <3>2, <4>1, <4>2
    <3> QED BY <3>1, <3>2
  <2>2. f = [n \in 0..N |-> f[n]]
    BY <1>3
  <2> QED BY <2>1, <2>2 DEF IsBest
<1> DEFINE g == CHOOSE best : IsBest(best, spec, mapping)
<1>5. IsBest(g, spec, mapping)
  <2> HIDE DEF step, N
  <2> QED BY <1>4
<1>6. Match(spec, mapping) = IF spec \in Range(mapping) THEN spec ELSE g[Len(mapping)]
  BY DEF Match, IsBest
<1>7. g \in [0..N -> A]
  <2> DEFINE B == {n \in 0..N : g[n] \notin A}
  <2>1. SUFFICES ASSUME B # {} PROVE FALSE
    <3>1. g = [n \in 0..N |-> g[n]]
      BY <1>5 DEF IsBest
    <3> HIDE DEF g
    <3> QED BY <2>1, <3>1
  <2>2. PICK n \in B : \A m \in B : n <= m
    <3>1. B \in SUBSET Nat
      OBVIOUS
    <3> HIDE DEF B
    <3> QED BY <2>1, <3>1, LeastNatural
  <2>3. g[n] = IF n = 0 THEN None ELSE IF takes(n, g[n - 1]) THEN mapping[n] ELSE g[n - 1]
    BY <1>5, <2>2 DEF IsBest
  <2>4. n # 0
    BY <2>2, <2>3
  <2>5. n - 1 \in 0..N /\ g[n - 1] \in A /\ n \in 1..N
    BY <1>1, <2>2, <2>4
  <2> HIDE DEF g
  <2> QED BY <1>1, <2>2, <2>3, <2>5
<1> QED
  <2> HIDE DEF g
  <2> QED BY <1>5, <1>6, <1>7

\* The key that Match() takes is a best one, and it takes one if there is one.
LEMMA MatchIsBest ==
  ASSUME NEW spec \in Specifiers, NEW mapping \in Seq(Keys)
  PROVE  /\ Match(spec, mapping) # None <=> BestOf(spec, mapping) # {}
         /\ Match(spec, mapping) # None => Match(spec, mapping) \in BestOf(spec, mapping)
<1>1. PICK best : /\ IsBest(best, spec, mapping)
                  /\ best \in [0..Len(mapping) -> Keys \cup {None}]
                  /\ Match(spec, mapping) = IF spec \in Range(mapping) THEN spec ELSE best[Len(mapping)]
  BY BestExists
<1>2. /\ Len(mapping) \in Nat /\ \A n \in 1..Len(mapping) : mapping[n] \in Keys
      /\ DOMAIN mapping = 1..Len(mapping)
  BY LenProperties, ElementOfSeq
<1>3. spec \in Written /\ Keys \subseteq Written /\ None \notin Written
  BY ImportAssumption DEF Written, None
<1>4. CASE spec \in Range(mapping)
  <2>1. Match(spec, mapping) = spec /\ spec \in BestOf(spec, mapping)
    BY <1>1, <1>4 DEF BestOf
  <2> QED BY <1>3, <2>1
<1>5. CASE spec \notin Range(mapping)
  <2> DEFINE fits(k) == IsDirectory(k) /\ StartsWith(spec, k)
             holds(n) == IF best[n] = None THEN \A i \in 1..n : ~fits(mapping[i])
                         ELSE /\ \E i \in 1..n : best[n] = mapping[i]
                              /\ fits(best[n])
                              /\ \A i \in 1..n : fits(mapping[i]) => Len(mapping[i]) <= Len(best[n])
             B == {n \in 0..Len(mapping) : ~holds(n)}
  <2>1. B = {}
    <3>1. SUFFICES ASSUME B # {} PROVE FALSE
      OBVIOUS
    <3>2. PICK n \in B : \A m \in B : n <= m
      <4>1. B \in SUBSET Nat
        BY <1>2
      <4> HIDE DEF B
      <4> QED BY <3>1, <4>1, LeastNatural
    <3>3. best[n] = IF n = 0 THEN None
                    ELSE IF fits(mapping[n]) /\ Better(best[n - 1], mapping[n]) THEN mapping[n] ELSE best[n - 1]
      BY <1>1, <3>2 DEF IsBest
    <3>4. n # 0
      BY <3>2, <3>3
    <3>5. n \in 1..Len(mapping) /\ n - 1 \in 0..Len(mapping) /\ holds(n - 1) /\ mapping[n] \in Keys
      BY <1>2, <3>2, <3>4
    <3>6. best[n - 1] \in Keys \cup {None} /\ \A k \in Keys : Len(k) \in Nat /\ k # None
      BY <1>1, <1>3, <3>5, LenProperties DEF Written
    <3>7. \A i \in 1..n : i = n \/ i \in 1..(n - 1)
      BY <3>5
    <3>8. \A i \in 1..(n - 1) : i \in 1..n /\ mapping[i] \in Keys
      BY <1>2, <3>5
    <3>9. CASE fits(mapping[n]) /\ Better(best[n - 1], mapping[n])
      <4>1. best[n] = mapping[n] /\ best[n] # None /\ n \in 1..n
        BY <3>3, <3>4, <3>5, <3>6, <3>9
      <4>2. ASSUME NEW i \in 1..(n - 1), fits(mapping[i]) PROVE Len(mapping[i]) <= Len(best[n])
        <5>1. best[n - 1] # None
          BY <3>5, <4>2
        <5>2. Len(mapping[i]) <= Len(best[n - 1]) /\ Len(mapping[n]) > Len(best[n - 1])
          BY <3>5, <3>9, <4>2, <5>1 DEF Better
        <5> QED BY <3>5, <3>6, <3>8, <4>1, <4>2, <5>1, <5>2
      <4>3. \A i \in 1..n : fits(mapping[i]) => Len(mapping[i]) <= Len(best[n])
        BY <3>5, <3>6, <3>7, <4>1, <4>2
      <4>4. holds(n)
        BY <3>9, <4>1, <4>3
      <4> QED BY <3>2, <4>4
    <3>10. CASE ~(fits(mapping[n]) /\ Better(best[n - 1], mapping[n]))
      <4>1. best[n] = best[n - 1]
        BY <3>3, <3>4, <3>10
      <4>2. fits(mapping[n]) => best[n - 1] # None /\ Len(mapping[n]) <= Len(best[n - 1])
        BY <3>5, <3>6, <3>10 DEF Better
      <4>3. holds(n)
        BY <3>5, <3>7, <3>8, <4>1, <4>2
      <4> QED BY <3>2, <4>3
    <3> QED BY <3>9, <3>10
  <2>2. holds(Len(mapping)) /\ Match(spec, mapping) = best[Len(mapping)]
    BY <1>1, <1>2, <1>5, <2>1
  <2>3. CASE best[Len(mapping)] = None
    <3>1. \A k \in Range(mapping) : ~fits(k) /\ k # spec
      BY <1>2, <1>5, <2>2, <2>3 DEF Range
    <3> QED BY <2>2, <2>3, <3>1 DEF BestOf
  <2>4. CASE best[Len(mapping)] # None
    <3> DEFINE k == best[Len(mapping)]
    <3>1. /\ k \in Range(mapping) /\ fits(k)
          /\ \A other \in Range(mapping) : fits(other) => Len(other) <= Len(k)
      BY <1>2, <2>2, <2>4 DEF Range
    <3>2. \A other \in Range(mapping) : other \in Written
      BY <1>2, <1>3 DEF Range
    <3>3. ASSUME NEW other \in Range(mapping), fits(other) PROVE StartsWith(k, other)
      <4>1. Len(other) \in Nat /\ Len(k) \in Nat
        BY <3>1, <3>2, LenProperties DEF Written
      <4> QED BY <1>3, <3>1, <3>2, <3>3, <4>1, LongerStarts
    <3>4. k \in BestOf(spec, mapping)
      BY <1>5, <3>1, <3>3 DEF BestOf
    <3> QED BY <2>2, <2>4, <3>4
  <2> QED BY <2>3, <2>4
<1> QED BY <1>4, <1>5

\* Of some scopes that a URL begins with, one is such that none is longer.
LEMMA LongestExists ==
  ASSUME NEW url \in Seq(STRING), NEW P, NEW scopeOf,
         P # {}, \A s \in P : scopeOf[s] \in Seq(STRING) /\ IsPrefix(scopeOf[s], url)
  PROVE  \E s \in P : \A t \in P : Len(scopeOf[t]) <= Len(scopeOf[s])
<1> DEFINE short(s) == Len(url) - Len(scopeOf[s])
           B == {short(s) : s \in P}
<1>1. \A s \in P : Len(scopeOf[s]) \in Nat /\ Len(url) \in Nat /\ short(s) \in Nat
  BY LenProperties DEF IsPrefix
<1>2. PICK n \in B : \A m \in B : n <= m
  <2>1. B \in SUBSET Nat /\ B # {}
    BY <1>1
  <2> HIDE DEF B
  <2> QED BY <2>1, LeastNatural
<1>3. PICK s \in P : n = short(s)
  BY <1>2
<1>4. ASSUME NEW t \in P PROVE Len(scopeOf[t]) <= Len(scopeOf[s])
  <2>1. short(s) <= short(t)
    BY <1>2, <1>3
  <2> QED BY <1>1, <2>1
<1> QED BY <1>4

\* What a question about an import map asks.
LEMMA MapQuestion ==
  ASSUME NEW q \in Questions, q.kind = "map"
  PROVE  /\ q.spec \in Specifiers /\ q.imports \in Seq(Keys) /\ q.parent \in Seq(STRING)
         /\ \A s \in Range(q.scopes) : s.scope \in Seq(STRING) /\ s.keys \in Seq(Keys)
<1>1. /\ q.spec \in Specifiers /\ q.imports \in Mappings(MaxKeys) /\ q.parent \in Parents
      /\ q.scopes \in SeqOf([scope : ScopeKeys, keys : Mappings(FewKeys)], MaxKeys)
  BY DEF Questions
<1>2. \A n \in Nat : Mappings(n) \subseteq Seq(Keys)
  BY DEF Mappings, SeqOf
<1>3. \A s \in Range(q.scopes) : s \in [scope : ScopeKeys, keys : Mappings(FewKeys)]
  BY <1>1 DEF Range, SeqOf
<1> QED BY <1>1, <1>2, <1>3, ImportAssumption

\* resolveWithImportMap() answers with the best key of the nearest scope that
\* knows the specifier, and else with that of the imports.
LEMMA MappedIsBest ==
  ASSUME NEW q \in Questions, q.kind = "map", NEW reply, reply = Mapped(q.spec, q.imports, q.scopes, q.parent)
  PROVE  MapsToBest(q, reply)
<1> DEFINE matching == {s \in Range(q.scopes) :
                          q.parent # None /\ IsPrefix(s.scope, q.parent) /\ BestOf(q.spec, s.keys) # {}}
           nearest  == {s \in matching : \A t \in matching : IsPrefix(t.scope, s.scope)}
           knowing  == Knowing(q.spec, q.scopes, q.parent)
           first    == CHOOSE s \in knowing : \A t \in knowing : Len(t.scope) <= Len(s.scope)
<1>1. /\ q.spec \in Specifiers /\ q.imports \in Seq(Keys) /\ q.parent \in Seq(STRING)
      /\ \A s \in Range(q.scopes) : s.scope \in Seq(STRING) /\ s.keys \in Seq(Keys)
  BY MapQuestion
<1>2. knowing = matching
  BY <1>1, MatchIsBest DEF Knowing
<1>3. reply = IF knowing # {} THEN <<Match(q.spec, first.keys), first.scope>>
              ELSE IF Match(q.spec, q.imports) # None THEN <<Match(q.spec, q.imports)>>
              ELSE None
  BY DEF Mapped
<1>4. ASSUME matching # {}
      PROVE  \E s \in nearest : \E k \in BestOf(q.spec, s.keys) : reply = <<k, s.scope>>
  <2> DEFINE scopeOf == [s \in knowing |-> s.scope]
  <2>1. \A s \in knowing : scopeOf[s] = s.scope /\ scopeOf[s] \in Seq(STRING) /\ IsPrefix(scopeOf[s], q.parent)
    BY <1>1, <1>2
  <2>2. \E s \in knowing : \A t \in knowing : Len(scopeOf[t]) <= Len(scopeOf[s])
    <3>1. knowing # {}
      BY <1>2, <1>4
    <3> HIDE DEF scopeOf, knowing
    <3> QED BY <1>1, <2>1, <3>1, LongestExists
  <2>3. \E s \in knowing : \A t \in knowing : Len(t.scope) <= Len(s.scope)
    <3> HIDE DEF scopeOf, knowing
    <3> QED BY <2>1, <2>2
  <2>4. first \in knowing /\ \A t \in knowing : Len(t.scope) <= Len(first.scope)
    <3> HIDE DEF knowing
    <3> QED BY <2>3
  <2> HIDE DEF first
  <2>5. first \in nearest
    <3>1. ASSUME NEW t \in matching PROVE IsPrefix(t.scope, first.scope)
      BY <1>1, <1>2, <2>4, LongerBegins
    <3> QED BY <1>2, <2>4, <3>1
  <2>6. Match(q.spec, first.keys) \in BestOf(q.spec, first.keys)
    BY <1>1, <1>2, <1>4, <2>4, MatchIsBest
  <2>7. reply = <<Match(q.spec, first.keys), first.scope>>
    BY <1>2, <1>3, <1>4
  <2> HIDE DEF nearest
  <2> QED BY <2>5, <2>6, <2>7
<1>5. ASSUME matching = {}
      PROVE  IF BestOf(q.spec, q.imports) # {}
             THEN \E k \in BestOf(q.spec, q.imports) : reply = <<k>>
             ELSE reply = None
  <2>1. /\ Match(q.spec, q.imports) # None <=> BestOf(q.spec, q.imports) # {}
        /\ Match(q.spec, q.imports) # None => Match(q.spec, q.imports) \in BestOf(q.spec, q.imports)
    BY <1>1, MatchIsBest
  <2>2. reply = IF Match(q.spec, q.imports) # None THEN <<Match(q.spec, q.imports)>> ELSE None
    BY <1>2, <1>3, <1>5
  <2> HIDE DEF matching, knowing, first
  <2> QED BY <2>1, <2>2
<1> QED BY <1>4, <1>5 DEF MapsToBest

\* sandboxImport() asks the map without a parent.
LEMMA SandboxMapped ==
  ASSUME NEW spec \in Specifiers, NEW imports \in Seq(Keys)
  PROVE  Mapped(spec, imports, <<>>, None) # None <=> BestOf(spec, imports) # {}
<1>1. Knowing(spec, <<>>, None) = {}
  BY DEF Knowing
<1>2. \A k : <<k>> # None
  BY DEF None
<1> QED BY <1>1, <1>2, MatchIsBest DEF Mapped

-----------------------------------------------------------------------------
(* The loaders.                                                            *)

\* lookup() finds the first candidate that is a file: the name itself if it is
\* one, and nothing only if no candidate is one.
LEMMA LookupFinds ==
  ASSUME NEW name, NEW known, None \notin known
  PROVE  /\ Lookup(name, known) \in known \cup {None}
         /\ Lookup(name, known) = None <=> (name = None \/ Range(Candidates(name)) \cap known = {})
         /\ name \in known => Lookup(name, known) = name
<1> DEFINE c == Candidates(name)
           found == {i \in DOMAIN c : c[i] \in known}
<1>1. DOMAIN c = 1..5 /\ c[1] = name
  BY DEF Candidates
<1>2. Lookup(name, known) = IF name = None \/ found = {} THEN None ELSE c[Min(found)]
  BY DEF Lookup
<1> HIDE DEF c
<1>3. found = {} <=> Range(c) \cap known = {}
  BY DEF Range
<1>4. found \in SUBSET Nat /\ (name \in known => 1 \in found /\ name # None)
  BY <1>1
<1>5. ASSUME found # {} PROVE Min(found) \in found /\ \A i \in found : Min(found) <= i
  <2> HIDE DEF found
  <2> QED BY <1>4, <1>5, LeastNatural DEF Min
<1>6. found # {} => c[Min(found)] \in known
  BY <1>5
<1>7. ASSUME name \in known PROVE found # {} /\ Min(found) = 1
  <2>1. found # {} /\ Min(found) \in found /\ Min(found) <= 1
    BY <1>4, <1>5, <1>7
  <2>2. Min(found) \in 1..5
    BY <1>1, <2>1
  <2> HIDE DEF found
  <2> QED BY <2>1, <2>2
<1> HIDE DEF found
<1> QED BY <1>1, <1>2, <1>3, <1>4, <1>6, <1>7 DEF c

\* The three are different.
LEMMA SegmentsDiffer == Up # Here /\ Up # Blank /\ Here # Blank
<1>1. Up # Here
  BY DEF Up, Here
<1>2. Up # Blank
  BY DEF Up, Blank
<1>3. Here # Blank
  BY DEF Here, Blank
<1> QED BY <1>1, <1>2, <1>3

\* The rounds of Walk().
IsWalk(parts, base, spec, dropped) ==
  parts = [n \in 0..Len(spec) |->
             IF n = 0 THEN Front(base)
             ELSE IF spec[n] = Up THEN Front(parts[n - 1])
             ELSE IF spec[n] \in dropped THEN parts[n - 1]
             ELSE Append(parts[n - 1], spec[n])]

LEMMA FrontIs ==
  ASSUME NEW S, NEW s \in Seq(S)
  PROVE  /\ Front(s) \in Seq(S)
         /\ Len(s) = 0 => Len(Front(s)) = 0
         /\ Len(s) > 0 => Len(Front(s)) = Len(s) - 1
         /\ \A i \in 1..(Len(s) - 1) : Front(s)[i] = s[i]
<1>1. Len(s) \in Nat
  BY LenProperties
<1>2. CASE Len(s) = 0
  BY <1>1, <1>2, EmptySeq DEF Front
<1>3. CASE Len(s) > 0
  <2>1. PICK m \in Nat : m = Len(s) - 1
    BY <1>1, <1>3
  <2>2. SubSeq(s, 1, m) \in Seq(S) /\ Len(SubSeq(s, 1, m)) = m /\ \A i \in 1..m : SubSeq(s, 1, m)[i] = s[i]
    <3>1. 1 \in 1..(Len(s) + 1) /\ m \in 0..Len(s)
      BY <1>1, <2>1
    <3>2. SubSeq(s, 1, m) \in Seq(S)
      BY <1>1, <3>1, SubSeqProperties
    <3>3. Len(SubSeq(s, 1, m)) = m
      BY <1>1, <3>1, SubSeqProperties
    <3>4. \A i \in 1..m : SubSeq(s, 1, m)[i] = s[i]
      BY <1>1, <3>1
    <3> QED BY <3>2, <3>3, <3>4
  <2> QED BY <1>3, <2>1, <2>2 DEF Front
<1> QED BY <1>1, <1>2, <1>3

LEMMA WalkExists ==
  ASSUME NEW base \in Seq(STRING), NEW spec \in Seq(STRING), NEW dropped
  PROVE  \E parts : /\ IsWalk(parts, base, spec, dropped)
                    /\ parts \in [0..Len(spec) -> Seq(STRING)]
                    /\ Walk(base, spec, dropped) = parts[Len(spec)]
<1> DEFINE N == Len(spec)
           A == Seq(STRING)
           takes(n, x) == IF spec[n] = Up THEN Front(x)
                          ELSE IF spec[n] \in dropped THEN x ELSE Append(x, spec[n])
           step == [n \in 1..N |-> [x \in A |-> takes(n, x)]]
<1>1. N \in Nat /\ \A n \in 1..N : spec[n] \in STRING
  BY LenProperties, ElementOfSeq
<1>2. Front(base) \in A /\ \A n \in 1..N : \A x \in A : takes(n, x) \in A
  BY <1>1, FrontIs, AppendProperties
<1>3. PICK f \in [0..N -> A] : IsLoop(f, N, Front(base), step)
  <2>1. \A n \in 1..N : \A x \in A : step[n][x] \in A
    BY <1>2
  <2> HIDE DEF step, N, A
  <2> QED BY <1>1, <1>2, <2>1, LoopExists
<1>4. IsWalk(f, base, spec, dropped)
  <2>1. ASSUME NEW n \in 0..N
        PROVE  f[n] = IF n = 0 THEN Front(base) ELSE takes(n, f[n - 1])
    <3>1. CASE n = 0
      BY <1>3, <3>1 DEF IsLoop
    <3>2. CASE n # 0
      <4>1. n \in 1..N /\ f[n - 1] \in A
        BY <1>1, <1>3, <3>2
      <4>2. f[n] = step[n][f[n - 1]]
        BY <1>3, <4>1 DEF IsLoop
      <4>3. step[n][f[n - 1]] = takes(n, f[n - 1])
        <5> HIDE DEF takes, A
        <5> QED BY <4>1
      <4> QED BY <3>2, <4>2, <4>3
    <3> QED BY <3>1, <3>2
  <2>2. f = [n \in 0..N |-> f[n]]
    BY <1>3
  <2> QED BY <2>1, <2>2 DEF IsWalk
<1> DEFINE g == CHOOSE parts : IsWalk(parts, base, spec, dropped)
<1>5. IsWalk(g, base, spec, dropped)
  <2> HIDE DEF step, N
  <2> QED BY <1>4
<1>6. Walk(base, spec, dropped) = g[Len(spec)]
  BY DEF Walk, IsWalk
<1> HIDE DEF g
<1>7. g \in [0..N -> A]
  <2> DEFINE B == {n \in 0..N : g[n] \notin A}
  <2>1. SUFFICES ASSUME B # {} PROVE FALSE
    <3>1. g = [n \in 0..N |-> g[n]]
      BY <1>5 DEF IsWalk
    <3> QED BY <2>1, <3>1
  <2>2. PICK n \in B : \A m \in B : n <= m
    <3>1. B \in SUBSET Nat
      OBVIOUS
    <3> HIDE DEF B
    <3> QED BY <2>1, <3>1, LeastNatural
  <2>3. g[n] = IF n = 0 THEN Front(base) ELSE takes(n, g[n - 1])
    BY <1>5, <2>2 DEF IsWalk
  <2>4. n # 0
    BY <1>2, <2>2, <2>3
  <2>5. n - 1 \in 0..N /\ g[n - 1] \in A /\ n \in 1..N
    BY <1>1, <2>2, <2>4
  <2> HIDE DEF takes
  <2> QED BY <1>2, <2>2, <2>3, <2>4, <2>5
<1> QED BY <1>5, <1>6, <1>7

\* How the depth of a path changes with each segment.
IsDepth(d, s) ==
  d = [n \in 0..Len(s) |->
         IF n = 0 THEN 0
         ELSE IF IsName(s[n]) THEN d[n - 1] + 1
         ELSE IF s[n] = Up /\ d[n - 1] > 0 THEN d[n - 1] - 1
         ELSE d[n - 1]]

LEMMA DepthIs ==
  ASSUME NEW s \in Seq(STRING)
  PROVE  IsDepth(Depth(s), s) /\ Depth(s) \in [0..Len(s) -> Nat]
<1> DEFINE N == Len(s)
           takes(n, x) == IF IsName(s[n]) THEN x + 1
                          ELSE IF s[n] = Up /\ x > 0 THEN x - 1 ELSE x
           step == [n \in 1..N |-> [x \in Nat |-> takes(n, x)]]
<1>1. N \in Nat
  BY LenProperties
<1>2. \A n \in 1..N : \A x \in Nat : takes(n, x) \in Nat
  OBVIOUS
<1>3. PICK f \in [0..N -> Nat] : IsLoop(f, N, 0, step)
  <2>1. \A n \in 1..N : \A x \in Nat : step[n][x] \in Nat
    BY <1>2
  <2> HIDE DEF step, N
  <2> QED BY <1>1, <2>1, LoopExists
<1>4. IsDepth(f, s)
  <2>1. ASSUME NEW n \in 0..N
        PROVE  f[n] = IF n = 0 THEN 0 ELSE takes(n, f[n - 1])
    <3>1. CASE n = 0
      BY <1>3, <3>1 DEF IsLoop
    <3>2. CASE n # 0
      <4>1. n \in 1..N /\ f[n - 1] \in Nat
        <5> HIDE DEF takes, step, N
        <5> QED BY <1>1, <1>3, <3>2
      <4>2. f[n] = step[n][f[n - 1]]
        BY <1>3, <4>1 DEF IsLoop
      <4>3. step[n][f[n - 1]] = takes(n, f[n - 1])
        <5> HIDE DEF takes
        <5> QED BY <4>1
      <4> QED BY <3>2, <4>2, <4>3
    <3> QED BY <3>1, <3>2
  <2>2. f = [n \in 0..N |-> f[n]]
    BY <1>3
  <2> QED BY <2>1, <2>2 DEF IsDepth
<1> DEFINE g == CHOOSE d : IsDepth(d, s)
<1>5. IsDepth(g, s) /\ Depth(s) = g
  <2>1. IsDepth(g, s)
    <3> HIDE DEF step, N
    <3> QED BY <1>4
  <2> QED BY <2>1 DEF Depth, IsDepth
<1> HIDE DEF g
<1>6. g \in [0..N -> Nat]
  <2> DEFINE B == {n \in 0..N : g[n] \notin Nat}
  <2>1. SUFFICES ASSUME B # {} PROVE FALSE
    <3>1. g = [n \in 0..N |-> g[n]]
      BY <1>5 DEF IsDepth
    <3> QED BY <2>1, <3>1
  <2>2. PICK n \in B : \A m \in B : n <= m
    <3>1. B \in SUBSET Nat
      OBVIOUS
    <3> HIDE DEF B
    <3> QED BY <2>1, <3>1, LeastNatural
  <2>3. g[n] = IF n = 0 THEN 0 ELSE takes(n, g[n - 1])
    BY <1>5, <2>2 DEF IsDepth
  <2>4. n # 0
    BY <2>2, <2>3
  <2>5. n - 1 \in 0..N /\ g[n - 1] \in Nat /\ n \in 1..N
    BY <1>1, <2>2, <2>4
  <2> HIDE DEF takes
  <2> QED BY <1>2, <2>2, <2>3, <2>4, <2>5
<1> QED BY <1>5, <1>6

\* The path parts is what the first m segments of s lead to: its k-th name is the
\* last written at depth k.
Leads(parts, d, s, m) ==
  /\ parts \in Seq(STRING) /\ Len(parts) = d[m]
  /\ \A k \in 1..d[m] : \E i \in 1..m :
       /\ IsName(s[i]) /\ d[i] = k /\ parts[k] = s[i]
       /\ \A j \in (i + 1)..m : ~(IsName(s[j]) /\ d[j] = k)

\* A path of names leads to itself.
LEMMA NamesLead ==
  ASSUME NEW s \in Seq(STRING), NEW m \in 0..Len(s), \A i \in 1..m : IsName(s[i]),
         NEW parts \in Seq(STRING), Len(parts) = m, \A i \in 1..m : parts[i] = s[i]
  PROVE  Leads(parts, Depth(s), s, m)
<1> DEFINE d == Depth(s)
           B == {n \in 0..m : d[n] # n}
<1>1. IsDepth(d, s) /\ d \in [0..Len(s) -> Nat] /\ Len(s) \in Nat /\ m \in Nat
  BY DepthIs, LenProperties
<1> HIDE DEF d
<1>2. B = {}
  <2>1. SUFFICES ASSUME B # {} PROVE FALSE
    OBVIOUS
  <2>2. PICK n \in B : \A i \in B : n <= i
    <3>1. B \in SUBSET Nat
      BY <1>1
    <3> HIDE DEF B
    <3> QED BY <2>1, <3>1, LeastNatural
  <2>3. n \in 0..Len(s) /\ d[n] # n
    BY <1>1, <2>2
  <2>4. n # 0
    BY <1>1, <2>3 DEF IsDepth
  <2>5. n - 1 \in 0..m /\ d[n - 1] = n - 1 /\ IsName(s[n])
    BY <1>1, <2>2, <2>4
  <2>6. d[n] = d[n - 1] + 1
    BY <1>1, <2>3, <2>4, <2>5 DEF IsDepth
  <2> QED BY <2>3, <2>5, <2>6
<1>3. \A n \in 0..m : d[n] = n
  BY <1>2
<1>4. d[m] = m
  BY <1>1, <1>3
<1>5. ASSUME NEW k \in 1..m
      PROVE  /\ IsName(s[k]) /\ d[k] = k /\ parts[k] = s[k]
             /\ \A j \in (k + 1)..m : ~(IsName(s[j]) /\ d[j] = k)
  BY <1>1, <1>3, <1>5
<1>6. Leads(parts, d, s, m)
  BY <1>4, <1>5 DEF Leads
<1> QED BY <1>6 DEF d

\* One more segment leads one step further.
WalkOn(parts, seg) ==
  IF seg = Up THEN Front(parts)
  ELSE IF seg \in {Here, Blank} THEN parts ELSE Append(parts, seg)
LEMMA StepLeads ==
  ASSUME NEW s \in Seq(STRING), NEW m \in 1..Len(s), NEW before, Leads(before, Depth(s), s, m - 1),
         NEW after, after = WalkOn(before, s[m])
  PROVE  Leads(after, Depth(s), s, m)
<1> DEFINE d == Depth(s)
<1>1. /\ IsDepth(d, s) /\ d \in [0..Len(s) -> Nat] /\ Len(s) \in Nat /\ m \in Nat /\ m - 1 \in 0..Len(s)
      /\ m \in 0..Len(s) /\ m # 0 /\ s[m] \in STRING
  BY DepthIs, LenProperties, ElementOfSeq
<1>2. Leads(before, d, s, m - 1)
  OBVIOUS
<1> SUFFICES Leads(after, d, s, m)
  OBVIOUS
<1> HIDE DEF d
<1>3. d[m] = IF IsName(s[m]) THEN d[m - 1] + 1
             ELSE IF s[m] = Up /\ d[m - 1] > 0 THEN d[m - 1] - 1
             ELSE d[m - 1]
  BY <1>1 DEF IsDepth
<1>4. before \in Seq(STRING) /\ Len(before) = d[m - 1] /\ d[m - 1] \in Nat /\ d[m] \in Nat
  BY <1>1, <1>2 DEF Leads
<1>5. ASSUME NEW k \in 1..d[m - 1], ~(IsName(s[m]) /\ d[m] = k)
      PROVE  \E i \in 1..m :
               /\ IsName(s[i]) /\ d[i] = k /\ before[k] = s[i]
               /\ \A j \in (i + 1)..m : ~(IsName(s[j]) /\ d[j] = k)
  <2>1. PICK i \in 1..(m - 1) :
           /\ IsName(s[i]) /\ d[i] = k /\ before[k] = s[i]
           /\ \A j \in (i + 1)..(m - 1) : ~(IsName(s[j]) /\ d[j] = k)
    BY <1>2, <1>5 DEF Leads
  <2>2. i \in 1..m
    BY <1>1
  <2>3. ASSUME NEW j \in (i + 1)..m PROVE ~(IsName(s[j]) /\ d[j] = k)
    <3>1. j = m \/ j \in (i + 1)..(m - 1)
      BY <1>1
    <3> QED BY <1>5, <2>1, <3>1
  <2> QED BY <2>1, <2>2, <2>3
<1>6. CASE IsName(s[m])
  <2>1. after = Append(before, s[m]) /\ d[m] = d[m - 1] + 1
    BY <1>3, <1>6, SegmentsDiffer DEF IsName, NotNames, WalkOn
  <2>2. /\ after \in Seq(STRING) /\ Len(after) = d[m] /\ after[d[m]] = s[m]
        /\ \A k \in 1..d[m - 1] : after[k] = before[k]
    BY <1>1, <1>4, <2>1, AppendProperties
  <2>3. ASSUME NEW k \in 1..d[m]
        PROVE  \E i \in 1..m :
                 /\ IsName(s[i]) /\ d[i] = k /\ after[k] = s[i]
                 /\ \A j \in (i + 1)..m : ~(IsName(s[j]) /\ d[j] = k)
    <3>1. CASE k = d[m]
      <4>1. m \in 1..m /\ \A j \in (m + 1)..m : FALSE
        BY <1>1
      <4> QED BY <1>6, <2>2, <3>1, <4>1
    <3>2. CASE k # d[m]
      <4>1. k \in 1..d[m - 1]
        BY <1>4, <2>1, <3>2
      <4> QED BY <1>5, <2>2, <3>2, <4>1
    <3> QED BY <3>1, <3>2
  <2> QED BY <2>2, <2>3 DEF Leads
<1>7. CASE s[m] = Up
  <2>1. ~IsName(s[m]) /\ after = Front(before)
    BY <1>7, SegmentsDiffer DEF IsName, NotNames, WalkOn
  <2>2. d[m] = IF d[m - 1] > 0 THEN d[m - 1] - 1 ELSE 0
    BY <1>3, <1>4, <1>7, <2>1
  <2>3. after \in Seq(STRING) /\ Len(after) = d[m] /\ \A k \in 1..d[m] : after[k] = before[k] /\ k \in 1..d[m - 1]
    <3>1. /\ Front(before) \in Seq(STRING)
          /\ Len(before) = 0 => Len(Front(before)) = 0
          /\ Len(before) > 0 => Len(Front(before)) = Len(before) - 1
          /\ \A i \in 1..(Len(before) - 1) : Front(before)[i] = before[i]
      BY <1>4, FrontIs
    <3> QED BY <1>4, <2>1, <2>2, <3>1
  <2>4. ASSUME NEW k \in 1..d[m]
        PROVE  \E i \in 1..m :
                 /\ IsName(s[i]) /\ d[i] = k /\ after[k] = s[i]
                 /\ \A j \in (i + 1)..m : ~(IsName(s[j]) /\ d[j] = k)
    <3>1. k \in 1..d[m - 1] /\ after[k] = before[k] /\ ~IsName(s[m])
      BY <2>1, <2>3
    <3> QED BY <1>5, <3>1
  <2> QED BY <2>3, <2>4 DEF Leads
<1>8. CASE s[m] \in {Here, Blank}
  <2>1. ~IsName(s[m]) /\ after = before /\ s[m] # Up
    BY <1>8, SegmentsDiffer DEF IsName, NotNames, WalkOn
  <2>2. d[m] = d[m - 1]
    BY <1>3, <2>1
  <2> QED BY <1>4, <1>5, <2>1, <2>2 DEF Leads
<1> QED BY <1>6, <1>7, <1>8 DEF IsName, NotNames

\* A path is determined by what it leads from.
LEMMA LeadsIs ==
  ASSUME NEW s \in Seq(STRING), NEW parts, Leads(parts, Depth(s), s, Len(s))
  PROVE  parts = LeadsTo(s)
<1> DEFINE d == Depth(s)
           atDepth(k) == {i \in DOMAIN s : IsName(s[i]) /\ d[i] = k}
<1>1. d \in [0..Len(s) -> Nat] /\ Len(s) \in Nat /\ DOMAIN s = 1..Len(s)
  BY DepthIs, LenProperties
<1>2. Leads(parts, d, s, Len(s))
  OBVIOUS
<1>3. LeadsTo(s) = [k \in 1..d[Len(s)] |-> s[Max(atDepth(k))]]
  BY DEF LeadsTo
<1> HIDE DEF d
<1>4. parts = [k \in 1..d[Len(s)] |-> parts[k]]
  BY <1>1, <1>2, LenProperties DEF Leads
<1>5. ASSUME NEW k \in 1..d[Len(s)] PROVE parts[k] = s[Max(atDepth(k))]
  <2>1. PICK i \in 1..Len(s) :
           /\ IsName(s[i]) /\ d[i] = k /\ parts[k] = s[i]
           /\ \A j \in (i + 1)..Len(s) : ~(IsName(s[j]) /\ d[j] = k)
    BY <1>2, <1>5 DEF Leads
  <2>2. i \in atDepth(k) /\ atDepth(k) \subseteq Nat
    BY <1>1, <2>1
  <2>3. \A j \in atDepth(k) : i >= j
    BY <1>1, <2>1
  <2> HIDE DEF atDepth
  <2>4. Max(atDepth(k)) = i
    BY <2>2, <2>3 DEF Max
  <2> QED BY <2>1, <2>4
<1> QED BY <1>3, <1>4, <1>5

\* Walking from a file of names, with every segment that is not a name dropped or
\* a step up, comes to where the path leads.
LEMMA WalkLeads ==
  ASSUME NEW base \in Names, NEW spec \in Seq(STRING), NEW dropped \in SUBSET {Here, Blank},
         \A n \in DOMAIN spec : spec[n] \in {Here, Blank} => spec[n] \in dropped
  PROVE  Walk(base, spec, dropped) = LeadsTo(Front(base) \o spec)
<1> DEFINE home == Front(base)
           h == Len(home)
           s == home \o spec
<1>1. base \in Seq(STRING) /\ Len(base) \in Nat /\ Len(base) > 0 /\ \A i \in 1..Len(base) : IsName(base[i])
  BY ImportAssumption, EmptySeq, LenProperties DEF Written, IsName
<1>2. home \in Seq(STRING) /\ h \in Nat /\ \A i \in 1..h : home[i] = base[i] /\ i \in 1..Len(base)
  <2>1. /\ home \in Seq(STRING) /\ h = Len(base) - 1
        /\ \A i \in 1..(Len(base) - 1) : home[i] = base[i]
    BY <1>1, FrontIs
  <2> HIDE DEF home
  <2> QED BY <1>1, <2>1
<1> HIDE DEF home
<1>3. /\ s \in Seq(STRING) /\ Len(s) = h + Len(spec) /\ Len(spec) \in Nat /\ DOMAIN spec = 1..Len(spec)
      /\ \A i \in 1..h : s[i] = home[i]
      /\ \A n \in 1..Len(spec) : s[h + n] = spec[n]
  BY <1>2, ConcatProperties, LenProperties
<1>4. PICK parts : /\ IsWalk(parts, base, spec, dropped)
                   /\ parts \in [0..Len(spec) -> Seq(STRING)]
                   /\ Walk(base, spec, dropped) = parts[Len(spec)]
  BY <1>1, WalkExists
<1> HIDE DEF s, h
<1> DEFINE B == {n \in 0..Len(spec) : ~Leads(parts[n], Depth(s), s, h + n)}
<1>5. B = {}
  <2>1. SUFFICES ASSUME B # {} PROVE FALSE
    OBVIOUS
  <2>2. PICK n \in B : \A m \in B : n <= m
    <3>1. B \in SUBSET Nat
      BY <1>3
    <3> HIDE DEF B
    <3> QED BY <2>1, <3>1, LeastNatural
  <2>3. n \in 0..Len(spec) /\ ~Leads(parts[n], Depth(s), s, h + n)
    BY <2>2
  <2>4. CASE n = 0
    <3>1. parts[0] = home
      BY <1>3, <1>4 DEF IsWalk, home
    <3>2. h \in 0..Len(s) /\ h + 0 = h /\ \A i \in 1..h : IsName(s[i]) /\ home[i] = s[i]
      BY <1>1, <1>2, <1>3
    <3>3. Leads(home, Depth(s), s, h)
      BY <1>2, <1>3, <3>2, NamesLead DEF h
    <3> QED BY <2>3, <2>4, <3>1, <3>2, <3>3
  <2>5. CASE n # 0
    <3>1. n \in 1..Len(spec) /\ n - 1 \in 0..Len(spec) /\ ~(n <= n - 1)
      BY <1>3, <2>3, <2>5
    <3>2. Leads(parts[n - 1], Depth(s), s, h + (n - 1))
      BY <2>2, <3>1
    <3>3. h + n \in 1..Len(s) /\ h + (n - 1) = (h + n) - 1 /\ s[h + n] = spec[n]
      BY <1>2, <1>3, <3>1
    <3>4. parts[n] = IF spec[n] = Up THEN Front(parts[n - 1])
                     ELSE IF spec[n] \in dropped THEN parts[n - 1]
                     ELSE Append(parts[n - 1], spec[n])
      BY <1>4, <2>3, <2>5 DEF IsWalk
    <3>5. spec[n] \in dropped <=> spec[n] \in {Here, Blank}
      BY <1>3, <3>1
    <3>6. parts[n] = WalkOn(parts[n - 1], s[h + n])
      BY <3>3, <3>4, <3>5 DEF WalkOn
    <3>7. Leads(parts[n - 1], Depth(s), s, (h + n) - 1)
      BY <3>2, <3>3
    <3>8. Leads(parts[n], Depth(s), s, h + n)
      BY <1>3, <3>3, <3>6, <3>7, StepLeads
    <3> QED BY <2>3, <3>8
  <2> QED BY <2>4, <2>5
<1>6. Leads(parts[Len(spec)], Depth(s), s, Len(s))
  BY <1>3, <1>5
<1>7. parts[Len(spec)] = LeadsTo(s)
  BY <1>3, <1>6, LeadsIs
<1> QED BY <1>4, <1>7 DEF s, home

\* What a question about the loaders asks.
LEMMA ModuleQuestion ==
  ASSUME NEW q \in Questions, q.kind = "module"
  PROVE  /\ q.spec \in Specifiers /\ q.spec \in Seq(STRING) /\ q.imports \in Seq(Keys)
         /\ q.base \in Names /\ q.files \in SUBSET Names /\ None \notin q.files
<1>1. /\ q.spec \in Specifiers /\ q.imports \in Mappings(FewKeys)
      /\ q.base \in Names /\ q.files \in SUBSET Names
  BY DEF Questions
<1>2. q.imports \in Seq(Keys)
  BY <1>1, ImportAssumption DEF Mappings, SeqOf
<1> QED BY <1>1, <1>2, ImportAssumption DEF Written, None

\* The loaders agree on relative specifiers.
LEMMA LoadersAgree ==
  ASSUME NEW q \in Questions, q.kind = "module",
         NEW reply, reply = <<WasmModule(q), NodeModule(q), RegistryModule(q)>>
  PROVE  /\ reply[1] \in q.files \cup {None}
         /\ IsRelative(q.spec) => LeadsToFile(q, reply)
<1>1. /\ q.spec \in Specifiers /\ q.spec \in Seq(STRING) /\ q.imports \in Seq(Keys)
      /\ q.base \in Names /\ q.files \in SUBSET Names /\ None \notin q.files
  BY ModuleQuestion
<1>2. reply[1] = WasmModule(q) /\ reply[2] = NodeModule(q) /\ reply[3] = RegistryModule(q)
  OBVIOUS
<1>3. reply[1] \in q.files \cup {None}
  BY <1>1, <1>2, LookupFinds DEF WasmModule
<1>4. ASSUME IsRelative(q.spec) PROVE LeadsToFile(q, reply)
  <2> DEFINE path == LeadsTo(Front(FileOf(q)) \o q.spec)
             plain == /\ q.base \in q.files /\ Last(q.spec) \notin {Here, Up}
                      /\ \A i \in DOMAIN q.spec : q.spec[i] # Blank
  <2>1. FileOf(q) \in Names /\ (q.base \in q.files => FileOf(q) = q.base)
    BY <1>1, LookupFinds DEF FileOf
  <2>2. WasmPath(FileOf(q), q.spec) = path
    BY <1>1, <2>1, WalkLeads DEF WasmPath
  <2>3. ASSUME plain PROVE UrlPath(q.base, q.spec) = path
    BY <1>1, <2>1, <2>3, WalkLeads DEF UrlPath
  <2> HIDE DEF path
  <2>4. reply[1] = Lookup(path, q.files)
    BY <1>2, <1>4, <2>2 DEF WasmModule
  <2>5. reply[1] = None <=> (path = None \/ Range(Candidates(path)) \cap q.files = {})
    BY <1>1, <2>4, LookupFinds
  <2>6. path \in q.files => reply[1] = path
    BY <1>1, <2>4, LookupFinds
  <2>7. plain => reply[2] = reply[1]
    <3>1. NodeModule(q) = Lookup(UrlPath(q.base, q.spec), q.files)
      BY <1>4 DEF NodeModule
    <3> HIDE DEF plain
    <3> QED BY <1>2, <2>3, <2>4, <3>1
  <2>8. plain /\ path \in q.files /\ BestOf(q.spec, q.imports) = {} => reply[3] = path
    BY <1>1, <1>2, <1>4, <2>3, MatchIsBest DEF RegistryModule
  <2> HIDE DEF plain
  <2>9. /\ reply[1] = None <=> (path = None \/ Range(Candidates(path)) \cap q.files = {})
        /\ path \in q.files => reply[1] = path
        /\ plain => reply[2] = reply[1]
        /\ plain /\ path \in q.files /\ BestOf(q.spec, q.imports) = {} => reply[3] = path
    BY <2>5, <2>6, <2>7, <2>8
  <2> QED BY <2>9 DEF LeadsToFile, path, plain
<1> QED BY <1>3, <1>4

\* What sandboxImport() answers.
LEMMA ImportAnswered ==
  ASSUME NEW q \in Questions, q.kind = "import",
         NEW reply, reply = SandboxImport(q.spec, q.virtual, q.imports, q.list)
  PROVE  /\ reply.from = "virtual" <=> q.virtual
         /\ reply.from = "map" <=> (~q.virtual /\ BestOf(q.spec, q.imports) # {})
         /\ \A listed \in q.list : reply.from = "url" => reply.host \in listed \cup {BaseHost}
<1>1. /\ q.spec \in Specifiers /\ q.imports \in Mappings(MaxKeys) /\ q.virtual \in BOOLEAN
      /\ q.list = {} \/ \E h : q.list = {h}
  BY DEF Questions
<1>2. q.imports \in Seq(Keys)
  BY <1>1, ImportAssumption DEF Mappings, SeqOf
<1>3. Mapped(q.spec, q.imports, <<>>, None) # None <=> BestOf(q.spec, q.imports) # {}
  BY <1>1, <1>2, SandboxMapped
<1>4. CASE q.virtual
  BY <1>4 DEF SandboxImport
<1>5. CASE ~q.virtual /\ Mapped(q.spec, q.imports, <<>>, None) # None
  BY <1>3, <1>5 DEF SandboxImport
<1>6. CASE ~q.virtual /\ Mapped(q.spec, q.imports, <<>>, None) = None
  <2>1. \/ reply.from = "error"
        \/ reply.from = "url" /\ Allowed(reply.host, q.list)
    BY <1>6 DEF SandboxImport
  <2>2. \A listed \in q.list : reply.from = "url" => reply.host \in listed \cup {BaseHost}
    BY <1>1, <2>1 DEF Allowed
  <2> QED BY <1>3, <1>6, <2>1, <2>2
<1> QED BY <1>1, <1>4, <1>5, <1>6

\* Every question is answered as it must be.
LEMMA ReplyAnswers ==
  ASSUME NEW q \in Questions
  PROVE  Answers(q, Reply(q))
<1>1. q.kind \in {"map", "import", "module"}
  BY DEF Questions
<1>2. CASE q.kind = "map"
  <2>1. Reply(q) = Mapped(q.spec, q.imports, q.scopes, q.parent)
    BY <1>2 DEF Reply
  <2>2. MapsToBest(q, Reply(q))
    BY <1>2, <2>1, MappedIsBest
  <2> QED BY <1>2, <2>2 DEF Answers
<1>3. CASE q.kind = "import"
  <2>1. Reply(q) = SandboxImport(q.spec, q.virtual, q.imports, q.list)
    BY <1>3 DEF Reply
  <2> QED BY <1>3, <2>1, ImportAnswered DEF Answers
<1>4. CASE q.kind = "module"
  <2>1. Reply(q) = <<WasmModule(q), NodeModule(q), RegistryModule(q)>>
    BY <1>4 DEF Reply
  <2> QED BY <1>4, <2>1, LoadersAgree DEF Answers
<1> QED BY <1>1, <1>2, <1>3, <1>4

ImportInv == ImportTypeOK /\ ImportsResolve

\* The initial states satisfy the invariant, for nothing is answered.
LEMMA ImportInitInv == ImportInit => ImportInv
BY DEF ImportInit, ImportInv, ImportTypeOK, ImportsResolve

\* A question does not change, and has one answer.
LEMMA ResolveKeeps == ImportInv /\ [Resolve]_importVars => ImportInv'
<1> SUFFICES ASSUME ImportInv, [Resolve]_importVars PROVE ImportInv'
  OBVIOUS
<1>1. CASE UNCHANGED importVars
  BY <1>1 DEF ImportInv, ImportTypeOK, ImportsResolve, importVars
<1>2. CASE Resolve
  <2>1. question \in Questions /\ question' = question /\ answered' = TRUE /\ answer' = Reply(question)
    BY <1>2 DEF Resolve, ImportInv, ImportTypeOK
  <2>2. Answers(question, Reply(question))
    BY <2>1, ReplyAnswers
  <2> QED BY <2>1, <2>2 DEF ImportInv, ImportTypeOK, ImportsResolve
<1> QED BY <1>1, <1>2

\* Whatever maps, scopes, files and specifiers there are, in whatever number, an
\* import resolves as ImportsResolve says.
THEOREM ImportsAlwaysResolve == ImportSpec => []ImportsResolve
<1>1. ImportInv => ImportsResolve
  BY DEF ImportInv
<1> QED BY <1>1, ImportInitInv, ResolveKeeps, PTL DEF ImportSpec

-----------------------------------------------------------------------------
(* The parts side by side.                                                 *)

AllInv ==
  /\ NetInv /\ BudgetInv /\ SwInv /\ StdioInv /\ RegistryInv /\ GateInv /\ ImportsResolve
  /\ part = "imports" => ImportTypeOK

\* A part at rest is in a state its invariant allows.
LEMMA RestsInv ==
  /\ NetRests => NetInv
  /\ SwRests => SwInv
  /\ RegistryRests => RegistryInv
  /\ GateRests => GateInv
<1>1. ASSUME NetRests PROVE NetInv
  <2>1. /\ sent = <<>> /\ asked = <<>> /\ Len(sent) = 0 /\ Len(asked) = 0 /\ DOMAIN sent = {}
        /\ sent \in Seq(Requests) /\ asked \in Seq(Origins)
    BY <1>1 DEF NetRests
  <2>2. req \in Requests /\ req.body = FALSE /\ req.auth = FALSE
    BY <1>1, MCAssumption DEF NetRests, Requests, Methods
  <2> QED BY <1>1, <2>1, <2>2, NetAssumption DEF NetRests, NetInv, NetTypeOK, RedirectsStayInPolicy
<1> QED BY <1>1, SwInitInv, RegistryInitInv, GateInitInv, GateAssumption DEF SwRests, RegistryRests, GateRests

\* Each part keeps its invariant beside the others, in every state the runs reach.
THEOREM HostServicesKeep ==
  Spec => [](/\ TypeOK /\ RedirectsStayInPolicy /\ BudgetHolds /\ SwServes
             /\ StdioDelivers /\ RegistryUrlsLoad /\ ImportsResolve
             /\ WithinLimits /\ CountersExact)
<1>1. Init => AllInv
  <2> SUFFICES ASSUME Init PROVE AllInv
    OBVIOUS
  <2>1. BudgetInv /\ StdioInv
    BY BudgetInitInv, StdioInitInv DEF Init
  <2>2. NetInv /\ SwInv /\ RegistryInv /\ GateInv
    BY RestsInv, NetInitInv, SwInitInv, RegistryInitInv, GateInitInv, GateAssumption DEF Init
  <2>3. ImportsResolve /\ (part = "imports" => ImportTypeOK)
    BY DEF Init, ImportInit, ImportRests, ImportTypeOK, ImportsResolve
  <2> QED BY <2>1, <2>2, <2>3 DEF AllInv
<1>2. AllInv /\ [Next]_vars => AllInv'
  <2> SUFFICES ASSUME AllInv, [Next]_vars PROVE AllInv'
    OBVIOUS
  <2>1. [NetNext]_netVars /\ [BudgetNext]_budgetVars /\ [SwNext]_swVars /\ [StdioNext]_stdioVars
        /\ [RegistryNext]_registryVars /\ [Resolve]_importVars /\ [GateNext]_gateVars /\ part' = part
    BY DEF Next, vars
  <2>2. NetInv' /\ BudgetInv' /\ SwInv' /\ StdioInv' /\ RegistryInv' /\ GateInv'
    BY <2>1, NetNextInv, BudgetNextInv, SwNextInv, StdioNextInv, RegistryNextInv, GateNextInv, GateAssumption
       DEF AllInv
  <2>3. ImportsResolve' /\ (part' = "imports" => ImportTypeOK')
    <3>1. CASE part = "imports"
      <4>1. ImportInv
        BY <3>1 DEF AllInv, ImportInv
      <4> QED BY <2>1, <4>1, ResolveKeeps DEF ImportInv
    <3>2. CASE part # "imports"
      <4>1. UNCHANGED importVars
        BY <3>2 DEF Next, vars
      <4> QED BY <2>1, <3>2, <4>1 DEF importVars, AllInv, ImportsResolve
    <3> QED BY <3>1, <3>2
  <2> QED BY <2>2, <2>3 DEF AllInv
<1>3. AllInv => /\ TypeOK /\ RedirectsStayInPolicy /\ BudgetHolds /\ SwServes
                /\ StdioDelivers /\ RegistryUrlsLoad /\ ImportsResolve
                /\ WithinLimits /\ CountersExact
  BY BudgetInvHolds, SwInvServes, StdioInvDelivers, RegistryInvLoads
     DEF AllInv, TypeOK, NetInv, BudgetInv, SwInv, StdioInv, RegistryInv, GateInv
<1> QED BY <1>1, <1>2, <1>3, PTL DEF Spec
=============================================================================
