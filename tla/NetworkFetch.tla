---------------------------- MODULE NetworkFetch ----------------------------
(***************************************************************************)
(* One fetch() of sandboxed code under `network` (src/src/network-policy.  *)
(* mjs and the shim in src/src/worker-source.mjs): the shim asks the host, *)
(* whose policy is asked about every URL that is requested, and which      *)
(* follows redirects itself.  With allowedHosts: '*' nothing is checked;   *)
(* that case is left out.  Code that asks for host.call('fetch') itself    *)
(* may send a GET with a body, which the shim's Request refuses.  A URL is *)
(* its origin here; servers are external.                                  *)
(***************************************************************************)
EXTENDS Integers, Sequences

CONSTANTS
  Origins,
  MAX_REDIRECTS   \* 20 in the code

ASSUME NetAssumption == MAX_REDIRECTS \in Nat

VARIABLES
  policy,  \* "list" or "function": the form of allowedHosts
  hosts,   \* the list
  shim,    \* fetch() in the sandbox: "idle", "waiting" or how it settled
  stage,   \* the host: "idle", "asking" the policy, "sending", "ok" or "failed"
  req,     \* the request about to be sent: to, method, body, auth
  mode,    \* its redirect mode
  sent,    \* history: the requests sent, in order
  asked    \* history: the origins the policy has allowed, in order

netVars == <<policy, hosts, shim, stage, req, mode, sent, asked>>

\* "PUT" stands for the methods a redirect does not rewrite but for 303.
Methods  == {"GET", "HEAD", "POST", "PUT"}
Requests == [to : Origins, method : Methods, body : BOOLEAN, auth : BOOLEAN]

\* 301 is also 302, 307 also 308; 304 is a 3xx that is no redirect.
Statuses == {200, 301, 303, 304, 307}
Redirects == {301, 303, 307}

NetInit ==
  /\ \/ policy = "list" /\ hosts \in SUBSET Origins \ {{}}
     \/ policy = "function" /\ hosts = {}
  /\ shim = "idle" /\ stage = "idle"
  /\ req \in Requests
  /\ mode \in {"follow", "error", "manual"}
  /\ sent = <<>> /\ asked = <<>>

\* The shim, with a signal that has not aborted: callHost('fetch', ...).
Fetch ==
  /\ shim = "idle" /\ shim' = "waiting"
  /\ stage' = "asking"
  /\ UNCHANGED <<policy, hosts, req, mode, sent, asked>>

\* The host is done; the shim may have stopped waiting.
Report(result) ==
  /\ stage' = result
  /\ shim' = IF shim # "waiting" THEN shim
             ELSE IF result = "ok" THEN "resolved" ELSE "rejected"

\* The code's own signal aborts: the host's request goes on unheard.
AbortFetch ==
  /\ shim = "waiting" /\ shim' = "aborted"
  /\ UNCHANGED <<policy, hosts, stage, req, mode, sent, asked>>

\* askPolicy(), or the look in the list, before each request.
AskPolicy ==
  /\ stage = "asking"
  /\ \/ /\ policy = "function" \/ req.to \in hosts
        /\ asked' = Append(asked, req.to)
        /\ sent' = Append(sent, req)
        /\ stage' = "sending" /\ UNCHANGED shim
     \/ /\ policy = "function" \/ req.to \notin hosts
        /\ Report("failed") /\ UNCHANGED <<asked, sent>>
  /\ UNCHANGED <<policy, hosts, req, mode>>

\* The policy throws, the host's fetch does, or its signal aborts.
NetFails ==
  /\ stage \in {"asking", "sending"}
  /\ Report("failed")
  /\ UNCHANGED <<policy, hosts, req, mode, sent, asked>>

\* `hop + 1 > MAX_REDIRECTS`.  Mutant: the limit is passed by one.
OneTooMany == Len(sent) - 1 > MAX_REDIRECTS
TooManyRedirects == Len(sent) > MAX_REDIRECTS

\* A location that is no URL, or not an http(s) one.  Mutant: followed too.
AnyLocation(location) == FALSE
BadLocation(location) == location = "bad"

Rewritten(status) ==
  \/ status = 303 /\ req.method \notin {"GET", "HEAD"}
  \/ status = 301 /\ req.method = "POST"

Redirected(status, origin) ==
  [to     |-> origin,
   method |-> IF Rewritten(status) THEN "GET" ELSE req.method,
   body   |-> req.body /\ ~Rewritten(status),
   auth   |-> req.auth /\ origin = req.to]

\* A response that can be read; `location` is an origin, or "bad" or "none".
Respond(status, location) ==
  /\ stage = "sending"
  /\ policy = "function"
  /\ LET followed == mode # "manual" /\ status \in Redirects /\ location # "none"
         refused  == mode = "error" \/ TooManyRedirects \/ BadLocation(location) IN
     \/ ~followed /\ Report("ok") /\ UNCHANGED req
     \/ followed /\ refused /\ Report("failed") /\ UNCHANGED req
     \/ /\ followed /\ ~refused
        /\ req' = Redirected(status, location)
        /\ stage' = "asking" /\ UNCHANGED shim
  /\ UNCHANGED <<policy, hosts, mode, sent, asked>>

\* With a list no redirect is followed.
RespondToList(status) ==
  /\ stage = "sending" /\ policy = "list"
  /\ Report(IF status \in 300..399 THEN "failed" ELSE "ok")
  /\ UNCHANGED <<policy, hosts, req, mode, sent, asked>>

\* An opaque redirect, or what toWireResponse() refuses.
RespondUnreadably ==
  /\ stage = "sending"
  /\ Report("failed")
  /\ UNCHANGED <<policy, hosts, req, mode, sent, asked>>

NetNext ==
  \/ Fetch \/ AbortFetch \/ AskPolicy \/ NetFails \/ RespondUnreadably
  \/ \E status \in Statuses :
       \/ RespondToList(status)
       \/ \E location \in Origins \cup {"bad", "none"} : Respond(status, location)

NetSpec == NetInit /\ [][NetNext]_netVars

NetTypeOK ==
  /\ policy \in {"list", "function"} /\ hosts \subseteq Origins
  /\ shim \in {"idle", "waiting", "resolved", "rejected", "aborted"}
  /\ stage \in {"idle", "asking", "sending", "ok", "failed"}
  /\ req \in Requests /\ mode \in {"follow", "error", "manual"}
  /\ sent \in Seq(Requests) /\ asked \in Seq(Origins)

\* Whatever the servers redirect to: each request is to what the policy was
\* last asked about and allowed; there are MAX_REDIRECTS redirects at most, and
\* none with a list, mode 'error' or 'manual'; Authorization is not sent once a
\* hop has left the origin, not even on a way back; no redirect makes a request
\* with a body a GET, so a GET has one only if the first request was such a GET.
RedirectsStayInPolicy ==
  /\ Len(asked) = Len(sent) /\ Len(sent) <= MAX_REDIRECTS + 1
  /\ policy = "list" \/ mode # "follow" => Len(sent) <= 1
  /\ \A i \in DOMAIN sent :
       /\ sent[i].to = asked[i] /\ (policy = "list" => sent[i].to \in hosts)
       /\ sent[i].auth => \A j \in 1..i : sent[j].to = sent[1].to
       /\ sent[i].method = "GET" /\ sent[i].body => sent[1].method = "GET" /\ sent[1].body
=============================================================================
