---------------------------- MODULE BridgeContract ----------------------------
(***************************************************************************)
(* What a bridge session promises the two sides about the calls, the host  *)
(* objects and the sandbox functions that cross it, without its messages,  *)
(* streams, timers and consents: a call is served at most once; an object  *)
(* is registered within the limit, by a call on an object that is itself   *)
(* registered, stays so as long as the sandbox's handle of it lives, and   *)
(* is freed once; a function stays with the sandbox until the host has let *)
(* it go with its call or the object that call created, and runs at most   *)
(* once per reverse call.                                                  *)
(***************************************************************************)
EXTENDS Naturals, FiniteSets

CONSTANTS Calls, WithFunction, Root, MaxHandles   \* as in BridgeSession

VARIABLES
  closed,
  call,      \* call[c], as the sandbox sees it: "idle", "open" or "settled"
  on,        \* on[c]: the object c is called on, or Root
  handle,    \* handle[c], the sandbox's: "none", "live" or "destroyed"
  kept,      \* the functions the sandbox keeps
  served,    \* served[c], as the host sees it: "none", "running" or "done"
  hosted,    \* hosted[c], the host object: "none", "registered" or "freed"
  released,  \* the functions the host has let go
  reverse    \* reverse[c]: "none", "sent", "running", "answered" or "settled"

sandbox == <<call, on, handle, kept>>
host    == <<served, hosted, released>>
vars    == <<closed, sandbox, host, reverse>>

Init ==
  /\ closed = FALSE /\ kept = {} /\ released = {}
  /\ call = [c \in Calls |-> "idle"] /\ on = [c \in Calls |-> Root]
  /\ served = [c \in Calls |-> "none"] /\ reverse = [c \in Calls |-> "none"]
  /\ hosted = [c \in Calls |-> "none"] /\ handle = [c \in Calls |-> "none"]

Registered == {c \in Calls : hosted[c] = "registered"}
HasRoom == MaxHandles = 0 \/ Cardinality(Registered) < MaxHandles
Becomes(f, S, v) == [c \in Calls |-> IF c \in S THEN v ELSE f[c]]

-----------------------------------------------------------------------------
(* The sandbox.                                                            *)

\* A call of a live handle lends its function; one of a destroyed handle fails.
Start(c, h) ==
  /\ call[c] = "idle" /\ on' = [on EXCEPT ![c] = h]
  /\ \/ /\ h = Root \/ handle[h] = "live"
        /\ call' = Becomes(call, {c}, "open")
        /\ kept' = kept \cup ({c} \cap WithFunction)
     \/ /\ h # Root /\ handle[h] = "destroyed"
        /\ call' = Becomes(call, {c}, "settled")
        /\ UNCHANGED kept
  /\ UNCHANGED <<handle, host, reverse>>

\* A call ends, with an answer or because the sandbox gives it up.
Settle(c) ==
  /\ call[c] = "open"
  /\ call' = Becomes(call, {c}, "settled")
  /\ UNCHANGED <<on, handle, kept, host, reverse>>

\* The sandbox gets its handle of a registered object, once; a stream goes on.
Take(c) ==
  /\ call[c] = "open" /\ handle[c] = "none" /\ hosted[c] = "registered"
  /\ handle' = Becomes(handle, {c}, "live")
  /\ call' \in {call, Becomes(call, {c}, "settled")}
  /\ UNCHANGED <<on, kept, host, reverse>>

\* destroy() ends the calls on the object with its handle.
Destroy(h) ==
  /\ handle[h] = "live"
  /\ handle' = Becomes(handle, {h}, "destroyed")
  /\ call' = Becomes(call, {c \in Calls : call[c] = "open" /\ on[c] = h}, "settled")
  /\ UNCHANGED <<on, kept, host, reverse>>

Forget(R) ==
  /\ R \subseteq released /\ kept' = kept \ R
  /\ UNCHANGED <<call, on, handle, host, reverse>>

-----------------------------------------------------------------------------
(* The host.                                                               *)

\* It accepts a call on what is registered, or refuses it.
Serve(c) ==
  /\ served[c] = "none" /\ call[c] # "idle"
  /\ \/ /\ on[c] = Root \/ hosted[on[c]] = "registered"
        /\ served' = Becomes(served, {c}, "running")
        /\ UNCHANGED released
     \/ /\ served' = Becomes(served, {c}, "done")
        /\ released' \in {released, released \cup ({c} \cap WithFunction)}
  /\ UNCHANGED <<sandbox, hosted, reverse>>

\* A running call, or a chunk of its stream, creates an object.
Register(c) ==
  /\ served[c] = "running" /\ hosted[c] = "none" /\ HasRoom
  /\ on[c] = Root \/ hosted[on[c]] = "registered"
  /\ hosted' = Becomes(hosted, {c}, "registered")
  /\ served' \in {served, Becomes(served, {c}, "done")}
  /\ UNCHANGED <<sandbox, released, reverse>>

\* The host lets functions go whose call has ended without an object, or whose
\* object has been freed.
LetsGo ==
  /\ released \subseteq released' /\ released' \subseteq WithFunction
  /\ \A c \in released' \ released :
       \/ hosted'[c] = "none" /\ served'[c] = "done"
       \/ hosted'[c] = "freed"

\* Calls end.  An object is freed when the sandbox has destroyed its handle,
\* with calls on it, or at once when nobody waits for it any more.
End ==
  /\ \E S \in SUBSET {c \in Calls : served[c] = "running"} :
       /\ served' = Becomes(served, S, "done")
       /\ \/ UNCHANGED hosted
          \/ \E h \in Registered :
               /\ handle[h] = "destroyed" /\ \A c \in S : on[c] = h
               /\ hosted' = Becomes(hosted, {h}, "freed")
          \/ \E c \in Calls :
               /\ hosted[c] = "none" /\ served'[c] = "done" /\ S \subseteq {c}
               /\ hosted' = Becomes(hosted, {c}, "freed")
  /\ LetsGo
  /\ UNCHANGED <<sandbox, reverse>>

\* Objects end with the session; a reverse call under way fails.
Close ==
  /\ ~closed /\ closed' = TRUE
  /\ hosted' = Becomes(hosted, Registered, "freed")
  /\ served' = Becomes(served, {c \in Calls : served[c] = "running"}, "done")
  /\ reverse' = Becomes(reverse, {c \in Calls : reverse[c] # "none"}, "settled")
  /\ UNCHANGED <<sandbox, released>>

-----------------------------------------------------------------------------
(* Reverse calls.                                                          *)

\* One of a function that was let go fails on the host.
Ask(c) ==
  /\ reverse[c] = "none" /\ c \in WithFunction /\ served[c] # "none"
  /\ \/ ~closed /\ c \in kept /\ reverse' = Becomes(reverse, {c}, "sent")
     \/ (closed \/ c \in released) /\ reverse' = Becomes(reverse, {c}, "settled")
  /\ UNCHANGED <<sandbox, host>>

\* It runs where it is kept, once, and its result is taken once.
Proceed(c) ==
  /\ \/ reverse[c] = "sent" /\ c \in kept /\ reverse' = Becomes(reverse, {c}, "running")
     \/ reverse[c] = "running" /\ reverse' = Becomes(reverse, {c}, "answered")
     \/ reverse[c] = "answered" /\ reverse' = Becomes(reverse, {c}, "settled")
  /\ UNCHANGED <<sandbox, host>>

\* While the session is open, and what the host goes on with after it.
Open(c) ==
  \/ \E h \in Calls \cup {Root} : Start(c, h)
  \/ Settle(c) \/ Take(c) \/ Destroy(c) \/ Serve(c) \/ Register(c) \/ Proceed(c)

Next ==
  \/ /\ ~closed /\ UNCHANGED closed
     /\ \/ \E c \in Calls : Open(c)
        \/ \E R \in SUBSET Calls : Forget(R)
  \/ UNCHANGED closed /\ (End \/ \E c \in Calls : Ask(c))
  \/ Close

Spec == Init /\ [][Next]_vars
=============================================================================
