------------------------ MODULE ServiceWorkerSandbox ------------------------
(***************************************************************************)
(* createSandbox({ mode: 'service-worker' }) in src/src/sandbox.mjs and    *)
(* the worker of src/src/service-worker-source.mjs.  A page registers the  *)
(* script, waits until a worker is active, and keeps that worker's table   *)
(* of served files like its own.  The browser is external: it may have a   *)
(* worker of an earlier visit, install a new version, and stop a worker,   *)
(* which forgets its table.                                                *)
(***************************************************************************)
EXTENDS Integers, Sequences

CONSTANTS
  Paths,     \* normalised: '/a' for 'a'
  Entries,   \* contents, each with its type, status and headers
  MaxOps     \* bound: calls of define() and remove()

ASSUME SwAssumption == MaxOps \in Nat

Workers  == {1, 2}  \* an earlier visit's, and a new version
Tables   == [Paths -> Entries \cup {"none"}]
NoFiles  == [p \in Paths |-> "none"]
Messages == [type : {"configure"}, files : Tables]
       \cup [type : {"define"}, path : Paths, entry : Entries]
       \cup [type : {"remove"}, path : Paths]

VARIABLES
  page,     \* "new", "waiting" (waitForActive), "configuring", "open", "failed", "disposed"
  timer,    \* waitForActive's timer is armed
  watched,  \* the worker whose statechange it listens to, or 0
  state,    \* state[w]: "none", "installing", "activated", "redundant"
  files,    \* files[w]: the Map in worker w
  mail,     \* mail[w]: messages posted to w
  acks,     \* the configure message was answered
  ops,      \* calls of define() and remove() so far
  table,    \* history: the files the page has asked for
  lost      \* history: the browser stopped or replaced the worker that was told

swVars == <<page, timer, watched, state, files, mail, acks, ops, table, lost>>

SwInit ==
  /\ page = "new" /\ timer = FALSE /\ watched = 0
  /\ \/ state = <<"none", "none">> /\ files = <<NoFiles, NoFiles>>
     \/ state = <<"activated", "none">> /\ \E t \in Tables : files = <<t, NoFiles>>
  /\ mail = <<(<<>>), (<<>>)>> /\ acks = FALSE /\ ops = 0
  /\ table \in Tables /\ lost = FALSE

\* `registration.active`; 0 for none.
Active == IF \E w \in Workers : state[w] = "activated"
          THEN CHOOSE w \in Workers : state[w] = "activated" ELSE 0

\* send(); what it finds active may be about to be replaced.
Post(w, msg) == mail' = [mail EXCEPT ![w] = Append(@, msg)]

SendConfigure ==
  IF Active = 0 THEN page' = "failed" /\ UNCHANGED mail
  ELSE page' = "configuring" /\ Post(Active, [type |-> "configure", files |-> table])

\* register() and waitForActive(): register() rejects; or the script is new to
\* the browser, or it is not; or the new version has failed already, so that
\* nothing is waited for and send() finds no worker.
Register ==
  /\ page = "new"
  /\ \/ /\ page' = "failed" /\ UNCHANGED <<timer, watched, mail>>
        /\ \/ UNCHANGED state
           \/ Active = 0 /\ state' = [state EXCEPT ![2] = "redundant"]
     \/ /\ Active # 0
        /\ \/ UNCHANGED state
           \/ state' = [state EXCEPT ![2] = "installing"]
        /\ SendConfigure /\ UNCHANGED <<timer, watched>>
     \/ /\ Active = 0
        /\ state' = [state EXCEPT ![2] = "installing"]
        /\ page' = "waiting" /\ watched' = 2 /\ timer' = TRUE
        /\ UNCHANGED mail
  /\ UNCHANGED <<files, acks, ops, table, lost>>

\* onChange() of waitForActive; 'redundant' is an error.
StateChange ==
  /\ page = "waiting" /\ state[watched] # "installing"
  /\ timer' = FALSE /\ watched' = 0
  /\ IF state[watched] = "activated" THEN SendConfigure
     ELSE page' = "failed" /\ UNCHANGED mail
  /\ UNCHANGED <<state, files, acks, ops, table, lost>>

ActivationTimeout ==
  /\ page = "waiting" /\ timer
  /\ timer' = FALSE /\ watched' = 0 /\ page' = "failed"
  /\ UNCHANGED <<state, files, mail, acks, ops, table, lost>>

\* The answer to the configure message: createSandbox() resolves.
Configured ==
  /\ page = "configuring" /\ acks
  /\ page' = "open"
  /\ UNCHANGED <<timer, watched, state, files, mail, acks, ops, table, lost>>

DefineFile(p, e) ==
  /\ page = "open" /\ ops < MaxOps /\ Active # 0
  /\ Post(Active, [type |-> "define", path |-> p, entry |-> e])
  /\ ops' = ops + 1 /\ table' = [table EXCEPT ![p] = e]
  /\ UNCHANGED <<page, timer, watched, state, files, acks, lost>>

RemoveFile(p) ==
  /\ page = "open" /\ ops < MaxOps /\ Active # 0
  /\ Post(Active, [type |-> "remove", path |-> p])
  /\ ops' = ops + 1 /\ table' = [table EXCEPT ![p] = "none"]
  /\ UNCHANGED <<page, timer, watched, state, files, acks, lost>>

\* dispose(): what unregister() does to the worker, once no page uses it, is
\* a stop.
DisposePage ==
  /\ page = "open" /\ page' = "disposed"
  /\ UNCHANGED <<timer, watched, state, files, mail, acks, ops, table, lost>>

\* `files.clear()` and a set() per file.  Mutant: without the clear().
AddedTo(old, new) == [p \in Paths |-> IF new[p] = "none" THEN old[p] ELSE new[p]]
Replaced(old, new) == new

\* The worker's message handler; a redundant worker runs none.
TakesMessage(w) ==
  /\ state[w] = "activated" /\ mail[w] # <<>>
  /\ LET msg == Head(mail[w]) IN
       /\ files' = [files EXCEPT ![w] =
            CASE msg.type = "configure" -> Replaced(@, msg.files)
              [] msg.type = "define"    -> [@ EXCEPT ![msg.path] = msg.entry]
              [] msg.type = "remove"    -> [@ EXCEPT ![msg.path] = "none"]]
       /\ acks' = (acks \/ msg.type = "configure")
  /\ mail' = [mail EXCEPT ![w] = Tail(@)]
  /\ UNCHANGED <<page, timer, watched, state, ops, table, lost>>

\* The browser: skipWaiting() lets the new version replace the old one.
Activates ==
  /\ state[2] = "installing"
  /\ state' = <<IF state[1] = "activated" THEN "redundant" ELSE state[1], "activated">>
  /\ lost' = (lost \/ page \in {"configuring", "open", "disposed"})
  /\ UNCHANGED <<page, timer, watched, files, mail, acks, ops, table>>

InstallFails ==
  /\ state[2] = "installing"
  /\ state' = [state EXCEPT ![2] = "redundant"]
  /\ UNCHANGED <<page, timer, watched, files, mail, acks, ops, table, lost>>

Stops(w) ==
  /\ state[w] = "activated" /\ files[w] # NoFiles
  /\ files' = [files EXCEPT ![w] = NoFiles]
  /\ lost' = (lost \/ acks)
  /\ UNCHANGED <<page, timer, watched, state, mail, acks, ops, table>>

SwNext ==
  \/ Register \/ StateChange \/ ActivationTimeout \/ Configured \/ DisposePage
  \/ \E p \in Paths : RemoveFile(p) \/ \E e \in Entries : DefineFile(p, e)
  \/ Activates \/ InstallFails
  \/ \E w \in Workers : TakesMessage(w) \/ Stops(w)

SwSpec == SwInit /\ [][SwNext]_swVars

SwTypeOK ==
  /\ page \in {"new", "waiting", "configuring", "open", "failed", "disposed"}
  /\ timer \in BOOLEAN /\ acks \in BOOLEAN /\ lost \in BOOLEAN /\ watched \in 0..2
  /\ state \in [Workers -> {"none", "installing", "activated", "redundant"}]
  /\ files \in [Workers -> Tables] /\ table \in Tables
  /\ mail \in [Workers -> Seq(Messages)] /\ ops \in 0..MaxOps

\* README.md's contract, that a page may navigate into the scope once
\* createSandbox() has resolved: from then on a worker is active, and when it
\* has taken its messages it serves the page's files and no others, whatever it
\* served before; unless the browser stopped it or replaced it since it was told.
SwServes ==
  /\ page = "open" => Active # 0
  /\ page \in {"open", "disposed"} /\ ~lost /\ mail[Active] = <<>> => files[Active] = table
=============================================================================
