----------------------------- MODULE IframeHost -----------------------------
(***************************************************************************)
(* The frames of `mode: 'iframe'` (src/src/iframe-host.mjs): the factory   *)
(* the sandbox calls for each new "Worker", the adapter it returns, and    *)
(* the bootstrap in the frame that shakes hands with it.                   *)
(*                                                                         *)
(* The browser is external: it loads documents, fires one load event for   *)
(* each that is not replaced before, and delivers messages.  So are the    *)
(* sandbox, which may replace a frame at any time (a timeout, an abort, a  *)
(* frame reported dead), the page, which may style or move the element,    *)
(* and the document, which may navigate itself.  The page does not take    *)
(* the element out of the document.                                        *)
(***************************************************************************)
EXTENDS Integers

CONSTANTS
  HasTimeout,   \* startupTimeoutMs > 0
  MaxFrames     \* bound: frames one sandbox makes

ASSUME IframeAssumption == HasTimeout \in BOOLEAN /\ MaxFrames \in Nat \ {0}

VARIABLES
  nested,      \* the `frameSrc` option: a wrapper holds the sandboxed frame
  attached,    \* is the container in a document?
  frames,      \* the number of frames made; a frame is named by its number
  current,     \* the frame of the last factory() that returned; 0 is null
  slot,        \* where and how the last frame was, or NoSlot
  where,       \* where[g]: the place of its element, or "nowhere"
  look,        \* look[g]: the attributes of its element
  terminated, dead, listening, startTimer,  \* the frames of which this holds
  errors,      \* history: errors[g]: times onerror was called
  loads,       \* loads[g]: load events of its element (and the wrapper's inner one)
  due,         \* the elements whose document has its load event to come
  doc,         \* doc[g]: the sandboxed document
  early,       \* history: the frames whose document was replaced before it had loaded
  hello, init  \* the frames with this message in flight

pageVars == <<where, look>>
hostVars == <<terminated, dead, listening, startTimer, errors>>
vars == <<nested, attached, frames, current, slot, pageVars, hostVars, loads, due, doc,
          early, hello, init>>

Frames   == 1..MaxFrames
Elements == Frames \X {"frame", "inner"}
Places   == {"container", "chosen", "moved"}  \* by default, by onFrame, by the page
NoSlot   == [where |-> "nowhere", look |-> "default"]

\* The element the code runs in.
Sandboxed(g) == <<g, IF nested THEN "inner" ELSE "frame">>

Connected(place) == place \in {"chosen", "moved"} \cup (IF attached THEN {"container"} ELSE {})

Init ==
  /\ nested \in BOOLEAN /\ attached \in BOOLEAN
  /\ frames = 0 /\ current = 0 /\ slot = NoSlot
  /\ where = [g \in Frames |-> "nowhere"] /\ look = [g \in Frames |-> "default"]
  /\ terminated = {} /\ dead = {} /\ listening = {} /\ startTimer = {}
  /\ errors = [g \in Frames |-> 0]
  /\ loads = [e \in Elements |-> 0] /\ due = {}
  /\ doc = [g \in Frames |-> "none"] /\ early = {}
  /\ hello = {} /\ init = {}

-----------------------------------------------------------------------------
(* The adapter.                                                            *)

\* cleanupHandshake().  Mutant: the timer stays.
StopListening(g) ==
  /\ listening' = listening \ {g}
  /\ UNCHANGED startTimer
Cleanup(g) ==
  /\ listening' = listening \ {g}
  /\ startTimer' = startTimer \ {g}

\* May a failure of g still be reported?  Mutant: as long as it is not replaced.
NotTerminated(g) == g \notin terminated
Reportable(g) == g \notin terminated \cup dead

Fail(g) ==
  \/ /\ Reportable(g)
     /\ dead' = dead \cup {g}
     /\ Cleanup(g)
     /\ errors' = [errors EXCEPT ![g] = @ + 1]
     /\ UNCHANGED terminated
  \/ ~Reportable(g) /\ UNCHANGED hostVars

\* terminate() notes where g was.  Mutant: after it has removed the element.
SlotAfter(g) == [where |-> "nowhere", look |-> look[g]]
SlotOf(g) == [where |-> where[g], look |-> look[g]]

\* The start timer.
Armed(g) == IF HasTimeout THEN {g} ELSE {}

-----------------------------------------------------------------------------
(* factory(), in the step that terminates the frames in `gone`.            *)

Place(s) == IF Connected(s.where) THEN s.where ELSE "container"

\* The browser starts to load g's element, where that is in a document.
StartsToLoad(g, place) ==
  /\ due' = IF Connected(place) THEN due \cup {<<g, "frame">>} ELSE due
  /\ doc' = [doc EXCEPT ![g] = IF Connected(place) /\ ~nested THEN "loading" ELSE "none"]

\* onFrame may insert the element and set its attributes.
OnFrameReturns(g, gone, s) ==
  \E at \in {Place(s), "chosen"}, as \in {s.look, "styled"} :
    /\ where' = [h \in Frames |-> IF h = g THEN at ELSE IF h \in gone THEN "nowhere" ELSE where[h]]
    /\ look' = [look EXCEPT ![g] = as]
    /\ slot' = NoSlot /\ current' = g
    /\ terminated' = terminated \cup gone /\ dead' = dead \cup gone
    /\ listening' = (listening \ gone) \cup {g}
    /\ startTimer' = (startTimer \ gone) \cup Armed(g)
    /\ StartsToLoad(g, at)

\* onFrame throws: the new frame is terminated, and what `slot` said is lost
\* but for the attributes.
OnFrameThrows(g, gone, s) ==
  \E at \in {"nowhere", "chosen"}, as \in {s.look, "styled"} :
    /\ slot' = [where |-> at, look |-> as]
    /\ current' = IF current \in gone THEN 0 ELSE current
    /\ where' = [h \in Frames |-> IF h \in gone THEN "nowhere" ELSE where[h]]
    /\ terminated' = terminated \cup gone \cup {g} /\ dead' = dead \cup gone \cup {g}
    /\ listening' = listening \ gone /\ startTimer' = startTimer \ gone
    /\ UNCHANGED <<look, due, doc>>

Factory(gone, s) ==
  /\ frames < MaxFrames
  /\ frames' = frames + 1
  /\ OnFrameReturns(frames', gone, s) \/ OnFrameThrows(frames', gone, s)
  /\ UNCHANGED <<nested, attached, errors, loads, early, hello, init>>

Create == current = 0 /\ Factory({}, slot)

Restart == current # 0 /\ Factory({current}, SlotOf(current))

\* terminate() alone: disposal, or a createSandbox() that was rejected.
Terminate ==
  /\ current # 0
  /\ slot' = SlotOf(current)
  /\ current' = 0
  /\ where' = [where EXCEPT ![current] = "nowhere"]
  /\ terminated' = terminated \cup {current} /\ dead' = dead \cup {current}
  /\ Cleanup(current)
  /\ UNCHANGED <<nested, attached, frames, look, errors, loads, due, doc, early, hello, init>>

-----------------------------------------------------------------------------
(* Load events and messages.                                               *)

\* A second load means another document.  Mutant: a third does.
Unloaded(e) == loads[e] >= 2
Reloaded(e) == loads[e] >= 1

\* buildInner(), unless the frame is dead already or the wrapper is unusable.
BuildInner(g) ==
  \/ /\ g \notin dead
     /\ due' = (due \ {<<g, "frame">>}) \cup {<<g, "inner">>}
     /\ doc' = [doc EXCEPT ![g] = "loading"]
     /\ UNCHANGED hostVars
  \/ /\ Fail(g)
     /\ due' = due \ {<<g, "frame">>} /\ UNCHANGED doc

Load(e) ==
  LET g == e[1] IN
  /\ e \in due /\ g \notin terminated
  /\ loads' = [loads EXCEPT ![e] = @ + 1]
  /\ \/ Reloaded(e) /\ Fail(g) /\ due' = due \ {e} /\ UNCHANGED doc
     \/ ~Reloaded(e) /\ nested /\ e[2] = "frame" /\ BuildInner(g)
     \/ /\ ~Reloaded(e) /\ e = Sandboxed(g)
        /\ due' = due \ {e} /\ UNCHANGED <<hostVars, doc>>
  /\ UNCHANGED <<nested, attached, frames, current, slot, pageVars, early, hello, init>>

\* The bootstrap listens for `init` and says hello, before its load event.
Boots(g) ==
  /\ g \notin terminated
  /\ doc[g] = "loading" /\ Sandboxed(g) \in due
  /\ doc' = [doc EXCEPT ![g] = "booted"]
  /\ hello' = hello \cup {g}
  /\ UNCHANGED <<nested, attached, frames, current, slot, pageVars, hostVars, loads, due,
                 early, init>>

\* onHello(): the port travels with `init`.
OnHello(g) ==
  /\ g \in hello
  /\ hello' = hello \ {g}
  /\ \/ g \in listening /\ Cleanup(g) /\ init' = init \cup {g}
     \/ g \notin listening /\ UNCHANGED <<listening, startTimer, init>>
  /\ UNCHANGED <<nested, attached, frames, current, slot, pageVars, terminated, dead, errors,
                 loads, due, doc, early>>

\* onInit(): the runtime starts.  Another document does not know the message.
OnInit(g) ==
  /\ g \in init
  /\ init' = init \ {g}
  /\ doc' = [doc EXCEPT ![g] = IF @ = "booted" THEN "running" ELSE @]
  /\ UNCHANGED <<nested, attached, frames, current, slot, pageVars, hostVars, loads, due,
                 early, hello>>

StartTimeout(g) ==
  /\ g \in startTimer
  /\ Fail(g)
  /\ UNCHANGED <<nested, attached, frames, current, slot, pageVars, loads, due, doc, early,
                 hello, init>>

-----------------------------------------------------------------------------
(* What the page and the documents do.                                     *)

Navigate(g) ==
  /\ g \notin terminated /\ doc[g] \in {"loading", "booted", "running"}
  /\ doc' = [doc EXCEPT ![g] = "gone"]
  /\ early' = IF Sandboxed(g) \in due THEN early \cup {g} ELSE early
  /\ due' = due \cup {Sandboxed(g)}
  /\ UNCHANGED <<nested, attached, frames, current, slot, pageVars, hostVars, loads, hello,
                 init>>

\* The page moves the element: its document is loaded anew, and the wrapper's
\* frame is gone.  Messages to and from the old window are lost.
Move(g) ==
  /\ g = current /\ where[g] # "moved"
  /\ where' = [where EXCEPT ![g] = "moved"]
  /\ early' = IF ~nested /\ <<g, "frame">> \in due THEN early \cup {g} ELSE early
  /\ due' = (due \ {<<g, "inner">>}) \cup {<<g, "frame">>}
  /\ doc' = [doc EXCEPT ![g] = IF ~nested THEN "loading" ELSE IF @ = "none" THEN @ ELSE "gone"]
  /\ hello' = hello \ {g} /\ init' = init \ {g}
  /\ UNCHANGED <<nested, attached, frames, current, slot, look, hostVars, loads>>

Style(g) ==
  /\ g = current /\ look[g] # "styled"
  /\ look' = [look EXCEPT ![g] = "styled"]
  /\ UNCHANGED <<nested, attached, frames, current, slot, where, hostVars, loads, due, doc,
                 early, hello, init>>

HostSteps == \E g \in Frames : OnHello(g) \/ OnInit(g) \/ StartTimeout(g)

Next ==
  \/ Create \/ Restart \/ Terminate \/ HostSteps
  \/ \E e \in Elements : Load(e)
  \/ \E g \in Frames : Boots(g) \/ Navigate(g) \/ Move(g) \/ Style(g)

Spec == Init /\ [][Next]_vars

\* Messages arrive, timers fire, and a document that is there has its load
\* event in the end.  A bootstrap need never run: html or csp may break it.
FairSpec ==
  /\ Spec
  /\ \A g \in Frames : WF_vars(OnHello(g)) /\ WF_vars(OnInit(g)) /\ WF_vars(StartTimeout(g))
  /\ \A e \in Elements : WF_vars(Load(e))

-----------------------------------------------------------------------------
(* Properties.                                                             *)

\* The variables have their types; a frame is watched by the start timer as
\* long as its hello is waited for, and by neither once it is dead.
TypeOK ==
  /\ nested \in BOOLEAN /\ attached \in BOOLEAN
  /\ frames \in 0..MaxFrames /\ current \in 0..frames
  /\ slot \in [where : Places \cup {"nowhere"}, look : {"default", "styled"}]
  /\ where \in [Frames -> Places \cup {"nowhere"}]
  /\ look \in [Frames -> {"default", "styled"}]
  /\ terminated \subseteq dead /\ dead \subseteq Frames
  /\ listening \subseteq Frames \ dead
  /\ startTimer = IF HasTimeout THEN listening ELSE {}
  /\ errors \in [Frames -> Nat]
  /\ loads \in [Elements -> Nat] /\ due \subseteq Elements
  /\ doc \in [Frames -> {"none", "loading", "booted", "running", "gone"}]
  /\ early \subseteq Frames /\ hello \subseteq Frames /\ init \subseteq Frames

\* A frame's failure is reported once, and only while the frame is the
\* sandbox's: worker.onerror rejects every call in progress, also those of a
\* replacement.
ErrorsAreTimely ==
  [][\A g \in Frames : errors'[g] # errors[g] => errors[g] = 0 /\ current = g]_vars

\* README.md:282: a frame is replaced "in the same place, with the same
\* attributes", unless onFrame chooses others.
PlaceIsKept ==
  [][current # 0 /\ current' \notin {0, current} =>
       /\ Connected(where[current]) => where'[current'] \in {where[current], "chosen"}
       /\ look'[current'] \in {look[current], "styled"}]_vars

\* The document was replaced before its load event, after its hello had
\* stopped the start timer: the load event of the other is taken for its own.
Unnoticed(g) == g \in early /\ g \notin listening

\* README.md:283, 288: a frame that does not complete its handshake in time,
\* and one that navigates, reloads or is moved, is reported; no call waits for
\* it without end.
StartsOrFails ==
  HasTimeout => \A g \in Frames :
    (g <= frames /\ g = current /\ doc[g] # "running")
      ~> (doc[g] = "running" \/ g \in dead \/ Unnoticed(g))
=============================================================================
