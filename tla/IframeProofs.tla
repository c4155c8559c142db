---------------------------- MODULE IframeProofs ----------------------------
(***************************************************************************)
(* What holds of the frames of a sandbox, however many it makes and        *)
(* whatever the page and the documents in them do.                         *)
(***************************************************************************)
EXTENDS IframeHost, TLAPS

\* The sandbox has one frame at a time: any other is terminated, or not made
\* yet.  Only frames that were made have documents, and load events to come.
OneAtATime ==
  /\ \A g \in Frames : g <= frames /\ g \notin terminated => g = current
  /\ current # 0 => current \notin terminated
  /\ listening \subseteq 1..frames /\ terminated \subseteq 1..frames
  /\ dead \subseteq 1..frames
  /\ \A e \in due : e[1] <= frames
  /\ \A g \in Frames : g > frames => doc[g] = "none"

\* A frame that is not dead has not been reported.
ReportedOnce == \A g \in Frames : g \notin dead => errors[g] = 0

IInv == TypeOK /\ OneAtATime /\ ReportedOnce

LEMMA FramesAreNumbers ==
  /\ MaxFrames \in Nat \ {0} /\ Frames = 1..MaxFrames
  /\ \A g \in Frames : g \in Nat /\ g >= 1
  /\ Elements = Frames \X {"frame", "inner"}
  /\ \A g \in Frames : <<g, "frame">> \in Elements /\ <<g, "inner">> \in Elements
BY IframeAssumption DEF Frames, Elements

LEMMA InitInv == Init => IInv
BY FramesAreNumbers DEF Init, IInv, TypeOK, OneAtATime, ReportedOnce, NoSlot

-----------------------------------------------------------------------------
(* A failure of the current frame.                                         *)

\* Reporting a frame keeps what is said of the host's variables.
LEMMA FailKeeps ==
  ASSUME IInv, NEW g \in Frames, g <= frames, Fail(g), UNCHANGED <<frames, current>>
  PROVE  /\ terminated' \subseteq dead' /\ dead' \subseteq Frames
         /\ listening' \subseteq Frames \ dead'
         /\ startTimer' = IF HasTimeout THEN listening' ELSE {}
         /\ errors' \in [Frames -> Nat]
         /\ terminated' = terminated /\ listening' \subseteq listening /\ dead' \subseteq 1..frames
         /\ ReportedOnce'
         /\ \A h \in Frames : errors'[h] # errors[h] => errors[h] = 0 /\ h = g /\ g \notin terminated
<1>1. CASE ~Reportable(g) /\ UNCHANGED hostVars
  BY <1>1 DEF hostVars, IInv, TypeOK, OneAtATime, ReportedOnce
<1>2. CASE /\ Reportable(g)
           /\ dead' = dead \cup {g}
           /\ Cleanup(g)
           /\ errors' = [errors EXCEPT ![g] = @ + 1]
           /\ UNCHANGED terminated
  <2>1. /\ errors \in [Frames -> Nat] /\ g \notin terminated /\ g \notin dead /\ errors[g] = 0
        /\ g \in 1..frames
    BY <1>2, FramesAreNumbers DEF Reportable, IInv, TypeOK, ReportedOnce
  <2>2. errors' \in [Frames -> Nat] /\ \A h \in Frames \ {g} : errors'[h] = errors[h]
    BY <1>2, <2>1
  <2> QED BY <1>2, <2>1, <2>2 DEF Cleanup, IInv, TypeOK, OneAtATime, ReportedOnce
<1> QED BY <1>1, <1>2 DEF Fail

-----------------------------------------------------------------------------
(* A new frame, in the step that terminates those in `gone`.               *)

LEMMA FactoryKeeps ==
  ASSUME IInv, NEW gone, gone = IF current = 0 THEN {} ELSE {current},
         NEW s \in [where : Places \cup {"nowhere"}, look : {"default", "styled"}],
         Factory(gone, s)
  PROVE  IInv'
<1> DEFINE g == frames + 1
<1>1. /\ g \in Frames /\ frames' = g /\ g = frames' /\ frames \in Nat /\ current \in 0..frames
      /\ gone \subseteq Frames /\ gone \subseteq 1..frames
      /\ UNCHANGED <<nested, attached, errors, loads, early, hello, init>>
      /\ s.where \in Places \cup {"nowhere"} /\ s.look \in {"default", "styled"}
      /\ where \in [Frames -> Places \cup {"nowhere"}] /\ look \in [Frames -> {"default", "styled"}]
      /\ g \notin gone /\ g \notin terminated /\ g \notin dead
  BY FramesAreNumbers DEF Factory, IInv, TypeOK, OneAtATime
<1>2. CASE OnFrameReturns(g, gone, s)
  <2>1. PICK at \in {Place(s), "chosen"}, as \in {s.look, "styled"} :
        /\ where' = [h \in Frames |-> IF h = g THEN at ELSE IF h \in gone THEN "nowhere" ELSE where[h]]
        /\ look' = [look EXCEPT ![g] = as]
        /\ slot' = NoSlot /\ current' = g
        /\ terminated' = terminated \cup gone /\ dead' = dead \cup gone
        /\ listening' = (listening \ gone) \cup {g}
        /\ startTimer' = (startTimer \ gone) \cup Armed(g)
        /\ StartsToLoad(g, at)
    BY <1>2 DEF OnFrameReturns
  <2>2. at \in Places \cup {"nowhere"} /\ as \in {"default", "styled"}
    BY <1>1 DEF Place, Places
  <2>3. /\ where' \in [Frames -> Places \cup {"nowhere"}]
        /\ look' \in [Frames -> {"default", "styled"}]
        /\ slot' \in [where : Places \cup {"nowhere"}, look : {"default", "styled"}]
    BY <1>1, <2>1, <2>2 DEF NoSlot
  <2>4. /\ due' \subseteq Elements /\ \A e \in due' : e[1] <= g
        /\ doc' \in [Frames -> {"none", "loading", "booted", "running", "gone"}]
        /\ \A h \in Frames : h > g => doc'[h] = "none"
    BY <1>1, <2>1, FramesAreNumbers DEF StartsToLoad, IInv, TypeOK, OneAtATime
  <2>5. startTimer' = IF HasTimeout THEN listening' ELSE {}
    BY <2>1 DEF Armed, IInv, TypeOK
  <2>6. /\ terminated' \subseteq dead' /\ dead' \subseteq Frames
        /\ listening' \subseteq Frames \ dead'
    BY <1>1, <2>1 DEF IInv, TypeOK
  <2>7. TypeOK'
    <3>1. frames' \in 0..MaxFrames /\ current' \in 0..frames'
      BY <1>1, <2>1, FramesAreNumbers
    <3> QED BY <1>1, <2>1, <2>3, <2>4, <2>5, <2>6, <3>1 DEF IInv, TypeOK
  <2>8. OneAtATime'
    <3>1. \A h \in Frames : h <= g /\ h \notin terminated' => h = g
      BY <1>1, <2>1, FramesAreNumbers DEF IInv, OneAtATime
    <3>2. listening' \subseteq 1..g /\ terminated' \subseteq 1..g /\ dead' \subseteq 1..g
      BY <1>1, <2>1 DEF IInv, OneAtATime
    <3>3. g \notin terminated'
      BY <1>1, <2>1
    <3> QED BY <1>1, <2>1, <2>4, <3>1, <3>2, <3>3 DEF OneAtATime
  <2>9. ReportedOnce'
    BY <1>1, <2>1 DEF IInv, ReportedOnce
  <2> QED BY <2>7, <2>8, <2>9 DEF IInv
<1>3. CASE OnFrameThrows(g, gone, s)
  <2>1. PICK at \in {"nowhere", "chosen"}, as \in {s.look, "styled"} :
        /\ slot' = [where |-> at, look |-> as]
        /\ current' = IF current \in gone THEN 0 ELSE current
        /\ where' = [h \in Frames |-> IF h \in gone THEN "nowhere" ELSE where[h]]
        /\ terminated' = terminated \cup gone \cup {g} /\ dead' = dead \cup gone \cup {g}
        /\ listening' = listening \ gone /\ startTimer' = startTimer \ gone
        /\ UNCHANGED <<look, due, doc>>
    BY <1>3 DEF OnFrameThrows
  <2>2. current' = 0
    BY <1>1, <2>1
  <2>3. /\ where' \in [Frames -> Places \cup {"nowhere"}]
        /\ slot' \in [where : Places \cup {"nowhere"}, look : {"default", "styled"}]
    BY <1>1, <2>1 DEF Places
  <2>4. /\ terminated' \subseteq dead' /\ dead' \subseteq Frames
        /\ listening' \subseteq Frames \ dead'
    <3>1. g \notin listening
      BY <1>1 DEF IInv, OneAtATime
    <3> QED BY <1>1, <2>1, <3>1 DEF IInv, TypeOK
  <2>5. startTimer' = IF HasTimeout THEN listening' ELSE {}
    BY <2>1 DEF IInv, TypeOK
  <2>6. TypeOK'
    <3>1. frames' \in 0..MaxFrames /\ current' \in 0..frames'
      BY <1>1, <2>2, FramesAreNumbers
    <3> QED BY <1>1, <2>1, <2>3, <2>4, <2>5, <3>1 DEF IInv, TypeOK
  <2>7. OneAtATime'
    <3>1. \A h \in Frames : h <= g => h \in terminated'
      BY <1>1, <2>1, FramesAreNumbers DEF IInv, OneAtATime
    <3>2. listening' \subseteq 1..g /\ terminated' \subseteq 1..g /\ dead' \subseteq 1..g
      BY <1>1, <2>1 DEF IInv, OneAtATime
    <3>3. \A e \in due' : e[1] <= g
      <4>1. \A e \in due : e[1] \in Nat /\ e[1] <= frames
        BY FramesAreNumbers DEF IInv, TypeOK, OneAtATime
      <4> QED BY <1>1, <2>1, <4>1
    <3>4. \A h \in Frames : h > g => doc'[h] = "none"
      BY <1>1, <2>1, FramesAreNumbers DEF IInv, OneAtATime
    <3> QED BY <1>1, <2>2, <3>1, <3>2, <3>3, <3>4 DEF OneAtATime
  <2>8. ReportedOnce'
    BY <1>1, <2>1 DEF IInv, ReportedOnce
  <2> QED BY <2>6, <2>7, <2>8 DEF IInv
<1> QED BY <1>1, <1>2, <1>3 DEF Factory

\* What terminate() notes of the current frame is a place and attributes.
LEMMA SlotTyped ==
  ASSUME IInv, current # 0
  PROVE  /\ current \in Frames /\ current \in 1..frames
         /\ SlotOf(current) \in [where : Places \cup {"nowhere"}, look : {"default", "styled"}]
<1>1. current \in Frames /\ current \in 1..frames
  BY FramesAreNumbers DEF IInv, TypeOK
<1>2. where[current] \in Places \cup {"nowhere"} /\ look[current] \in {"default", "styled"}
  BY <1>1 DEF IInv, TypeOK
<1> QED BY <1>1, <1>2 DEF SlotOf

\* Making a frame, instead of another or not.
LEMMA CreateKeeps == ASSUME IInv, Create \/ Restart PROVE IInv'
<1>1. slot \in [where : Places \cup {"nowhere"}, look : {"default", "styled"}]
  BY DEF IInv, TypeOK
<1>2. current # 0 =>
        SlotOf(current) \in [where : Places \cup {"nowhere"}, look : {"default", "styled"}]
  BY SlotTyped
<1>3. CASE Create
  BY <1>1, <1>3, FactoryKeeps DEF Create
<1>4. CASE Restart
  BY <1>2, <1>4, FactoryKeeps DEF Restart
<1> QED BY <1>3, <1>4

LEMMA TerminateKeeps == ASSUME IInv, Terminate PROVE IInv'
<1>1. current \in Frames /\ current \in 1..frames /\ SlotOf(current) \in [where : Places \cup {"nowhere"}, look : {"default", "styled"}]
  BY SlotTyped DEF Terminate
<1>2. TypeOK'
  BY <1>1 DEF Terminate, Cleanup, IInv, TypeOK
<1>3. OneAtATime'
  BY <1>1 DEF Terminate, Cleanup, IInv, TypeOK, OneAtATime
<1>4. ReportedOnce'
  BY DEF Terminate, IInv, ReportedOnce
<1> QED BY <1>2, <1>3, <1>4 DEF IInv

-----------------------------------------------------------------------------
(* Load events, messages and the page.                                     *)

\* A load event of an element of the current frame.
LEMMA LoadKeeps ==
  ASSUME IInv, NEW e \in Elements, Load(e)
  PROVE  IInv' /\ \A h \in Frames : errors'[h] # errors[h] => errors[h] = 0 /\ current = h
<1> DEFINE g == e[1]
<1>1. /\ g \in Frames /\ g <= frames /\ g \notin terminated /\ g = current
      /\ UNCHANGED <<nested, attached, frames, current, slot, where, look, early, hello, init>>
      /\ loads' \in [Elements -> Nat]
  BY FramesAreNumbers DEF Load, pageVars, IInv, TypeOK, OneAtATime
<1>2. Fail(g) \/ UNCHANGED hostVars
  BY DEF Load, BuildInner, hostVars
<1>3. /\ terminated' \subseteq dead' /\ dead' \subseteq Frames
      /\ listening' \subseteq Frames \ dead'
      /\ startTimer' = IF HasTimeout THEN listening' ELSE {}
      /\ errors' \in [Frames -> Nat]
      /\ terminated' = terminated /\ listening' \subseteq listening /\ dead' \subseteq 1..frames
      /\ ReportedOnce'
      /\ \A h \in Frames : errors'[h] # errors[h] => errors[h] = 0 /\ h = g
  <2>1. CASE Fail(g)
    BY <1>1, <2>1, FailKeeps
  <2>2. CASE UNCHANGED hostVars
    BY <2>2 DEF hostVars, IInv, TypeOK, OneAtATime, ReportedOnce
  <2> QED BY <1>2, <2>1, <2>2
<1>4. /\ due' \subseteq Elements /\ \A x \in due' : x[1] <= frames
      /\ doc' \in [Frames -> {"none", "loading", "booted", "running", "gone"}]
      /\ \A h \in Frames : h > frames => doc'[h] = "none"
  <2>1. \/ due' = due \ {e} \/ due' = due \ {<<g, "frame">>}
        \/ due' = (due \ {<<g, "frame">>}) \cup {<<g, "inner">>}
    BY DEF Load, BuildInner
  <2>2. doc' = doc \/ doc' = [doc EXCEPT ![g] = "loading"]
    BY DEF Load, BuildInner
  <2>3. \A x \in due' : x \in due \/ x = <<g, "inner">>
    BY <2>1
  <2>4. <<g, "inner">> \in Elements /\ <<g, "inner">>[1] = g
    BY <1>1 DEF Elements
  <2>5. due' \subseteq Elements /\ \A x \in due' : x[1] <= frames
    BY <1>1, <2>3, <2>4 DEF IInv, TypeOK, OneAtATime
  <2>6. /\ doc' \in [Frames -> {"none", "loading", "booted", "running", "gone"}]
        /\ \A h \in Frames : h > frames => doc'[h] = "none"
    BY <1>1, <2>2, FramesAreNumbers DEF IInv, TypeOK, OneAtATime
  <2> QED BY <2>5, <2>6
<1>5. TypeOK'
  BY <1>1, <1>3, <1>4 DEF IInv, TypeOK
<1>6. OneAtATime'
  BY <1>1, <1>3, <1>4 DEF IInv, OneAtATime
<1> QED BY <1>1, <1>3, <1>5, <1>6 DEF IInv

LEMMA TimeoutKeeps ==
  ASSUME IInv, NEW g \in Frames, StartTimeout(g)
  PROVE  IInv' /\ \A h \in Frames : errors'[h] # errors[h] => errors[h] = 0 /\ current = h
<1>1. g \in listening /\ g <= frames /\ g \notin terminated /\ g = current
  BY FramesAreNumbers DEF StartTimeout, IInv, TypeOK, OneAtATime
<1>2. UNCHANGED <<nested, attached, frames, current, slot, where, look, loads, due, doc, early,
                  hello, init>> /\ Fail(g)
  BY DEF StartTimeout, pageVars
<1>3. /\ terminated' \subseteq dead' /\ dead' \subseteq Frames
      /\ listening' \subseteq Frames \ dead'
      /\ startTimer' = IF HasTimeout THEN listening' ELSE {}
      /\ errors' \in [Frames -> Nat]
      /\ terminated' = terminated /\ listening' \subseteq listening /\ dead' \subseteq 1..frames
      /\ ReportedOnce'
      /\ \A h \in Frames : errors'[h] # errors[h] => errors[h] = 0 /\ h = g
  BY <1>1, <1>2, FailKeeps
<1> QED BY <1>1, <1>2, <1>3 DEF IInv, TypeOK, OneAtATime

\* The other steps report nothing.
LEMMA OthersKeep ==
  ASSUME IInv, NEW g \in Frames,
         Boots(g) \/ OnHello(g) \/ OnInit(g) \/ Navigate(g) \/ Move(g) \/ Style(g)
  PROVE  IInv' /\ UNCHANGED errors
<1> USE DEF pageVars, hostVars
<1>1. CASE Boots(g)
  BY <1>1 DEF Boots, IInv, TypeOK, OneAtATime, ReportedOnce
<1>2. CASE OnHello(g)
  BY <1>2 DEF OnHello, Cleanup, IInv, TypeOK, OneAtATime, ReportedOnce
<1>3. CASE OnInit(g)
  BY <1>3 DEF OnInit, IInv, TypeOK, OneAtATime, ReportedOnce
<1>4. CASE Navigate(g)
  <2>1. Sandboxed(g) \in Elements /\ Sandboxed(g)[1] = g
    BY FramesAreNumbers DEF Sandboxed
  <2>2. g <= frames
    BY <1>4, FramesAreNumbers DEF Navigate, IInv, TypeOK, OneAtATime
  <2> QED BY <1>4, <2>1, <2>2 DEF Navigate, IInv, TypeOK, OneAtATime, ReportedOnce
<1>5. CASE Move(g)
  <2>1. <<g, "frame">> \in Elements /\ <<g, "inner">> \in Elements /\ <<g, "frame">>[1] = g
    BY FramesAreNumbers
  <2>2. g <= frames
    BY <1>5, FramesAreNumbers DEF Move, IInv, TypeOK
  <2>3. where' \in [Frames -> Places \cup {"nowhere"}]
    BY <1>5 DEF Move, IInv, TypeOK, Places
  <2>4. due' \subseteq Elements /\ \A e \in due' : e[1] <= frames
    BY <1>5, <2>1, <2>2 DEF Move, IInv, TypeOK, OneAtATime
  <2>5. /\ doc' \in [Frames -> {"none", "loading", "booted", "running", "gone"}]
        /\ \A h \in Frames : h > frames => doc'[h] = "none"
    BY <1>5, <2>2 DEF OneAtATime, Move, IInv, TypeOK
  <2> QED BY <1>5, <2>3, <2>4, <2>5 DEF Move, IInv, TypeOK, OneAtATime, ReportedOnce
<1>6. CASE Style(g)
  BY <1>6 DEF Style, IInv, TypeOK, OneAtATime, ReportedOnce
<1> QED BY <1>1, <1>2, <1>3, <1>4, <1>5, <1>6

LEMMA StutterKeeps == ASSUME IInv, UNCHANGED vars PROVE IInv'
BY DEF vars, pageVars, hostVars, IInv, TypeOK, OneAtATime, ReportedOnce

\* The invariant is inductive, and errors are reported in time.
LEMMA NextInv ==
  ASSUME IInv, [Next]_vars
  PROVE  IInv' /\ \A g \in Frames : errors'[g] # errors[g] => errors[g] = 0 /\ current = g
<1>1. CASE Create \/ Restart
  BY <1>1, CreateKeeps DEF Create, Restart, Factory
<1>2. CASE Terminate
  <2>1. UNCHANGED errors
    BY <1>2 DEF Terminate
  <2> QED BY <1>2, <2>1, TerminateKeeps
<1>3. ASSUME NEW e \in Elements, Load(e)
      PROVE  IInv' /\ \A g \in Frames : errors'[g] # errors[g] => errors[g] = 0 /\ current = g
  BY <1>3, LoadKeeps
<1>4. ASSUME NEW g \in Frames, StartTimeout(g)
      PROVE  IInv' /\ \A h \in Frames : errors'[h] # errors[h] => errors[h] = 0 /\ current = h
  BY <1>4, TimeoutKeeps
<1>5. ASSUME NEW g \in Frames,
             Boots(g) \/ OnHello(g) \/ OnInit(g) \/ Navigate(g) \/ Move(g) \/ Style(g)
      PROVE  IInv' /\ UNCHANGED errors
  BY <1>5, OthersKeep
<1>6. CASE UNCHANGED vars
  BY <1>6, StutterKeeps DEF vars, hostVars
<1> QED BY <1>1, <1>2, <1>3, <1>4, <1>5, <1>6 DEF Next, HostSteps

LEMMA FrameInvariant == Spec => []IInv
<1>1. IInv /\ [Next]_vars => IInv'
  BY NextInv
<1> QED BY <1>1, InitInv, PTL DEF Spec

\* The variables have their types, and a frame is watched by the start timer
\* exactly as long as its hello is waited for.
THEOREM FrameTypeOK == Spec => []TypeOK
<1>1. IInv => TypeOK
  BY DEF IInv
<1> QED BY <1>1, FrameInvariant, PTL

\* A frame's failure is reported once, and only while it is the sandbox's.
THEOREM FrameErrorsAreTimely == Spec => ErrorsAreTimely
<1>1. IInv /\ [Next]_vars =>
        [\A g \in Frames : errors'[g] # errors[g] => errors[g] = 0 /\ current = g]_vars
  BY NextInv
<1> QED BY <1>1, FrameInvariant, PTL DEF Spec, ErrorsAreTimely

\* A frame made in the step that terminates another takes its place and its
\* attributes, unless onFrame chooses others.
THEOREM FramePlaceIsKept == Spec => PlaceIsKept
<1> DEFINE Kept == current # 0 /\ current' \notin {0, current} =>
              /\ Connected(where[current]) => where'[current'] \in {where[current], "chosen"}
              /\ look'[current'] \in {look[current], "styled"}
<1>1. ASSUME IInv, Next PROVE Kept
  <2>1. CASE Restart
    <3> DEFINE g == frames'
    <3>1. g \in Frames /\ current' \in {0, g, current} /\ look \in [Frames -> {"default", "styled"}]
      BY <1>1, <2>1, FramesAreNumbers
         DEF Restart, Factory, OnFrameReturns, OnFrameThrows, IInv, TypeOK
    <3>2. CASE OnFrameReturns(g, {current}, SlotOf(current))
      BY <3>1, <3>2 DEF OnFrameReturns, SlotOf, Place
    <3>3. CASE OnFrameThrows(g, {current}, SlotOf(current))
      BY <3>3 DEF OnFrameThrows
    <3> QED BY <2>1, <3>2, <3>3 DEF Restart, Factory
  <2>2. CASE ~Restart
    <3>1. current = 0 \/ current' \in {0, current}
      BY <1>1, <2>2 DEF Next, Create, Terminate, HostSteps, Load, Boots, OnHello, OnInit,
                        StartTimeout, Navigate, Move, Style
    <3> QED BY <3>1
  <2> QED BY <2>1, <2>2
<1>2. IInv /\ [Next]_vars => [Kept]_vars
  BY <1>1
<1> QED BY <1>2, FrameInvariant, PTL DEF Spec, PlaceIsKept
=============================================================================
