--------------------------- MODULE MCHostServices ---------------------------
(***************************************************************************)
(* Small instances of the parts of andbox that keep their own state and    *)
(* never touch each other's.  The initial state draws the part that runs;  *)
(* the others rest, for their steps beside it would show nothing more.     *)
(***************************************************************************)
EXTENDS NetworkFetch, TokenBudget, ServiceWorkerSandbox, Stdio, ModuleRegistry,
        ImportResolution, CapabilityGate

VARIABLE part

vars == <<part, netVars, budgetVars, swVars, stdioVars, registryVars, importVars, gateVars>>

\* Two capabilities; each has one limit of its own.
MCCapMaxCalls    == [n \in Capabilities |-> IF n = "read" THEN 1 ELSE 0]
MCCapMaxArgBytes == [n \in Capabilities |-> IF n = "write" THEN 2 ELSE 0]

MCSpecifiers == {<<"a">>, <<"a", "b">>, <<"a", "b", "c">>, <<"d", "e", "f">>,
                 <<".", "b">>, <<".", "b", "..">>, <<"..", "a", "..", "..", "b">>, <<"..", ".", "", "..", "b">>,
                 <<"", "a">>, <<"", "", "x", "b">>, <<"http:", "", "x", "b">>, <<"http:", "", "y">>}
MCKeys      == {<<"a">>, <<"a", "">>, <<"a", "b", "">>, <<"a", "b">>, <<"http:", "", "x", "">>}
MCScopeKeys == {<<>>, <<"p">>, <<"p", "/">>, <<"p", "/", "q">>}
MCNames     == {<<"b">>, <<"b.js">>, <<"a", "c">>, <<"a", "b">>, <<"a", "b", "index.js">>, <<"t", "b">>}
MCBareName  == [seg \in {"", "a", "b", "c", "f", "x", "y", "t", ".", "..", "b.js", "index.js"} |->
                  IF seg = "b.js" THEN "b" ELSE IF seg = "index.js" THEN "index" ELSE seg]
MCParents   == {<<>>, <<"p">>, <<"p", "/", "q", "x">>}
MCHostOf    == [s \in MCSpecifiers |->
                  IF s \in {<<"", "", "x", "b">>, <<"http:", "", "x", "b">>} THEN "x"
                  ELSE IF s = <<"http:", "", "y">> THEN "y" ELSE "none"]

ASSUME MCAssumption == "x" \in Origins

\* A part at rest, for good.
NetRests      == /\ policy = "list" /\ hosts = {} /\ shim = "idle" /\ stage = "idle"
                 /\ req = [to |-> "x", method |-> "GET", body |-> FALSE, auth |-> FALSE]
                 /\ mode = "follow" /\ sent = <<>> /\ asked = <<>>
SwRests       == SwInit /\ state[1] = "none" /\ table = NoFiles
RegistryRests == RegistryInit /\ backend = "blob"
ImportRests   == question = "none" /\ answered = FALSE /\ answer = <<>>
GateRests     == GateInit /\ \A c \in GatedCalls : capOf[c] = "read"

Init ==
  /\ BudgetInit /\ StdioInit
  /\ part \in {"net", "budget", "sw", "stdio", "registry", "imports", "gate"}
  /\ IF part = "net"      THEN NetInit      ELSE NetRests
  /\ IF part = "sw"       THEN SwInit       ELSE SwRests
  /\ IF part = "registry" THEN RegistryInit ELSE RegistryRests
  /\ IF part = "gate"     THEN GateInit     ELSE GateRests
  /\ IF part = "imports"  THEN ImportInit   ELSE ImportRests

Next ==
  /\ UNCHANGED part
  /\ \/ part = "net" /\ NetNext
        /\ UNCHANGED <<budgetVars, swVars, stdioVars, registryVars, importVars, gateVars>>
     \/ part = "budget" /\ BudgetNext
        /\ UNCHANGED <<netVars, swVars, stdioVars, registryVars, importVars, gateVars>>
     \/ part = "sw" /\ SwNext
        /\ UNCHANGED <<netVars, budgetVars, stdioVars, registryVars, importVars, gateVars>>
     \/ part = "stdio" /\ StdioNext
        /\ UNCHANGED <<netVars, budgetVars, swVars, registryVars, importVars, gateVars>>
     \/ part = "registry" /\ RegistryNext
        /\ UNCHANGED <<netVars, budgetVars, swVars, stdioVars, importVars, gateVars>>
     \/ part = "imports" /\ Resolve
        /\ UNCHANGED <<netVars, budgetVars, swVars, stdioVars, registryVars, gateVars>>
     \/ part = "gate" /\ GateNext
        /\ UNCHANGED <<netVars, budgetVars, swVars, stdioVars, registryVars, importVars>>

Spec == Init /\ [][Next]_vars

\* The state of every part has the types its module gives.
TypeOK ==
  /\ NetTypeOK /\ BudgetTypeOK /\ SwTypeOK /\ StdioTypeOK /\ RegistryTypeOK /\ GateTypeOK
  /\ part = "imports" => ImportTypeOK
=============================================================================
