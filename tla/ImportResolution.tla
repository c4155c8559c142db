-------------------------- MODULE ImportResolution --------------------------
(***************************************************************************)
(* How a module specifier finds its module: import maps (src/src/import-   *)
(* map-resolver.mjs and its copies in worker-source.mjs, node-vfs.mjs and  *)
(* wasm-worker-source.mjs), sandboxImport() of a Worker, and the loader of *)
(* mode 'wasm'.  A specifier is the sequence of its segments between       *)
(* slashes, so 'lib/' is <<"lib", "">>; a key that is a prefix ends at a   *)
(* segment.  A scope may end anywhere in a URL: both are sequences of      *)
(* pieces of text, none of which begins another, so that startsWith() is   *)
(* IsPrefix.  One question is drawn from the bounded sets and answered.    *)
(* What the code computes in a loop is a recursive function of the rounds  *)
(* done.                                                                   *)
(***************************************************************************)
EXTENDS Integers, Sequences, FiniteSets, SequencesExt

CONSTANTS
  Specifiers,   \* nonempty sequences of segments
  Keys,         \* keys of mappings
  ScopeKeys,    \* scopes: sequences of pieces, the last is Slash if it ends in '/'
  Parents,      \* URLs of importing modules, likewise; <<>> is none
  Hosts,        \* hosts of http(s) URLs
  Names,        \* names of virtual modules
  BareName,     \* BareName[seg]: seg without '.js' or '.mjs'
  BaseHost,     \* the host of baseURL
  HostOf,       \* HostOf[s]: the host an http(s) or '//' specifier names, or "none"
  MaxKeys,      \* bounds the keys and the scopes of an import map,
  FewKeys       \* and the keys of a scope, and of the map of a module's loader

\* The segments that are not names; the names of files have none of them, for
\* a path is normalised before it is one.  The specifier '' is no key.
Up       == ".."
Here     == "."
Blank    == ""
NotNames == {Up, Here, Blank}
Written  == Seq(STRING) \ {<<>>}
Slash    == "/"
ASSUME ImportAssumption ==
  /\ Specifiers \subseteq Written /\ Keys \subseteq Written \ {<<Blank>>}
  /\ ScopeKeys \subseteq Seq(STRING) /\ Parents \subseteq Seq(STRING)
  /\ Names \subseteq Written /\ \A n \in Names : \A i \in DOMAIN n : n[i] \notin NotNames
  /\ MaxKeys \in Nat /\ FewKeys \in Nat

VARIABLES
  question,     \* what is asked
  answered,
  answer        \* how it was answered

importVars == <<question, answered, answer>>

None == <<>>
IsDirectory(key) == Last(key) = Blank
\* specifier.startsWith(key), for a key that ends in '/'.
StartsWith(spec, key) == Len(spec) >= Len(key) /\ IsPrefix(Front(key), spec)

\* Is the key better than the best so far?  Mutant: the first that matches.
FirstWins(best, key) == best = None
Better(best, key) == best = None \/ Len(key) > Len(best)

\* matchSpecifier(): the key of the mapping that applies.  The mapping is the
\* sequence of its keys, in the order of Object.keys().
Match(spec, mapping) ==
  LET best[n \in 0..Len(mapping)] ==
        IF n = 0 THEN None
        ELSE IF /\ IsDirectory(mapping[n]) /\ StartsWith(spec, mapping[n])
                /\ Better(best[n - 1], mapping[n])
             THEN mapping[n] ELSE best[n - 1]
  IN IF spec \in Range(mapping) THEN spec ELSE best[Len(mapping)]

\* resolveWithImportMap(): <<key>> of the imports, <<key, scope>>, or None if
\* nothing matches.  Of the scopes that the URL begins with, the longest that
\* knows the specifier; without a parent none is looked at.
Knowing(spec, scopes, parent) ==
  {s \in Range(scopes) : parent # None /\ IsPrefix(s.scope, parent) /\ Match(spec, s.keys) # None}
Mapped(spec, imports, scopes, parent) ==
  LET knowing == Knowing(spec, scopes, parent)
      first   == CHOOSE s \in knowing : \A t \in knowing : Len(t.scope) <= Len(s.scope)
  IN IF knowing # {} THEN <<Match(spec, first.keys), first.scope>>
     ELSE IF Match(spec, imports) # None THEN <<Match(spec, imports)>>
     ELSE None

IsRelative(spec) == Head(spec) \in {Here, Up} /\ Len(spec) > 1
\* assertImportAllowed(); allowedImportHosts is {} when unset, {list} when not.
Allowed(host, list) == list = {} \/ host \in (UNION list) \cup {BaseHost}

\* sandboxImport(): virtual modules, the import map (it knows no parent), then
\* URLs.  A '/' URL has the host of baseURL, but '//' names its own.
SandboxImport(spec, virtual, imports, list) ==
  IF virtual THEN [from |-> "virtual", host |-> "none"]
  ELSE IF Mapped(spec, imports, <<>>, None) # None THEN [from |-> "map", host |-> "none"]
  ELSE LET host == IF HostOf[spec] # "none" THEN HostOf[spec] ELSE BaseHost
           isURL == IsRelative(spec) \/ Head(spec) = Blank \/ HostOf[spec] # "none"
       IN IF isURL /\ Allowed(host, list) THEN [from |-> "url", host |-> host]
          ELSE [from |-> "error", host |-> "none"]

\* The path a relative specifier leads to: `parts` loses the file of the
\* importing module, and then takes the segments one by one.
Walk(base, spec, dropped) ==
  LET parts[n \in 0..Len(spec)] ==
        IF n = 0 THEN Front(base)
        ELSE IF spec[n] = Up THEN Front(parts[n - 1])
        ELSE IF spec[n] \in dropped THEN parts[n - 1]
        ELSE Append(parts[n - 1], spec[n])
  IN parts[Len(spec)]
WasmPath(base, spec) == Walk(base, spec, {Here, Blank})
\* new URL(spec, base) keeps empty segments, and ends '.' and '..' with one.
UrlPath(base, spec) ==
  IF Last(spec) \in {Here, Up} THEN Append(Walk(base, spec, {Here}), Blank)
  ELSE Walk(base, spec, {Here})

\* The names lookup() tries, and the first that is a file.
WithSuffix(name, suffix) == Append(Front(name), Last(name) \o suffix)
Candidates(name) ==
  <<name, WithSuffix(name, ".js"), WithSuffix(name, ".mjs"), Append(name, "index.js"),
    Append(Front(name), BareName[Last(name)])>>
Lookup(name, files) ==
  LET found == {i \in DOMAIN Candidates(name) : Candidates(name)[i] \in files}
  IN IF name = None \/ found = {} THEN None ELSE Candidates(name)[Min(found)]

\* The modules that the three loaders take for a specifier; None: an error, or
\* a module that is not theirs.  Every mapping's target is 't' or 't/'.
Target(spec, key) == <<"t">> \o SubSeq(spec, Len(key) + (IF key = spec THEN 1 ELSE 0), Len(spec))

FileOf(q) == IF Lookup(q.base, q.files) # None THEN Lookup(q.base, q.files) ELSE q.base
WasmModule(q) ==
  LET key == Match(q.spec, q.imports)
  IN IF IsRelative(q.spec) THEN Lookup(WasmPath(FileOf(q), q.spec), q.files)
     ELSE IF Lookup(q.spec, q.files) # None THEN Lookup(q.spec, q.files)
     ELSE IF key # None THEN Lookup(Target(q.spec, key), q.files) ELSE None

\* '/a' starts at the root, and so does what '//x/a' names after its host, which
\* the hook does not look at.
FromRoot(path) == IF path = None THEN <<Blank>> ELSE UrlPath(<<Blank>>, path)
NodeModule(q) ==
  LET local == IF Len(q.spec) > 2 /\ q.spec[2] = Blank
               THEN SubSeq(q.spec, 4, Len(q.spec)) ELSE Tail(q.spec)
      path  == IF IsRelative(q.spec) THEN UrlPath(q.base, q.spec)
               ELSE IF Head(q.spec) = Blank THEN FromRoot(local) ELSE q.spec
  IN Lookup(path, q.files)

RegistryModule(q) ==
  IF Match(q.spec, q.imports) = None /\ IsRelative(q.spec) /\ UrlPath(q.base, q.spec) \in q.files
  THEN UrlPath(q.base, q.spec) ELSE None

Mappings(n) == {m \in SeqOf(Keys, n) : IsInjective(m)}
Questions ==
  [kind : {"map"}, spec : Specifiers, imports : Mappings(MaxKeys), parent : Parents,
   scopes : {s \in SeqOf([scope : ScopeKeys, keys : Mappings(FewKeys)], MaxKeys) :
               \A i, j \in DOMAIN s : s[i].scope = s[j].scope => i = j}]
  \cup
  [kind : {"import"}, spec : Specifiers, imports : Mappings(MaxKeys), virtual : BOOLEAN,
   list : {{}} \cup {{h} : h \in SUBSET Hosts}]
  \cup
  [kind : {"module"}, spec : Specifiers, imports : Mappings(FewKeys), base : Names,
   files : SUBSET Names]

ImportInit == question \in Questions /\ answered = FALSE /\ answer = None

Reply(q) ==
  CASE q.kind = "map"    -> Mapped(q.spec, q.imports, q.scopes, q.parent)
    [] q.kind = "import" -> SandboxImport(q.spec, q.virtual, q.imports, q.list)
    [] q.kind = "module" -> <<WasmModule(q), NodeModule(q), RegistryModule(q)>>

Resolve ==
  /\ ~answered /\ answered' = TRUE
  /\ answer' = Reply(question)
  /\ UNCHANGED question

ImportSpec == ImportInit /\ [][Resolve]_importVars

\* The most specific key, whatever the order: the specifier itself, or the
\* longest directory around it.
BestOf(spec, mapping) ==
  {k \in Range(mapping) :
     \/ k = spec
     \/ /\ spec \notin Range(mapping) /\ IsDirectory(k) /\ StartsWith(spec, k)
        /\ \A other \in Range(mapping) :
             IsDirectory(other) /\ StartsWith(spec, other) => StartsWith(k, other)}

\* The nearest scope is the one that all the others begin.
MapsToBest(q, reply) ==
  LET matching == {s \in Range(q.scopes) :
                     q.parent # None /\ IsPrefix(s.scope, q.parent) /\ BestOf(q.spec, s.keys) # {}}
      nearest  == {s \in matching : \A t \in matching : IsPrefix(t.scope, s.scope)}
  IN IF matching # {}
     THEN \E s \in nearest : \E k \in BestOf(q.spec, s.keys) : reply = <<k, s.scope>>
     ELSE IF BestOf(q.spec, q.imports) # {}
          THEN \E k \in BestOf(q.spec, q.imports) : reply = <<k>>
          ELSE reply = None

\* How deep a path is after its first n segments; its k-th name is the last that
\* is written at depth k.
IsName(seg) == seg \notin NotNames
Depth(s) ==
  LET depth[n \in 0..Len(s)] ==
        IF n = 0 THEN 0
        ELSE IF IsName(s[n]) THEN depth[n - 1] + 1
        ELSE IF s[n] = Up /\ depth[n - 1] > 0 THEN depth[n - 1] - 1
        ELSE depth[n - 1]
  IN depth
LeadsTo(s) ==
  [k \in 1..Depth(s)[Len(s)] |-> s[Max({i \in DOMAIN s : IsName(s[i]) /\ Depth(s)[i] = k})]]

\* Where a relative specifier leads is the same for every loader: to the file
\* of that very name if there is one, and else, but for the registry, to one
\* that stands in for it.  For Node and the registry the importing module is a
\* file.
LeadsToFile(q, reply) ==
  LET path  == LeadsTo(Front(FileOf(q)) \o q.spec)
      exact == path \in q.files
      plain == /\ q.base \in q.files /\ Last(q.spec) \notin {Here, Up}
               /\ \A i \in DOMAIN q.spec : q.spec[i] # Blank
  IN /\ reply[1] = None <=> (path = None \/ Range(Candidates(path)) \cap q.files = {})
     /\ exact => reply[1] = path
     /\ plain => reply[2] = reply[1]
     /\ plain /\ exact /\ BestOf(q.spec, q.imports) = {} => reply[3] = path

\* What the answer to a question must be.
Answers(q, reply) ==
  CASE q.kind = "map" -> MapsToBest(q, reply)
    [] q.kind = "import" ->
         /\ reply.from = "virtual" <=> q.virtual
         /\ reply.from = "map" <=> (~q.virtual /\ BestOf(q.spec, q.imports) # {})
         /\ \A listed \in q.list : reply.from = "url" => reply.host \in listed \cup {BaseHost}
    [] q.kind = "module" ->
         /\ reply[1] \in q.files \cup {None}
         /\ IsRelative(q.spec) => LeadsToFile(q, reply)

\* Import maps choose by the order of specificity and not of writing, the
\* nearest scope that begins the importing URL ("by simple prefix", test/
\* virtual-module-registry.test.mjs:137) before the imports; sandboxImport()
\* loads from no host that allowedImportHosts excludes (README.md:524), and a
\* host-authored name wins; the loaders of 'wasm', of Node and of the registry,
\* each with its own code, agree on relative specifiers, and 'wasm' runs only
\* files.
ImportsResolve == answered => Answers(question, answer)

\* README.md:604: resolution follows "the browser import map algorithm", in which
\* a scope is for the URLs below it only if it ends in '/', and else for the one
\* URL it is.
ScopesAsInBrowser ==
  answered /\ question.kind = "map" /\ Len(answer) = 2 /\ answer[2] # <<>> =>
    answer[2] = question.parent \/ Last(answer[2]) = Slash

ImportTypeOK == question \in Questions /\ answered \in BOOLEAN
=============================================================================
