--------------------------- MODULE ModuleRegistry ---------------------------
(***************************************************************************)
(* The virtual module registry (src/src/virtual-module-registry.mjs) over  *)
(* blob: URLs, or over the module hooks of Node (src/src/node-vfs.mjs),    *)
(* and the loader that imports its URLs and keeps what it has loaded.  A   *)
(* URL is the number of its issue; the loader and blob: URLs are external. *)
(***************************************************************************)
EXTENDS Integers, Sequences, Functions

CONSTANTS
  Files,    \* paths
  Sources,
  MaxUrls   \* bound: URLs issued

ASSUME RegistryAssumption == MaxUrls \in Nat

NoUrl == 0

VARIABLES
  backend,  \* "blob" or "node"
  urls,     \* urls[p]: the URL of path p, or NoUrl
  sources,  \* sources[p], of the paths with a URL
  issued,   \* issued[u]: the path and the source the URL u was made for
  fetchable,\* the URLs that can be loaded: not revoked; `hist` of the namespace
  loaded,   \* the URLs in the loader's module map
  spent     \* the registry was disposed

registryVars == <<backend, urls, sources, issued, fetchable, loaded, spent>>

RegistryInit ==
  /\ backend \in {"blob", "node"}
  /\ urls = [p \in Files |-> NoUrl] /\ sources = [p \in Files |-> "none"]
  /\ issued = <<>> /\ fetchable = {} /\ loaded = {} /\ spent = FALSE

\* define() under Node: a version that is kept when the source is the same.
\* Mutant: kept whenever the path has one.
KeepsAnyVersion(p, src) == backend = "node" /\ urls[p] # NoUrl
KeepsVersion(p, src) == backend = "node" /\ urls[p] # NoUrl /\ sources[p] = src

\* What can still be fetched when a path gets a new URL.
Unrevoked(p) == IF backend = "blob" THEN fetchable \ {urls[p]} ELSE fetchable

\* define(), and each file of the constructor.
Define(p, src) ==
  /\ ~spent
  /\ sources' = [sources EXCEPT ![p] = src]
  /\ \/ /\ KeepsVersion(p, src)
        /\ UNCHANGED <<urls, issued, fetchable>>
     \/ /\ ~KeepsVersion(p, src) /\ Len(issued) < MaxUrls
        /\ issued' = Append(issued, [path |-> p, source |-> src])
        /\ urls' = [urls EXCEPT ![p] = Len(issued')]
        /\ fetchable' = Unrevoked(p) \cup {Len(issued')}
  /\ UNCHANGED <<backend, loaded, spent>>

\* The hooks send every URL of a path to its newest version.
Hooked(u) == IF backend = "node" THEN urls[issued[u].path] ELSE u

\* import(u), for any URL that was ever handed out.  A module that the loader
\* has is not fetched again.
Imports(u) == Hooked(u) \in loaded \cup fetchable

Import(u) ==
  /\ u \in DOMAIN issued /\ Imports(u)
  /\ loaded' = loaded \cup {Hooked(u)}
  /\ UNCHANGED <<backend, urls, sources, issued, fetchable, spent>>

DisposeRegistry ==
  /\ ~spent /\ spent' = TRUE
  /\ urls' = [p \in Files |-> NoUrl] /\ sources' = [p \in Files |-> "none"]
  /\ fetchable' = IF backend = "blob" THEN fetchable \ Range(urls) ELSE {}
  /\ UNCHANGED <<backend, issued, loaded>>

RegistryNext ==
  \/ \E p \in Files, src \in Sources : Define(p, src)
  \/ \E u \in 1..MaxUrls : Import(u)
  \/ DisposeRegistry

RegistrySpec == RegistryInit /\ [][RegistryNext]_registryVars

RegistryTypeOK ==
  /\ backend \in {"blob", "node"} /\ spent \in BOOLEAN
  /\ issued \in Seq([path : Files, source : Sources]) /\ Len(issued) <= MaxUrls
  /\ urls \in [Files -> 0..MaxUrls] /\ sources \in [Files -> Sources \cup {"none"}]
  /\ fetchable \subseteq DOMAIN issued /\ loaded \subseteq DOMAIN issued

\* Whatever was defined, imported and replaced before: importing a path's URL
\* runs the path's present source, though the loader never forgets a module; no
\* blob: URL but the table's holds memory; a disposed registry serves nothing
\* that had not been loaded.  Under Node an old URL runs the new source.
RegistryUrlsLoad ==
  /\ \A p \in Files : urls[p] # NoUrl =>
       /\ Imports(urls[p])
       /\ issued[Hooked(urls[p])] = [path |-> p, source |-> sources[p]]
  /\ backend = "blob" => fetchable = Range(urls) \ {NoUrl}
  /\ spent => fetchable = {}
  /\ backend = "node" => \A u \in DOMAIN issued : ~spent =>
       Imports(u) /\ issued[Hooked(u)].source = sources[issued[u].path]
=============================================================================
