-------------------------------- MODULE Sources --------------------------------
(***************************************************************************)
(* Where the manifest of a workload is kept: the sources that ArgoCD and   *)
(* Flux name for it, or else its own annotations, best first.  A path is   *)
(* the sequence of its segments, in lower case.                            *)
(***************************************************************************)
EXTENDS Integers, SequencesExt

CONSTANTS
    ArgoCDEnabled,
    Spelled        \* word -> the path segments, and repositories, that spell it
                   \*         where the code looks for it

ASSUME SourcesAssumption == ArgoCDEnabled \in BOOLEAN

Source(controller, app, repo, revision, path, manifest) ==
    [controller |-> controller, app |-> app, repo |-> repo,
     revision |-> revision, path |-> path, manifest |-> manifest]

Below(path, name) == \E i \in 1..Len(path) - 1 : path[i] = name
Within(path, word) == \E i \in DOMAIN path : path[i] \in Spelled[word]

(* enrichOverlay: the last base or overlay segment gives the role, the     *)
(* segment after the last overlay segment the environment.                 *)
BaseNames == {"base", "bases"}
OverlayNames == {"overlay", "overlays"}
LastOf(S) == CHOOSE i \in S : \A j \in S : j <= i
OverlayRole(path) ==
    LET roles == {i \in DOMAIN path : path[i] \in BaseNames \cup OverlayNames}
    IN  IF roles = {} THEN "unknown"
        ELSE IF path[LastOf(roles)] \in BaseNames THEN "base" ELSE "overlay"
Environment(path) ==
    LET overlays == {i \in 1..Len(path) - 1 : path[i] \in OverlayNames}
    IN  IF overlays = {} THEN "" ELSE path[LastOf(overlays) + 1]

(* A segment that ends in "overlays" and one that begins with "base" count.*)
inferManifestType(current, path, repo) ==
    IF current # "unknown" THEN current
    ELSE IF \/ Within(path, "kustomization")
            \/ \E i \in 1..Len(path) - 1 : path[i] \in Spelled["overlays"]
            \/ \E i \in 2..Len(path) : path[i] \in Spelled["base"]
    THEN "kustomize"
    ELSE IF Within(path, "chart") \/ Within(path, "helm") \/ repo \in Spelled["chart"]
    THEN "helm" ELSE "raw"

(* DetectManifestTypeFromFiles: with both markers in one directory, the    *)
(* first that the iteration of a Go map meets.                             *)
Detected(current, path, names) ==
    LET marked == {m \in {"kustomize", "helm"} :
                     LET file == [kustomize |-> "kustomization.yaml", helm |-> "chart.yaml"]
                     IN  file[m] \in names}
    IN  IF current = "flux-helmrelease" THEN {current}
        ELSE IF marked # {} THEN marked ELSE {inferManifestType(current, path, "")}

-----------------------------------------------------------------------------
(* A cluster: its ArgoCD applications with their sources, the two kinds of *)
(* Flux objects, and the one directory that annotations may name.          *)
Listing(s) == s \in Seq(ToSet(s))
Located(s) == Listing(s) /\ \A i \in DOMAIN s : Listing(s[i].path)
WorldOK(world) ==
    /\ {"owned", "argo", "kustomizations", "releases", "release", "note"} \subseteq DOMAIN world
    /\ Listing(world.argo) /\ \A i \in DOMAIN world.argo : Located(world.argo[i].sources)
    /\ Located(world.kustomizations) /\ Located(world.releases)
    /\ Located(world.note) /\ Len(world.note) <= 1

(* What the resolver reads, each time with an error that it survives: the  *)
(* three lists, the ReplicaSet for ArgoCD and again for each kustomization,*)
(* and the object that says where a Flux object is kept.                   *)
NamesOf(objects) == {o.name : o \in ToSet(objects)}
Reads(world) ==
    ({"list"} \X {"applications", "kustomizations", "helmreleases"})
      \cup {<<"replicaset", "">>}
      \cup ({"replicaset", "kustomization"} \X NamesOf(world.kustomizations))
      \cup ({"helmrelease"} \X NamesOf(world.releases))

(* The workload as its pod names it: itself, its owner and, if its         *)
(* ReplicaSet can be read, the owner of that.                              *)
workloadRefsForPod(world, read) ==
    {"pod"} \cup (IF world.owned THEN {"owner"} ELSE {})
            \cup (IF world.owned /\ read THEN {"controller"} ELSE {})

(* One source or none: a loop that appends some is the concatenation of    *)
(* what each of its turns appends.                                         *)
Optional(condition, source) == IF condition THEN <<source>> ELSE <<>>

(* An application names exact resources and has one source or several.     *)
DeclaredType(keys) ==
    IF "kustomize" \in keys THEN "kustomize"
    ELSE IF keys \cap {"chart", "helm"} # {} THEN "helm" ELSE "unknown"
argoSources(app) ==
    FlattenSeq([i \in DOMAIN app.sources |->
        LET s == app.sources[i] IN
          Optional(s.repo # "", Source("argocd", app.name, s.repo, s.revision, s.path,
                                       inferManifestType(DeclaredType(s.keys), s.path, s.repo)))])
argoAppManagesWorkload(app, refs) == app.manages \cap refs # {}
resolveArgoCD(world, lost) ==
    LET refs == workloadRefsForPod(world, <<"replicaset", "">> \notin lost)
    IN  IF <<"list", "applications">> \in lost THEN <<>>
        ELSE FlattenSeq([i \in DOMAIN world.argo |->
               IF argoAppManagesWorkload(world.argo[i], refs)
               THEN argoSources(world.argo[i]) ELSE <<>>])

(* An entry of a Flux inventory is an identifier; it stands here for the   *)
(* references whose namespace, name and kind all occur somewhere in it.  A *)
(* kustomization whose repository cannot be read is left out, a release is *)
(* a source without a repository.                                          *)
fluxInventoryContainsAny(inventory, refs) == \E id \in inventory : id \cap refs # {}
sourceFromFlux(object, manifest, read) ==
    Source("flux", object.name, IF read THEN object.repo ELSE "",
           IF read THEN object.revision ELSE "", object.path, manifest)
resolveFluxKustomizations(world, lost) ==
    IF <<"list", "kustomizations">> \in lost THEN <<>>
    ELSE FlattenSeq([i \in DOMAIN world.kustomizations |->
        LET k == world.kustomizations[i]
            refs == workloadRefsForPod(world, <<"replicaset", k.name>> \notin lost)
            source == sourceFromFlux(k, "kustomize", <<"kustomization", k.name>> \notin lost)
        IN  Optional(source.repo # "" /\ fluxInventoryContainsAny(k.inventory, refs), source)])
resolveFluxHelmReleases(world, lost) ==
    IF <<"list", "helmreleases">> \in lost THEN <<>>
    ELSE FlattenSeq([i \in DOMAIN world.releases |->
        LET r == world.releases[i] IN
          Optional(world.release # "" /\ world.release \in {r.name, r.releaseName},
                   sourceFromFlux(r, "flux-helmrelease", <<"helmrelease", r.name>> \notin lost))])

(* The annotations may name a file: its directory is meant.                *)
resolveAnnotations(world) ==
    IF world.note = <<>> THEN <<>>
    ELSE LET n == world.note[1] IN
         <<Source("annotation", "", n.repo, n.revision, n.path,
                  inferManifestType("unknown", n.path, n.repo))>>

SameSource(s, t) ==
    \A key \in {"controller", "repo", "revision", "path", "manifest"} : s[key] = t[key]
dedupeSources(sources) ==
    FlattenSeq([i \in DOMAIN sources |->
        Optional(\A j \in 1..i - 1 : ~SameSource(sources[j], sources[i]), sources[i])])
sourceRank(source) ==
    100 - (IF source.controller = "annotation" THEN 10 ELSE 50)
        - (IF OverlayRole(source.path) = "overlay" THEN 20 ELSE 0)
        - (IF source.manifest # "unknown" THEN 5 ELSE 0)
Ranked(sources) ==
    FlattenSeq([rank \in 1..100 |->
        FlattenSeq([i \in DOMAIN sources |->
            Optional(sourceRank(sources[i]) = rank, sources[i])])])

(* Mutant: the annotations are asked as well.                              *)
ResolveAll(world, lost) ==
    Ranked(dedupeSources(resolveArgoCD(world, lost) \o resolveFluxKustomizations(world, lost)
             \o resolveFluxHelmReleases(world, lost) \o resolveAnnotations(world)))

(* The sources of a pod, when these reads fail: its annotations count when *)
(* nothing is found, for whatever reason.                                  *)
ResolvePod(world, lost) ==
    LET managed == (IF ArgoCDEnabled THEN resolveArgoCD(world, lost) ELSE <<>>)
                     \o resolveFluxKustomizations(world, lost)
                     \o resolveFluxHelmReleases(world, lost)
        found == IF managed = <<>> THEN resolveAnnotations(world) ELSE managed
    IN  Ranked(dedupeSources(found))

-----------------------------------------------------------------------------
(* Where GitOps keeps the workload, whatever anybody can read of it: the   *)
(* directories of the applications and Flux objects that name the pod, its *)
(* owner or the owner of that; and the one its annotations name.           *)
Managed(world) ==
    LET names == {"pod"} \cup (IF world.owned THEN {"owner", "controller"} ELSE {})
        kept(objects) == {<<o.repo, o.path>> : o \in objects}
        apps == {a \in ToSet(world.argo) : ArgoCDEnabled /\ a.manages \cap names # {}}
    IN  (UNION {kept({s \in ToSet(a.sources) : s.repo # ""}) : a \in apps})
        \cup kept({k \in ToSet(world.kustomizations) :
                     k.repo # "" /\ names \cap UNION k.inventory # {}})
        \cup kept({r \in ToSet(world.releases) :
                     world.release # "" /\ world.release \in {r.name, r.releaseName}})
Noted(world) == {<<n.repo, n.path>> : n \in ToSet(world.note)}
=============================================================================
