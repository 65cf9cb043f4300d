-------------------------------- MODULE Proposal --------------------------------
(***************************************************************************)
(* handleRemediation: from a diagnosis to the pull requests that are to be *)
(* opened, shown for approval or only reported.  The files of the sources  *)
(* are listed and shown to the AI; its answer is checked patch by patch    *)
(* against the files as they are by then, the changes are validated, and   *)
(* become plans with a branch each.  Others push to the repositories       *)
(* meanwhile.  Remediation takes over where this module ends.              *)
(***************************************************************************)
EXTENDS Diagnosis, PatchGate

CONSTANTS
    World,       \* the clusters and repositories considered
    Answer,      \* the answers of the AI that are considered
    Trusted,     \* the repositories on a trusted domain, with an owner and a name
    Sorted,      \* all paths, in the order of strings
    Mode,        \* the modes considered
    MaxPushes    \* bound on the pushes of others

(* Every document of every file has a kind and fields.                     *)
FilesOK(files) ==
    \A branch \in DOMAIN files : \A path \in DOMAIN files[branch] :
        \A i \in DOMAIN files[branch][path] :
            {"kind", "fields"} \subseteq DOMAIN files[branch][path][i]

ASSUME ProposalAssumption ==
    /\ MaxPushes \in Nat /\ "" \notin Trusted
    /\ \A a \in Answer : a.confidence \in Nat
    /\ \A w \in World : WorldOK(w) /\ FilesOK(w.tree)

VARIABLES
    stage,       \* how far the remediation has got
    world,       \* the cluster, as chosen, and whether a read of it failed
    tree,        \* <<repository, branch>> -> its files
    sources,     \* the sources still to be listed
    repoMap,     \* repository -> what was discovered of it
    answer,      \* what of the AI's answer is still to be admitted
    confidence,  \* the AI's
    gated,       \* the changes that were admitted
    outcome,     \* what is handed on
    pushes

found == <<sources, repoMap>>
asked == <<answer, confidence>>
proposalVars == <<diagnosisVars, stage, world, tree, found, asked, gated, outcome, pushes>>

Empty == [x \in {} |-> x]
Nothing == [mode |-> "none", plans |-> {}, built |-> {}]

ProposalInit ==
    /\ DiagnosisInit
    /\ stage = "diagnose" /\ world = Empty /\ tree = Empty
    /\ sources = <<>> /\ repoMap = Empty
    /\ answer = <<>> /\ confidence = 0 /\ gated = {} /\ outcome = Nothing
    /\ pushes = 0

(* It may end early at every stage; what it knew is then of no use.        *)
End(result) ==
    /\ stage' = "done" /\ outcome' = result
    /\ verdict' = [NoVerdict EXCEPT !.strategy = verdict.strategy]
    /\ sources' = <<>> /\ repoMap' = Empty /\ answer' = <<>> /\ confidence' = 0
    /\ gated' = {} /\ tree' = Empty /\ pushes' = 0
    /\ UNCHANGED <<fault, face, said, item>>
Stop == End(Nothing) /\ world' = Empty

-----------------------------------------------------------------------------
(* Diagnosed: the flags and the provider, then the resolver.  The cluster  *)
(* and the repositories matter only from here on, and are chosen here.     *)
Resolve ==
    /\ stage = "diagnose" /\ verdict # NoVerdict
    /\ verdict' = [NoVerdict EXCEPT !.strategy = verdict.strategy]
    /\ \E w \in World : \E lost \in SUBSET Reads(w) :
          /\ world' = Override(w, [failed |-> lost # {}]) /\ tree' = w.tree
          /\ sources' = ResolvePod(w, lost)
    /\ stage' = "gather"
    /\ UNCHANGED <<fault, face, said, item, repoMap, asked, gated, outcome, pushes>>

(* One source is listed: the files of one directory, without those that    *)
(* cannot be fetched.  What a later source of a repository finds is added  *)
(* to the files, but replaces the branch and the source by which the       *)
(* changes to that repository are judged, even when it finds nothing.      *)
baseBranch(source) == IF source.revision \in {"", "HEAD"} THEN "main" ELSE source.revision
Undiscovered == [base |-> "main", source |-> Empty, allowed |-> {}, new |-> {}, seen |-> Empty]
Known(repo) == IF repo \in DOMAIN repoMap THEN repoMap[repo] ELSE Undiscovered
Listed(source) ==
    LET branch == <<source.repo, baseBranch(source)>>
    IN  IF branch \notin DOMAIN tree THEN {}
        ELSE {p \in DOMAIN tree[branch] : Front(p) = source.path}
Clean(path) == path[1] \notin {".github", ".gitlab"}
Discover(source, files) ==
    LET info == Known(source.repo)
        content == tree[<<source.repo, baseBranch(source)>>]
        shown == {p \in files : Clean(p) /\ isGitOpsContextFile(source, p)}
    IN  [base |-> baseBranch(source), source |-> source,
         allowed |-> info.allowed \cup {p \in shown : isGitOpsEditableFile(source, p)},
         new |-> info.new \cup allowedNewPatchFiles(source),
         seen |-> Override(info.seen, [p \in shown |-> content[p]])]
List ==
    /\ stage = "gather" /\ sources # <<>> /\ sources' = Tail(sources)
    /\ LET source == Head(sources) IN
         \/ /\ source.repo \in Trusted /\ <<source.repo, baseBranch(source)>> \in DOMAIN tree
            /\ \E files \in SUBSET Listed(source) :
               \E m \in Detected(source.manifest, source.path, {Base(p) : p \in files}) :
                 repoMap' = [r \in DOMAIN repoMap \cup {source.repo} |->
                               IF r = source.repo THEN Discover([source EXCEPT !.manifest = m], files)
                               ELSE repoMap[r]]
         \/ UNCHANGED repoMap   \* untrusted, or it cannot be listed
    /\ UNCHANGED <<diagnosisVars, stage, world, tree, asked, gated, outcome, pushes>>

(* The AI has been shown the files, and answers what it likes.             *)
Shown == UNION {DOMAIN repoMap[r].seen : r \in DOMAIN repoMap}
Generate ==
    /\ stage = "gather" /\ sources = <<>> /\ Shown # {}
    /\ \E a \in Answer :
         /\ a.patches # <<>>
         /\ answer' = a.patches /\ confidence' = a.confidence
    /\ stage' = "admit"
    /\ UNCHANGED <<diagnosisVars, world, tree, found, gated, outcome, pushes>>

-----------------------------------------------------------------------------
(* Mutant: any file of a discovered repository will do.                    *)
AdmissibleRepo(patch) == patch.repo \in DOMAIN repoMap

(* One patch: its repository and file must have been discovered, and an    *)
(* existing file is read again.  A refused patch ends the remediation.     *)
Admissible(patch) ==
    /\ patch.repo \in DOMAIN repoMap
    /\ patch.path \in Known(patch.repo).allowed \cup Known(patch.repo).new
Change(patch, old, new) ==
    LET info == repoMap[patch.repo]
    IN  [repo |-> patch.repo, path |-> patch.path, old |-> old, new |-> new,
         wrote |-> patch.content, create |-> patch.path \in info.new, shown |-> patch.path \in DOMAIN info.seen,
         seen |-> IF patch.path \in DOMAIN info.seen THEN info.seen[patch.path] ELSE <<>>]
Admit ==
    /\ stage = "admit" /\ answer # <<>> /\ answer' = Tail(answer)
    /\ Admissible(Head(answer))
    /\ LET patch == Head(answer)
           info == repoMap[patch.repo]
           branch == <<patch.repo, info.base>>
       IN  IF patch.path \in info.allowed
           THEN /\ branch \in DOMAIN tree /\ patch.path \in DOMAIN tree[branch]
                /\ LET old == tree[branch][patch.path]
                       merged == Merge(old, patch.content, info.source.manifest,
                                       verdict.strategy, world.pod)
                   IN  merged.ok /\ gated' = gated \cup {Change(patch, old, merged.content)}
           ELSE gated' = gated \cup {Change(patch, <<>>, patch.content)}
    /\ UNCHANGED <<diagnosisVars, stage, world, tree, found, confidence, outcome, pushes>>

(* All changes of all repositories pass, or none is proposed.              *)
Real == {c \in gated : filterNoop(c)}
Of(repo) == {c \in Real : c.repo = repo}
Passes(repo) ==
    LET info == repoMap[repo]
    IN  /\ Valid(info.source, Of(repo), world.pod)
        /\ TRUE \in ValidateRenderSandbox(info.source, DOMAIN info.seen, Of(repo))
Validate ==
    /\ stage = "admit" /\ answer = <<>> /\ Real # {}
    /\ \A r \in {c.repo : c \in Real} : Passes(r)
    /\ gated' = Real /\ stage' = "plan"
    /\ UNCHANGED <<diagnosisVars, world, tree, found, asked, outcome, pushes>>

-----------------------------------------------------------------------------
(* One plan for a Kustomize repository, else one for each file; the branch *)
(* is named for the base name of its first file.  Of the plans that would  *)
(* have one branch the first is kept, and none whose branch is in use.     *)
Order(path) == CHOOSE i \in DOMAIN Sorted : Sorted[i] = path
First(changes) == CHOOSE c \in changes : \A d \in changes : Order(c.path) <= Order(d.path)
Plan(repo, changes) ==
    [repo |-> repo, source |-> repoMap[repo].source, changes |-> changes,
     head |-> Base(First(changes).path)]
buildManifestAwarePROptions(repo) ==
    IF repoMap[repo].source.manifest = "kustomize" THEN {Plan(repo, Of(repo))}
    ELSE {Plan(repo, {c}) : c \in Of(repo)}
Branch(plan) == <<plan.repo, plan.head>>
Before(p, q) == Order(First(p.changes).path) <= Order(First(q.changes).path)
filterActiveRemediationPlans(built, active) ==
    {plans \in SUBSET built :
        /\ \A p \in plans : Branch(p) \notin active
        /\ \A q \in built : Branch(q) \notin active =>
             \E p \in plans : Branch(p) = Branch(q) /\ Before(p, q)
        /\ \A p, q \in plans : Branch(p) = Branch(q) => p = q}

EffectiveModeOf(mode, plans) ==
    IF mode # "auto-fix" THEN mode
    ELSE IF confidence < 85 THEN "dry-run"
    ELSE IF \E p \in plans : RequiresApproval(scorePRRisk(p.source, p.changes, verdict.strategy, confidence))
    THEN "click-to-fix" ELSE mode
Propose ==
    /\ stage = "plan"
    /\ LET built == UNION {buildManifestAwarePROptions(r) : r \in {c.repo : c \in Real}}
       IN  \E mode \in Mode, active \in SUBSET {Branch(p) : p \in built} :
             \E plans \in filterActiveRemediationPlans(built, active) :
                 /\ plans # {}
                 /\ End([mode |-> EffectiveModeOf(mode, plans), plans |-> plans,
                         built |-> built, active |-> active])
    /\ UNCHANGED world

(* No source, no provider, nothing shown, no answer, a refused patch, a    *)
(* failed check or nothing left: the remediation ends with nothing.        *)
Abandon == stage \notin {"diagnose", "done"} /\ Stop

(* Somebody else edits a file that the sources name.                       *)
Push ==
    /\ stage \in {"gather", "admit"} /\ pushes < MaxPushes
    /\ \E branch \in DOMAIN tree : \E path \in DOMAIN tree[branch] :
         /\ tree[branch][path][1].kind # "garbage"
         /\ tree' = [tree EXCEPT ![branch][path][1].fields = Override(@, [other |-> "pushed"])]
    /\ pushes' = pushes + 1
    /\ UNCHANGED <<diagnosisVars, stage, world, found, asked, gated, outcome>>

Diagnosing ==
    /\ stage = "diagnose" /\ DiagnosisNext
    /\ UNCHANGED <<stage, world, tree, found, asked, gated, outcome, pushes>>
ProposalNext ==
    \/ Diagnosing \/ Resolve \/ List \/ Generate \/ Admit \/ Validate \/ Propose
    \/ Abandon \/ Push
ProposalSpec == ProposalInit /\ [][ProposalNext]_proposalVars

-----------------------------------------------------------------------------
Proposed == UNION {p.changes : p \in outcome.plans}

(* Whatever the AI answers, a proposal changes only files of trusted       *)
(* repositories that it was shown, or adds the one file it may add (the    *)
(* allowlist of handleRemediation, gathered from sources that fail).       *)
Contained == \A c \in Proposed : c.repo \in Trusted /\ (c.create \/ c.shown)

(* And only where GitOps keeps this workload, or where its annotations     *)
(* say; these place nothing as long as anything manages the workload and   *)
(* every read succeeds.  After a failed one they may place the change of a *)
(* workload that ArgoCD or Flux manage, for the resolver takes a list, a   *)
(* ReplicaSet or a source that cannot be read for one that is not there    *)
(* (resolver.go:137, 174, 213, 310, 326).                                  *)
Directory(c) == <<c.repo, SubSeq(c.path, 1, Len(c.path) - IF c.create THEN 2 ELSE 1)>>
KeptByGitOps ==
    \A c \in Proposed :
        \/ Directory(c) \in Managed(world)
        \/ Directory(c) \in Noted(world) /\ (Managed(world) = {} \/ world.failed)

(* With guardrails on, every document that is proposed, after the merge    *)
(* into the file as it is by then, is one that policy allows, and so is    *)
(* the image of every container in it, or it was in the file already.      *)
(* Images that are not a container's, in the values of a chart or the      *)
(* images of a kustomization, are not looked at (manifestImages), and      *)
(* nothing is claimed of them.                                             *)
ImageVetted(image, previous) ==
    /\ Registries # {} => Registry[image] \in Registries
    /\ Replacements # {} =>
          \/ image \in Replacements
          \/ \E i \in DOMAIN previous :
                "image" \in DOMAIN previous[i].fields /\ previous[i].fields["image"] = image
ChangeVetted(c) ==
    \A i \in DOMAIN c.new :
        /\ c.new[i].kind \notin RBACKinds \cup {"Secret", "garbage"}
        /\ c.new[i].ns \in {"", world.pod.ns} \ Protected /\ ~c.new[i].nested
        /\ "image" \in DOMAIN c.new[i].fields => ImageVetted(c.new[i].fields["image"], c.old)
Vetted == Guarded => \A c \in Proposed : ChangeVetted(c)

(* An image fix that is answered with a manifest, for a file with one bare *)
(* Pod, changes nothing but the image and how it is pulled, whatever else  *)
(* the AI changed in it (applyRawManifestPatch).                           *)
ImageOf(content) == content[1].fields["image"]
NewPodImage(c) ==
    /\ DOMAIN c.old = {1} /\ c.old[1].kind = "Pod" /\ "image" \in DOMAIN c.old[1].fields
    /\ c.wrote # <<>> /\ c.wrote[1].kind = "Pod" /\ "image" \in DOMAIN c.wrote[1].fields
    /\ ImageOf(c.wrote) # ImageOf(c.old)
Besides(doc, groups) ==
    [doc EXCEPT !.fields = [x \in DOMAIN doc.fields \ groups |-> doc.fields[x]]]
PodImageOnly ==
    \A p \in outcome.plans : \A c \in p.changes :
        verdict.strategy = "Image" /\ p.source.manifest = "raw" /\ NewPodImage(c) =>
            /\ DOMAIN c.new = {1} /\ ImageOf(c.new) = ImageOf(c.wrote)
            /\ Besides(c.new[1], {"image", "pull"}) = Besides(c.old[1], {"image", "pull"})

-----------------------------------------------------------------------------
(* What the code says, and does not keep.  controller.go:1390: "Each       *)
(* repo/file group gets its own branch": no validated change is left out   *)
(* for want of a branch of its own.                                        *)
OwnBranch == \A p \in outcome.built : p \in outcome.plans \/ Branch(p) \in outcome.active

(* controller.go:1667: "source file %s changed after remediation was       *)
(* generated" is refused: a proposal does not undo what was pushed since   *)
(* the AI was shown the file.                                              *)
NothingUndone ==
    \A c \in Proposed : ~c.create =>
        \A i \in DOMAIN c.old \cap DOMAIN c.seen \cap DOMAIN c.new :
          LET old == c.old[i].fields seen == c.seen[i].fields new == c.new[i].fields
          IN  \A x \in DOMAIN old \cap DOMAIN seen \cap DOMAIN new :
                old[x] # seen[x] => new[x] # seen[x]

(* gitops_remediation.go:31: "Update kustomization.yaml and create or      *)
(* update a StrategicMergePatch": an answer that does so passes the checks.*)
AsInstructed(repo) ==
    /\ repoMap[repo].source.manifest = "kustomize"
    /\ \E c \in Of(repo) : /\ c.create /\ Len(c.new) = 1
                           /\ <<c.new[1].kind, c.new[1].name>> \in world.pod.targets
    /\ \A c \in Of(repo) : c.create \/ (/\ isKustomizeControlFile(c.path)
                                         /\ c.new[1].kind = "Kustomization")
    /\ validateManifestAwarePatchSet(repoMap[repo].source, Of(repo))
    /\ enforcePatchGuardrails(repoMap[repo].source, Of(repo), world.pod)
InstructedPasses ==
    stage = "admit" /\ answer = <<>> =>
        \A repo \in {c.repo : c \in Real} : AsInstructed(repo) => Passes(repo)
=============================================================================
