------------------------------- MODULE PatchGate -------------------------------
(***************************************************************************)
(* What an answer of the AI goes through before it becomes a proposal: the *)
(* allowlist of files, the merge into the file as it is now, the policy    *)
(* guardrails, the checks by rendering and by kubectl, and the risk score. *)
(* A file is the sequence of its YAML documents, a document the groups of  *)
(* fields the checks tell apart; a document that does not parse is of kind *)
(* "garbage", one that is no Kubernetes object of kind "none"; it is plain *)
(* when its image stands in one line that holds nothing else.  The field   *)
(* "image" is the image of a container; "setting" is an image named        *)
(* anywhere else, in the values of a chart or the images of a              *)
(* kustomization.                                                          *)
(***************************************************************************)
EXTENDS Sources, FiniteSets

CONSTANTS
    Served,        \* the kinds the API server knows
    Registries,    \* ALLOWED_IMAGE_REGISTRIES; {} allows all
    Replacements,  \* ALLOWED_REPLACEMENT_IMAGES; {} allows all
    Registry,      \* image -> its registry
    Protected,     \* the namespaces that are excluded
    Guarded,       \* POLICY_GUARDRAILS_ENABLED
    Rendered,      \* VALIDATION_SANDBOX_ENABLED
    RequireRender, \* VALIDATION_REQUIRE_RENDER
    Tools          \* the render tools that are installed

ASSUME GateAssumption ==
    /\ {Guarded, Rendered, RequireRender} \subseteq BOOLEAN
    /\ Tools \subseteq {"kustomize", "kubectl", "helm"}

Base(path) == path[Len(path)]

-----------------------------------------------------------------------------
(* Which files of a source the AI is shown, may edit and may create.       *)
isKustomizeControlFile(path) == Base(path) = "kustomization.yaml"
isKustomizePatchFile(path) ==
    \/ \E i \in 2..Len(path) - 1 : path[i] = "patches"
    \/ Below(path, "fixora-patches")
    \/ Base(path) \in Spelled["patch"]
InTemplates(path) == \E i \in 2..Len(path) - 1 : path[i] = "templates"
isHelmEditableFile(path) ==
    Base(path) = "values.yaml" \/ InTemplates(path) \/ Within(path, "helmrelease")
isHelmRelevantFile(path) == isHelmEditableFile(path) \/ Base(path) = "chart.yaml"

Helmlike == {"helm", "flux-helmrelease"}
isGitOpsContextFile(source, path) == source.manifest \in Helmlike => isHelmRelevantFile(path)
isGitOpsEditableFile(source, path) ==
    /\ source.manifest = "kustomize" => isKustomizeControlFile(path) \/ isKustomizePatchFile(path)
    /\ source.manifest \in Helmlike => isHelmEditableFile(path)
allowedNewPatchFiles(source) ==
    IF source.manifest = "kustomize"
    THEN {source.path \o <<"fixora-patches", "generated.yaml">>} ELSE {}

-----------------------------------------------------------------------------
(* applyRawManifestPatch and what its caller makes of the result.          *)
Kept(content) == [ok |-> TRUE, content |-> content]
Refusal == [ok |-> FALSE, content |-> <<>>]
NoKind == {"none", "garbage"}
IsKubernetesManifest(content) == content # <<>> /\ content[1].kind \notin NoKind
isSurgicalContainerSnippet(content) ==
    /\ ~IsKubernetesManifest(content)
    /\ \E i \in DOMAIN content : "resources" \in DOMAIN content[i].fields

containerPatchFields(strategy) ==
    CASE strategy = "Image" -> {"image", "pull"}
      [] strategy = "Resources" -> {"resources"}
      [] strategy = "EnvOrVolumeRef" -> {"env"}
      [] strategy = "Probe" -> {"probe"}
      [] OTHER -> {"image", "pull", "resources", "env", "probe"}
Override(f, g) == [x \in DOMAIN f \cup DOMAIN g |-> IF x \in DOMAIN g THEN g[x] ELSE f[x]]
Differing(old, new, groups) ==
    {x \in groups \cap DOMAIN new : x \notin DOMAIN old \/ old[x] # new[x]}
Changed(orig, generated, strategy) ==
    LET groups == Differing(orig.fields, generated.fields, containerPatchFields(strategy))
    IN  [x \in groups |-> generated.fields[x]]

(* Mutant: a manifest is taken as the AI wrote it.                         *)
MergePodWhole(orig, generated, strategy) == generated

(* Only a bare Pod is merged: of its image fix just the image, where one   *)
(* line of the file says it; else the first document is written back, with *)
(* the fields the fix is about.  A container that is missing, or that the  *)
(* answer renames, has no image here, and the answer is taken as it is.    *)
MergePod(orig, generated, strategy) ==
    LET new == Changed(orig[1], generated[1], strategy)
        once == /\ orig[1].plain
                /\ \A i \in 2..Len(orig) : "image" \in DOMAIN orig[i].fields =>
                       orig[i].fields["image"] # orig[1].fields["image"]
    IN  IF DOMAIN new = {} THEN generated
        ELSE IF strategy = "Image" /\ "image" \in DOMAIN new /\ once
        THEN [orig EXCEPT ![1].fields["image"] = new["image"]]
        ELSE <<[orig[1] EXCEPT !.fields = Override(@, new)]>>
validateRawPodManifestIdentity(doc, pod) ==
    doc.name \in {"", pod.name} /\ doc.ns \in {"", pod.ns}
applyRawManifestPatch(orig, generated, manifest, strategy, pod) ==
    IF manifest \in Helmlike \cup {"kustomize"} \/ ~IsKubernetesManifest(generated)
    THEN Kept(generated)
    ELSE IF orig # <<>> /\ orig[1].kind = "garbage" THEN Refusal
    ELSE IF orig = <<>> \/ orig[1].kind # "Pod" \/ generated[1].kind # "Pod"
    THEN Kept(generated)
    ELSE IF ~validateRawPodManifestIdentity(orig[1], pod) THEN Refusal
    ELSE IF "image" \notin DOMAIN orig[1].fields \/ "image" \notin DOMAIN generated[1].fields
    THEN Kept(generated)
    ELSE Kept(MergePod(orig, generated, strategy))

(* A snippet with limits or requests goes into the container, where the    *)
(* image it may set is the container's, or into the top level where there  *)
(* is none; only the first document is written back.                       *)
InContainer(fields) ==
    LET kept == [x \in DOMAIN fields \ {"setting"} |-> fields[x]]
    IN  IF "setting" \in DOMAIN fields THEN Override(kept, [image |-> fields["setting"]])
        ELSE kept
SurgicalUpdate(orig, snippet) ==
    IF \/ orig # <<>> /\ orig[1].kind = "garbage"
       \/ snippet[1].kind = "garbage" \/ orig = <<>>
    THEN snippet
    ELSE LET new == IF "image" \in DOMAIN orig[1].fields
                    THEN InContainer(snippet[1].fields) ELSE snippet[1].fields
         IN  <<[orig[1] EXCEPT !.fields = Override(@, new)]>>
Merge(orig, generated, manifest, strategy, pod) ==
    LET raw == applyRawManifestPatch(orig, generated, manifest, strategy, pod)
    IN  IF raw.ok /\ isSurgicalContainerSnippet(raw.content)
        THEN Kept(SurgicalUpdate(orig, raw.content)) ELSE raw

filterNoop(change) == change.create \/ change.old = <<>> \/ change.old # change.new

-----------------------------------------------------------------------------
(* The checks of the changes to one repository.                            *)
validateManifestAwarePatchSet(source, changes) ==
    source.manifest = "kustomize" /\ (\E c \in changes : c.create /\ isKustomizePatchFile(c.path))
        => \E c \in changes : isKustomizeControlFile(c.path)

NamesCI(path) ==
    \/ \E i \in 1..Len(path) - 2 : path[i] = ".github" /\ path[i + 1] = "workflows"
    \/ Within(path, "gitlabci")
NamesRBAC(path) ==
    \/ \E i \in 2..Len(path) : path[i] \in Spelled["rbac"]
    \/ Base(path) \in Spelled["rbac"]
NamesSecret(path) == Base(path) \in Spelled["secret"]
Images(content) ==
    {content[i].fields["image"] :
        i \in {j \in DOMAIN content : "image" \in DOMAIN content[j].fields}}
RBACKinds == {"Role", "RoleBinding", "ClusterRole", "ClusterRoleBinding"}
WorkloadKinds == {"Pod", "Deployment", "StatefulSet", "DaemonSet", "ReplicaSet", "Job", "CronJob"}
DocAllowed(doc, pod) ==
    /\ doc.kind # "garbage" /\ ~doc.nested
    /\ doc.ns \in {"", pod.ns} \ Protected
    /\ doc.kind \notin RBACKinds \cup {"Secret"}
ImageAllowed(image, previous) ==
    /\ Registries # {} => Registry[image] \in Registries
    /\ Replacements # {} /\ image \notin previous => image \in Replacements
manifestMatchesExpectedTarget(doc, pod) == <<doc.kind, doc.name>> \in pod.targets
TargetsWorkload(source, content, pod) ==
    \/ source.controller = "annotation" \/ source.manifest \in Helmlike
    \/ LET workloads == {i \in DOMAIN content : content[i].kind \in WorkloadKinds}
       IN  workloads # {} =>
             \E i \in workloads : manifestMatchesExpectedTarget(content[i], pod)

(* Mutant: of a file with several documents only the first is looked at.   *)
FirstDocGuarded(source, changes, pod) ==
    \A c \in changes :
        /\ ~NamesCI(c.path) /\ ~NamesRBAC(c.path) /\ ~NamesSecret(c.path)
        /\ c.new # <<>> => DocAllowed(c.new[1], pod)
        /\ \A image \in Images(c.new) : ImageAllowed(image, Images(c.old))
        /\ TargetsWorkload(source, c.new, pod)

enforcePatchGuardrails(source, changes, pod) ==
    \A c \in changes :
        /\ ~NamesCI(c.path) /\ ~NamesRBAC(c.path) /\ ~NamesSecret(c.path)
        /\ \A i \in DOMAIN c.new : DocAllowed(c.new[i], pod)
        /\ \A image \in Images(c.new) : ImageAllowed(image, Images(c.old))
        /\ TargetsWorkload(source, c.new, pod)

(* The outcomes that rendering may have; what a tool says is not modelled. *)
SkippedOrRequired == {~RequireRender}
ValidateRenderSandbox(source, files, changes) ==
    LET bases == {Base(p) : p \in files \cup {c.path : c \in changes}}
        renders ==
          IF source.manifest = "kustomize"
          THEN "kustomization.yaml" \in bases /\ Tools \cap {"kustomize", "kubectl"} # {}
          ELSE "chart.yaml" \in bases /\ "helm" \in Tools
    IN  IF ~Rendered \/ source.manifest \notin Helmlike \cup {"kustomize"} THEN {TRUE}
        ELSE IF renders THEN BOOLEAN ELSE SkippedOrRequired

(* A values file has to parse; kubectl has to know all else it is given.   *)
ValidateYAML(content) == content = <<>> \/ content[1].kind # "garbage"
ValidateManifest(content) ==
    /\ "kubectl" \in Tools /\ content # <<>>
    /\ \A i \in DOMAIN content : content[i].kind \in Served
PreFlight(change) ==
    IF Base(change.path) = "values.yaml" THEN ValidateYAML(change.new)
    ELSE ValidateManifest(change.new)

Valid(source, changes, pod) ==
    /\ validateManifestAwarePatchSet(source, changes)
    /\ Guarded => enforcePatchGuardrails(source, changes, pod)
    /\ \A c \in changes : PreFlight(c)

-----------------------------------------------------------------------------
(* scorePRRisk: what one pull request is thought to endanger.              *)
Points(condition, n) == IF condition THEN n ELSE 0
FileRisk(change) ==
    LET path == change.path IN
      Points(change.create, 10)
    + Points(NamesCI(path), 50)
    + Points(NamesRBAC(path) \/ Within(path, "clusterrole") \/ Within(path, "rolebinding"), 45)
    + Points(NamesSecret(path), 40)
    + Points(\E i \in 2..Len(path) - 1 : path[i] = "base", 20)
scorePRRisk(source, changes, strategy, confidence) ==
      Points(confidence < 85, 20)
    + Points(OverlayRole(source.path) = "base", 25)
    + Points(\/ Environment(source.path) \in {"prod", "production"}
             \/ \E i \in 2..Len(source.path) : source.path[i] \in Spelled["prod"], 25)
    + Points(strategy = "Image", 20)
    + Points(strategy \in {"SchedulingPolicy", "EnvOrVolumeRef", "PVC"}, 15)
    + MapThenSumSet(FileRisk, changes)
RequiresApproval(score) == score >= 60
=============================================================================
