------------------------------ MODULE MCProposal ------------------------------
(* Worlds and answers for Proposal, small enough for TLC.                  *)
EXTENDS Proposal, TLC

Doc(kind, name, image, resources) ==
    [kind |-> kind, name |-> name, ns |-> "", nested |-> FALSE, plain |-> TRUE,
     fields |-> [image |-> image, pull |-> "old", resources |-> resources, env |-> "old", other |-> "old"]]
Bare(kind, name) ==
    [kind |-> kind, name |-> name, ns |-> "", nested |-> FALSE, plain |-> FALSE, fields |-> [other |-> "old"]]
Deploy(image, resources) == <<Doc("Deployment", "api", image, resources)>>
PodDoc(image, resources) == <<Doc("Pod", "api-1", image, resources)>>
Values(setting, resources) ==
    <<[Bare("none", "") EXCEPT !.fields = [setting |-> setting, resources |-> resources, other |-> "old"]]>>
Sidecar == <<[Bare("none", "") EXCEPT !.fields = [image |-> "bad", setting |-> "new", other |-> "old"]]>>
Commented(content) == [content EXCEPT ![1].plain = FALSE]
Snippet == <<[Bare("none", "") EXCEPT !.fields = [resources |-> "new"]]>>
ImageSnippet == <<[Bare("none", "") EXCEPT !.fields = [setting |-> "new", resources |-> "new"]]>>
Kustomization(other) == <<[Bare("Kustomization", "") EXCEPT !.fields = [other |-> other]]>>
Service(other) == <<[Bare("Service", "api") EXCEPT !.fields = [other |-> other]]>>
Foreign == <<[Doc("Deployment", "api", "new", "old") EXCEPT !.ns = "elsewhere"]>>
Garbage == <<Bare("garbage", "")>>

Api == <<"apps", "api">>
Aux == <<"apps", "aux">>
Prod == <<"apps", "overlays", "prod">>
BaseDir == <<"apps", "base">>
Chart == <<"charts", "api">>
P(dir, name) == Append(dir, name)
Generated == Prod \o <<"fixora-patches", "generated.yaml">>
MCSorted == << P(Api, "deploy.yaml"), P(Api, "service.yaml"), P(Aux, "pod.yaml"), P(Aux, "service.yaml"),
               BaseDir \o <<"fixora-patches", "generated.yaml">>, P(BaseDir, "kustomization.yaml"),
               P(BaseDir, "memory-patch.yaml"), Generated, P(Prod, "kustomization.yaml"),
               P(Prod, "memory-patch.yaml"), P(Chart, "chart.yaml"), P(Chart, "values.yaml") >>

Files == [p \in {MCSorted[i] : i \in DOMAIN MCSorted} \ {Generated, MCSorted[5]} |->
    CASE Base(p) = "deploy.yaml" -> Deploy("old", "old")
      [] Base(p) = "pod.yaml" -> PodDoc("old", "old")
      [] Base(p) = "service.yaml" -> Service("old")
      [] Base(p) = "values.yaml" -> Values("old", "old")
      [] Base(p) = "memory-patch.yaml" -> Deploy("old", "old")
      [] OTHER -> Kustomization("old")]
In(dirs) == [p \in {q \in DOMAIN Files : Front(q) \in dirs} |-> Files[p]]

S(repo, path, revision, keys) == [repo |-> repo, path |-> path, revision |-> revision, keys |-> keys]
App(manages, ss) == <<[name |-> "api", manages |-> manages, sources |-> ss]>>
Note(repo, path) == <<[repo |-> repo, path |-> path, revision |-> ""]>>
Owned == [name |-> "api-1", ns |-> "ns", targets |-> {<<"Deployment", "api">>, <<"Pod", "api-1">>}]
BarePod == [name |-> "api-1", ns |-> "ns", targets |-> {<<"Pod", "api-1">>}]
W(owned, argo, ks, rs, note, files) ==
    [owned |-> owned, argo |-> argo, kustomizations |-> ks, releases |-> rs, note |-> note,
     release |-> "api", tree |-> files, pod |-> IF owned THEN Owned ELSE BarePod]
Main(repo, dirs) == [b \in {<<repo, "main">>} |-> In(dirs)]
Note2 == Note("r2", Aux)
Two(dirs, dirs2) == [b \in {<<"r1", "main">>, <<"r2", "main">>} |-> In(IF b[1] = "r1" THEN dirs ELSE dirs2)]

MCWorld ==
    { \* raw manifests of an application, and annotations that name another repository
      W(TRUE, App({"controller"}, <<S("r1", Api, "HEAD", {})>>), <<>>, <<>>, Note2, Two({Api}, {Aux})),
      \* two directories of one repository
      W(TRUE, App({"controller"}, <<S("r1", Api, "", {}), S("r1", Aux, "", {})>>), <<>>, <<>>, <<>>,
        Main("r1", {Api, Aux})),
      \* a bare Pod that only its annotations place
      W(FALSE, <<>>, <<>>, <<>>, Note2, Main("r2", {Aux})),
      \* one with an application that names no repository, and a comment beside its image
      W(FALSE, App({"pod"}, <<S("", Api, "", {})>>), <<>>, <<>>, Note2,
        [b \in {<<"r2", "main">>} |->
           [In({Aux}) EXCEPT ![P(Aux, "pod.yaml")] = Commented(PodDoc("old", "old"))]]),
      \* a production overlay in Flux' inventory; an application for the base
      W(TRUE, <<>>, <<[name |-> "k", inventory |-> {{"controller"}}, repo |-> "r1", path |-> Prod, revision |-> "main"]>>,
        <<>>, Note2, Two({Prod, BaseDir}, {Aux})),
      W(TRUE, App({"controller"}, <<S("r1", BaseDir, "", {"kustomize"})>>), <<>>, <<>>, <<>>, Main("r1", {BaseDir})),
      \* a chart, by ArgoCD and by Flux
      W(TRUE, App({"controller"}, <<S("r1", Chart, "", {"chart"})>>), <<>>, <<>>, <<>>, Main("r1", {Chart})),
      W(TRUE, <<>>, <<>>,
        <<[name |-> "api", releaseName |-> "", repo |-> "r1", path |-> Chart, revision |-> ""]>>, Note2,
        Two({Chart}, {Aux})),
      \* a base in one repository and raw manifests in another
      W(TRUE, App({"controller"}, <<S("r1", BaseDir, "", {"kustomize"}), S("r2", Api, "", {})>>), <<>>, <<>>, <<>>,
        Two({BaseDir}, {Api})),
      \* the overlay and the base of one repository, kept on two branches
      W(TRUE, App({"owner"}, <<S("r1", BaseDir, "stable", {"kustomize"}), S("r1", Prod, "", {})>>), <<>>, <<>>, <<>>,
        [b \in {<<"r1", "main">>, <<"r1", "stable">>} |-> In({BaseDir, Prod})]),
      \* a repository on another domain
      W(TRUE, App({"controller"}, <<S("r3", Api, "", {})>>), <<>>, <<>>, <<>>, Main("r3", {Api})) }

Patch(repo, path, content) == [repo |-> repo, path |-> path, content |-> content]
Good(path) ==
    CASE Base(path) \in {"deploy.yaml", "memory-patch.yaml", "generated.yaml"} -> Deploy("new", "old")
      [] Base(path) = "pod.yaml" -> PodDoc("new", "new")
      [] Base(path) = "service.yaml" -> Service("new")
      [] Base(path) = "values.yaml" -> Values("new", "old")
      [] OTHER -> Kustomization("new")
Contents(path) ==
    CASE Base(path) \in {"deploy.yaml", "memory-patch.yaml", "generated.yaml"} ->
           {Deploy("old", "new"), Deploy("bad", "old"), Deploy("new", "old") \o <<Bare("Secret", "s")>>,
            Foreign, Snippet, Garbage}
      [] Base(path) = "pod.yaml" -> {PodDoc("bad", "old"), PodDoc("old", "new"), ImageSnippet, Snippet}
      [] Base(path) = "values.yaml" -> {Snippet, Garbage, Values("bad", "old"), Sidecar}
      [] OTHER -> {}
PathsOf(r) == {p \in ToSet(MCSorted) : r = "r1" \/ Front(p) \in {Api, Aux}}
Single == UNION {UNION {{Patch(r, p, c) : c \in {Good(p)} \cup Contents(p)} : p \in PathsOf(r)} : r \in {"r1", "r2"}}
Basic(r) == {Patch(r, p, Good(p)) : p \in PathsOf(r)}
Beside(p, q) == p.repo # q.repo \/ SubSeq(p.path, 1, 2) = SubSeq(q.path, 1, 2) \/ Base(p.path) = Base(q.path)
Pairs ==
    {<<p, q>> : p \in Basic("r1"), q \in Basic("r1") \cup Basic("r2")}
Near == {pair \in Pairs : Beside(pair[1], pair[2])}
MCAnswer == [patches : {<<s>> : s \in Single}, confidence : {80, 90}]
              \cup [patches : Near, confidence : {90}]

MCSpelled == [patch |-> {"memory-patch.yaml"}, rbac |-> {"rbac.yaml"}, secret |-> {"secret.yaml"},
              prod |-> {"prod"}, rolebinding |-> {}, clusterrole |-> {}, helmrelease |-> {}, gitlabci |-> {},
              kustomization |-> {"kustomization.yaml"}, overlays |-> {"overlays"}, base |-> {"base"},
              chart |-> {"chart.yaml", "charts"}, helm |-> {}]
MCQuotable == {"unschedulable", "errimagepull", "secret", "failedmount", "oomkilled"}
MCServed == {"Deployment", "Pod", "Service", "Secret"}
MCRegistry == [old |-> "docker.io", new |-> "docker.io", bad |-> "quay.io"]
MCFault == {"oom", "image", "config", "unschedulable", "probe", "crash", "initoom", "volume", "node"}
MCMode == {"auto-fix", "click-to-fix"}
=============================================================================
