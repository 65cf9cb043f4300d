---------------------------- MODULE Proposal_proofs ----------------------------
(***************************************************************************)
(* What a proposal promises, for every cluster, repository and answer of   *)
(* the AI.  The invariant carries each promise from the stage that earns   *)
(* it to the proposal: what was discovered is trusted and was shown, what  *)
(* was admitted was discovered, what is planned has passed the guardrails. *)
(* Three more follow: for the diagnosis, for where a change is placed, and *)
(* for what the merge leaves of the file.                                  *)
(***************************************************************************)
EXTENDS Proposal, Sources_proofs

Sound(c) == c.repo \in Trusted /\ (c.create \/ c.shown)

(* Something is proposed only at the end.                                  *)
Staged ==
    /\ stage \in {"diagnose", "gather", "admit", "plan", "done"}
    /\ stage # "done" => outcome = Nothing
DiscoveredTrusted ==
    \A r \in DOMAIN repoMap : r \in Trusted /\ repoMap[r].allowed \subseteq DOMAIN repoMap[r].seen
GatedSound == \A c \in gated : Sound(c)
PlannedVetted == stage = "plan" /\ Guarded => \A c \in gated : ChangeVetted(c)
PInv == /\ Staged /\ DiscoveredTrusted /\ GatedSound /\ PlannedVetted
        /\ Contained /\ Vetted

(* Nothing that ends empty-handed proposes anything.                       *)
LEMMA NothingProposed ==
    ASSUME outcome = Nothing PROVE Contained /\ Vetted
<1>1. outcome.plans = {} BY DEF Nothing
<1>2. Proposed = {} BY <1>1 DEF Proposed
<1> QED BY <1>1, <1>2 DEF Contained, Vetted

LEMMA NothingProposedNext ==
    ASSUME outcome' = Nothing PROVE (Contained /\ Vetted)'
<1>1. outcome'.plans = {} BY DEF Nothing
<1>2. Proposed' = {} BY <1>1 DEF Proposed
<1> QED BY <1>1, <1>2 DEF Contained, Vetted

(* What buildManifestAwarePROptions puts into a plan was admitted, and the *)
(* filter adds no plan.                                                    *)
LEMMA PlansFromGated ==
    ASSUME NEW active,
           NEW plans \in filterActiveRemediationPlans(
                 UNION {buildManifestAwarePROptions(r) : r \in {c.repo : c \in Real}}, active),
           NEW p \in plans
    PROVE  \A c \in p.changes : c \in gated /\ p.source = repoMap[c.repo].source
<1>1. PICK r \in {c.repo : c \in Real} : p \in buildManifestAwarePROptions(r)
  BY DEF filterActiveRemediationPlans
<1>2. CASE p = Plan(r, Of(r)) BY <1>2 DEF Plan, Of, Real
<1>3. CASE \E c \in Of(r) : p = Plan(r, {c}) BY <1>3 DEF Plan, Of, Real
<1> QED BY <1>1, <1>2, <1>3 DEF buildManifestAwarePROptions

(* What is proposed was admitted, and the end forgets the rest.            *)
LEMMA ProposeEnds ==
    ASSUME Propose
    PROVE  /\ stage = "plan" /\ stage' = "done" /\ world' = world /\ gated' = {}
           /\ DOMAIN repoMap' = {} /\ verdict'.strategy = verdict.strategy
           /\ \A p \in outcome'.plans :
                 \A c \in p.changes : c \in gated /\ p.source = repoMap[c.repo].source
<1> DEFINE built == UNION {buildManifestAwarePROptions(r) : r \in {c.repo : c \in Real}}
<1>0. PICK mode \in Mode, active \in SUBSET {Branch(p) : p \in built} :
        \E plans \in filterActiveRemediationPlans(built, active) :
          End([mode |-> EffectiveModeOf(mode, plans), plans |-> plans,
               built |-> built, active |-> active])
  BY DEF Propose
<1>1. PICK plans \in filterActiveRemediationPlans(built, active) :
          End([mode |-> EffectiveModeOf(mode, plans), plans |-> plans,
               built |-> built, active |-> active])
  BY <1>0
<1>2. \A p \in plans : \A c \in p.changes : c \in gated /\ p.source = repoMap[c.repo].source
  BY <1>1, PlansFromGated
<1> HIDE DEF built
<1> QED BY <1>1, <1>2 DEF Propose, End, NoVerdict, Empty

LEMMA InitPInv == ASSUME ProposalInit PROVE PInv
<1>1. outcome = Nothing BY DEF ProposalInit
<1>2. DOMAIN repoMap = {} BY DEF ProposalInit, Empty
<1>3. stage = "diagnose" /\ gated = {} BY DEF ProposalInit
<1> QED BY <1>1, <1>2, <1>3, NothingProposed
        DEF PInv, Staged, DiscoveredTrusted, GatedSound, PlannedVetted

(* A step that leaves the discovered files, the admitted changes and the   *)
(* outcome alone leaves the rest to its stage.                             *)
LEMMA EarlyStep ==
    ASSUME PInv, stage # "done", stage' \in {"diagnose", "gather", "admit"},
           UNCHANGED <<repoMap, gated, outcome>>
    PROVE  PInv'
<1>1. outcome' = Nothing BY DEF PInv, Staged
<1>2. Staged' BY <1>1 DEF Staged
<1>3. DiscoveredTrusted' BY DEF PInv, DiscoveredTrusted
<1>4. GatedSound' BY DEF PInv, GatedSound, Sound
<1>5. PlannedVetted' BY DEF PlannedVetted
<1> QED BY <1>1, <1>2, <1>3, <1>4, <1>5, NothingProposedNext DEF PInv

-----------------------------------------------------------------------------
(* A listed source adds files of its own repository, each with what was    *)
(* read of it.                                                             *)
LEMMA ListPInv == ASSUME PInv, List PROVE PInv'
<1>1. stage = "gather" /\ stage' = "gather" /\ outcome' = Nothing /\ gated' = gated
  BY DEF List, PInv, Staged
<1> DEFINE source == Head(sources)
<1> HIDE DEF source
<1>2. DiscoveredTrusted'
  <2>1. CASE UNCHANGED repoMap BY <2>1 DEF PInv, DiscoveredTrusted
  <2>2. ASSUME NEW m, NEW files \in SUBSET Listed(source), source.repo \in Trusted,
               repoMap' = [r \in DOMAIN repoMap \cup {source.repo} |->
                              IF r = source.repo THEN Discover([source EXCEPT !.manifest = m], files)
                              ELSE repoMap[r]]
        PROVE  DiscoveredTrusted'
    <3> DEFINE s == [source EXCEPT !.manifest = m]
    <3>1. Known(s.repo).allowed \subseteq DOMAIN Known(s.repo).seen
      BY DEF Known, Undiscovered, PInv, DiscoveredTrusted
    <3> HIDE DEF s
    <3>2. Discover(s, files).allowed \subseteq DOMAIN Discover(s, files).seen
      BY <3>1 DEF Discover, Override
    <3>3. SUFFICES ASSUME NEW r \in DOMAIN repoMap'
                   PROVE r \in Trusted /\ repoMap'[r].allowed \subseteq DOMAIN repoMap'[r].seen
      BY DEF DiscoveredTrusted
    <3>4. CASE r = source.repo BY <2>2, <3>2, <3>4 DEF s
    <3>5. CASE r # source.repo BY <2>2, <3>5 DEF PInv, DiscoveredTrusted
    <3> QED BY <3>4, <3>5
  <2> QED BY <2>1, <2>2 DEF List, source
<1>3. Staged' BY <1>1 DEF PInv, Staged
<1>4. GatedSound' BY <1>1 DEF PInv, GatedSound, Sound
<1> QED BY <1>1, <1>2, <1>3, <1>4, NothingProposedNext DEF PInv, PlannedVetted

(* An admitted patch is for a discovered file, or the one that may be new. *)
LEMMA AdmitPInv == ASSUME PInv, Admit PROVE PInv'
<1> DEFINE patch == Head(answer)
<1>1. stage' = "admit" /\ outcome' = Nothing /\ UNCHANGED repoMap
  BY DEF Admit, PInv, Staged, found
<1>2. PICK old, new : gated' = gated \cup {Change(patch, old, new)}
  BY DEF Admit
<1>3. Sound(Change(patch, old, new))
  <2>1. patch.repo \in DOMAIN repoMap
        /\ patch.path \in repoMap[patch.repo].allowed \cup repoMap[patch.repo].new
    BY DEF Admit, Admissible, Known
  <2>2. patch.repo \in Trusted
        /\ repoMap[patch.repo].allowed \subseteq DOMAIN repoMap[patch.repo].seen
    BY <2>1 DEF PInv, DiscoveredTrusted
  <2> HIDE DEF patch
  <2> QED BY <2>1, <2>2 DEF Change, Sound
<1> HIDE DEF patch
<1>4. GatedSound' BY <1>2, <1>3 DEF PInv, GatedSound, Sound
<1>5. Staged' BY <1>1 DEF PInv, Staged
<1>6. DiscoveredTrusted' BY <1>1 DEF PInv, DiscoveredTrusted
<1> QED BY <1>1, <1>4, <1>5, <1>6, NothingProposedNext DEF PInv, PlannedVetted

(* The guardrails were asked of the changes of each repository.            *)
LEMMA ValidatePInv == ASSUME PInv, Validate PROVE PInv'
<1>1. stage' = "plan" /\ outcome' = Nothing /\ UNCHANGED <<repoMap, world>>
      /\ gated' = Real
  BY DEF Validate, PInv, Staged, found, asked
<1>2. GatedSound' BY <1>1 DEF PInv, GatedSound, Sound, Real
<1>3. PlannedVetted'
  <2>1. SUFFICES ASSUME Guarded, NEW c \in Real PROVE ChangeVetted(c)
    BY <1>1 DEF PlannedVetted, ChangeVetted, ImageVetted
  <2>2. c \in Of(c.repo) BY DEF Of
  <2>3. enforcePatchGuardrails(repoMap[c.repo].source, Of(c.repo), world.pod)
    BY <2>1, GateAssumption DEF Validate, Passes, Valid
  <2>4. /\ \A i \in DOMAIN c.new : DocAllowed(c.new[i], world.pod)
        /\ \A image \in Images(c.new) : ImageAllowed(image, Images(c.old))
    BY <2>2, <2>3 DEF enforcePatchGuardrails
  <2>5. ASSUME NEW i \in DOMAIN c.new, "image" \in DOMAIN c.new[i].fields
        PROVE  ImageVetted(c.new[i].fields["image"], c.old)
    <3>1. c.new[i].fields["image"] \in Images(c.new) BY <2>5 DEF Images
    <3>2. ImageAllowed(c.new[i].fields["image"], Images(c.old)) BY <2>4, <3>1
    <3>3. c.new[i].fields["image"] \in Images(c.old) =>
            \E k \in DOMAIN c.old : /\ "image" \in DOMAIN c.old[k].fields
                                    /\ c.old[k].fields["image"] = c.new[i].fields["image"]
      BY DEF Images
    <3> QED BY <3>2, <3>3 DEF ImageAllowed, ImageVetted
  <2> QED BY <2>4, <2>5 DEF ChangeVetted, DocAllowed
<1>4. Staged' BY <1>1 DEF PInv, Staged
<1>5. DiscoveredTrusted' BY <1>1 DEF PInv, DiscoveredTrusted
<1> QED BY <1>1, <1>2, <1>3, <1>4, <1>5, NothingProposedNext DEF PInv

(* What is proposed was planned.                                           *)
LEMMA ProposePInv == ASSUME PInv, Propose PROVE PInv'
<1> DEFINE built == UNION {buildManifestAwarePROptions(r) : r \in {c.repo : c \in Real}}
<1>0. PICK mode \in Mode, active \in SUBSET {Branch(p) : p \in built} :
        \E plans \in filterActiveRemediationPlans(built, active) :
          End([mode |-> EffectiveModeOf(mode, plans), plans |-> plans,
               built |-> built, active |-> active])
  BY DEF Propose
<1>1. PICK plans \in filterActiveRemediationPlans(built, active) :
          End([mode |-> EffectiveModeOf(mode, plans), plans |-> plans,
               built |-> built, active |-> active])
  BY <1>0
<1>2. \A p \in plans : p.changes \subseteq gated BY <1>1, PlansFromGated
<1> HIDE DEF built
<1>3. /\ stage = "plan" /\ stage' = "done" /\ world' = world
      /\ outcome'.plans = plans /\ gated' = {} /\ DOMAIN repoMap' = {}
  BY <1>1 DEF Propose, End, NoVerdict, Empty
<1>4. Proposed' \subseteq gated BY <1>2, <1>3 DEF Proposed
<1>5. Contained' BY <1>4 DEF PInv, GatedSound, Sound, Contained
<1>6. Vetted'
  <2>1. SUFFICES ASSUME Guarded, NEW c \in Proposed' PROVE ChangeVetted(c)'
    BY DEF Vetted
  <2>2. ChangeVetted(c) BY <1>3, <1>4, <2>1 DEF PInv, PlannedVetted
  <2> QED BY <1>3, <2>2 DEF ChangeVetted, ImageVetted
<1>7. Staged' BY <1>3 DEF Staged
<1> QED BY <1>3, <1>5, <1>6, <1>7
        DEF PInv, DiscoveredTrusted, GatedSound, PlannedVetted

LEMMA AbandonPInv == ASSUME PInv, Abandon PROVE PInv'
<1>1. /\ stage' = "done" /\ outcome' = Nothing /\ gated' = {}
      /\ DOMAIN repoMap' = {}
  BY DEF Abandon, Stop, End, Empty
<1> QED BY <1>1, NothingProposedNext
        DEF PInv, Staged, DiscoveredTrusted, GatedSound, PlannedVetted

LEMMA StutterPInv == ASSUME PInv, UNCHANGED proposalVars PROVE PInv'
<1>1. UNCHANGED <<stage, world, repoMap, gated, outcome>>
  BY DEF proposalVars, diagnosisVars, found, asked
<1>2. Proposed' = Proposed BY <1>1 DEF Proposed
<1>3. Contained' BY <1>2 DEF PInv, Contained
<1>4. Vetted' BY <1>1, <1>2 DEF PInv, Vetted, ChangeVetted, ImageVetted
<1>5. PlannedVetted' BY <1>1 DEF PInv, PlannedVetted, ChangeVetted, ImageVetted
<1> QED BY <1>1, <1>3, <1>4, <1>5
        DEF PInv, Staged, DiscoveredTrusted, GatedSound, Sound

(* The invariant of a remediation up to its proposal.                      *)
THEOREM ProposalInvariant == ProposalSpec => []PInv
<1>1. PInv /\ [ProposalNext]_proposalVars => PInv'
  <2> SUFFICES ASSUME PInv, [ProposalNext]_proposalVars PROVE PInv'
    OBVIOUS
  <2>1. CASE Diagnosing BY <2>1, EarlyStep DEF Diagnosing, PInv, Staged, found, asked
  <2>2. CASE Resolve BY <2>2, EarlyStep DEF Resolve, PInv, Staged, asked
  <2>3. CASE List BY <2>3, ListPInv
  <2>4. CASE Generate BY <2>4, EarlyStep DEF Generate, PInv, Staged, found
  <2>5. CASE Admit BY <2>5, AdmitPInv
  <2>6. CASE Validate BY <2>6, ValidatePInv
  <2>7. CASE Propose BY <2>7, ProposePInv
  <2>8. CASE Abandon BY <2>8, AbandonPInv
  <2>9. CASE Push BY <2>9, EarlyStep DEF Push, PInv, Staged, found, asked
  <2>10. CASE UNCHANGED proposalVars BY <2>10, StutterPInv
  <2> QED BY <2>1, <2>2, <2>3, <2>4, <2>5, <2>6, <2>7, <2>8, <2>9, <2>10 DEF ProposalNext
<1> QED BY <1>1, InitPInv, PTL DEF ProposalSpec

(* Whatever the AI answers, a proposal changes only shown files of trusted *)
(* repositories, or adds the one file it may add (handleRemediation).      *)
THEOREM ProposalsContained == ProposalSpec => []Contained
<1>1. PInv => Contained BY DEF PInv
<1> QED BY <1>1, ProposalInvariant, PTL

(* With guardrails on, every document of every proposed file, and the      *)
(* image of every container in them, is one that policy allows, although   *)
(* that is asked of the merged file two stages earlier                     *)
(* (enforcePatchGuardrails).  Other images are not claimed to be.          *)
THEOREM ProposalsVetted == ProposalSpec => []Vetted
<1>1. PInv => Vetted BY DEF PInv
<1> QED BY <1>1, ProposalInvariant, PTL

-----------------------------------------------------------------------------
(* What a reason that names a fault was given for.                         *)
Causes == [OOMKilled |-> {"oom", "initoom"}, ErrImagePull |-> {"image"},
           ImagePullBackOff |-> {"image"}, CreateContainerConfigError |-> {"config"},
           Unschedulable |-> {"unschedulable"}, Unready |-> {"probe"}]

(* Until it is diagnosed the pod looks like a fault it has, and is queued  *)
(* with a reason for the fault it had; a diagnosis ends the queueing.      *)
SeenWell ==
    stage = "diagnose" /\ Unknown =>
        /\ fault \in Fault /\ face \in Looks[fault]
        /\ item.reason \in DOMAIN Expected => item.fault \in Causes[item.reason]
DiagnosedOnce ==
    /\ stage = "diagnose" /\ item # NoItem => Unknown /\ item.reason # "none"
    /\ stage # "diagnose" => verdict.reason = "none"
CauseInv == SeenWell /\ DiagnosedOnce /\ CauseKept

(* What the pod shows, fault by fault, field by field.                     *)
ShowsOnly(x, phases, conditions, inits, mains) ==
    x.phase \in phases /\ x.condition \in conditions /\ x.init \in inits /\ x.main \in mains

LEMMA LookFields ==
    ASSUME NEW f \in DOMAIN Looks, NEW x \in Looks[f]
    PROVE  /\ f = "unschedulable" =>
                ShowsOnly(x, {"Pending"}, {"Unschedulable"}, {"none"}, {"none"})
           /\ f = "volume" => ShowsOnly(x, {"Pending"}, {"none"}, {"none"}, {"none"})
           /\ f = "image" => ShowsOnly(x, {"Pending"}, {"none"}, {"none"},
                                       {"ErrImagePull", "ImagePullBackOff"})
           /\ f = "config" => ShowsOnly(x, {"Pending"}, {"none"}, {"none"},
                                        {"CreateContainerConfigError"})
           /\ f = "initoom" => ShowsOnly(x, {"Pending"}, {"none"},
                                         {"OOMKilled", "CrashLoopBackOff"}, {"none"})
           /\ f = "oom" => ShowsOnly(x, {"Running", "Failed"}, {"NotReady", "none"}, {"none"},
                                     {"OOMKilled", "CrashLoopBackOff", "running"})
           /\ f = "crash" => ShowsOnly(x, {"Running"}, {"NotReady", "none"}, {"none"},
                                       {"Error", "CrashLoopBackOff", "running"})
           /\ f \in {"oom", "crash"} /\ x.main = "running" => x.condition = "none"
           /\ f = "probe" => ShowsOnly(x, {"Running"}, {"NotReady"}, {"none"}, {"running"})
           /\ f = "node" => ShowsOnly(x, {"Running"}, {"NodeNotReady"}, {"none"}, {"running"})
           /\ f \in {"unschedulable", "volume", "image", "config", "initoom", "oom", "crash",
                      "probe", "node"}
BY DEF Looks, Shows, ShowsOnly

(* No other fault looks like it.                                           *)
LEMMA ReasonNamesCause ==
    ASSUME fault \in Fault, face \in Looks[fault], NEW late \in BOOLEAN,
           Reason(late) \in DOMAIN Expected
    PROVE  fault \in Causes[Reason(late)]
<1>0. fault \in DOMAIN Looks BY DiagnosisAssumption
<1>1. CASE fault = "unschedulable"
  <2>1. Reason(late) = "Unschedulable"
    BY <1>0, <1>1, LookFields DEF ShowsOnly, Reason
  <2> QED BY <1>1, <2>1 DEF Causes
<1>2. CASE fault \in {"volume", "node"}
  <2>1. Reason(late) \in {"none", "NodeNotReady"}
    BY <1>0, <1>2, LookFields DEF ShowsOnly, Reason, Telling
  <2> QED BY <2>1 DEF Expected
<1>3. CASE fault = "image"
  <2>1. Reason(late) \in {"ErrImagePull", "ImagePullBackOff"}
    BY <1>0, <1>3, LookFields DEF ShowsOnly, Reason, Telling, Named
  <2> QED BY <1>3, <2>1 DEF Causes
<1>4. CASE fault = "config"
  <2>1. Reason(late) = "CreateContainerConfigError"
    BY <1>0, <1>4, LookFields DEF ShowsOnly, Reason, Telling, Named
  <2> QED BY <1>4, <2>1 DEF Causes
<1>5. CASE fault \in {"initoom", "oom"}
  <2>1. Reason(late) \in {"OOMKilled", "CrashLoopBackOff", "PodFailed", "none"}
    BY <1>0, <1>5, LookFields DEF ShowsOnly, Reason, Telling, Named
  <2>2. Reason(late) = "OOMKilled" BY <2>1 DEF Expected
  <2> QED BY <1>5, <2>2 DEF Causes
<1>6. CASE fault = "crash"
  <2>1. Reason(late) \in {"ExitCode", "CrashLoopBackOff", "none"}
    BY <1>0, <1>6, LookFields DEF ShowsOnly, Reason, Telling, Named
  <2> QED BY <2>1 DEF Expected
<1>7. CASE fault = "probe"
  <2>1. Reason(late) \in {"Unready", "none"}
    BY <1>0, <1>7, LookFields DEF ShowsOnly, Reason, Telling, Named
  <2> QED BY <1>7, <2>1 DEF Causes, Expected
<1> QED BY <1>0, <1>1, <1>2, <1>3, <1>4, <1>5, <1>6, <1>7, LookFields

(* The first rule that hits is the one that is chosen.                     *)
LEMMA FirstHit ==
    ASSUME NEW rules, NEW k \in 1..9, DOMAIN rules = 1..9,
           rules[k].hit, \A j \in 1..k - 1 : ~rules[j].hit
    PROVE  (CHOOSE i \in DOMAIN rules : rules[i].hit /\ \A j \in 1..i - 1 : ~rules[j].hit) = k
<1> DEFINE Hit(i) == i \in DOMAIN rules /\ rules[i].hit /\ \A j \in 1..i - 1 : ~rules[j].hit
<1>1. Hit(k) OBVIOUS
<1>2. ASSUME NEW i, Hit(i) PROVE i = k
  <2>1. ~(i < k) BY <1>2
  <2>2. ~(k < i) BY <1>2
  <2> QED BY <1>2, <2>1, <2>2
<1> QED BY <1>1, <1>2

(* The needles in what is said of a fault, besides those of what is quoted,*)
(* while no event of another fault is kept.                                *)
Spoken(events, states) ==
    \A quoted : /\ eventsToText(quoted) \subseteq quoted \cup events
                /\ summarizeContainerStates(quoted) \subseteq quoted \cup states

LEMMA WordsOf ==
    ASSUME fault \in DOMAIN Looks, face \in Looks[fault], said \subseteq EventsOf[fault]
    PROVE  /\ fault = "image" =>
                Spoken({"pull image", "errimagepull", "imagepull", "not found"},
                       {"errimagepull", "imagepull", "imagepullbackoff", "not found"})
           /\ fault = "config" =>
                Spoken({"secret", "not found"},
                       {"createcontainerconfigerror", "secret", "not found"})
           /\ fault \in {"initoom", "oom"} => Spoken({}, {"oomkilled", "crashloopbackoff"})
           /\ fault = "probe" => Spoken({"unhealthy", "readiness probe failed"}, {})
<1>0. ASSUME NEW events, NEW states, \A e \in said : Marks[e] \subseteq events,
             \A x \in Stated : Marks[x] \cup Message(x) \subseteq states
      PROVE  Spoken(events, states)
  BY <1>0 DEF Spoken, eventsToText, summarizeContainerStates
<1>1. ASSUME fault = "image"
      PROVE  Spoken({"pull image", "errimagepull", "imagepull", "not found"},
                    {"errimagepull", "imagepull", "imagepullbackoff", "not found"})
  <2>1. Stated \subseteq {"ErrImagePull", "ImagePullBackOff"}
    BY <1>1, LookFields DEF ShowsOnly, Stated
  <2>2. EventsOf[fault] = {"PullFailed"} BY <1>1 DEF EventsOf
  <2>3. /\ Marks["PullFailed"] = {"pull image", "errimagepull", "imagepull", "not found"}
        /\ Marks["ErrImagePull"] = {"errimagepull", "imagepull"}
        /\ Marks["ImagePullBackOff"] = {"imagepullbackoff", "imagepull"}
        /\ Message("ErrImagePull") = {"not found"} /\ Message("ImagePullBackOff") = {}
    BY DEF Marks, Message
  <2>4. \A x \in Stated :
          Marks[x] \cup Message(x) \subseteq {"errimagepull", "imagepull", "imagepullbackoff", "not found"}
    BY <2>1, <2>3
  <2>5. \A e \in said : Marks[e] \subseteq {"pull image", "errimagepull", "imagepull", "not found"}
    BY <2>2, <2>3
  <2> QED BY <1>0, <2>4, <2>5
<1>2. ASSUME fault = "config"
      PROVE  Spoken({"secret", "not found"},
                    {"createcontainerconfigerror", "secret", "not found"})
  <2>1. Stated \subseteq {"CreateContainerConfigError"}
    BY <1>2, LookFields DEF ShowsOnly, Stated
  <2>2. EventsOf[fault] = {"MissingRef"} BY <1>2 DEF EventsOf
  <2>3. /\ Marks["MissingRef"] = {"secret", "not found"}
        /\ Marks["CreateContainerConfigError"] = {"createcontainerconfigerror"}
        /\ Message("CreateContainerConfigError") = {"secret", "not found"}
    BY DEF Marks, Message
  <2>4. \A x \in Stated :
          Marks[x] \cup Message(x) \subseteq {"createcontainerconfigerror", "secret", "not found"}
    BY <2>1, <2>3
  <2>5. \A e \in said : Marks[e] \subseteq {"secret", "not found"} BY <2>2, <2>3
  <2> QED BY <1>0, <2>4, <2>5
<1>3. ASSUME fault \in {"initoom", "oom"}
      PROVE  Spoken({}, {"oomkilled", "crashloopbackoff"})
  <2>1. Stated \subseteq {"OOMKilled", "CrashLoopBackOff"}
    BY <1>3, LookFields DEF ShowsOnly, Stated
  <2>2. EventsOf[fault] = {"BackOff"} BY <1>3 DEF EventsOf
  <2>3. /\ Marks["BackOff"] = {} /\ Marks["OOMKilled"] = {"oomkilled"}
        /\ Marks["CrashLoopBackOff"] = {"crashloopbackoff"}
        /\ Message("OOMKilled") = {} /\ Message("CrashLoopBackOff") = {}
    BY DEF Marks, Message
  <2>4. \A x \in Stated : Marks[x] \cup Message(x) \subseteq {"oomkilled", "crashloopbackoff"}
    BY <2>1, <2>3
  <2>5. \A e \in said : Marks[e] \subseteq {} BY <2>2, <2>3
  <2> QED BY <1>0, <2>4, <2>5
<1>4. ASSUME fault = "probe" PROVE Spoken({"unhealthy", "readiness probe failed"}, {})
  <2>1. Stated = {} BY <1>4, LookFields DEF ShowsOnly, Stated
  <2>2. EventsOf[fault] = {"Unhealthy"} BY <1>4 DEF EventsOf
  <2>3. Marks["Unhealthy"] = {"unhealthy", "readiness probe failed"} BY DEF Marks
  <2>4. \A x \in Stated : Marks[x] \cup Message(x) \subseteq {} BY <2>1
  <2>5. \A e \in said : Marks[e] \subseteq {"unhealthy", "readiness probe failed"} BY <2>2, <2>3
  <2> QED BY <1>0, <2>4, <2>5
<1> QED BY <1>1, <1>2, <1>3, <1>4

LEMMA NeedleSets ==
    /\ Needles.SchedulingPolicy = {"unschedulable"}
    /\ Needles.Image = {"imagepullbackoff", "errimagepull", "pull image"}
    /\ Needles.EnvOrVolumeRef = {"createcontainerconfigerror", "secret", "configmap",
                                 "couldn't find key", "not found"}
    /\ Needles.PVC = {"failedmount", "persistentvolumeclaim",
                      "timed out waiting for the condition"}
    /\ Needles.Resources = {"oomkilled"}
    /\ Needles.Probe = {"readiness probe failed", "liveness probe failed",
                        "startup probe failed", "unhealthy", "health check"}
BY DEF Needles

(* What misleads a classifier is what those before it look for.            *)
LEMMA MisleadingSets ==
    /\ Needles.SchedulingPolicy \subseteq Misleading["Image"]
    /\ Needles.SchedulingPolicy \cup Needles.Image \cup {"imagepull"}
         \subseteq Misleading["EnvOrVolumeRef"]
    /\ Needles.SchedulingPolicy \cup Needles.Image \cup Needles.EnvOrVolumeRef
         \cup Needles.PVC \subseteq Misleading["Resources"]
    /\ Needles.SchedulingPolicy \cup Needles.Image \cup Needles.EnvOrVolumeRef
         \cup Needles.PVC \cup Needles.Resources \subseteq Misleading["Probe"]
BY DEF Misleading

(* The first classifier that recognises them is the one for the fault.     *)
LEMMA RightRule ==
    ASSUME fault \in DOMAIN Looks, face \in Looks[fault], said \subseteq EventsOf[fault],
           NEW reason \in DOMAIN Expected, fault \in Causes[reason],
           NEW inEvents, NEW inStates,
           ~Meets(inEvents \cup inStates, Misleading[Expected[reason]])
    PROVE  classifyPodIssue(reason, eventsToText(inEvents), summarizeContainerStates(inStates),
                            FALSE).strategy = Expected[reason]
<1> DEFINE quoted == inEvents \cup inStates
           events == eventsToText(inEvents)
           states == summarizeContainerStates(inStates)
           text == Marks[reason] \cup events \cup states
           storage == classifyStorage(FALSE, events)
           rules == << Rule(classifyScheduling(reason, events), "SchedulingPolicy", 82),
                       Rule(classifyImagePull(text), "Image", 88),
                       Rule(classifyConfigError(text), "EnvOrVolumeRef", 84),
                       Rule(storage, "PVC", 82),
                       Rule(classifyOOM(reason, states), "Resources", 90),
                       Rule(classifyProbeFailure(reason, events), "Probe", 78),
                       Rule(classifyNetwork, "ServiceSelector", 68),
                       Rule(classifyCrashLoop(reason, states), "None", 70),
                       Rule(TRUE, "None", 35) >>
           chosen == classifyPodIssue(reason, events, states, FALSE)
<1>a. /\ DOMAIN rules = 1..9
      /\ rules[1] = Rule(classifyScheduling(reason, events), "SchedulingPolicy", 82)
      /\ rules[2] = Rule(classifyImagePull(text), "Image", 88)
      /\ rules[3] = Rule(classifyConfigError(text), "EnvOrVolumeRef", 84)
      /\ rules[4] = Rule(storage, "PVC", 82)
      /\ rules[5] = Rule(classifyOOM(reason, states), "Resources", 90)
      /\ rules[6] = Rule(classifyProbeFailure(reason, events), "Probe", 78)
  OBVIOUS
<1>b. chosen = rules[CHOOSE i \in DOMAIN rules :
                         rules[i].hit /\ \A j \in 1..i - 1 : ~rules[j].hit]
  BY DEF classifyPodIssue
<1> HIDE DEF rules, chosen, text, events, states, storage
<1>c. ASSUME NEW hit \in BOOLEAN, NEW strategy, NEW n
      PROVE  /\ Rule(hit, strategy, n).strategy = strategy
             /\ Rule(hit, strategy, n).hit <=> hit
  BY DEF Rule
<1>1. \A k \in 1..9 : rules[k].hit /\ (\A j \in 1..k - 1 : ~rules[j].hit) => chosen = rules[k]
  BY <1>a, <1>b, FirstHit
<1>2. /\ rules[1].hit <=> \/ Meets(Marks[reason] \cup events, Needles.SchedulingPolicy)
                          \/ face.condition = "Unschedulable"
      /\ rules[1].strategy = "SchedulingPolicy"
  <2>1. classifyScheduling(reason, events) \in BOOLEAN BY DEF classifyScheduling, Meets
  <2>2. /\ rules[1].hit <=> classifyScheduling(reason, events)
        /\ rules[1].strategy = "SchedulingPolicy"
    BY <1>a, <1>c, <2>1
  <2> QED BY <2>2 DEF classifyScheduling
<1>3. /\ rules[2].hit <=> Meets(text, Needles.Image)
      /\ rules[2].strategy = "Image"
  <2>1. classifyImagePull(text) \in BOOLEAN BY DEF classifyImagePull, Meets
  <2>2. /\ rules[2].hit <=> classifyImagePull(text)
        /\ rules[2].strategy = "Image"
    BY <1>a, <1>c, <2>1
  <2> QED BY <2>2 DEF classifyImagePull
<1>4. /\ rules[3].hit <=> /\ Meets(text, Needles.EnvOrVolumeRef)
                          /\ ~Meets(text, {"imagepull", "errimagepull"})
      /\ rules[3].strategy = "EnvOrVolumeRef"
  <2>1. classifyConfigError(text) \in BOOLEAN BY DEF classifyConfigError, Meets
  <2>2. /\ rules[3].hit <=> classifyConfigError(text)
        /\ rules[3].strategy = "EnvOrVolumeRef"
    BY <1>a, <1>c, <2>1
  <2> QED BY <2>2 DEF classifyConfigError
<1>5. rules[4].hit <=> Meets(events, Needles.PVC)
  <2>1. storage \in BOOLEAN BY DEF storage, classifyStorage, Meets
  <2>2. rules[4].hit <=> storage
    BY <1>a, <1>c, <2>1
  <2> QED BY <2>2 DEF classifyStorage, storage
<1>6. /\ rules[5].hit <=> Meets(Marks[reason] \cup states, Needles.Resources)
      /\ rules[5].strategy = "Resources"
  <2>1. classifyOOM(reason, states) \in BOOLEAN BY DEF classifyOOM, Meets
  <2>2. /\ rules[5].hit <=> classifyOOM(reason, states)
        /\ rules[5].strategy = "Resources"
    BY <1>a, <1>c, <2>1
  <2> QED BY <2>2 DEF classifyOOM
<1>7. /\ rules[6].hit <=> Meets(Marks[reason] \cup events, Needles.Probe)
      /\ rules[6].strategy = "Probe"
  <2>1. classifyProbeFailure(reason, events) \in BOOLEAN BY DEF classifyProbeFailure, Meets
  <2>2. /\ rules[6].hit <=> classifyProbeFailure(reason, events)
        /\ rules[6].strategy = "Probe"
    BY <1>a, <1>c, <2>1
  <2> QED BY <2>2 DEF classifyProbeFailure
<1>8. /\ Expected["Unschedulable"] = "SchedulingPolicy" /\ Expected["ErrImagePull"] = "Image"
      /\ Expected["ImagePullBackOff"] = "Image" /\ Expected["OOMKilled"] = "Resources"
      /\ Expected["CreateContainerConfigError"] = "EnvOrVolumeRef"
      /\ Expected["Unready"] = "Probe"
  BY DEF Expected
<1>9. /\ Marks["Unschedulable"] = {"unschedulable"}
      /\ Marks["ErrImagePull"] = {"errimagepull", "imagepull"}
      /\ Marks["ImagePullBackOff"] = {"imagepullbackoff", "imagepull"}
      /\ Marks["CreateContainerConfigError"] = {"createcontainerconfigerror"}
      /\ Marks["OOMKilled"] = {"oomkilled"} /\ Marks["Unready"] = {"health check"}
  BY DEF Marks
<1>10. fault # "unschedulable" => face.condition # "Unschedulable"
  BY LookFields DEF ShowsOnly
<1>11. ASSUME NEW said1, NEW said2, Spoken(said1, said2)
       PROVE  /\ Marks[reason] \cup events \subseteq quoted \cup (Marks[reason] \cup said1)
              /\ Marks[reason] \cup states \subseteq quoted \cup (Marks[reason] \cup said2)
              /\ text \subseteq quoted \cup (Marks[reason] \cup said1 \cup said2)
  <2>1. events \subseteq inEvents \cup said1 /\ states \subseteq inStates \cup said2
    BY <1>11 DEF Spoken, events, states
  <2> QED BY <2>1 DEF text
<1> HIDE DEF quoted
<1>12. ~Meets(quoted, Misleading[Expected[reason]]) BY DEF quoted
<1>13. CASE reason = "Unschedulable"
  <2>1. rules[1].hit BY <1>2, <1>9, <1>13, NeedleSets DEF Meets
  <2>2. chosen = rules[1]
    <3>1. \A j \in 1..1 - 1 : ~rules[j].hit OBVIOUS
    <3> QED BY <1>1, <2>1, <3>1
  <2> QED BY <1>2, <1>8, <1>13, <2>2 DEF chosen, events, states
<1>14. CASE reason \in {"ErrImagePull", "ImagePullBackOff"}
  <2>0. fault = "image" /\ Expected[reason] = "Image" BY <1>8, <1>14 DEF Causes
  <2>1. Marks[reason] \cup events
          \subseteq quoted \cup (Marks[reason]
            \cup {"pull image", "errimagepull", "imagepull", "not found"})
    BY <1>11, <2>0, WordsOf
  <2> DEFINE words == Marks[reason] \cup {"pull image", "errimagepull", "imagepull", "not found"}
  <2>2. ~Meets(Marks[reason] \cup events, Needles.SchedulingPolicy)
    <3>1. words \cap Needles.SchedulingPolicy = {} BY <1>9, <1>14, NeedleSets
    <3>2. Needles.SchedulingPolicy \subseteq Misleading[Expected[reason]]
      BY <2>0, MisleadingSets
    <3>3. Marks[reason] \cup events \subseteq quoted \cup words BY <2>1
    <3> HIDE DEF words
    <3> QED BY <1>12, <3>1, <3>2, <3>3 DEF Meets
  <2>3. ~rules[1].hit BY <1>2, <1>10, <2>0, <2>2
  <2>4. rules[2].hit BY <1>3, <1>9, <1>14, NeedleSets DEF Meets, text
  <2>5. chosen = rules[2]
    <3>1. \A j \in 1..2 - 1 : ~rules[j].hit BY <2>3
    <3> QED BY <1>1, <2>4, <3>1
  <2> QED BY <1>3, <2>0, <2>5 DEF chosen, events, states
<1>15. CASE reason = "CreateContainerConfigError"
  <2>0. fault = "config" /\ Expected[reason] = "EnvOrVolumeRef" BY <1>8, <1>15 DEF Causes
  <2> DEFINE words == {"createcontainerconfigerror", "secret", "not found"}
  <2>1. /\ Marks[reason] \cup events \subseteq quoted \cup words
        /\ Marks[reason] \cup states \subseteq quoted \cup words
        /\ text \subseteq quoted \cup words
    <3>1. Spoken({"secret", "not found"}, {"createcontainerconfigerror", "secret", "not found"})
      BY <2>0, WordsOf
    <3>2. Marks[reason] \cup {"secret", "not found"}
              \cup {"createcontainerconfigerror", "secret", "not found"} \subseteq words
      BY <1>9, <1>15 DEF words
    <3>3. /\ Marks[reason] \cup events \subseteq quoted \cup (Marks[reason] \cup {"secret", "not found"})
          /\ Marks[reason] \cup states
               \subseteq quoted \cup (Marks[reason] \cup {"createcontainerconfigerror", "secret", "not found"})
          /\ text \subseteq quoted \cup (Marks[reason] \cup {"secret", "not found"}
                                         \cup {"createcontainerconfigerror", "secret", "not found"})
      BY <1>11, <3>1
    <3> HIDE DEF words
    <3> QED BY <3>2, <3>3
  <2> HIDE DEF words
  <2>2. Marks[reason] \cup events \subseteq quoted \cup words BY <2>1
  <2>3. text \subseteq quoted \cup words BY <2>1
  <2>4. ~Meets(Marks[reason] \cup events, Needles.SchedulingPolicy)
    <3>1. words \cap Needles.SchedulingPolicy = {} BY NeedleSets DEF words
    <3>2. Needles.SchedulingPolicy \subseteq Misleading[Expected[reason]] BY <2>0, MisleadingSets
    <3> QED BY <1>12, <2>2, <3>1, <3>2 DEF Meets
  <2>5. ~Meets(text, Needles.Image)
    <3>1. words \cap Needles.Image = {} BY NeedleSets DEF words
    <3>2. Needles.Image \subseteq Misleading[Expected[reason]] BY <2>0, MisleadingSets
    <3> QED BY <1>12, <2>3, <3>1, <3>2 DEF Meets
  <2>6. ~Meets(text, {"imagepull", "errimagepull"})
    <3>1. words \cap {"imagepull", "errimagepull"} = {} BY DEF words
    <3>2. {"imagepull", "errimagepull"} \subseteq Misleading[Expected[reason]]
      BY <2>0, MisleadingSets, NeedleSets
    <3> QED BY <1>12, <2>3, <3>1, <3>2 DEF Meets
  <2>7. ~rules[1].hit BY <1>2, <1>10, <2>0, <2>4
  <2>8. ~rules[2].hit BY <1>3, <2>5
  <2>9. Meets(text, Needles.EnvOrVolumeRef) BY <1>9, <1>15, NeedleSets DEF Meets, text
  <2>10. rules[3].hit BY <1>4, <2>6, <2>9
  <2>11. chosen = rules[3]
    <3>1. \A j \in 1..3 - 1 : ~rules[j].hit BY <2>7, <2>8
    <3> QED BY <1>1, <2>10, <3>1
  <2> QED BY <1>4, <2>0, <2>11 DEF chosen, events, states
<1>16. CASE reason = "OOMKilled"
  <2>0. fault \in {"oom", "initoom"} /\ Expected[reason] = "Resources" BY <1>8, <1>16 DEF Causes
  <2> DEFINE words == {"oomkilled", "crashloopbackoff"}
  <2>1. /\ Marks[reason] \cup events \subseteq quoted \cup words
        /\ Marks[reason] \cup states \subseteq quoted \cup words
        /\ text \subseteq quoted \cup words
    <3>1. Spoken({}, {"oomkilled", "crashloopbackoff"})
      BY <2>0, WordsOf
    <3>2. Marks[reason] \cup {} \cup {"oomkilled", "crashloopbackoff"} \subseteq words
      BY <1>9, <1>16 DEF words
    <3>3. /\ Marks[reason] \cup events \subseteq quoted \cup (Marks[reason] \cup {})
          /\ Marks[reason] \cup states
               \subseteq quoted \cup (Marks[reason] \cup {"oomkilled", "crashloopbackoff"})
          /\ text \subseteq quoted \cup (Marks[reason] \cup {}
                                         \cup {"oomkilled", "crashloopbackoff"})
      BY <1>11, <3>1
    <3> HIDE DEF words
    <3> QED BY <3>2, <3>3
  <2> HIDE DEF words
  <2>2. Marks[reason] \cup events \subseteq quoted \cup words BY <2>1
  <2>3. text \subseteq quoted \cup words BY <2>1
  <2>e. events \subseteq quoted \cup words BY <2>1
  <2>4. ~Meets(Marks[reason] \cup events, Needles.SchedulingPolicy)
    <3>1. words \cap Needles.SchedulingPolicy = {} BY NeedleSets DEF words
    <3>2. Needles.SchedulingPolicy \subseteq Misleading[Expected[reason]] BY <2>0, MisleadingSets
    <3> QED BY <1>12, <2>2, <3>1, <3>2 DEF Meets
  <2>5. ~Meets(text, Needles.Image)
    <3>1. words \cap Needles.Image = {} BY NeedleSets DEF words
    <3>2. Needles.Image \subseteq Misleading[Expected[reason]] BY <2>0, MisleadingSets
    <3> QED BY <1>12, <2>3, <3>1, <3>2 DEF Meets
  <2>6. ~Meets(text, Needles.EnvOrVolumeRef)
    <3>1. words \cap Needles.EnvOrVolumeRef = {} BY NeedleSets DEF words
    <3>2. Needles.EnvOrVolumeRef \subseteq Misleading[Expected[reason]] BY <2>0, MisleadingSets
    <3> QED BY <1>12, <2>3, <3>1, <3>2 DEF Meets
  <2>7. ~Meets(events, Needles.PVC)
    <3>1. words \cap Needles.PVC = {} BY NeedleSets DEF words
    <3>2. Needles.PVC \subseteq Misleading[Expected[reason]] BY <2>0, MisleadingSets
    <3> QED BY <1>12, <2>e, <3>1, <3>2 DEF Meets
  <2>8. ~rules[1].hit BY <1>2, <1>10, <2>0, <2>4
  <2>9. ~rules[2].hit /\ ~rules[3].hit /\ ~rules[4].hit BY <1>3, <1>4, <1>5, <2>5, <2>6, <2>7
  <2>10. rules[5].hit BY <1>6, <1>9, <1>16, NeedleSets DEF Meets
  <2>11. chosen = rules[5]
    <3>1. \A j \in 1..5 - 1 : ~rules[j].hit BY <2>8, <2>9
    <3> QED BY <1>1, <2>10, <3>1
  <2> QED BY <1>6, <2>0, <2>11 DEF chosen, events, states
<1>17. CASE reason = "Unready"
  <2>0. fault = "probe" /\ Expected[reason] = "Probe" BY <1>8, <1>17 DEF Causes
  <2> DEFINE words == {"unhealthy", "readiness probe failed", "health check"}
  <2>1. /\ Marks[reason] \cup events \subseteq quoted \cup words
        /\ Marks[reason] \cup states \subseteq quoted \cup words
        /\ text \subseteq quoted \cup words
    <3>1. Spoken({"unhealthy", "readiness probe failed"}, {})
      BY <2>0, WordsOf
    <3>2. Marks[reason] \cup {"unhealthy", "readiness probe failed"} \cup {} \subseteq words
      BY <1>9, <1>17 DEF words
    <3>3. /\ Marks[reason] \cup events
               \subseteq quoted \cup (Marks[reason] \cup {"unhealthy", "readiness probe failed"})
          /\ Marks[reason] \cup states
               \subseteq quoted \cup (Marks[reason] \cup {})
          /\ text \subseteq quoted \cup (Marks[reason] \cup {"unhealthy", "readiness probe failed"}
                                         \cup {})
      BY <1>11, <3>1
    <3> HIDE DEF words
    <3> QED BY <3>2, <3>3
  <2> HIDE DEF words
  <2>2. Marks[reason] \cup events \subseteq quoted \cup words BY <2>1
  <2>3. text \subseteq quoted \cup words BY <2>1
  <2>e. events \subseteq quoted \cup words BY <2>1
  <2>s. Marks[reason] \cup states \subseteq quoted \cup words BY <2>1
  <2>4. ~Meets(Marks[reason] \cup events, Needles.SchedulingPolicy)
    <3>1. words \cap Needles.SchedulingPolicy = {} BY NeedleSets DEF words
    <3>2. Needles.SchedulingPolicy \subseteq Misleading[Expected[reason]] BY <2>0, MisleadingSets
    <3> QED BY <1>12, <2>2, <3>1, <3>2 DEF Meets
  <2>5. ~Meets(text, Needles.Image)
    <3>1. words \cap Needles.Image = {} BY NeedleSets DEF words
    <3>2. Needles.Image \subseteq Misleading[Expected[reason]] BY <2>0, MisleadingSets
    <3> QED BY <1>12, <2>3, <3>1, <3>2 DEF Meets
  <2>6. ~Meets(text, Needles.EnvOrVolumeRef)
    <3>1. words \cap Needles.EnvOrVolumeRef = {} BY NeedleSets DEF words
    <3>2. Needles.EnvOrVolumeRef \subseteq Misleading[Expected[reason]] BY <2>0, MisleadingSets
    <3> QED BY <1>12, <2>3, <3>1, <3>2 DEF Meets
  <2>7. ~Meets(events, Needles.PVC)
    <3>1. words \cap Needles.PVC = {} BY NeedleSets DEF words
    <3>2. Needles.PVC \subseteq Misleading[Expected[reason]] BY <2>0, MisleadingSets
    <3> QED BY <1>12, <2>e, <3>1, <3>2 DEF Meets
  <2>8. ~Meets(Marks[reason] \cup states, Needles.Resources)
    <3>1. words \cap Needles.Resources = {} BY NeedleSets DEF words
    <3>2. Needles.Resources \subseteq Misleading[Expected[reason]] BY <2>0, MisleadingSets
    <3> QED BY <1>12, <2>s, <3>1, <3>2 DEF Meets
  <2>9. ~rules[1].hit BY <1>2, <1>10, <2>0, <2>4
  <2>10. ~rules[2].hit /\ ~rules[3].hit /\ ~rules[4].hit /\ ~rules[5].hit
    BY <1>3, <1>4, <1>5, <1>6, <2>5, <2>6, <2>7, <2>8
  <2>11. rules[6].hit BY <1>7, <1>9, <1>17, NeedleSets DEF Meets
  <2>12. chosen = rules[6]
    <3>1. \A j \in 1..6 - 1 : ~rules[j].hit BY <2>9, <2>10
    <3> QED BY <1>1, <2>11, <3>1
  <2> QED BY <1>7, <2>0, <2>12 DEF chosen, events, states
<1> QED BY <1>13, <1>14, <1>15, <1>16, <1>17 DEF Expected

(* What the worker finds is judged by the pod as it is then.               *)
LEMMA DiagnoseKept == ASSUME CauseInv, stage = "diagnose", Diagnose PROVE CauseKept'
<1> SUFFICES ASSUME verdict'.reason \in DOMAIN Expected, ~verdict'.mixed, ~verdict'.misled
             PROVE  verdict'.strategy = Expected[verdict'.reason]
  BY DEF CauseKept
<1>1. PICK claimPending \in pendingPVCs, wrongCPU \in {FALSE, fault = "crash"},
           inEvents \in Quotes(said), inStates \in Quotes(Stated) :
        LET rule == refineDiagnosisFromEvidence(
                        classifyPodIssue(item.reason, eventsToText(inEvents),
                                         summarizeContainerStates(inStates), claimPending),
                        wrongCPU)
        IN  verdict' = [strategy |-> rule.strategy, confidence |-> rule.confidence,
                        reason |-> item.reason,
                        mixed |-> \/ wrongCPU \/ fault # item.fault
                                  \/ ~(said \subseteq EventsOf[fault]),
                        misled |-> /\ item.reason \in DOMAIN Expected
                                   /\ Meets(inEvents \cup inStates,
                                            Misleading[Expected[item.reason]])]
  BY DEF Diagnose
<1>2. ~wrongCPU /\ fault = item.fault /\ said \subseteq EventsOf[fault]
  BY <1>1
<1>3. item.reason \in DOMAIN Expected
      /\ ~Meets(inEvents \cup inStates, Misleading[Expected[item.reason]])
  BY <1>1
<1>4. fault \in Fault /\ face \in Looks[fault] /\ fault \in Causes[item.reason]
  BY <1>2, <1>3 DEF CauseInv, SeenWell, DiagnosedOnce, Diagnose
<1>5. fault # "volume" BY <1>3, <1>4 DEF Causes, Expected
<1>6. claimPending = FALSE BY <1>5 DEF pendingPVCs
<1>7. verdict'.strategy = classifyPodIssue(item.reason, eventsToText(inEvents),
                                           summarizeContainerStates(inStates), FALSE).strategy
      /\ verdict'.reason = item.reason
  BY <1>1, <1>2, <1>6 DEF refineDiagnosisFromEvidence
<1> QED BY <1>2, <1>3, <1>4, <1>7, RightRule, DiagnosisAssumption

(* Without a reason nothing is expected.                                   *)
LEMMA UnexpectedNone == ASSUME verdict'.reason = "none" PROVE CauseKept'
  BY DEF CauseKept, Expected

(* What happens to the pod before its diagnosis.                           *)
LEMMA DiagnosingCause == ASSUME CauseInv, Diagnosing PROVE CauseInv'
<1>0. stage = "diagnose" /\ stage' = "diagnose" BY DEF Diagnosing
<1>1. ASSUME Unknown, UNCHANGED verdict PROVE CauseKept' /\ Unknown'
  BY <1>1 DEF CauseInv, CauseKept, Unknown
<1>2. CASE Report
  <2>1. fault \in Fault /\ face' \in Looks[fault] /\ UNCHANGED <<fault, item, verdict>> /\ Unknown
    BY <1>0, <1>2 DEF Report, CauseInv, SeenWell
  <2> QED BY <1>0, <1>1, <2>1 DEF CauseInv, SeenWell, DiagnosedOnce
<1>3. CASE Expire
  BY <1>0, <1>1, <1>3 DEF Expire, CauseInv, SeenWell, DiagnosedOnce
<1>4. CASE Turn
  <2>1. fault' \in Fault /\ face' \in Looks[fault'] /\ UNCHANGED <<item, verdict>> /\ Unknown
    BY <1>4 DEF Turn
  <2> QED BY <1>0, <1>1, <2>1 DEF CauseInv, SeenWell, DiagnosedOnce
<1>5. ASSUME NEW reason, Queue(reason),
             reason = "Alert" \/ \E late \in BOOLEAN : reason = Reason(late)
      PROVE  CauseInv'
  <2>1. /\ Unknown /\ item' = [reason |-> reason, fault |-> fault] /\ reason # "none"
        /\ UNCHANGED <<fault, face, verdict>>
    BY <1>5 DEF Queue
  <2>2. reason \in DOMAIN Expected => fault \in Causes[reason]
    <3>1. reason = "Alert" => reason \notin DOMAIN Expected BY DEF Expected
    <3> QED BY <1>0, <1>5, <2>1, <3>1, ReasonNamesCause DEF CauseInv, SeenWell
  <2> QED BY <1>0, <1>1, <2>1, <2>2 DEF CauseInv, SeenWell, DiagnosedOnce
<1>6. CASE Diagnose
  <2>1. item' = NoItem /\ item.reason # "none" /\ verdict'.reason = item.reason
    BY <1>0, <1>6 DEF Diagnose, CauseInv, DiagnosedOnce
  <2>2. ~Unknown' BY <2>1 DEF Unknown, NoVerdict
  <2> QED BY <1>0, <1>6, <2>1, <2>2, DiagnoseKept DEF CauseInv, SeenWell, DiagnosedOnce
<1> QED BY <1>2, <1>3, <1>4, <1>5, <1>6 DEF Diagnosing, DiagnosisNext, Enqueue

(* After the diagnosis its reason is of no use.                            *)
LEMMA CauseStep == ASSUME CauseInv, [ProposalNext]_proposalVars PROVE CauseInv'
<1>1. ASSUME stage' # "diagnose", verdict'.reason = "none" PROVE CauseInv'
  BY <1>1, UnexpectedNone DEF CauseInv, SeenWell, DiagnosedOnce
<1>2. ASSUME stage # "diagnose", stage' # "diagnose", UNCHANGED verdict PROVE CauseInv'
  BY <1>1, <1>2 DEF CauseInv, DiagnosedOnce
<1>3. CASE Diagnosing BY <1>3, DiagnosingCause
<1>4. CASE Resolve BY <1>1, <1>4 DEF Resolve, NoVerdict
<1>5. CASE List BY <1>2, <1>5 DEF List, diagnosisVars
<1>6. CASE Generate BY <1>2, <1>6 DEF Generate, diagnosisVars
<1>7. CASE Admit BY <1>2, <1>7 DEF Admit, diagnosisVars
<1>8. CASE Validate BY <1>2, <1>8 DEF Validate, diagnosisVars
<1>9. CASE Propose BY <1>1, <1>9 DEF Propose, End, NoVerdict
<1>10. CASE Abandon BY <1>1, <1>10 DEF Abandon, Stop, End, NoVerdict
<1>11. CASE Push BY <1>2, <1>11 DEF Push, diagnosisVars
<1>12. CASE UNCHANGED proposalVars
  <2>1. UNCHANGED <<stage, fault, face, said, item, verdict>>
    BY <1>12 DEF proposalVars, diagnosisVars
  <2> QED BY <2>1 DEF CauseInv, SeenWell, DiagnosedOnce, CauseKept, Unknown
<1> QED BY <1>3, <1>4, <1>5, <1>6, <1>7, <1>8, <1>9, <1>10, <1>11, <1>12 DEF ProposalNext

(* Whatever happens to a pod between its being queued and its diagnosis,   *)
(* a reason that names a fault leads to the patch for that fault, unless   *)
(* the pod has another by then, an event of another is kept, the image is  *)
(* for another CPU, or a quoted name or message contains a needle of a     *)
(* classifier that is asked earlier (classifyPodIssue).                    *)
THEOREM CauseIsKept == ProposalSpec => []CauseKept
<1>1. ProposalInit => CauseInv
  <2> SUFFICES ASSUME ProposalInit PROVE CauseInv OBVIOUS
  <2>1. fault \in Fault /\ face \in Looks[fault] /\ item = NoItem /\ verdict = NoVerdict
        /\ stage = "diagnose"
    BY DEF ProposalInit, DiagnosisInit
  <2> QED BY <2>1 DEF CauseInv, SeenWell, DiagnosedOnce, CauseKept, NoItem, NoVerdict, Expected
<1>2. CauseInv => CauseKept BY DEF CauseInv
<1> QED BY <1>1, <1>2, CauseStep, PTL DEF ProposalSpec

-----------------------------------------------------------------------------
(* Where a change is placed: a new file in the directory of its own below  *)
(* one of the places, any other directly in a place.                       *)
Here ==
    Managed(world) \cup (IF Managed(world) = {} \/ world.failed THEN Noted(world) ELSE {})
NewFile(dir) == dir \o <<"fixora-patches", "generated.yaml">>
PlacedNew(repo, path) == \E p \in Here : p[1] = repo /\ path = NewFile(p[2])
PlacedOld(repo, path) == <<repo, Front(path)>> \in Here

(* What is gathered on the way: of the sources, of what was discovered in  *)
(* them and of what was admitted, everything is placed.                    *)
WorldKept == stage \in {"gather", "admit", "plan"} => WorldOK(world)
SourcesPlaced ==
    stage = "gather" =>
        Proper(sources) /\ \A place \in PlacesOf(sources) : Unplaced(place) \/ place \in Here
FoundPlaced ==
    \A r \in DOMAIN repoMap :
        /\ \A path \in repoMap[r].allowed : PlacedOld(r, path)
        /\ \A path \in repoMap[r].new : PlacedNew(r, path)
GatedPlaced ==
    \A c \in gated : IF c.create THEN PlacedNew(c.repo, c.path) ELSE PlacedOld(c.repo, c.path)
PlaceInv ==
    /\ Staged
    /\ stage = "diagnose" => DOMAIN repoMap = {} /\ gated = {}
    /\ WorldKept /\ SourcesPlaced /\ FoundPlaced /\ GatedPlaced /\ KeptByGitOps

(* Whether a read failed changes the cluster in nothing else.              *)
LEMMA FailedAlone ==
    ASSUME NEW w, WorldOK(w), NEW failed
    PROVE  LET v == Override(w, [failed |-> failed])
           IN  /\ WorldOK(v) /\ v.failed = failed
               /\ Managed(v) = Managed(w) /\ Noted(v) = Noted(w)
<1> DEFINE v == Override(w, [failed |-> failed])
<1>1. /\ v.owned = w.owned /\ v.argo = w.argo /\ v.kustomizations = w.kustomizations
      /\ v.releases = w.releases /\ v.release = w.release /\ v.note = w.note
      /\ v.failed = failed /\ DOMAIN w \subseteq DOMAIN v
  BY DEF Override, WorldOK
<1> HIDE DEF v
<1>2. WorldOK(v) BY <1>1 DEF WorldOK
<1>3. Managed(v) = Managed(w) BY <1>1 DEF Managed
<1>4. Noted(v) = Noted(w) BY <1>1 DEF Noted
<1> QED BY <1>1, <1>2, <1>3, <1>4 DEF v

(* Every place is a path.                                                  *)
LEMMA PlaceIsPath ==
    ASSUME NEW w, WorldOK(w), NEW p \in Managed(w) \cup Noted(w)
    PROVE  p = <<p[1], p[2]>> /\ Listing(p[2])
<1>1. \A s, x : Located(s) /\ x \in ToSet(s) => Listing(x.path)
  BY DEF Located, ToSet
<1>2. /\ \A a \in ToSet(w.argo) : Located(a.sources)
      /\ Located(w.kustomizations) /\ Located(w.releases) /\ Located(w.note)
  BY DEF WorldOK, ToSet
<1>3. \E x : p = <<x.repo, x.path>> /\ Listing(x.path)
  <2>1. CASE p \in Noted(w) BY <1>1, <1>2, <2>1 DEF Noted
  <2>2. CASE p \in Managed(w)
    <3>1. \/ \E a \in ToSet(w.argo) : \E x \in ToSet(a.sources) : p = <<x.repo, x.path>>
          \/ \E x \in ToSet(w.kustomizations) : p = <<x.repo, x.path>>
          \/ \E x \in ToSet(w.releases) : p = <<x.repo, x.path>>
      BY <2>2 DEF Managed
    <3> QED BY <1>1, <1>2, <3>1
  <2> QED BY <2>1, <2>2
<1> QED BY <1>3

(* The file that may be added is two segments below its place.             *)
LEMMA NewFileBelow ==
    ASSUME NEW dir, Listing(dir)
    PROVE  SubSeq(NewFile(dir), 1, Len(NewFile(dir)) - 2) = dir
<1> DEFINE new == <<"fixora-patches", "generated.yaml">>
<1>1. Listing(new) /\ Len(new) = 2 BY DEF Listing, ToSet
<1> HIDE DEF new
<1>2. /\ Listing(dir \o new) /\ Len(dir \o new) = Len(dir) + 2
      /\ \A i \in 1..Len(dir) : (dir \o new)[i] = dir[i]
  <2>1. Listing(dir) OBVIOUS
  <2>2. /\ Listing(dir \o new) /\ Len(dir \o new) = Len(dir) + Len(new)
        /\ \A i \in 1..Len(dir) : (dir \o new)[i] = dir[i]
    BY <1>1, <2>1, ListingConcat, Zenon
  <2> QED BY <1>1, <2>2
<1>3. Len(dir) \in Nat /\ dir = [i \in 1..Len(dir) |-> dir[i]] BY ListingDomain
<1>4. dir \o new \in Seq(ToSet(dir \o new)) BY <1>2 DEF Listing
<1>5. SubSeq(dir \o new, 1, Len(dir)) = [i \in 1..Len(dir) |-> (dir \o new)[i]]
  BY <1>2, <1>3, <1>4
<1>6. SubSeq(dir \o new, 1, Len(dir)) = dir BY <1>2, <1>3, <1>5
<1>7. Len(dir \o new) - 2 = Len(dir) BY <1>2, <1>3
<1> QED BY <1>6, <1>7 DEF NewFile, new

(* What is placed is kept by GitOps.                                       *)
LEMMA PlacedKept ==
    ASSUME WorldOK(world), NEW c,
           IF c.create THEN PlacedNew(c.repo, c.path) ELSE PlacedOld(c.repo, c.path)
    PROVE  Directory(c) \in Here
<1>0. Here \subseteq Managed(world) \cup Noted(world) BY DEF Here
<1>1. CASE c.create
  <2>1. PICK p \in Here : p[1] = c.repo /\ c.path = NewFile(p[2]) BY <1>1 DEF PlacedNew, PlacedOld
  <2>2. SubSeq(c.path, 1, Len(c.path) - 2) = p[2] BY <1>0, <2>1, PlaceIsPath, NewFileBelow
  <2>3. p = <<p[1], p[2]>> BY <1>0, <2>1, PlaceIsPath
  <2> QED BY <1>1, <2>1, <2>2, <2>3 DEF Directory
<1>2. CASE ~c.create BY <1>2 DEF Directory, PlacedOld, Front
<1> QED BY <1>1, <1>2

-----------------------------------------------------------------------------
(* What proposes nothing misplaces nothing.                                *)
LEMMA NothingMisplaced == ASSUME outcome' = Nothing PROVE KeptByGitOps'
<1>1. outcome'.plans = {} BY DEF Nothing
<1>2. Proposed' = {} BY <1>1 DEF Proposed
<1> QED BY <1>2 DEF KeptByGitOps

(* A step that leaves the cluster, the discovered files and the admitted   *)
(* changes alone leaves what is placed.                                    *)
LEMMA PlaceUndisturbed ==
    ASSUME PlaceInv, stage \in {"gather", "admit", "plan"}, stage' \in {"gather", "admit", "plan"},
           UNCHANGED <<world, repoMap, gated, outcome>>,
           stage' = "gather" => stage = "gather" /\ UNCHANGED sources
    PROVE  PlaceInv'
<1>1. Here' = Here BY DEF Here
<1>2. outcome' = Nothing BY DEF PlaceInv, Staged
<1>3. WorldKept' BY DEF PlaceInv, Staged, WorldKept
<1>4. SourcesPlaced' BY <1>1 DEF PlaceInv, Staged, SourcesPlaced
<1>5. FoundPlaced' BY <1>1 DEF PlaceInv, Staged, FoundPlaced, PlacedNew, PlacedOld
<1>6. GatedPlaced' BY <1>1 DEF PlaceInv, Staged, GatedPlaced, PlacedNew, PlacedOld
<1> QED BY <1>2, <1>3, <1>4, <1>5, <1>6, NothingMisplaced DEF PlaceInv, Staged

(* The resolver names places only.                                         *)
LEMMA ResolvePlaced == ASSUME PlaceInv, Resolve PROVE PlaceInv'
<1>0. PICK w \in World : \E lost \in SUBSET Reads(w) :
        world' = Override(w, [failed |-> lost # {}]) /\ sources' = ResolvePod(w, lost)
  BY DEF Resolve
<1>1. PICK lost \in SUBSET Reads(w) :
        world' = Override(w, [failed |-> lost # {}]) /\ sources' = ResolvePod(w, lost)
  BY <1>0
<1>2. WorldOK(w) BY ProposalAssumption
<1>3. /\ WorldOK(world') /\ world'.failed = (lost # {})
      /\ Managed(world') = Managed(w) /\ Noted(world') = Noted(w)
  BY <1>1, <1>2, FailedAlone
<1>4. Proper(sources') /\ \A place \in PlacesOf(sources') : Unplaced(place) \/ place \in Here'
  BY <1>1, <1>2, <1>3, ResolvedPlaces DEF Here
<1>5. /\ stage' = "gather" /\ outcome' = Nothing /\ DOMAIN repoMap' = {} /\ gated' = {}
  BY DEF Resolve, PlaceInv, Staged
<1> QED BY <1>3, <1>4, <1>5, NothingMisplaced
        DEF PlaceInv, Staged, WorldKept, SourcesPlaced, FoundPlaced, GatedPlaced

(* The source that is listed, and those that are left.                     *)
LEMMA HeadAndTail ==
    ASSUME NEW s, Proper(s), s # <<>>
    PROVE  /\ Head(s) \in ToSet(s) /\ Proper(Tail(s)) /\ ToSet(Tail(s)) \subseteq ToSet(s)
<1>1. s \in Seq(ToSet(s)) BY DEF Proper, Listing
<1>2. Head(s) \in ToSet(s) BY <1>1
<1>3. Tail(s) \in Seq(ToSet(s)) BY <1>1
<1>4. ToSet(Tail(s)) \subseteq ToSet(s) BY <1>3 DEF ToSet
<1>5. Tail(s) \in Seq(ToSet(Tail(s)))
  <2> DEFINE u == Tail(s)
  <2>1. u \in Seq(ToSet(s)) BY <1>3
  <2> HIDE DEF u
  <2>2. \A i \in 1..Len(u) : u[i] \in ToSet(u) BY <2>1 DEF ToSet
  <2>3. u \in Seq(ToSet(u)) BY <2>1, <2>2
  <2> QED BY <2>3 DEF u
<1> QED BY <1>2, <1>4, <1>5 DEF Proper, Listing

(* What a source adds is in its own directory, or below it.                *)
LEMMA DiscoverPlaced ==
    ASSUME FoundPlaced, NEW source, IsSource(source), <<source.repo, source.path>> \in Here, NEW m,
           NEW files \in SUBSET Listed(source)
    PROVE  LET known == Discover([source EXCEPT !.manifest = m], files)
           IN  /\ \A path \in known.allowed : PlacedOld(source.repo, path)
               /\ \A path \in known.new : PlacedNew(source.repo, path)
<1> DEFINE s == [source EXCEPT !.manifest = m]
<1>1. s.repo = source.repo /\ s.path = source.path BY DEF IsSource, Source
<1> HIDE DEF s
<1>2. /\ \A path \in Known(s.repo).allowed : PlacedOld(s.repo, path)
      /\ \A path \in Known(s.repo).new : PlacedNew(s.repo, path)
  BY DEF FoundPlaced, Known, Undiscovered
<1>3. \A path \in files : PlacedOld(s.repo, path) BY <1>1 DEF Listed, PlacedOld
<1>4. \A path \in allowedNewPatchFiles(s) : PlacedNew(s.repo, path)
  <2> SUFFICES ASSUME s.manifest = "kustomize" PROVE PlacedNew(s.repo, NewFile(s.path))
    BY DEF allowedNewPatchFiles, NewFile
  <2> QED BY <1>1 DEF PlacedNew, PlacedOld
<1> QED BY <1>1, <1>2, <1>3, <1>4 DEF Discover, s

(* Each source leaves what the earlier ones found.                         *)
LEMMA ListPlaced == ASSUME PlaceInv, List PROVE PlaceInv'
<1> DEFINE source == Head(sources)
<1>1. /\ stage = "gather" /\ stage' = "gather" /\ sources # <<>> /\ sources' = Tail(sources)
      /\ UNCHANGED <<world, gated, outcome>> /\ outcome' = Nothing
  BY DEF List, PlaceInv, Staged
<1>2. Here' = Here BY <1>1 DEF Here
<1>3. Proper(sources) /\ \A place \in PlacesOf(sources) : Unplaced(place) \/ place \in Here
  BY <1>1 DEF PlaceInv, SourcesPlaced
<1>4. /\ Proper(sources') /\ PlacesOf(sources') \subseteq PlacesOf(sources)
      /\ IsSource(source) /\ <<source.repo, source.path>> \in PlacesOf(sources)
  BY <1>1, <1>3, HeadAndTail DEF PlacesOf, Proper
<1> HIDE DEF source
<1>5. FoundPlaced'
  <2>1. CASE UNCHANGED repoMap BY <1>2, <2>1 DEF PlaceInv, Staged, FoundPlaced, PlacedNew, PlacedOld
  <2>2. ASSUME NEW m, NEW files \in SUBSET Listed(source), source.repo \in Trusted,
               repoMap' = [r \in DOMAIN repoMap \cup {source.repo} |->
                              IF r = source.repo THEN Discover([source EXCEPT !.manifest = m], files)
                              ELSE repoMap[r]]
        PROVE  FoundPlaced'
    <3>a. <<source.repo, source.path>> \in Here
      BY <1>3, <1>4, <2>2, ProposalAssumption DEF Unplaced
    <3>0. FoundPlaced BY DEF PlaceInv, Staged
    <3>1. SUFFICES ASSUME NEW r \in DOMAIN repoMap'
                   PROVE  /\ \A path \in repoMap'[r].allowed : PlacedOld(r, path)
                          /\ \A path \in repoMap'[r].new : PlacedNew(r, path)
      BY <1>2 DEF FoundPlaced, PlacedNew, PlacedOld
    <3>2. CASE r = source.repo BY <1>4, <2>2, <3>a, <3>0, <3>2, DiscoverPlaced
    <3>3. CASE r # source.repo BY <2>2, <3>0, <3>3 DEF FoundPlaced
    <3> QED BY <3>2, <3>3
  <2> QED BY <2>1, <2>2 DEF List, source
<1>6. WorldKept' BY <1>1 DEF PlaceInv, Staged, WorldKept
<1>7. GatedPlaced' BY <1>1, <1>2 DEF PlaceInv, Staged, GatedPlaced, PlacedNew, PlacedOld
<1>8. SourcesPlaced' BY <1>2, <1>3, <1>4 DEF SourcesPlaced
<1> QED BY <1>1, <1>5, <1>6, <1>7, <1>8, NothingMisplaced DEF PlaceInv, Staged

(* A patch is for a file that was discovered, or the one that may be new.  *)
LEMMA AdmitPlaced == ASSUME PlaceInv, Admit PROVE PlaceInv'
<1> DEFINE patch == Head(answer)
<1>1. stage = "admit" /\ stage' = "admit" /\ UNCHANGED <<world, repoMap, outcome>>
      /\ outcome' = Nothing
  BY DEF Admit, PlaceInv, Staged, found
<1>2. PICK old, new : gated' = gated \cup {Change(patch, old, new)} BY DEF Admit
<1>3. patch.repo \in DOMAIN repoMap
      /\ patch.path \in repoMap[patch.repo].allowed \cup repoMap[patch.repo].new
  BY DEF Admit, Admissible, Known
<1> HIDE DEF patch
<1> DEFINE c == Change(patch, old, new)
<1>4. c.repo = patch.repo /\ c.path = patch.path
      /\ c.create = (patch.path \in repoMap[patch.repo].new)
  BY DEF Change
<1> HIDE DEF c
<1>5. IF c.create THEN PlacedNew(c.repo, c.path) ELSE PlacedOld(c.repo, c.path)
  <2>0. FoundPlaced BY DEF PlaceInv, Staged
  <2>1. CASE patch.path \in repoMap[patch.repo].new
    <3>1. PlacedNew(c.repo, c.path) BY <1>3, <1>4, <2>0, <2>1 DEF FoundPlaced
    <3>2. c.create BY <1>4, <2>1
    <3> QED BY <3>1, <3>2
  <2>2. CASE patch.path \notin repoMap[patch.repo].new
    <3>1. PlacedOld(c.repo, c.path) BY <1>3, <1>4, <2>0, <2>2 DEF FoundPlaced
    <3>2. ~c.create BY <1>4, <2>2
    <3> QED BY <3>1, <3>2
  <2> QED BY <2>1, <2>2
<1>6. Here' = Here BY <1>1 DEF Here
<1>7. GatedPlaced' BY <1>2, <1>5, <1>6 DEF PlaceInv, Staged, GatedPlaced, PlacedNew, PlacedOld, c
<1>8. FoundPlaced' BY <1>1, <1>6 DEF PlaceInv, Staged, FoundPlaced, PlacedNew, PlacedOld
<1>9. WorldKept' /\ SourcesPlaced' BY <1>1 DEF PlaceInv, Staged, WorldKept, SourcesPlaced
<1> QED BY <1>1, <1>7, <1>8, <1>9, NothingMisplaced DEF PlaceInv, Staged

(* The checks only take changes away.                                      *)
LEMMA ValidatePlaced == ASSUME PlaceInv, Validate PROVE PlaceInv'
<1>1. /\ stage = "admit" /\ stage' = "plan" /\ UNCHANGED <<world, repoMap, outcome>>
      /\ outcome' = Nothing /\ gated' \subseteq gated
  BY DEF Validate, PlaceInv, Staged, found, Real
<1>2. Here' = Here BY <1>1 DEF Here
<1>3. GatedPlaced' BY <1>1, <1>2 DEF PlaceInv, Staged, GatedPlaced, PlacedNew, PlacedOld
<1>4. FoundPlaced' BY <1>1, <1>2 DEF PlaceInv, Staged, FoundPlaced, PlacedNew, PlacedOld
<1>5. WorldKept' /\ SourcesPlaced' BY <1>1 DEF PlaceInv, Staged, WorldKept, SourcesPlaced
<1> QED BY <1>1, <1>3, <1>4, <1>5, NothingMisplaced DEF PlaceInv, Staged

LEMMA ProposedAdmitted ==
    ASSUME Propose
    PROVE  /\ stage = "plan" /\ stage' = "done" /\ world' = world /\ Proposed' \subseteq gated
           /\ gated' = {} /\ DOMAIN repoMap' = {}
BY ProposeEnds DEF Proposed

(* What is proposed was admitted, for the same cluster.                    *)
LEMMA ProposePlaced == ASSUME PlaceInv, Propose PROVE PlaceInv'
<1>1. /\ stage = "plan" /\ stage' = "done" /\ world' = world /\ Proposed' \subseteq gated
      /\ gated' = {} /\ DOMAIN repoMap' = {}
  BY ProposedAdmitted
<1>2. WorldOK(world) /\ GatedPlaced BY <1>1 DEF PlaceInv, Staged, WorldKept
<1>3. KeptByGitOps'
  <2>1. Here' = Here BY <1>1 DEF Here
  <2>2. \A c \in Proposed' : Directory(c) \in Here
    <3> TAKE c \in Proposed'
    <3>1. IF c.create THEN PlacedNew(c.repo, c.path) ELSE PlacedOld(c.repo, c.path)
      BY <1>1, <1>2 DEF GatedPlaced
    <3> QED BY <1>2, <3>1, PlacedKept
  <2> QED BY <2>1, <2>2 DEF KeptByGitOps, Here
<1> QED BY <1>1, <1>3 DEF PlaceInv, Staged, WorldKept, SourcesPlaced, FoundPlaced, GatedPlaced

LEMMA PlaceStep == ASSUME PlaceInv, [ProposalNext]_proposalVars PROVE PlaceInv'
<1>1. CASE Diagnosing
  <2>1. /\ stage = "diagnose" /\ UNCHANGED <<stage, repoMap, gated, outcome>> /\ outcome' = Nothing
        /\ DOMAIN repoMap' = {} /\ gated' = {}
    BY <1>1 DEF Diagnosing, found, PlaceInv, Staged
  <2> QED BY <2>1, NothingMisplaced
          DEF PlaceInv, Staged, WorldKept, SourcesPlaced, FoundPlaced, GatedPlaced
<1>2. CASE Resolve BY <1>2, ResolvePlaced
<1>3. CASE List BY <1>3, ListPlaced
<1>4. CASE Generate BY <1>4, PlaceUndisturbed DEF Generate, found
<1>5. CASE Admit BY <1>5, AdmitPlaced
<1>6. CASE Validate BY <1>6, ValidatePlaced
<1>7. CASE Propose BY <1>7, ProposePlaced
<1>8. CASE Abandon
  <2>1. stage' = "done" /\ outcome' = Nothing /\ DOMAIN repoMap' = {} /\ gated' = {}
    BY <1>8 DEF Abandon, Stop, End, Empty
  <2> QED BY <2>1, NothingMisplaced
          DEF PlaceInv, Staged, WorldKept, SourcesPlaced, FoundPlaced, GatedPlaced
<1>9. CASE Push BY <1>9, PlaceUndisturbed DEF Push, found
<1>10. CASE UNCHANGED proposalVars
  <2>1. UNCHANGED <<stage, world, sources, repoMap, gated, outcome>>
    BY <1>10 DEF proposalVars, found
  <2>2. Here' = Here /\ Proposed' = Proposed BY <2>1 DEF Here, Proposed
  <2>3. WorldKept' /\ SourcesPlaced' BY <2>1, <2>2 DEF PlaceInv, Staged, WorldKept, SourcesPlaced
  <2>4. FoundPlaced' BY <2>1, <2>2 DEF PlaceInv, Staged, FoundPlaced, PlacedNew, PlacedOld
  <2>5. GatedPlaced' BY <2>1, <2>2 DEF PlaceInv, Staged, GatedPlaced, PlacedNew, PlacedOld
  <2>6. KeptByGitOps' BY <2>1, <2>2 DEF PlaceInv, Staged, KeptByGitOps
  <2> QED BY <2>1, <2>3, <2>4, <2>5, <2>6 DEF PlaceInv, Staged
<1> QED BY <1>1, <1>2, <1>3, <1>4, <1>5, <1>6, <1>7, <1>8, <1>9, <1>10 DEF ProposalNext

(* A proposal changes the workload only where GitOps keeps it, or where    *)
(* its annotations say, that only if nothing manages it or a read of what  *)
(* manages it failed: no source and no file that was collected on the way  *)
(* belongs to another directory (ResolvePod, handleRemediation).           *)
THEOREM ProposalsPlaced == ProposalSpec => []KeptByGitOps
<1>1. ProposalInit => PlaceInv
  <2> SUFFICES ASSUME ProposalInit PROVE PlaceInv OBVIOUS
  <2>1. /\ stage = "diagnose" /\ outcome = Nothing /\ DOMAIN repoMap = {} /\ gated = {}
    BY DEF ProposalInit, Empty
  <2>2. outcome.plans = {} BY <2>1 DEF Nothing
  <2>3. Proposed = {} BY <2>2 DEF Proposed
  <2> QED BY <2>1, <2>3
          DEF PlaceInv, Staged, WorldKept, SourcesPlaced, FoundPlaced, GatedPlaced, KeptByGitOps
<1>2. PlaceInv => KeptByGitOps BY DEF PlaceInv, Staged
<1> QED BY <1>1, <1>2, PlaceStep, PTL DEF ProposalSpec

-----------------------------------------------------------------------------
(* The image fix of a bare Pod, while it is admitted: what is merged is    *)
(* the file as it was read, but for the image and how it is pulled.        *)
ImageOnly(c) ==
    /\ DOMAIN c.new = {1} /\ ImageOf(c.new) = ImageOf(c.wrote)
    /\ Besides(c.new[1], {"image", "pull"}) = Besides(c.old[1], {"image", "pull"})
MergedRight(c, manifest) ==
    verdict.strategy = "Image" /\ manifest = "raw" /\ NewPodImage(c) => ImageOnly(c)

MergeInv ==
    /\ Staged
    /\ stage \in {"diagnose", "gather"} => gated = {}
    /\ FilesOK(tree)
    /\ \A c \in gated : MergedRight(c, repoMap[c.repo].source.manifest)
    /\ PodImageOnly

(* Rewriting some groups of fields leaves a document the same besides them.*)
LEMMA BesidesFields ==
    ASSUME NEW doc, "fields" \in DOMAIN doc, NEW fields, NEW groups,
           DOMAIN fields \ groups = DOMAIN doc.fields \ groups,
           \A x \in DOMAIN doc.fields \ groups : fields[x] = doc.fields[x]
    PROVE  Besides([doc EXCEPT !.fields = fields], groups) = Besides(doc, groups)
<1> DEFINE new == [doc EXCEPT !.fields = fields]
<1>1. new.fields = fields /\ DOMAIN new = DOMAIN doc
      /\ \A x \in DOMAIN doc \ {"fields"} : new[x] = doc[x]
  OBVIOUS
<1>2. [x \in DOMAIN fields \ groups |-> fields[x]]
        = [x \in DOMAIN doc.fields \ groups |-> doc.fields[x]]
  OBVIOUS
<1>3. Besides(new, groups)
        = [new EXCEPT !.fields = [x \in DOMAIN doc.fields \ groups |-> doc.fields[x]]]
  BY <1>1, <1>2 DEF Besides
<1> HIDE DEF new
<1> DEFINE rest == [x \in DOMAIN doc.fields \ groups |-> doc.fields[x]]
<1>4. /\ Besides(new, groups) = [new EXCEPT !.fields = rest]
      /\ Besides(doc, groups) = [doc EXCEPT !.fields = rest]
  BY <1>3 DEF Besides
<1> HIDE DEF rest
<1>5. [new EXCEPT !.fields = rest] = [doc EXCEPT !.fields = rest]
  BY <1>1
<1> QED BY <1>4, <1>5 DEF new

(* MergePod for one document: a plain image line is replaced, any other    *)
(* document written back with its image and pull policy changed.           *)
LEMMA PodMerged ==
    ASSUME NEW old, DOMAIN old = {1}, {"kind", "fields"} \subseteq DOMAIN old[1],
           "image" \in DOMAIN old[1].fields, NEW wrote, "image" \in DOMAIN wrote[1].fields,
           ImageOf(wrote) # ImageOf(old)
    PROVE  LET new == MergePod(old, wrote, "Image")
           IN  /\ DOMAIN new = {1} /\ new[1].kind = old[1].kind /\ new # <<>>
               /\ ImageOf(new) = ImageOf(wrote)
               /\ Besides(new[1], {"image", "pull"}) = Besides(old[1], {"image", "pull"})
<1> DEFINE G == {"image", "pull"}
           F == old[1].fields
           D == Changed(old[1], wrote[1], "Image")
<1>1. "image" \in DOMAIN D /\ DOMAIN D \subseteq G /\ D["image"] = ImageOf(wrote)
  BY DEF Changed, Differing, containerPatchFields, ImageOf
<1> HIDE DEF D
<1> DEFINE once == [old EXCEPT ![1].fields["image"] = D["image"]]
           back == <<[old[1] EXCEPT !.fields = Override(F, D)]>>
<1>2. MergePod(old, wrote, "Image") \in {once, back}
  BY <1>1 DEF MergePod, D
<1>3. ASSUME NEW new, NEW fields, DOMAIN new = {1}, new[1] = [old[1] EXCEPT !.fields = fields],
             fields["image"] = D["image"], DOMAIN fields \ G = DOMAIN F \ G,
             \A x \in DOMAIN F \ G : fields[x] = F[x]
      PROVE  /\ DOMAIN new = {1} /\ new[1].kind = old[1].kind /\ new # <<>>
             /\ ImageOf(new) = ImageOf(wrote)
             /\ Besides(new[1], G) = Besides(old[1], G)
  <2>1. Besides(new[1], G) = Besides(old[1], G) BY <1>3, BesidesFields
  <2>2. new[1].kind = old[1].kind /\ new[1].fields = fields BY <1>3
  <2>3. new # <<>> BY <1>3
  <2> QED BY <1>1, <1>3, <2>1, <2>2, <2>3 DEF ImageOf
<1>4. CASE MergePod(old, wrote, "Image") = once
  <2> DEFINE fields == [F EXCEPT !["image"] = D["image"]]
  <2>1. DOMAIN once = {1} /\ once[1] = [old[1] EXCEPT !.fields = fields] OBVIOUS
  <2>2. fields["image"] = D["image"] /\ DOMAIN fields = DOMAIN F
        /\ \A x \in DOMAIN F \ G : fields[x] = F[x]
    OBVIOUS
  <2> HIDE DEF fields, once
  <2> QED BY <1>3, <1>4, <2>1, <2>2
<1>5. CASE MergePod(old, wrote, "Image") = back
  <2> DEFINE fields == Override(F, D)
  <2>1. DOMAIN back = {1} /\ back[1] = [old[1] EXCEPT !.fields = fields] OBVIOUS
  <2>2. fields["image"] = D["image"] /\ DOMAIN fields \ G = DOMAIN F \ G
        /\ \A x \in DOMAIN F \ G : fields[x] = F[x]
    BY <1>1 DEF Override
  <2> HIDE DEF fields, back
  <2> QED BY <1>3, <1>5, <2>1, <2>2
<1> QED BY <1>2, <1>4, <1>5

(* So does the merge of a whole answer, if it is not refused.              *)
LEMMA AnswerMerged ==
    ASSUME NEW old, \A i \in DOMAIN old : {"kind", "fields"} \subseteq DOMAIN old[i],
           NEW wrote, NEW pod, NEW c, c.old = old, c.wrote = wrote, NewPodImage(c),
           Merge(old, wrote, "raw", "Image", pod).ok,
           c.new = Merge(old, wrote, "raw", "Image", pod).content
    PROVE  ImageOnly(c)
<1> DEFINE new == MergePod(old, wrote, "Image")
<1>1. /\ DOMAIN old = {1} /\ old[1].kind = "Pod" /\ "image" \in DOMAIN old[1].fields
      /\ wrote # <<>> /\ wrote[1].kind = "Pod" /\ "image" \in DOMAIN wrote[1].fields
      /\ ImageOf(wrote) # ImageOf(old) /\ {"kind", "fields"} \subseteq DOMAIN old[1]
  BY DEF NewPodImage
<1>2. old # <<>>
  <2>1. 1 \in DOMAIN old BY <1>1
  <2> QED BY <2>1
<1>3. /\ DOMAIN new = {1} /\ new[1].kind = "Pod" /\ new # <<>>
      /\ ImageOf(new) = ImageOf(wrote)
      /\ Besides(new[1], {"image", "pull"}) = Besides(old[1], {"image", "pull"})
  BY <1>1, PodMerged
<1> HIDE DEF new
<1>4. applyRawManifestPatch(old, wrote, "raw", "Image", pod) \in {Refusal, Kept(new)}
  BY <1>1, <1>2 DEF applyRawManifestPatch, IsKubernetesManifest, NoKind, Helmlike, new
<1>5. applyRawManifestPatch(old, wrote, "raw", "Image", pod) = Kept(new)
  BY <1>4 DEF Merge, Refusal
<1>6. ~isSurgicalContainerSnippet(new)
  BY <1>3 DEF isSurgicalContainerSnippet, IsKubernetesManifest, NoKind
<1>7. c.new = new BY <1>5, <1>6 DEF Merge, Kept
<1> QED BY <1>3, <1>7 DEF ImageOnly


-----------------------------------------------------------------------------
(* What proposes nothing merges nothing.                                   *)
LEMMA NothingMerged == ASSUME outcome' = Nothing PROVE PodImageOnly'
<1>1. outcome'.plans = {} BY DEF Nothing
<1> QED BY <1>1 DEF PodImageOnly

(* A step that admits no change leaves the merged ones.                    *)
LEMMA MergeUndisturbed ==
    ASSUME MergeInv, stage # "done", stage' \in {"diagnose", "gather", "admit", "plan"},
           UNCHANGED <<outcome, repoMap, verdict>>, gated' \subseteq gated, FilesOK(tree'),
           stage' \in {"diagnose", "gather"} => stage \in {"diagnose", "gather"}
    PROVE  MergeInv'
<1>1. outcome' = Nothing BY DEF MergeInv, Staged
<1>2. \A c \in gated' : MergedRight(c, repoMap[c.repo].source.manifest)'
  BY DEF MergeInv, MergedRight
<1>3. stage' \in {"diagnose", "gather"} => gated' = {} BY DEF MergeInv, Staged
<1> QED BY <1>1, <1>2, <1>3, NothingMerged DEF MergeInv, Staged

(* A push leaves every document with a kind and fields.                    *)
LEMMA PushFiles == ASSUME FilesOK(tree), Push PROVE FilesOK(tree')
<1>0. PICK branch \in DOMAIN tree : \E path \in DOMAIN tree[branch] :
        tree' = [tree EXCEPT ![branch][path][1].fields = Override(@, [other |-> "pushed"])]
  BY DEF Push
<1>1. PICK path \in DOMAIN tree[branch] :
        tree' = [tree EXCEPT ![branch][path][1].fields = Override(@, [other |-> "pushed"])]
  BY <1>0
<1> DEFINE file == tree[branch][path]
           fields == Override(file[1].fields, [other |-> "pushed"])
           doc == [file[1] EXCEPT !.fields = fields]
           pushed == [file EXCEPT ![1] = doc]
<1>2. tree' = [tree EXCEPT ![branch] = [tree[branch] EXCEPT ![path] = pushed]] BY <1>1
<1>3. DOMAIN pushed = DOMAIN file /\ DOMAIN doc = DOMAIN file[1]
      /\ \A i \in DOMAIN file : pushed[i] = IF i = 1 THEN doc ELSE file[i]
  OBVIOUS
<1> HIDE DEF doc
<1>4. \A i \in DOMAIN file : {"kind", "fields"} \subseteq DOMAIN file[i] BY DEF FilesOK
<1>5. \A i \in DOMAIN pushed : {"kind", "fields"} \subseteq DOMAIN pushed[i] BY <1>3, <1>4
<1> HIDE DEF pushed
<1> SUFFICES ASSUME NEW b \in DOMAIN tree', NEW p \in DOMAIN tree'[b], NEW i \in DOMAIN tree'[b][p]
             PROVE  {"kind", "fields"} \subseteq DOMAIN tree'[b][p][i]
  BY DEF FilesOK
<1>6. CASE b = branch /\ p = path
  <2>1. tree'[b][p] = pushed BY <1>2, <1>6
  <2> QED BY <1>5, <2>1
<1>7. CASE ~(b = branch /\ p = path)
  <2>1. b \in DOMAIN tree /\ p \in DOMAIN tree[b] /\ tree'[b][p] = tree[b][p] BY <1>2, <1>7
  <2> QED BY <2>1 DEF FilesOK
<1> QED BY <1>6, <1>7

(* An admitted patch is what Merge made of the file as it was read.        *)
LEMMA AdmitMerged == ASSUME MergeInv, Admit PROVE MergeInv'
<1> DEFINE patch == Head(answer)
           info == repoMap[patch.repo]
           branch == <<patch.repo, info.base>>
<1>1. /\ stage = "admit" /\ stage' = "admit" /\ outcome' = Nothing
      /\ UNCHANGED <<tree, repoMap, verdict>>
  BY DEF Admit, MergeInv, Staged, found, diagnosisVars
<1>2. PICK c : gated' = gated \cup {c} /\ MergedRight(c, repoMap[c.repo].source.manifest)
  <2>1. CASE patch.path \in info.allowed
    <3> DEFINE old == tree[branch][patch.path]
               merged == Merge(old, patch.content, info.source.manifest,
                               verdict.strategy, world.pod)
               c == Change(patch, old, merged.content)
    <3>1. /\ branch \in DOMAIN tree /\ patch.path \in DOMAIN tree[branch]
          /\ merged.ok /\ gated' = gated \cup {c}
      BY <2>1 DEF Admit
    <3>2. \A i \in DOMAIN old : {"kind", "fields"} \subseteq DOMAIN old[i]
      BY <3>1 DEF MergeInv, Staged, FilesOK
    <3>3. /\ c.old = old /\ c.wrote = patch.content /\ c.new = merged.content
          /\ c.repo = patch.repo
      BY DEF Change
    <3>4. ASSUME verdict.strategy = "Image", info.source.manifest = "raw", NewPodImage(c)
          PROVE  ImageOnly(c)
      <4>1. /\ Merge(old, patch.content, "raw", "Image", world.pod).ok
            /\ c.new = Merge(old, patch.content, "raw", "Image", world.pod).content
        BY <3>1, <3>3, <3>4
      <4> HIDE DEF c, merged, old, patch
      <4> QED BY <3>2, <3>3, <3>4, <4>1, AnswerMerged
    <3>5. MergedRight(c, repoMap[c.repo].source.manifest) BY <3>3, <3>4 DEF MergedRight
    <3> QED BY <3>1, <3>5
  <2>2. CASE patch.path \notin info.allowed
    <3> DEFINE c == Change(patch, <<>>, patch.content)
    <3>1. gated' = gated \cup {c} BY <2>2 DEF Admit
    <3>2. c.old = <<>> BY DEF Change
    <3>3. ~NewPodImage(c) BY <3>2 DEF NewPodImage
    <3> QED BY <3>1, <3>3 DEF MergedRight
  <2> QED BY <2>1, <2>2
<1>3. \A d \in gated' : MergedRight(d, repoMap[d.repo].source.manifest)'
  BY <1>1, <1>2 DEF MergeInv, Staged, MergedRight
<1> QED BY <1>1, <1>3, NothingMerged DEF MergeInv, Staged

(* A plan is judged by the source of its repository, as the merge was.     *)
LEMMA ProposeMerged == ASSUME MergeInv, Propose PROVE MergeInv'
<1>1. /\ stage' = "done" /\ gated' = {} /\ verdict'.strategy = verdict.strategy
      /\ \A p \in outcome'.plans :
            \A c \in p.changes : c \in gated /\ p.source = repoMap[c.repo].source
  BY ProposeEnds
<1>2. FilesOK(tree') BY DEF Propose, End, FilesOK, Empty
<1>3. PodImageOnly'
  <2> SUFFICES ASSUME NEW p \in outcome'.plans, NEW c \in p.changes,
                      verdict.strategy = "Image", p.source.manifest = "raw", NewPodImage(c)
               PROVE  ImageOnly(c)
    BY <1>1 DEF PodImageOnly, ImageOnly
  <2> QED BY <1>1 DEF MergeInv, Staged, MergedRight
<1> QED BY <1>1, <1>2, <1>3 DEF MergeInv, Staged

LEMMA MergeStep == ASSUME MergeInv, [ProposalNext]_proposalVars PROVE MergeInv'
<1>1. CASE Diagnosing
  <2>1. /\ stage = "diagnose" /\ stage' = "diagnose" /\ outcome' = Nothing /\ gated' = {}
        /\ tree' = tree
    BY <1>1 DEF Diagnosing, MergeInv, Staged
  <2> QED BY <2>1, NothingMerged DEF MergeInv, Staged
<1>2. CASE Resolve
  <2>1. stage' = "gather" /\ outcome' = Nothing /\ gated' = {} BY <1>2 DEF Resolve, MergeInv, Staged
  <2>2. FilesOK(tree') BY <1>2, ProposalAssumption DEF Resolve
  <2> QED BY <2>1, <2>2, NothingMerged DEF MergeInv, Staged
<1>3. CASE List
  <2>1. stage' = "gather" /\ outcome' = Nothing /\ gated' = {} /\ tree' = tree
    BY <1>3 DEF List, MergeInv, Staged
  <2> QED BY <2>1, NothingMerged DEF MergeInv, Staged
<1>4. CASE Generate
  BY <1>4, MergeUndisturbed DEF Generate, found, diagnosisVars, MergeInv, Staged
<1>5. CASE Admit BY <1>5, AdmitMerged
<1>6. CASE Validate
  BY <1>6, MergeUndisturbed DEF Validate, found, diagnosisVars, MergeInv, Staged, Real
<1>7. CASE Propose BY <1>7, ProposeMerged
<1>8. CASE Abandon
  <2>1. stage' = "done" /\ outcome' = Nothing /\ gated' = {} /\ tree' = Empty
    BY <1>8 DEF Abandon, Stop, End
  <2> QED BY <2>1, NothingMerged DEF MergeInv, Staged, FilesOK, Empty
<1>9. CASE Push
  <2>1. FilesOK(tree') BY <1>9, PushFiles DEF MergeInv, Staged
  <2> QED BY <1>9, <2>1, MergeUndisturbed DEF Push, found, diagnosisVars
<1>10. CASE UNCHANGED proposalVars
  <2>1. UNCHANGED <<stage, tree, repoMap, gated, outcome, verdict>>
    BY <1>10 DEF proposalVars, found, diagnosisVars
  <2>2. \A c \in gated' : MergedRight(c, repoMap[c.repo].source.manifest)'
    BY <2>1 DEF MergeInv, Staged, MergedRight
  <2>3. PodImageOnly' BY <2>1 DEF MergeInv, Staged, PodImageOnly
  <2> QED BY <2>1, <2>2, <2>3 DEF MergeInv, Staged
<1> QED BY <1>1, <1>2, <1>3, <1>4, <1>5, <1>6, <1>7, <1>8, <1>9, <1>10 DEF ProposalNext

(* Whatever else the AI rewrote in the manifest of a bare Pod, an image    *)
(* fix that is proposed changes its image and how it is pulled, for every  *)
(* file and every push in between (applyRawManifestPatch).                 *)
THEOREM PodImageAlone == ProposalSpec => []PodImageOnly
<1>1. ProposalInit => MergeInv
  <2> SUFFICES ASSUME ProposalInit PROVE MergeInv OBVIOUS
  <2>1. stage = "diagnose" /\ outcome = Nothing /\ gated = {} /\ tree = Empty BY DEF ProposalInit
  <2>2. outcome.plans = {} BY <2>1 DEF Nothing
  <2> QED BY <2>1, <2>2 DEF MergeInv, Staged, FilesOK, Empty, PodImageOnly
<1>2. MergeInv => PodImageOnly BY DEF MergeInv, Staged
<1> QED BY <1>1, <1>2, MergeStep, PTL DEF ProposalSpec
=============================================================================
