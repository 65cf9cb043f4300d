------------------------------- MODULE Diagnosis -------------------------------
(***************************************************************************)
(* What is wrong with a pod.  The informer names a reason from the pod it  *)
(* was shown; the worker reads the pod and its events again, later, and    *)
(* the first of eight classifiers that recognises a word in the reason,    *)
(* the events or the container states decides how the fault is to be       *)
(* patched.  A text is the set of the classifiers' needles it contains,    *)
(* those of Kubernetes' own words and those of the names and messages that *)
(* it quotes.                                                              *)
(***************************************************************************)
EXTENDS Integers, Sequences

CONSTANTS
    Fault,       \* the faults a pod may come to have, in Life
    Exposed,     \* whether a Service selects the pod
    Quotable     \* the needles that names, and messages of others, may contain

VARIABLES
    fault,       \* what is wrong with the pod
    face,        \* what the API server says of it
    said,        \* the events about it that are kept
    item,        \* the reason it is queued for, and what was wrong then
    verdict      \* the diagnosis

diagnosisVars == <<fault, face, said, item, verdict>>

(* What each classifier looks for, and the needles of the words that       *)
(* Kubernetes and Fixora write, in lower case; a waiting container has a   *)
(* message of the kubelet besides its reason.                              *)
Needles ==
    [SchedulingPolicy |-> {"unschedulable"},
     Image |-> {"imagepullbackoff", "errimagepull", "pull image"},
     EnvOrVolumeRef |-> {"createcontainerconfigerror", "secret", "configmap",
                         "couldn't find key", "not found"},
     PVC |-> {"failedmount", "persistentvolumeclaim", "timed out waiting for the condition"},
     Resources |-> {"oomkilled"},
     Probe |-> {"readiness probe failed", "liveness probe failed", "startup probe failed",
                "unhealthy", "health check"},
     Crash |-> {"crashloopbackoff", "exitcode:", "containercannotrun"}]
Marks == [none |-> {}, running |-> {}, Error |-> {}, BackOff |-> {}, Alert |-> {},
          PodFailed |-> {}, NodeNotReady |-> {}, Unschedulable |-> {"unschedulable"},
          Cordoned |-> {"unschedulable"}, ErrImagePull |-> {"errimagepull", "imagepull"},
          ImagePullBackOff |-> {"imagepullbackoff", "imagepull"},
          PullFailed |-> {"pull image", "errimagepull", "imagepull", "not found"},
          CreateContainerConfigError |-> {"createcontainerconfigerror"},
          MissingRef |-> {"secret", "not found"}, FailedMount |-> {"failedmount"},
          OOMKilled |-> {"oomkilled"}, Unhealthy |-> {"unhealthy", "readiness probe failed"},
          Unready |-> {"health check"}, CrashLoopBackOff |-> {"crashloopbackoff"},
          ExitCode |-> {"exitcode:"}]
Message(word) ==
    CASE word = "ErrImagePull" -> {"not found"}
      [] word = "CreateContainerConfigError" -> {"secret", "not found"}
      [] OTHER -> {}

Shows(phase, condition, init, main) ==
    [phase |-> phase, condition |-> condition, init |-> init, main |-> main]

(* What a fault looks like: one thing now, another a moment later.         *)
Looks ==
    [unschedulable |-> {Shows("Pending", "Unschedulable", "none", "none")},
     volume |-> {Shows("Pending", "none", "none", "none")},
     image |-> {Shows("Pending", "none", "none", w) : w \in {"ErrImagePull", "ImagePullBackOff"}},
     config |-> {Shows("Pending", "none", "none", "CreateContainerConfigError")},
     initoom |-> {Shows("Pending", "none", w, "none") : w \in {"OOMKilled", "CrashLoopBackOff"}},
     oom |-> {Shows("Running", "NotReady", "none", w) : w \in {"OOMKilled", "CrashLoopBackOff"}}
               \cup {Shows("Running", "none", "none", "running"), Shows("Failed", "none", "none", "OOMKilled")},
     crash |-> {Shows("Running", "NotReady", "none", w) : w \in {"Error", "CrashLoopBackOff"}}
                 \cup {Shows("Running", "none", "none", "running")},
     probe |-> {Shows("Running", "NotReady", "none", "running")},
     node |-> {Shows("Running", "NodeNotReady", "none", "running")}]

(* The events of a fault, and the order in which a pod can meet faults.    *)
EventsOf ==
    [unschedulable |-> {"Cordoned"}, volume |-> {"FailedMount"}, image |-> {"PullFailed"},
     config |-> {"MissingRef"}, initoom |-> {"BackOff"}, oom |-> {"BackOff"},
     crash |-> {"BackOff"}, probe |-> {"Unhealthy"}, node |-> {}]
Life == [unschedulable |-> 1, volume |-> 2, image |-> 3, config |-> 4, initoom |-> 2,
         oom |-> 5, crash |-> 5, probe |-> 5, node |-> 5]

ASSUME DiagnosisAssumption == Fault \subseteq DOMAIN Looks

NoItem == [reason |-> "none", fault |-> "none"]
NoVerdict == [strategy |-> "none", confidence |-> 0, reason |-> "none",
              mixed |-> FALSE, misled |-> FALSE]

DiagnosisInit ==
    /\ fault \in Fault /\ face \in Looks[fault] /\ said = {}
    /\ item = NoItem /\ verdict = NoVerdict

-----------------------------------------------------------------------------
(* The cluster: the kubelet reports, events come and expire, a pod that    *)
(* survives one fault meets a later one.                                   *)
Unknown == verdict = NoVerdict
Report ==
    /\ Unknown /\ face' \in Looks[fault]
    /\ said' \in {said, said \cup EventsOf[fault]}
    /\ UNCHANGED <<fault, item, verdict>>
Expire ==
    /\ Unknown /\ \E e \in said : said' = said \ {e}
    /\ UNCHANGED <<fault, face, item, verdict>>
Turn ==
    /\ Unknown /\ fault' \in {f \in Fault : Life[f] > Life[fault]}
    /\ face' \in Looks[fault']
    /\ UNCHANGED <<said, item, verdict>>

(* enqueuePod: the reason, by phase, conditions, init containers, then     *)
(* containers; "late" is a readiness lost for more than thirty seconds.    *)
Telling == {"CrashLoopBackOff", "CreateContainerConfigError", "ImagePullBackOff",
            "ErrImagePull", "OOMKilled"}
Named(word) == IF word = "Error" THEN "ExitCode" ELSE word
Reason(late) ==
    IF face.phase = "Failed" THEN "PodFailed"
    ELSE IF face.phase = "Pending" /\ face.condition = "Unschedulable" THEN "Unschedulable"
    ELSE IF face.condition = "NodeNotReady" THEN "NodeNotReady"
    ELSE IF face.init \in Telling \cup {"Error"} THEN Named(face.init)
    ELSE IF face.main \in Telling \cup {"Error"} THEN Named(face.main)
    ELSE IF face.phase = "Running" /\ face.condition = "NotReady" /\ late THEN "Unready"
    ELSE "none"

Queue(reason) ==
    /\ Unknown /\ item = NoItem /\ reason # "none"
    /\ item' = [reason |-> reason, fault |-> fault]
    /\ UNCHANGED <<fault, face, said, verdict>>
Enqueue == Queue("Alert") \/ \E late \in BOOLEAN : Queue(Reason(late))

-----------------------------------------------------------------------------
(* The two texts.  Each quotes what it likes, if it says anything at all:  *)
(* the states the names of their containers and, in messages, of pods,     *)
(* namespaces, images and keys, the events these and a probe's output.     *)
(* How a container ended last is in neither.                               *)
Stated == {face.init, face.main} \ {"none", "running"}
Quotes(words) == IF words = {} THEN {{}} ELSE SUBSET Quotable
summarizeContainerStates(quoted) ==
    quoted \cup UNION {Marks[w] \cup Message(w) : w \in Stated}
eventsToText(quoted) == quoted \cup UNION {Marks[e] : e \in said}

(* The classifiers.                                                        *)
Meets(text, needles) == text \cap needles # {}

classifyScheduling(trigger, events) ==
    \/ Meets(Marks[trigger] \cup events, Needles.SchedulingPolicy)
    \/ face.condition = "Unschedulable"
classifyImagePull(text) == Meets(text, Needles.Image)
classifyConfigError(text) ==
    Meets(text, Needles.EnvOrVolumeRef) /\ ~Meets(text, {"imagepull", "errimagepull"})
classifyStorage(claimPending, events) == claimPending \/ Meets(events, Needles.PVC)
(* Mutant: the reason the pod was queued for does not count.               *)
OOMNowOnly(trigger, states) == Meets(states, Needles.Resources)
classifyOOM(trigger, states) == Meets(Marks[trigger] \cup states, Needles.Resources)
classifyProbeFailure(trigger, events) == Meets(Marks[trigger] \cup events, Needles.Probe)
endpointsIncludePod == face.condition = "none"
classifyNetwork ==
    Exposed /\ face.phase = "Running" /\ ~endpointsIncludePod
classifyCrashLoop(trigger, states) == Meets(Marks[trigger] \cup states, Needles.Crash)

Rule(hit, strategy, confidence) ==
    [hit |-> hit, strategy |-> strategy, confidence |-> confidence]
classifyPodIssue(trigger, events, states, claimPending) ==
    LET text == Marks[trigger] \cup events \cup states
        rules == << Rule(classifyScheduling(trigger, events), "SchedulingPolicy", 82),
                    Rule(classifyImagePull(text), "Image", 88),
                    Rule(classifyConfigError(text), "EnvOrVolumeRef", 84),
                    Rule(classifyStorage(claimPending, events), "PVC", 82),
                    Rule(classifyOOM(trigger, states), "Resources", 90),
                    Rule(classifyProbeFailure(trigger, events), "Probe", 78),
                    Rule(classifyNetwork, "ServiceSelector", 68),
                    Rule(classifyCrashLoop(trigger, states), "None", 70),
                    Rule(TRUE, "None", 35) >>
    IN  rules[CHOOSE i \in DOMAIN rules :
                  rules[i].hit /\ \A j \in 1..i - 1 : ~rules[j].hit]

(* What a reason that names a fault should lead to, and the needles by     *)
(* which a classifier that is asked earlier takes the pod nevertheless.    *)
Expected == [OOMKilled |-> "Resources", ErrImagePull |-> "Image",
             ImagePullBackOff |-> "Image", CreateContainerConfigError |-> "EnvOrVolumeRef",
             Unschedulable |-> "SchedulingPolicy", Unready |-> "Probe"]
Misleading ==
    LET pull == Needles.SchedulingPolicy \cup Needles.Image
        reference == pull \cup Needles.EnvOrVolumeRef \cup Needles.PVC
    IN  [SchedulingPolicy |-> {}, Image |-> Needles.SchedulingPolicy,
         EnvOrVolumeRef |-> pull \cup {"imagepull"}, Resources |-> reference,
         Probe |-> reference \cup Needles.Resources]

(* diagnosePod with a fresh read of the pod; forensics may find that the   *)
(* image was built for another CPU, which overrides the classifiers.       *)
pendingPVCs == {FALSE, fault = "volume"}
refineDiagnosisFromEvidence(rule, wrongCPU) ==
    IF wrongCPU THEN Rule(TRUE, "Image", IF rule.confidence > 85 THEN rule.confidence ELSE 85)
    ELSE rule
Diagnose ==
    /\ item # NoItem
    /\ \E claimPending \in pendingPVCs, wrongCPU \in {FALSE, fault = "crash"},
          inEvents \in Quotes(said), inStates \in Quotes(Stated) :
          LET rule == refineDiagnosisFromEvidence(
                          classifyPodIssue(item.reason, eventsToText(inEvents),
                                           summarizeContainerStates(inStates), claimPending),
                          wrongCPU)
          IN  verdict' = [strategy |-> rule.strategy, confidence |-> rule.confidence,
                          reason |-> item.reason,
                          mixed |-> \/ wrongCPU \/ fault # item.fault
                                    \/ ~(said \subseteq EventsOf[fault]),
                          misled |-> /\ item.reason \in DOMAIN Expected
                                     /\ Meets(inEvents \cup inStates,
                                              Misleading[Expected[item.reason]])]
    /\ item' = NoItem /\ fault' = "none" /\ said' = {}
    /\ face' = Shows("none", "none", "none", "none")

DiagnosisNext == Report \/ Expire \/ Turn \/ Enqueue \/ Diagnose

-----------------------------------------------------------------------------
(* A pod that is queued for a fault the reason names is diagnosed with     *)
(* that fault, whatever the pod looks like when the worker gets to it      *)
(* (classifyPodIssue).  It is not when it has another fault by then, when  *)
(* an event of an earlier one is still kept, when the image turns out to   *)
(* be for another CPU, and when a name or message that the texts quote     *)
(* contains a needle of a classifier that is asked earlier: out of memory  *)
(* in a pod named external-secrets is taken for a missing Secret           *)
(* (diagnosis.go:204).                                                     *)
CauseKept ==
    verdict.reason \in DOMAIN Expected /\ ~verdict.mixed /\ ~verdict.misled =>
        verdict.strategy = Expected[verdict.reason]
=============================================================================
