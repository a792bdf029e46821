---------------------------- MODULE ToolLifecycle ----------------------------
(***************************************************************************)
(* The life of a tool: build() of aae/codebuilder/agent.py with its policy *)
(* escalation, sandbox, validation and signing, and the registry and       *)
(* runtime of aae/tools.  Each call is synchronous and runs to its end, or *)
(* to the end of the process: then the registry, a dictionary in memory,   *)
(* is lost.  A write that the end of the process or an OSError cuts short  *)
(* may leave an empty file (it is written in one piece).                   *)
(* Artifacts are values in the hands of the callers, who may attach a      *)
(* verdict to a copy of one and present any copy at any time.              *)
(***************************************************************************)
EXTENDS Naturals

CONSTANTS
    Requests,  \* ids of BuildRequests
    Ask,       \* Ask[r]: the tier, and what the policy looks at
    Decisions, \* decisions of the verdicts whose ids callers attach
    None

Tiers == {"low", "medium", "high"}

-------------------------------------------------------------------------------
\* policy_escalate: a copy of the request, of tier high for any reason.
RiskTier(r) ==
    IF Ask[r].forbidden \/ Ask[r].pii \/ (Ask[r].network /\ ~Ask[r].domains)
    THEN "high" ELSE Ask[r].tier

\* compute_artifact_sha covers the rendered files and the escalated copy, with its
\* id: equal for two builds of one request, different for two requests.
Sha(r) == [request |-> r, tier |-> RiskTier(r)]
Shas == {Sha(r) : r \in Requests}

\* What DockerSandboxRunner.run may report of a job, with pytest's counts.
SandboxResults == [exit : {0, 1, 124}, passed : 0 .. 1, failed : 0 .. 1]
Timeout(result) == result.exit = 124

Validates(result) == result.failed = 0 /\ result.passed > 0

\* build() comes to signing; otherwise it returns a BuildFailure.
BuildPasses(result) == ~Timeout(result) /\ result.exit = 0 /\ Validates(result)

Artifacts == [sha : Shas, verdict : Decisions \cup {None}, result : SandboxResults]
Entries == [tier : Tiers, verdict : Decisions \cup {None}, status : {"registered", "retired"}]

ASSUME ToolAssumption ==
    /\ Ask \in [Requests -> [tier : Tiers, forbidden : BOOLEAN, pii : BOOLEAN,
                             network : BOOLEAN, domains : BOOLEAN]]
    /\ None \notin Decisions \cup Entries

VARIABLES
    files,      \* tool.py in the directory named by each sha
    artifacts,  \* artifacts signed, and copies of them with a verdict
    registry,   \* ToolRegistry.by_sha
    ran         \* history: the tools that were run, as the registry had them then,
                \* with the state of their file

vars == <<files, artifacts, registry, ran>>

Init ==
    /\ files = [s \in Shas |-> "absent"]
    /\ artifacts = {}
    /\ registry = [s \in Shas |-> None]
    /\ ran = {}

\* A build that fails leaves nothing; one that passes is written, then signed.
Build(r, result) ==
    /\ BuildPasses(result)
    /\ files' = [files EXCEPT ![Sha(r)] = "whole"]
    /\ artifacts' = artifacts \cup {[sha |-> Sha(r), verdict |-> None, result |-> result]}
    /\ UNCHANGED <<registry, ran>>

\* The write of r's files ends before, within or after that of tool.py.
WriteCutShort(r) ==
    files' \in {files, [files EXCEPT ![Sha(r)] = "empty"], [files EXCEPT ![Sha(r)] = "whole"]}

\* A faulty build that hands out the artifact before its files are written.
CrashAfterSigning(r, result) ==
    /\ BuildPasses(result)
    /\ WriteCutShort(r)
    /\ artifacts' = artifacts \cup {[sha |-> Sha(r), verdict |-> None, result |-> result]}
    /\ registry' = [s \in Shas |-> None]
    /\ UNCHANGED ran

\* The process ends in a build.
CrashInBuild(r, result) ==
    /\ BuildPasses(result)
    /\ WriteCutShort(r)
    /\ registry' = [s \in Shas |-> None]
    /\ UNCHANGED <<artifacts, ran>>

\* An OSError in the write, which build() does not catch: nothing is signed, the
\* process lives on and so does what it has registered.
WriteFails(r, result) ==
    /\ BuildPasses(result)
    /\ WriteCutShort(r)
    /\ UNCHANGED <<artifacts, registry, ran>>

\* A caller attaches the id of a verdict to a copy of an artifact.
AttachVerdict(a, decision) ==
    /\ a \in artifacts
    /\ artifacts' = artifacts \cup {[a EXCEPT !.verdict = decision]}
    /\ UNCHANGED <<files, registry, ran>>

\* A faulty register() with a status that the schema does not have.
RegisterDeployed(a, r) ==
    /\ a \in artifacts /\ a.sha.request = r
    /\ Ask[r].tier = "high" => a.verdict # None
    /\ registry' = [registry EXCEPT ![a.sha] =
           [tier |-> Ask[r].tier, verdict |-> a.verdict, status |-> "deployed"]]
    /\ UNCHANGED <<files, artifacts, ran>>

\* A faulty register() that keeps the first entry's verdict check for later ones.
RegisterAgainUnchecked(a, r) ==
    /\ a \in artifacts /\ a.sha.request = r
    /\ Ask[r].tier = "high" => a.verdict # None \/ registry[a.sha] # None
    /\ registry' = [registry EXCEPT ![a.sha] =
           [tier |-> Ask[r].tier, verdict |-> a.verdict, status |-> "registered"]]
    /\ UNCHANGED <<files, artifacts, ran>>

\* register(): the request is the caller's own, as it was before the escalation,
\* and what kind of verdict the id belongs to is not looked at.
Register(a, r) ==
    /\ a \in artifacts /\ a.sha.request = r
    /\ Ask[r].tier = "high" => a.verdict # None
    /\ registry' = [registry EXCEPT ![a.sha] =
           [tier |-> Ask[r].tier, verdict |-> a.verdict, status |-> "registered"]]
    /\ UNCHANGED <<files, artifacts, ran>>

Retire(s) ==
    /\ registry[s] # None
    /\ registry' = [registry EXCEPT ![s].status = "retired"]
    /\ UNCHANGED <<files, artifacts, ran>>

\* A faulty invoke() that runs what it finds.
InvokeAnyCode(s) ==
    /\ registry[s] # None /\ registry[s].status # "retired"
    /\ files[s] # "absent"
    /\ ran' = ran \cup {[sha |-> s, verdict |-> registry[s].verdict, code |-> files[s]]}
    /\ UNCHANGED <<files, artifacts, registry>>

\* invoke(): a module without run(), such as an empty one, is not run.
Invoke(s) ==
    /\ registry[s] # None /\ registry[s].status # "retired"
    /\ files[s] = "whole"
    /\ ran' = ran \cup {[sha |-> s, verdict |-> registry[s].verdict, code |-> files[s]]}
    /\ UNCHANGED <<files, artifacts, registry>>

Restart ==
    /\ registry' = [s \in Shas |-> None]
    /\ UNCHANGED <<files, artifacts, ran>>

Next ==
    \/ \E r \in Requests, result \in SandboxResults :
           Build(r, result) \/ CrashInBuild(r, result) \/ WriteFails(r, result)
    \/ \E a \in artifacts, decision \in Decisions : AttachVerdict(a, decision)
    \/ \E a \in artifacts, r \in Requests : Register(a, r)
    \/ \E s \in Shas : Retire(s) \/ Invoke(s)
    \/ Restart

Spec == Init /\ [][Next]_vars

-------------------------------------------------------------------------------
TypeOK ==
    /\ files \in [Shas -> {"absent", "empty", "whole"}]
    /\ artifacts \subseteq Artifacts
    /\ registry \in [Shas -> Entries \cup {None}]
    /\ ran \subseteq [sha : Shas, verdict : Decisions \cup {None},
                      code : {"absent", "empty", "whole"}]

\* A registered tool has its code on disk (runtime.py:46), whichever build of it was
\* cut short and whenever its artifact is presented.
RegisteredHasCode == \A s \in Shas : registry[s] # None => files[s] # "absent"

\* What runs is the complete code of a build whose tests passed without a failure,
\* even if the write of a later build of it was cut short while the tool was registered
\* (runtime.py:49-52, agent.py:98-127).
RunsTestedCode ==
    \A x \in ran :
        /\ x.code = "whole"
        /\ \E a \in artifacts : a.sha = x.sha /\ a.result.failed = 0 /\ a.result.passed > 0

\* A tool that was requested as high-risk never runs without a verdict (registry.py:47,
\* tests/test_tool_lifecycle.py:46-54), although its artifact without one remains and
\* may be registered over the other.
HighRiskReviewed == \A x \in ran : Ask[x.sha.request].tier = "high" => x.verdict # None
===============================================================================
