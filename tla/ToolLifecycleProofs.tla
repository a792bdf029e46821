------------------------- MODULE ToolLifecycleProofs -------------------------
(***************************************************************************)
(* What holds of tools for any requests, verdicts, rebuilds and crashes.   *)
(***************************************************************************)
EXTENDS ToolLifecycle, TLAPS

\* An artifact is only signed once its build has passed and its code is on disk.
SignedOnDisk ==
    \A a \in artifacts :
        files[a.sha] # "absent" /\ a.result.failed = 0 /\ a.result.passed > 0

\* What is registered was signed, and a request for high risk has its verdict.
RegisteredIsSigned ==
    \A s \in Shas :
        registry[s] # None =>
            /\ \E a \in artifacts : a.sha = s
            /\ Ask[s.request].tier = "high" => registry[s].verdict # None

IInv == TypeOK /\ SignedOnDisk /\ RegisteredIsSigned /\ RunsTestedCode /\ HighRiskReviewed

LEMMA ShaFields == \A r \in Requests : Sha(r) \in Shas /\ Sha(r).request = r
BY DEF Shas, Sha

LEMMA InitIInv == Init => IInv
BY DEF Init, IInv, TypeOK, SignedOnDisk, RegisteredIsSigned, RunsTestedCode, HighRiskReviewed

-------------------------------------------------------------------------------
(* The steps that write, and may end the process while they do.            *)

LEMMA BuildStep ==
    ASSUME IInv, NEW r \in Requests, NEW result \in SandboxResults, Build(r, result)
    PROVE  IInv'
<1> DEFINE new == [sha |-> Sha(r), verdict |-> None, result |-> result]
<1>1. new \in Artifacts
    BY ShaFields DEF Artifacts
<1>2. result.failed = 0 /\ result.passed > 0
    BY DEF Build, BuildPasses, Validates
<1>3. artifacts' = artifacts \cup {new} /\ UNCHANGED <<registry, ran>>
    BY DEF Build
<1>4. \A s \in Shas : files[s] # "absent" => files'[s] # "absent"
    BY DEF Build, IInv, TypeOK
<1>5. files'[Sha(r)] # "absent" /\ files' \in [Shas -> {"absent", "empty", "whole"}]
    BY ShaFields DEF Build, IInv, TypeOK
<1>6. TypeOK'
    BY <1>1, <1>3, <1>5 DEF IInv, TypeOK
<1>7. SignedOnDisk'
    <2> SUFFICES ASSUME NEW a \in artifacts'
                 PROVE  files'[a.sha] # "absent" /\ a.result.failed = 0 /\ a.result.passed > 0
        BY DEF SignedOnDisk
    <2>1. CASE a \in artifacts
        BY <2>1, <1>4 DEF IInv, TypeOK, SignedOnDisk, Artifacts
    <2>2. CASE a = new
        BY <2>2, <1>2, <1>5
    <2>3. QED BY <2>1, <2>2, <1>3
<1>8. QED BY <1>3, <1>6, <1>7 DEF IInv, RegisteredIsSigned, RunsTestedCode, HighRiskReviewed

\* A write that is cut short, whether or not it takes the process and its registry along.
LEMMA CutShortStep ==
    ASSUME IInv, NEW r \in Requests, NEW result \in SandboxResults,
           CrashInBuild(r, result) \/ WriteFails(r, result)
    PROVE  IInv'
<1>1. /\ UNCHANGED <<artifacts, ran>>
      /\ registry' = registry \/ registry' = [s \in Shas |-> None]
    BY DEF CrashInBuild, WriteFails
<1>2. /\ files' \in [Shas -> {"absent", "empty", "whole"}]
      /\ \A s \in Shas : files[s] # "absent" => files'[s] # "absent"
    BY DEF CrashInBuild, WriteFails, WriteCutShort, IInv, TypeOK
<1>3. TypeOK'
    BY <1>1, <1>2 DEF IInv, TypeOK
<1>4. SignedOnDisk'
    BY <1>1, <1>2 DEF IInv, TypeOK, SignedOnDisk, Artifacts
<1>5. RegisteredIsSigned'
    BY <1>1 DEF IInv, RegisteredIsSigned
<1>6. QED BY <1>1, <1>3, <1>4, <1>5 DEF IInv, RunsTestedCode, HighRiskReviewed

-------------------------------------------------------------------------------
(* The callers' copies, the registry and the runtime.                      *)

LEMMA AttachStep ==
    ASSUME IInv, NEW a \in artifacts, NEW decision \in Decisions, AttachVerdict(a, decision)
    PROVE  IInv'
<1> DEFINE copy == [a EXCEPT !.verdict = decision]
<1>1. a \in Artifacts
    BY DEF IInv, TypeOK
<1>2. copy \in Artifacts /\ copy.sha = a.sha /\ copy.result = a.result
    BY <1>1 DEF Artifacts
<1>3. artifacts' = artifacts \cup {copy} /\ UNCHANGED <<files, registry, ran>>
    BY DEF AttachVerdict
<1>4. TypeOK'
    BY <1>2, <1>3 DEF IInv, TypeOK
<1>5. SignedOnDisk'
    BY <1>2, <1>3 DEF IInv, SignedOnDisk
<1>6. QED BY <1>3, <1>4, <1>5 DEF IInv, RegisteredIsSigned, RunsTestedCode, HighRiskReviewed

LEMMA RegisterStep ==
    ASSUME IInv, NEW a \in artifacts, NEW r \in Requests, Register(a, r)
    PROVE  IInv'
<1> DEFINE entry == [tier |-> Ask[r].tier, verdict |-> a.verdict, status |-> "registered"]
<1>1. a \in Artifacts /\ a.sha \in Shas /\ a.sha.request = r
    BY DEF IInv, TypeOK, Artifacts, Register
<1>2. entry \in Entries
    BY <1>1, ToolAssumption DEF Entries, Artifacts
<1>3. /\ registry' = [registry EXCEPT ![a.sha] = entry] /\ UNCHANGED <<files, artifacts, ran>>
      /\ Ask[r].tier = "high" => entry.verdict # None
    BY DEF Register
<1>4. TypeOK'
    BY <1>1, <1>2, <1>3 DEF IInv, TypeOK
<1>5. RegisteredIsSigned'
    <2> SUFFICES ASSUME NEW s \in Shas, registry'[s] # None
                 PROVE  /\ \E b \in artifacts : b.sha = s
                        /\ Ask[s.request].tier = "high" => registry'[s].verdict # None
        BY <1>3 DEF RegisteredIsSigned
    <2>1. CASE s = a.sha
        BY <2>1, <1>1, <1>3 DEF IInv, TypeOK
    <2>2. CASE s # a.sha
        BY <2>2, <1>3 DEF IInv, TypeOK, RegisteredIsSigned
    <2>3. QED BY <2>1, <2>2
<1>6. QED BY <1>3, <1>4, <1>5 DEF IInv, SignedOnDisk, RunsTestedCode, HighRiskReviewed

LEMMA RetireStep ==
    ASSUME IInv, NEW s \in Shas, Retire(s)
    PROVE  IInv'
<1> DEFINE entry == [registry[s] EXCEPT !.status = "retired"]
<1>1. registry[s] \in Entries
    BY DEF Retire, IInv, TypeOK
<1>2. entry \in Entries /\ entry.verdict = registry[s].verdict
    BY <1>1 DEF Entries
<1>3. registry' = [registry EXCEPT ![s] = entry] /\ UNCHANGED <<files, artifacts, ran>>
    BY DEF Retire
<1>4. TypeOK'
    BY <1>2, <1>3 DEF IInv, TypeOK
<1>5. RegisteredIsSigned'
    <2> SUFFICES ASSUME NEW t \in Shas, registry'[t] # None
                 PROVE  /\ \E b \in artifacts : b.sha = t
                        /\ Ask[t.request].tier = "high" => registry'[t].verdict # None
        BY <1>3 DEF RegisteredIsSigned
    <2>1. registry[t] # None /\ registry'[t].verdict = registry[t].verdict
        BY <1>2, <1>3 DEF IInv, TypeOK, Retire
    <2>2. QED BY <2>1 DEF IInv, RegisteredIsSigned
<1>6. QED BY <1>3, <1>4, <1>5 DEF IInv, SignedOnDisk, RunsTestedCode, HighRiskReviewed

LEMMA InvokeStep ==
    ASSUME IInv, NEW s \in Shas, Invoke(s)
    PROVE  IInv'
<1> DEFINE run == [sha |-> s, verdict |-> registry[s].verdict, code |-> files[s]]
<1>1. registry[s] \in Entries /\ files[s] = "whole"
    BY DEF Invoke, IInv, TypeOK
<1>2. ran' = ran \cup {run} /\ UNCHANGED <<files, artifacts, registry>>
    BY DEF Invoke
<1>3. TypeOK'
    BY <1>1, <1>2 DEF IInv, TypeOK, Entries
<1>4. /\ \E a \in artifacts : a.sha = s /\ a.result.failed = 0 /\ a.result.passed > 0
      /\ Ask[s.request].tier = "high" => run.verdict # None
    BY DEF Invoke, IInv, RegisteredIsSigned, SignedOnDisk
<1>5. RunsTestedCode'
    BY <1>1, <1>2, <1>4 DEF IInv, RunsTestedCode
<1>6. HighRiskReviewed'
    BY <1>2, <1>4 DEF IInv, HighRiskReviewed
<1>7. QED BY <1>2, <1>3, <1>5, <1>6 DEF IInv, SignedOnDisk, RegisteredIsSigned

LEMMA RestartStep ==
    ASSUME IInv, Restart
    PROVE  IInv'
BY DEF Restart, IInv, TypeOK, SignedOnDisk, RegisteredIsSigned, RunsTestedCode, HighRiskReviewed

LEMMA AlwaysIInv == Spec => []IInv
<1>1. IInv /\ [Next]_vars => IInv'
    <2> SUFFICES ASSUME IInv, [Next]_vars PROVE IInv'
        OBVIOUS
    <2>1. CASE UNCHANGED vars
        BY <2>1 DEF vars, IInv, TypeOK, SignedOnDisk, RegisteredIsSigned, RunsTestedCode,
                    HighRiskReviewed
    <2>2. CASE Next
        BY <2>2, BuildStep, CutShortStep, AttachStep, RegisterStep, RetireStep, InvokeStep,
           RestartStep DEF Next
    <2>3. QED BY <2>1, <2>2
<1>2. QED BY InitIInv, <1>1, PTL DEF Spec

-------------------------------------------------------------------------------
\* Every variable keeps its type (ToolLifecycle.TypeOK).
THEOREM TypeCorrect == Spec => []TypeOK
<1>1. IInv => TypeOK
    BY DEF IInv
<1>2. QED BY <1>1, AlwaysIInv, PTL

\* A registered tool has its code on disk, whichever build was cut short
\* (ToolLifecycle.RegisteredHasCode).
THEOREM RegisteredToolsHaveCode == Spec => []RegisteredHasCode
<1>1. IInv => RegisteredHasCode
    BY DEF IInv, RegisteredIsSigned, SignedOnDisk, RegisteredHasCode
<1>2. QED BY <1>1, AlwaysIInv, PTL

\* Only the complete code of a build that passed its tests is ever run
\* (ToolLifecycle.RunsTestedCode).
THEOREM OnlyTestedCodeRuns == Spec => []RunsTestedCode
<1>1. IInv => RunsTestedCode
    BY DEF IInv
<1>2. QED BY <1>1, AlwaysIInv, PTL

\* A tool requested as high-risk never runs without a verdict
\* (ToolLifecycle.HighRiskReviewed).
THEOREM HighRiskNeedsVerdict == Spec => []HighRiskReviewed
<1>1. IInv => HighRiskReviewed
    BY DEF IInv
<1>2. QED BY <1>1, AlwaysIInv, PTL
==============================================================================
