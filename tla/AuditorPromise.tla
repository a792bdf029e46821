---------------------------- MODULE AuditorPromise ----------------------------
(***************************************************************************)
(* What the Ethics Auditor promises its callers (aae/ethics/auditor.py's   *)
(* docstring): each review is answered as if it ran alone, and a subject   *)
(* that was rejected is answered with that same verdict for as long as the *)
(* process runs.                                                           *)
(***************************************************************************)
CONSTANTS Reviewers, Subjects, Verdicts, None

VARIABLES
    asked,    \* the subject each reviewer awaits a verdict on, or None
    decided,  \* the last verdict on each subject, or None
    answer    \* the verdict each reviewer got for its last request, or None

promiseVars == <<asked, decided, answer>>

IsReject(verdict) == verdict # None /\ verdict.decision = "reject"

PromiseInit ==
    /\ asked = [r \in Reviewers |-> None]
    /\ decided = [s \in Subjects |-> None]
    /\ answer = [r \in Reviewers |-> None]

Ask(r, s) ==
    /\ asked[r] = None
    /\ asked' = [asked EXCEPT ![r] = s]
    /\ answer' = [answer EXCEPT ![r] = None]
    /\ UNCHANGED decided

\* A rejected subject is not judged again; any other one is, once.
Decide(r, verdict) ==
    /\ asked[r] # None
    /\ IsReject(decided[asked[r]]) => verdict = decided[asked[r]]
    /\ decided' = [decided EXCEPT ![asked[r]] = verdict]
    /\ answer' = [answer EXCEPT ![r] = verdict]
    /\ asked' = [asked EXCEPT ![r] = None]

\* The review raises, or is cancelled: no verdict.
Withdraw(r) ==
    /\ asked[r] # None
    /\ asked' = [asked EXCEPT ![r] = None]
    /\ UNCHANGED <<decided, answer>>

\* The process restarts: what was asked and decided is gone.
Forget ==
    /\ asked' = [r \in Reviewers |-> None]
    /\ decided' = [s \in Subjects |-> None]
    /\ answer' = [r \in Reviewers |-> None]

PromiseNext ==
    \/ Forget
    \/ \E r \in Reviewers :
           \/ \E s \in Subjects : Ask(r, s)
           \/ \E verdict \in Verdicts : Decide(r, verdict)
           \/ Withdraw(r)

Promise == PromiseInit /\ [][PromiseNext]_promiseVars
===============================================================================
