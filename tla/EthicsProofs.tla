---------------------------- MODULE EthicsProofs ----------------------------
(***************************************************************************)
(* Theorems of EthicsService: a reject is final, consultations do not      *)
(* overlap, and the service keeps the auditor's promise.  These follow     *)
(* from one inductive invariant: only the holder of the lock is past it,   *)
(* and the subject it is past it for has no cached reject.  The last part  *)
(* is about the tasks that wait for the lock.                              *)
(***************************************************************************)
EXTENDS EthicsService, TLAPS

PastLock == {"prompt_read", "awaiting"}

HolderOnly == \A r \in Reviewers : pc[r] \in PastLock <=> lock = r

InReview == \A r \in Reviewers : subject[r] = None <=> pc[r] = "idle"

HasRead ==
    \A r \in Reviewers :
        /\ pc[r] \in PastLock => prompt[r] \in Prompts
        /\ pc[r] = "awaiting" => ruleset[r] \in Prompts

NotRejectedYet == \A r \in Reviewers : pc[r] \in PastLock => ~IsRejected(subject[r])

IInv == TypeOK /\ HolderOnly /\ InReview /\ HasRead /\ NotRejectedYet

LEMMA InitIInv == Init => IInv
<1> SUFFICES ASSUME Init PROVE IInv
    OBVIOUS
<1>1. TypeOK
    BY ConstantsAssumption DEF Init, TypeOK
<1>2. HolderOnly /\ InReview /\ HasRead /\ NotRejectedYet
    BY ConstantsAssumption DEF Init, HolderOnly, InReview, HasRead, NotRejectedYet, PastLock
<1>3. QED BY <1>1, <1>2 DEF IInv

LEMMA RequestStep ==
    ASSUME IInv, NEW r \in Reviewers, NEW s \in Subjects, Request(r, s)
    PROVE  IInv'
<1> USE DEF IInv
<1>1. TypeOK'
    BY DEF TypeOK, Request
<1>2. HolderOnly'
    BY DEF TypeOK, Request, HolderOnly, PastLock
<1>3. InReview'
    BY ConstantsAssumption DEF TypeOK, Request, InReview
<1>4. HasRead' /\ NotRejectedYet'
    BY DEF TypeOK, Request, HasRead, NotRejectedYet, IsRejected, PastLock
<1>5. QED BY <1>1, <1>2, <1>3, <1>4

\* Taking the free lock, by whoever does it.
LEMMA TakeLock ==
    ASSUME IInv, NEW r \in Reviewers, pc[r] # "idle", lock = None,
           ~IsRejected(subject[r]), ReadPrompt(r), queue' \in Seq(Reviewers),
           UNCHANGED <<cache, file, rejected, restarts>>
    PROVE  IInv'
<1> USE DEF IInv, ReadPrompt
<1>1. TypeOK'
    BY DEF TypeOK
<1>2. HolderOnly'
    BY ConstantsAssumption DEF TypeOK, HolderOnly, PastLock
<1>3. InReview'
    BY DEF TypeOK, InReview
<1>4. HasRead'
    BY DEF TypeOK, HasRead, PastLock
<1>5. NotRejectedYet'
    BY DEF TypeOK, NotRejectedYet, IsRejected, PastLock
<1>6. QED BY <1>1, <1>2, <1>3, <1>4, <1>5

\* Leaving review() without a new verdict, from before the lock or with its release.
LEMMA LeaveKeeps ==
    ASSUME IInv, NEW r \in Reviewers, Leave(r),
           \/ pc[r] \notin PastLock /\ lock' = lock
           \/ pc[r] \in PastLock /\ lock' = None,
           queue' \in Seq(Reviewers), answer' \in [Reviewers -> Verdicts \cup {None}],
           UNCHANGED <<cache, file, rejected, restarts>>
    PROVE  IInv'
<1> USE DEF IInv, Leave
<1>1. TypeOK'
    BY DEF TypeOK
<1>2. HolderOnly'
    BY ConstantsAssumption DEF TypeOK, HolderOnly, PastLock
<1>3. InReview'
    BY DEF TypeOK, InReview
<1>4. HasRead'
    BY DEF TypeOK, HasRead, PastLock
<1>5. NotRejectedYet'
    BY DEF TypeOK, NotRejectedYet, IsRejected, PastLock
<1>6. QED BY <1>1, <1>2, <1>3, <1>4, <1>5

LEMMA CachedAnswerTyped ==
    ASSUME IInv, NEW r \in Reviewers, pc[r] # "idle", ReturnCached(r)
    PROVE  /\ subject[r] \in Subjects
           /\ answer' \in [Reviewers -> Verdicts \cup {None}]
BY DEF IInv, TypeOK, InReview, ReturnCached

LEMMA EnterStep ==
    ASSUME IInv, NEW r \in Reviewers, Enter(r)
    PROVE  IInv'
<1>1. CASE IsRejected(subject[r])
    <2>1. ReturnCached(r) /\ UNCHANGED <<lock, queue, cache, file, rejected, restarts>>
        BY <1>1 DEF Enter
    <2>2. pc[r] = "called"
        BY DEF Enter
    <2>3. answer' \in [Reviewers -> Verdicts \cup {None}]
        BY <2>1, <2>2, CachedAnswerTyped
    <2>4. queue' \in Seq(Reviewers)
        BY <2>1 DEF IInv, TypeOK
    <2>5. Leave(r)
        BY <2>1 DEF ReturnCached
    <2>6. QED BY <2>1, <2>2, <2>3, <2>4, <2>5, LeaveKeeps DEF PastLock
<1>2. CASE ~IsRejected(subject[r]) /\ lock = None /\ queue = <<>>
    <2>1. ReadPrompt(r) /\ UNCHANGED <<queue, cache, file, rejected, restarts>> /\ pc[r] = "called"
        BY <1>2 DEF Enter
    <2>2. queue' \in Seq(Reviewers)
        BY <2>1 DEF IInv, TypeOK
    <2>3. QED BY <1>2, <2>1, <2>2, TakeLock
<1>3. CASE ~IsRejected(subject[r]) /\ (lock # None \/ queue # <<>>)
    <2> USE DEF IInv
    <2>1. /\ pc[r] = "called"
          /\ queue' = Append(queue, r)
          /\ pc' = [pc EXCEPT ![r] = "queued"]
          /\ UNCHANGED <<subject, lock, prompt, ruleset, answer, cache, file, rejected, restarts>>
        BY <1>3 DEF Enter
    <2>2. TypeOK'
        BY <2>1 DEF TypeOK
    <2>3. HolderOnly'
        BY <2>1 DEF TypeOK, HolderOnly, PastLock
    <2>4. InReview'
        BY <2>1 DEF TypeOK, InReview
    <2>5. HasRead' /\ NotRejectedYet'
        BY <2>1 DEF TypeOK, HasRead, NotRejectedYet, IsRejected, PastLock
    <2>6. QED BY <2>2, <2>3, <2>4, <2>5
<1>4. QED BY <1>1, <1>2, <1>3

LEMMA AcquireStep ==
    ASSUME IInv, NEW r \in Reviewers, Acquire(r)
    PROVE  IInv'
<1>1. /\ pc[r] = "queued" /\ lock = None /\ queue # <<>> /\ queue' = Tail(queue)
      /\ UNCHANGED <<cache, file, rejected, restarts>>
    BY DEF Acquire
<1>2. queue' \in Seq(Reviewers)
    BY <1>1 DEF IInv, TypeOK
<1>3. CASE IsRejected(subject[r])
    <2>1. ReturnCached(r) /\ UNCHANGED lock
        BY <1>3 DEF Acquire
    <2>2. answer' \in [Reviewers -> Verdicts \cup {None}]
        BY <1>1, <2>1, CachedAnswerTyped
    <2>3. Leave(r)
        BY <2>1 DEF ReturnCached
    <2>4. QED BY <1>1, <1>2, <2>1, <2>2, <2>3, LeaveKeeps DEF PastLock
<1>4. CASE ~IsRejected(subject[r])
    <2>1. ReadPrompt(r)
        BY <1>4 DEF Acquire
    <2>2. QED BY <1>1, <1>2, <1>4, <2>1, TakeLock
<1>5. QED BY <1>3, <1>4

LEMMA HashAndSendStep ==
    ASSUME IInv, NEW r \in Reviewers, HashAndSend(r)
    PROVE  IInv'
<1> USE DEF IInv, HashAndSend
<1>1. TypeOK'
    BY DEF TypeOK
<1>2. HolderOnly'
    BY DEF TypeOK, HolderOnly, PastLock
<1>3. InReview'
    BY DEF TypeOK, InReview
<1>4. HasRead'
    BY DEF TypeOK, HasRead, PastLock
<1>5. NotRejectedYet'
    BY DEF TypeOK, NotRejectedYet, IsRejected, PastLock
<1>6. QED BY <1>1, <1>2, <1>3, <1>4, <1>5

\* The verdict of an answered review is one, for a subject without a reject.
LEMMA AnswerVerdict ==
    ASSUME IInv, NEW r \in Reviewers, NEW reply \in Replies, Answer(r, reply)
    PROVE  /\ [decision |-> reply, prompt |-> prompt[r], ruleset |-> ruleset[r]] \in Verdicts
           /\ subject[r] \in Subjects
           /\ pc[r] \in PastLock /\ lock = r
           /\ ~IsRejected(subject[r])
<1>1. pc[r] = "awaiting" /\ reply \in Decisions
    BY DEF Answer, WellFormed
<1>2. prompt[r] \in Prompts /\ ruleset[r] \in Prompts
    BY <1>1 DEF IInv, HasRead, PastLock
<1>3. subject[r] \in Subjects
    BY <1>1 DEF IInv, TypeOK, InReview
<1>4. pc[r] \in PastLock /\ lock = r /\ ~IsRejected(subject[r])
    BY <1>1 DEF IInv, HolderOnly, NotRejectedYet, PastLock
<1>5. QED BY <1>1, <1>2, <1>3, <1>4 DEF Verdicts

LEMMA AnswerStep ==
    ASSUME IInv, NEW r \in Reviewers, NEW reply \in Replies, Answer(r, reply)
    PROVE  IInv'
<1> DEFINE verdict == [decision |-> reply, prompt |-> prompt[r], ruleset |-> ruleset[r]]
<1> USE DEF IInv
<1>1. /\ verdict \in Verdicts /\ subject[r] \in Subjects
      /\ pc[r] \in PastLock /\ lock = r
    BY AnswerVerdict
<1>2. /\ cache' = [cache EXCEPT ![subject[r]] = verdict]
      /\ answer' = [answer EXCEPT ![r] = verdict]
      /\ rejected' = IF reply = "reject" THEN rejected \cup {subject[r]} ELSE rejected
      /\ lock' = None
      /\ Leave(r)
      /\ UNCHANGED <<queue, file, restarts>>
    BY DEF Answer
<1> HIDE DEF verdict
<1>3. TypeOK'
    BY <1>1, <1>2 DEF TypeOK, Leave
<1>4. HolderOnly'
    BY <1>1, <1>2, ConstantsAssumption DEF TypeOK, HolderOnly, Leave, PastLock
<1>5. InReview'
    BY <1>2 DEF TypeOK, InReview, Leave
<1>6. HasRead'
    BY <1>2 DEF TypeOK, HasRead, Leave, PastLock
<1>7. NotRejectedYet'
    <2>1. \A q \in Reviewers : pc'[q] \notin PastLock
        BY <1>2, <1>4, ConstantsAssumption DEF HolderOnly
    <2>2. QED BY <2>1 DEF NotRejectedYet
<1>8. QED BY <1>3, <1>4, <1>5, <1>6, <1>7

LEMMA CancelStep ==
    ASSUME IInv, NEW r \in Reviewers, CancelWaiting(r)
    PROVE  IInv'
<1>1. /\ Leave(r) /\ pc[r] \in {"called", "queued"}
      /\ UNCHANGED <<lock, cache, file, answer, rejected, restarts>>
    BY DEF CancelWaiting
<1>2. queue' \in Seq(Reviewers)
    <2>1. queue \in Seq(Reviewers)
        BY DEF IInv, TypeOK
    <2>2. \A i \in 1 .. Len(queue) :
              /\ SubSeq(queue, 1, i - 1) \in Seq(Reviewers)
              /\ SubSeq(queue, i + 1, Len(queue)) \in Seq(Reviewers)
        BY <2>1
    <2>3. CASE pc[r] = "queued"
        <3>1. PICK i \in 1 .. Len(queue) :
                  queue' = SubSeq(queue, 1, i - 1) \o SubSeq(queue, i + 1, Len(queue))
            BY <2>3 DEF CancelWaiting
        <3>2. \A f, g \in Seq(Reviewers) : f \o g \in Seq(Reviewers)
            OBVIOUS
        <3>3. QED BY <2>2, <3>1, <3>2
    <2>4. CASE pc[r] # "queued"
        BY <2>1, <2>4 DEF CancelWaiting
    <2>5. QED BY <2>3, <2>4
<1>3. answer' \in [Reviewers -> Verdicts \cup {None}]
    BY <1>1 DEF IInv, TypeOK
<1>4. QED BY <1>1, <1>2, <1>3, LeaveKeeps DEF PastLock

LEMMA RestartStep ==
    ASSUME IInv, Restart
    PROVE  IInv'
<1> USE DEF IInv, Restart
<1>1. TypeOK'
    BY DEF TypeOK
<1>2. (HolderOnly /\ InReview /\ HasRead /\ NotRejectedYet)'
    BY ConstantsAssumption DEF HolderOnly, InReview, HasRead, NotRejectedYet, PastLock
<1>3. QED BY <1>1, <1>2

LEMMA IInvStep == IInv /\ [Next]_vars => IInv'
<1> SUFFICES ASSUME IInv, [Next]_vars PROVE IInv'
    OBVIOUS
<1>1. ASSUME NEW r \in Reviewers, Review(r) PROVE IInv'
    <2>1. CASE Raise(r)
        <3>1. pc[r] \in PastLock /\ lock' = None /\ Leave(r)
            BY <2>1 DEF Raise, PastLock
        <3>2. UNCHANGED <<queue, cache, file, answer, rejected, restarts>>
            BY <2>1 DEF Raise
        <3>3. queue' \in Seq(Reviewers) /\ answer' \in [Reviewers -> Verdicts \cup {None}]
            BY <3>2 DEF IInv, TypeOK
        <3>4. QED BY <3>1, <3>2, <3>3, LeaveKeeps
    <2>2. QED
        BY <1>1, <2>1, RequestStep, EnterStep, AcquireStep, HashAndSendStep, AnswerStep,
           CancelStep DEF Review
<1>2. ASSUME NEW contents \in Prompts, EditPrompt(contents) PROVE IInv'
    BY <1>2 DEF EditPrompt, IInv, TypeOK, HolderOnly, InReview, HasRead, NotRejectedYet,
                IsRejected
<1>3. CASE UNCHANGED vars
    BY <1>3 DEF vars, IInv, TypeOK, HolderOnly, InReview, HasRead, NotRejectedYet, IsRejected
<1>4. QED BY <1>1, <1>2, <1>3, RestartStep DEF Next

LEMMA AlwaysIInv == Spec => []IInv
BY InitIInv, IInvStep, PTL DEF Spec

-----------------------------------------------------------------------------
\* The types of the service's state (EthicsService.TypeOK).
THEOREM TypeCorrect == Spec => []TypeOK
<1>1. IInv => TypeOK
    BY DEF IInv
<1>2. QED BY <1>1, AlwaysIInv, PTL

\* At most one review is past the lock, whoever raises, is cancelled or restarts
\* (EthicsService.SingleFlight; auditor.py:9).
THEOREM ConsultationsDoNotOverlap == Spec => []SingleFlight
<1>1. IInv => SingleFlight
    BY DEF IInv, HolderOnly, SingleFlight, PastLock
<1>2. QED BY <1>1, AlwaysIInv, PTL

\* Within the life of a process a cached reject is never replaced or dropped
\* (EthicsService.RejectFinal; auditor.py:8).
THEOREM CachedRejectIsFinal == Spec => RejectFinal
<1>1. IInv /\ [Next]_vars
          => [\A s \in Subjects :
                  IsRejected(s) /\ restarts' = restarts => cache'[s] = cache[s]]_vars
    <2> SUFFICES ASSUME IInv, Next, NEW s \in Subjects, IsRejected(s), restarts' = restarts
                 PROVE  cache'[s] = cache[s]
        OBVIOUS
    <2>1. ASSUME NEW r \in Reviewers, NEW reply \in Replies, Answer(r, reply)
          PROVE  cache'[s] = cache[s]
        <3>1. subject[r] # s
            BY <2>1, AnswerVerdict
        <3>2. QED BY <2>1, <3>1 DEF Answer, IInv, TypeOK
    <2>2. ASSUME NEW r \in Reviewers, Review(r), UNCHANGED cache
          PROVE  cache'[s] = cache[s]
        BY <2>2
    <2>3. ASSUME NEW r \in Reviewers, Review(r)
          PROVE  cache'[s] = cache[s]
        BY <2>1, <2>3 DEF Review, Enter, Acquire, HashAndSend, Raise, CancelWaiting, Request
    <2>4. ASSUME NEW contents \in Prompts, EditPrompt(contents)
          PROVE  cache'[s] = cache[s]
        BY <2>4 DEF EditPrompt
    <2>5. ~Restart
        BY DEF Restart, IInv, TypeOK
    <2>6. QED BY <2>3, <2>4, <2>5 DEF Next
<1>2. QED BY <1>1, AlwaysIInv, PTL DEF Spec, RejectFinal

-----------------------------------------------------------------------------
(***************************************************************************)
(* As long as the process does not restart.                                *)
(***************************************************************************)

RejectsAreCached == restarts = 0 => \A s \in rejected : IsRejected(s)

LEMMA RejectsAreCachedStep ==
    IInv /\ RejectsAreCached /\ [Next]_vars => RejectsAreCached'
<1> SUFFICES ASSUME IInv, RejectsAreCached, [Next]_vars, restarts' = 0, NEW s \in rejected'
             PROVE  IsRejected(s)'
    BY DEF RejectsAreCached
<1>1. restarts \in Nat /\ rejected \subseteq Subjects /\ cache \in [Subjects -> Verdicts \cup {None}]
    BY DEF IInv, TypeOK
<1>2. CASE UNCHANGED <<cache, rejected, restarts>>
    BY <1>2 DEF RejectsAreCached, IsRejected
<1>3. ASSUME NEW r \in Reviewers, NEW reply \in Replies, Answer(r, reply)
      PROVE  IsRejected(s)'
    <2> DEFINE verdict == [decision |-> reply, prompt |-> prompt[r], ruleset |-> ruleset[r]]
    <2>1. verdict \in Verdicts /\ subject[r] \in Subjects /\ ~IsRejected(subject[r])
        BY <1>3, AnswerVerdict
    <2>2. /\ cache' = [cache EXCEPT ![subject[r]] = verdict]
          /\ rejected' = IF reply = "reject" THEN rejected \cup {subject[r]} ELSE rejected
          /\ restarts' = restarts
        BY <1>3 DEF Answer
    <2>3. verdict.decision = reply /\ verdict # None
        BY <2>1, ConstantsAssumption
    <2> HIDE DEF verdict
    <2>4. CASE s \in rejected
        <3>1. IsRejected(s) /\ s # subject[r] /\ s \in Subjects
            BY <1>1, <2>1, <2>2, <2>4 DEF RejectsAreCached
        <3>2. cache'[s] = cache[s]
            BY <1>1, <2>2, <3>1
        <3>3. QED BY <3>1, <3>2 DEF IsRejected
    <2>5. CASE s \notin rejected
        <3>1. s = subject[r] /\ reply = "reject"
            BY <2>2, <2>5
        <3>2. cache'[s] = verdict
            BY <1>1, <2>1, <2>2, <3>1
        <3>3. QED BY <2>3, <3>1, <3>2 DEF IsRejected
    <2>6. QED BY <2>4, <2>5
<1>4. ~Restart
    BY <1>1 DEF Restart
<1>5. QED
    BY <1>2, <1>3, <1>4 DEF Next, Review, Enter, Acquire, HashAndSend, Raise, CancelWaiting,
                            Request, EditPrompt, vars

\* The model is never consulted on a subject it has rejected, however the requests
\* for it overlap, until the process restarts (EthicsService.RejectedNotConsulted).
THEOREM RejectedNeverConsulted == Spec => []RejectedNotConsulted
<1>1. Init => RejectsAreCached
    BY DEF Init, RejectsAreCached
<1>2. IInv /\ RejectsAreCached => RejectedNotConsulted
    BY DEF IInv, NotRejectedYet, PastLock, RejectsAreCached, RejectedNotConsulted, RejectForGood
<1>3. QED BY <1>1, <1>2, RejectsAreCachedStep, AlwaysIInv, PTL DEF Spec

-----------------------------------------------------------------------------
(***************************************************************************)
(* Refinement: each step of a review is a step of the promise, or none.    *)
(***************************************************************************)

LEMMA CachedIsDecided ==
    ASSUME IInv, NEW r \in Reviewers, pc[r] # "idle", IsRejected(subject[r]),
           ReturnCached(r), UNCHANGED cache
    PROVE  \E verdict \in Verdicts : Auditor!Decide(r, verdict)
<1>1. subject[r] \in Subjects /\ subject[r] # None
    BY ConstantsAssumption DEF IInv, TypeOK, InReview
<1>2. cache[subject[r]] \in Verdicts
    BY <1>1 DEF IInv, TypeOK, IsRejected
<1>3. cache' = [cache EXCEPT ![subject[r]] = cache[subject[r]]]
    BY <1>1 DEF IInv, TypeOK
<1>4. Auditor!Decide(r, cache[subject[r]])
    BY <1>1, <1>3 DEF Auditor!Decide, ReturnCached, Leave
<1>5. QED BY <1>2, <1>4

LEMMA ReviewRefines ==
    ASSUME IInv, NEW r \in Reviewers, Review(r)
    PROVE  Auditor!PromiseNext \/ UNCHANGED <<subject, cache, answer>>
<1>1. ASSUME NEW s \in Subjects, Request(r, s) PROVE Auditor!Ask(r, s)
    BY <1>1 DEF Request, Auditor!Ask, IInv, InReview
<1>2. CASE Enter(r)
    <2>1. CASE IsRejected(subject[r])
        <3>1. pc[r] # "idle" /\ ReturnCached(r) /\ UNCHANGED cache
            BY <1>2, <2>1 DEF Enter
        <3>2. QED BY <2>1, <3>1, CachedIsDecided DEF Auditor!PromiseNext
    <2>2. CASE ~IsRejected(subject[r])
        BY <1>2, <2>2 DEF Enter, ReadPrompt
    <2>3. QED BY <2>1, <2>2
<1>3. CASE Acquire(r)
    <2>1. CASE IsRejected(subject[r])
        <3>1. pc[r] # "idle" /\ ReturnCached(r) /\ UNCHANGED cache
            BY <1>3, <2>1 DEF Acquire
        <3>2. QED BY <2>1, <3>1, CachedIsDecided DEF Auditor!PromiseNext
    <2>2. CASE ~IsRejected(subject[r])
        BY <1>3, <2>2 DEF Acquire, ReadPrompt
    <2>3. QED BY <2>1, <2>2
<1>4. CASE HashAndSend(r)
    BY <1>4 DEF HashAndSend
<1>5. ASSUME NEW reply \in Replies, Answer(r, reply)
      PROVE  \E verdict \in Verdicts : Auditor!Decide(r, verdict)
    <2> DEFINE verdict == [decision |-> reply, prompt |-> prompt[r], ruleset |-> ruleset[r]]
    <2>1. verdict \in Verdicts /\ subject[r] \in Subjects /\ ~IsRejected(subject[r])
        BY <1>5, AnswerVerdict
    <2>2. /\ cache' = [cache EXCEPT ![subject[r]] = verdict]
          /\ answer' = [answer EXCEPT ![r] = verdict]
          /\ subject' = [subject EXCEPT ![r] = None]
        BY <1>5 DEF Answer, Leave
    <2> HIDE DEF verdict
    <2>3. Auditor!Decide(r, verdict)
        BY <2>1, <2>2, ConstantsAssumption DEF Auditor!Decide, Auditor!IsReject, IsRejected
    <2>4. QED BY <2>1, <2>3
<1>6. CASE Raise(r) \/ CancelWaiting(r)
    <2>1. Auditor!Withdraw(r)
        BY <1>6 DEF Raise, CancelWaiting, Leave, Auditor!Withdraw, IInv, InReview
    <2>2. QED BY <2>1 DEF Auditor!PromiseNext
<1>7. QED BY <1>1, <1>2, <1>3, <1>4, <1>5, <1>6 DEF Review, Auditor!PromiseNext

\* The service implements the promise: answers come as if each review ran alone, and
\* a rejected subject gets the same verdict until the process restarts
\* (EthicsService.PromiseKept).
THEOREM ServiceKeepsPromise == Spec => PromiseKept
<1>1. Init => Auditor!PromiseInit
    BY DEF Init, Auditor!PromiseInit
<1>2. IInv /\ [Next]_vars => [Auditor!PromiseNext]_<<subject, cache, answer>>
    <2> SUFFICES ASSUME IInv, [Next]_vars
                 PROVE  Auditor!PromiseNext \/ UNCHANGED <<subject, cache, answer>>
        OBVIOUS
    <2>1. CASE Restart
        <3>1. Auditor!Forget
            BY <2>1 DEF Restart, Auditor!Forget
        <3>2. QED BY <3>1 DEF Auditor!PromiseNext
    <2>2. ASSUME NEW contents \in Prompts, EditPrompt(contents)
          PROVE  UNCHANGED <<subject, cache, answer>>
        BY <2>2 DEF EditPrompt
    <2>3. CASE UNCHANGED vars
        BY <2>3 DEF vars
    <2>4. QED BY <2>1, <2>2, <2>3, ReviewRefines DEF Next
<1>3. QED
    BY <1>1, <1>2, AlwaysIInv, PTL DEF Spec, PromiseKept, Auditor!Promise, Auditor!promiseVars

-----------------------------------------------------------------------------
(***************************************************************************)
(* The line for the lock: what EveryReviewEnds needs beside fairness.  The *)
(* queue holds each waiting task once and no other, through acquisitions,  *)
(* cached answers, cancellations anywhere in the line, and restarts.       *)
(***************************************************************************)

InLine ==
    /\ \A i \in 1 .. Len(queue) : pc[queue[i]] = "queued"
    /\ \A i, j \in 1 .. Len(queue) : queue[i] = queue[j] => i = j
    /\ \A r \in Reviewers : pc[r] = "queued" => \E i \in 1 .. Len(queue) : queue[i] = r

Ahead(q, r) == \E i, j \in 1 .. Len(queue) : i < j /\ queue[i] = q /\ queue[j] = r

\* The tasks that go on waiting stay in order.
OrderKept ==
    \A q, r \in Reviewers :
        Ahead(q, r) /\ pc'[q] = "queued" /\ pc'[r] = "queued" => Ahead(q, r)'

\* What a step may do to the line: nothing, let one task join, let one leave.
LineStands == queue' = queue /\ \A r \in Reviewers : pc'[r] = "queued" <=> pc[r] = "queued"

Joins(r) ==
    /\ pc[r] # "queued" /\ pc' = [pc EXCEPT ![r] = "queued"]
    /\ queue' = Append(queue, r)

LeavesFrom(i) ==
    /\ \A r \in Reviewers : pc'[r] = "queued" <=> pc[r] = "queued" /\ r # queue[i]
    /\ queue' \in Seq(Reviewers) /\ Len(queue') = Len(queue) - 1
    /\ \A j \in 1 .. Len(queue') : queue'[j] = IF j < i THEN queue[j] ELSE queue[j + 1]

LEMMA StandingLine ==
    ASSUME TypeOK, InLine, LineStands PROVE InLine' /\ OrderKept
<1>1. \A i \in 1 .. Len(queue) : queue[i] \in Reviewers
    BY DEF TypeOK
<1>2. InLine'
    BY <1>1 DEF InLine, LineStands
<1>3. OrderKept
    BY DEF OrderKept, LineStands, Ahead
<1>4. QED BY <1>2, <1>3

LEMMA LongerLine ==
    ASSUME TypeOK, InLine, NEW r \in Reviewers, Joins(r) PROVE InLine' /\ OrderKept
<1>1. queue \in Seq(Reviewers) /\ Len(queue) \in Nat /\ DOMAIN pc = Reviewers
    BY DEF TypeOK
<1>2. /\ Len(queue') = Len(queue) + 1
      /\ queue'[Len(queue) + 1] = r
      /\ \A i \in 1 .. Len(queue) : queue'[i] = queue[i] /\ queue[i] \in Reviewers
    BY <1>1 DEF Joins
<1>3. /\ pc'[r] = "queued" /\ pc[r] # "queued"
      /\ \A q \in Reviewers \ {r} : pc'[q] = pc[q]
    BY <1>1 DEF Joins
<1>4. \A i \in 1 .. Len(queue') : i \in 1 .. Len(queue) \/ i = Len(queue) + 1
    BY <1>1, <1>2
<1>5. \A i \in 1 .. Len(queue) : i \in 1 .. Len(queue') /\ i # Len(queue) + 1 /\ queue[i] # r
    BY <1>1, <1>2, <1>3 DEF InLine
<1>6. Len(queue) + 1 \in 1 .. Len(queue')
    BY <1>1, <1>2
<1>7. \A i \in 1 .. Len(queue') : pc'[queue'[i]] = "queued"
    BY <1>2, <1>3, <1>4 DEF InLine
<1>8. \A i, j \in 1 .. Len(queue') : queue'[i] = queue'[j] => i = j
    BY <1>2, <1>4, <1>5 DEF InLine
<1>9. \A q \in Reviewers : pc'[q] = "queued" => \E i \in 1 .. Len(queue') : queue'[i] = q
    BY <1>2, <1>3, <1>5, <1>6 DEF InLine
<1>10. OrderKept
    BY <1>2, <1>5 DEF OrderKept, Ahead
<1>11. QED BY <1>7, <1>8, <1>9, <1>10 DEF InLine

LEMMA ShorterLine ==
    ASSUME TypeOK, InLine, NEW i \in 1 .. Len(queue), LeavesFrom(i) PROVE InLine' /\ OrderKept
<1> DEFINE At(j) == IF j < i THEN j ELSE j + 1       \* where queue'[j] was
           Goes(k) == IF k < i THEN k ELSE k - 1     \* where queue[k] goes
<1>1. Len(queue) \in Nat /\ \A j \in 1 .. Len(queue) : queue[j] \in Reviewers
    BY DEF TypeOK
<1>2. /\ Len(queue') = Len(queue) - 1
      /\ \A r \in Reviewers : pc'[r] = "queued" <=> pc[r] = "queued" /\ r # queue[i]
    BY DEF LeavesFrom
<1>3. \A j \in 1 .. Len(queue') :
          At(j) \in 1 .. Len(queue) /\ At(j) # i /\ queue'[j] = queue[At(j)]
    BY <1>1, <1>2 DEF LeavesFrom
<1>4. \A j, k \in 1 .. Len(queue') : At(j) = At(k) => j = k
    BY <1>1, <1>2
<1>5. \A k \in 1 .. Len(queue) :
          k # i => Goes(k) \in 1 .. Len(queue') /\ At(Goes(k)) = k
    BY <1>1, <1>2
<1>6. \A k, l \in 1 .. Len(queue) : k # i /\ l # i /\ k < l => Goes(k) < Goes(l)
    BY <1>1
<1> HIDE DEF At, Goes
<1>7. \A k \in 1 .. Len(queue) : k # i => queue'[Goes(k)] = queue[k]
    BY <1>3, <1>5
<1>8. \A j \in 1 .. Len(queue') : pc'[queue'[j]] = "queued"
    BY <1>1, <1>2, <1>3 DEF InLine
<1>9. \A j, k \in 1 .. Len(queue') : queue'[j] = queue'[k] => j = k
    BY <1>3, <1>4 DEF InLine
<1>10. \A r \in Reviewers : pc'[r] = "queued" => \E j \in 1 .. Len(queue') : queue'[j] = r
    BY <1>2, <1>5, <1>7 DEF InLine
<1>11. OrderKept
    <2> SUFFICES ASSUME NEW q \in Reviewers, NEW r \in Reviewers, Ahead(q, r),
                        pc'[q] = "queued", pc'[r] = "queued"
                 PROVE  Ahead(q, r)'
        BY DEF OrderKept
    <2>1. PICK k, l \in 1 .. Len(queue) : k < l /\ queue[k] = q /\ queue[l] = r
        BY DEF Ahead
    <2>2. k # i /\ l # i
        BY <1>2, <2>1
    <2>3. /\ Goes(k) \in 1 .. Len(queue') /\ Goes(l) \in 1 .. Len(queue')
          /\ Goes(k) < Goes(l) /\ queue'[Goes(k)] = q /\ queue'[Goes(l)] = r
        BY <1>5, <1>6, <1>7, <2>1, <2>2
    <2>4. QED BY <2>3 DEF Ahead
<1>12. QED BY <1>8, <1>9, <1>10, <1>11 DEF InLine

\* Taking the first element, or any one, out of a sequence.
LEMMA TailShifts ==
    ASSUME NEW q \in Seq(Reviewers), q # <<>>
    PROVE  /\ Tail(q) \in Seq(Reviewers) /\ Len(Tail(q)) = Len(q) - 1
           /\ \A j \in 1 .. Len(Tail(q)) : Tail(q)[j] = q[j + 1]
OBVIOUS

LEMMA JoinedLength ==
    ASSUME NEW f \in Seq(Reviewers), NEW g \in Seq(Reviewers)
    PROVE  /\ f \o g \in Seq(Reviewers) /\ Len(f \o g) = Len(f) + Len(g)
           /\ \A j \in 1 .. Len(f) + Len(g) :
                  (f \o g)[j] = IF j <= Len(f) THEN f[j] ELSE g[j - Len(f)]
OBVIOUS

LEMMA RemovalShifts ==
    ASSUME NEW q \in Seq(Reviewers), NEW i \in 1 .. Len(q)
    PROVE  LET p == SubSeq(q, 1, i - 1) \o SubSeq(q, i + 1, Len(q))
           IN  /\ p \in Seq(Reviewers) /\ Len(p) = Len(q) - 1
               /\ \A j \in 1 .. Len(p) : p[j] = IF j < i THEN q[j] ELSE q[j + 1]
<1> DEFINE f == SubSeq(q, 1, i - 1)
           g == SubSeq(q, i + 1, Len(q))
           p == f \o g
<1>1. Len(q) \in Nat
    OBVIOUS
<1>2. /\ f \in Seq(Reviewers) /\ Len(f) = i - 1
      /\ \A j \in 1 .. i - 1 : f[j] = q[j]
    BY <1>1
<1>3. /\ g \in Seq(Reviewers) /\ Len(g) = Len(q) - i
      /\ \A j \in 1 .. Len(q) - i : g[j] = q[i + j]
    BY <1>1
<1> HIDE DEF f, g
<1>4. p \in Seq(Reviewers) /\ Len(p) = Len(q) - 1
    <2>1. f \o g \in Seq(Reviewers) /\ Len(f \o g) = Len(f) + Len(g)
        BY <1>2, <1>3, JoinedLength
    <2>2. QED BY <1>1, <1>2, <1>3, <2>1
<1>5. ASSUME NEW j \in 1 .. Len(p) PROVE p[j] = IF j < i THEN q[j] ELSE q[j + 1]
    <2>1. CASE j < i
        BY <1>1, <1>2, <1>3, <1>4, <2>1
    <2>2. CASE ~(j < i)
        <3>1. j - (i - 1) \in 1 .. Len(q) - i /\ i + (j - (i - 1)) = j + 1
            BY <1>1, <1>4, <2>2
        <3>2. p[j] = g[j - (i - 1)]
            BY <1>1, <1>2, <1>3, <1>4, <2>2
        <3>3. QED BY <1>3, <2>2, <3>1, <3>2
    <2>3. QED BY <2>1, <2>2
<1>6. QED BY <1>4, <1>5 DEF f, g

\* Every step of the service but a restart is one of the three.
LEMMA LineMoves ==
    ASSUME IInv, InLine, NEW r \in Reviewers, Review(r)
    PROVE  LineStands \/ Joins(r) \/ \E i \in 1 .. Len(queue) : LeavesFrom(i)
<1>1. DOMAIN pc = Reviewers /\ queue \in Seq(Reviewers) /\ Len(queue) \in Nat
    BY DEF IInv, TypeOK
<1>2. CASE Enter(r)
    <2>1. pc[r] = "called"
        BY <1>2 DEF Enter
    <2>2. CASE queue' = queue
        <3>1. Leave(r) \/ ReadPrompt(r)
            BY <1>2, <1>1, <2>2 DEF Enter, ReturnCached
        <3>2. QED BY <1>1, <2>1, <2>2, <3>1 DEF LineStands, Leave, ReadPrompt
    <2>3. CASE queue' # queue
        BY <1>2, <2>1, <2>3 DEF Enter, Joins
    <2>4. QED BY <2>2, <2>3
<1>3. CASE Acquire(r)
    <2>1. /\ pc[r] = "queued" /\ queue # <<>> /\ queue' = Tail(queue) /\ Head(queue) = r
          /\ Leave(r) \/ ReadPrompt(r)
        BY <1>3 DEF Acquire, ReturnCached
    <2>2. 1 \in 1 .. Len(queue) /\ queue[1] = r
        BY <1>1, <2>1
    <2>3. \A q \in Reviewers : pc'[q] = "queued" <=> pc[q] = "queued" /\ q # queue[1]
        BY <1>1, <2>1, <2>2 DEF Leave, ReadPrompt
    <2>4. LeavesFrom(1)
        BY <1>1, <2>1, <2>3, TailShifts DEF LeavesFrom
    <2>5. QED BY <2>2, <2>4
<1>4. CASE CancelWaiting(r)
    <2>1. CASE pc[r] = "called"
        BY <1>1, <1>4, <2>1 DEF CancelWaiting, LineStands, Leave
    <2>2. CASE pc[r] = "queued"
        <3>1. PICK i \in 1 .. Len(queue) :
                  /\ queue[i] = r
                  /\ queue' = SubSeq(queue, 1, i - 1) \o SubSeq(queue, i + 1, Len(queue))
            BY <1>4, <2>2 DEF CancelWaiting
        <3>2. \A q \in Reviewers : pc'[q] = "queued" <=> pc[q] = "queued" /\ q # queue[i]
            BY <1>1, <1>4, <3>1 DEF CancelWaiting, Leave
        <3>3. LeavesFrom(i)
            BY <1>1, <3>1, <3>2, RemovalShifts DEF LeavesFrom
        <3>4. QED BY <3>3
    <2>3. QED BY <1>4, <2>1, <2>2 DEF CancelWaiting
<1>5. CASE HashAndSend(r)
    BY <1>1, <1>5 DEF HashAndSend, LineStands
<1>6. CASE Raise(r)
    BY <1>1, <1>6 DEF Raise, Leave, LineStands
<1>7. CASE \E s \in Subjects : Request(r, s)
    BY <1>1, <1>7 DEF Request, LineStands
<1>8. CASE \E reply \in Replies : Answer(r, reply)
    BY <1>1, <1>8 DEF Answer, Leave, LineStands
<1>9. QED BY <1>2, <1>3, <1>4, <1>5, <1>6, <1>7, <1>8 DEF Review

LEMMA InLineStep == IInv /\ InLine /\ [Next]_vars => InLine' /\ OrderKept
<1> SUFFICES ASSUME IInv, InLine, [Next]_vars PROVE InLine' /\ OrderKept
    OBVIOUS
<1>1. TypeOK
    BY DEF IInv
<1>2. ASSUME NEW r \in Reviewers, Review(r) PROVE InLine' /\ OrderKept
    BY <1>1, <1>2, LineMoves, StandingLine, LongerLine, ShorterLine
<1>3. CASE Restart
    <2>1. queue' = <<>> /\ \A r \in Reviewers : pc'[r] = "idle"
        BY <1>3 DEF Restart
    <2>2. QED BY <2>1 DEF InLine, OrderKept
<1>4. CASE (\E contents \in Prompts : EditPrompt(contents)) \/ UNCHANGED vars
    BY <1>1, <1>4, StandingLine DEF EditPrompt, vars, LineStands
<1>5. QED BY <1>2, <1>3, <1>4 DEF Next

LEMMA AlwaysInLine == Spec => []InLine
<1>1. Init => InLine
    BY DEF Init, InLine
<1>2. QED BY <1>1, InLineStep, AlwaysIInv, PTL DEF Spec

\* A task that waits for the lock waits for somebody: for the holder, who is past the lock
\* and not gone with it, or, when the lock is free, for the first in line, who is still
\* there to take it.  No failure or cancellation leaves the lock taken or the line
\* headed by a task that is gone (auditor.py:45-68).
THEOREM WaitersAwaitSomeone ==
    Spec => [](\A r \in Reviewers :
                  pc[r] = "queued" =>
                      \/ lock # None /\ pc[lock] \in PastLock
                      \/ lock = None /\ queue # <<>> /\ pc[Head(queue)] = "queued")
<1>1. IInv /\ InLine =>
          \A r \in Reviewers :
              pc[r] = "queued" =>
                  \/ lock # None /\ pc[lock] \in PastLock
                  \/ lock = None /\ queue # <<>> /\ pc[Head(queue)] = "queued"
    <2> SUFFICES ASSUME IInv, InLine, NEW r \in Reviewers, pc[r] = "queued"
                 PROVE  \/ lock # None /\ pc[lock] \in PastLock
                        \/ lock = None /\ queue # <<>> /\ pc[Head(queue)] = "queued"
        OBVIOUS
    <2>1. CASE lock # None
        BY <2>1 DEF IInv, TypeOK, HolderOnly
    <2>2. CASE lock = None
        <3>1. queue \in Seq(Reviewers) /\ Len(queue) \in Nat
            BY DEF IInv, TypeOK
        <3>2. 1 \in 1 .. Len(queue) /\ queue # <<>>
            BY <3>1 DEF InLine
        <3>3. Head(queue) = queue[1]
            BY <3>1, <3>2
        <3>4. QED BY <2>2, <3>2, <3>3 DEF InLine
    <2>3. QED BY <2>1, <2>2
<1>2. QED BY <1>1, AlwaysIInv, AlwaysInLine, PTL

\* Nobody overtakes: a task that takes the lock was ahead of every task that waits, and
\* those that go on waiting keep their order (auditor.py:45, asyncio.Lock).
THEOREM NobodyOvertakes ==
    Spec => [][/\ OrderKept
               /\ \A q, r \in Reviewers :
                      lock' = q /\ lock # q /\ pc[r] = "queued" /\ r # q => Ahead(q, r)]_vars
<1>1. IInv /\ InLine /\ [Next]_vars
          => [/\ OrderKept
              /\ \A q, r \in Reviewers :
                     lock' = q /\ lock # q /\ pc[r] = "queued" /\ r # q => Ahead(q, r)]_vars
    <2> SUFFICES ASSUME IInv, InLine, Next, NEW q \in Reviewers, NEW r \in Reviewers,
                        lock' = q, lock # q, pc[r] = "queued", r # q
                 PROVE  Ahead(q, r)
        BY InLineStep
    <2>1. Acquire(q) \/ (Enter(q) /\ queue = <<>>)
        <3>1. lock' # lock /\ lock' # None
            BY ConstantsAssumption
        <3>2. PICK p \in Reviewers : Review(p)
            BY <3>1 DEF Next, EditPrompt, Restart
        <3>3. Acquire(p) \/ Enter(p)
            BY <3>1, <3>2 DEF Review, HashAndSend, Raise, CancelWaiting, Request, Answer
        <3>4. CASE Acquire(p)
            <4>1. ReadPrompt(p)
                BY <3>1, <3>4 DEF Acquire
            <4>2. QED BY <3>4, <4>1 DEF ReadPrompt
        <3>5. CASE Enter(p)
            <4>1. ReadPrompt(p) /\ queue = <<>>
                BY <3>1, <3>5 DEF Enter
            <4>2. QED BY <3>5, <4>1 DEF ReadPrompt
        <3>6. QED BY <3>3, <3>4, <3>5
    <2>2. PICK j \in 1 .. Len(queue) : queue[j] = r
        BY DEF InLine
    <2>3. queue \in Seq(Reviewers) /\ Len(queue) \in Nat
        BY DEF IInv, TypeOK
    <2>4. Head(queue) = q /\ queue # <<>>
        BY <2>1, <2>2, <2>3 DEF Acquire
    <2>5. 1 \in 1 .. Len(queue) /\ queue[1] = q
        BY <2>3, <2>4
    <2>6. 1 < j
        BY <2>2, <2>3, <2>5
    <2>7. QED BY <2>2, <2>5, <2>6 DEF Ahead
<1>2. QED BY <1>1, AlwaysIInv, AlwaysInLine, PTL DEF Spec
=============================================================================
