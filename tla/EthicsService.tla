---------------------------- MODULE EthicsService ----------------------------
(***************************************************************************)
(* EthicsService.review of aae/ethics/auditor.py: a verdict cache in       *)
(* memory, an asyncio.Lock around the consultation of the model, and the   *)
(* frozen prompt, which the service reads once to send it and once to hash *)
(* it (ruleset_hash.py).  A task gives up control at the lock and at the   *)
(* model call; other processes may replace the prompt file at any time.    *)
(***************************************************************************)
EXTENDS Integers, Sequences

CONSTANTS
    Reviewers,    \* tasks that await review()
    Subjects,     \* (subject_type, subject_id) keys
    Prompts,      \* contents prompt.md may have; its hash stands for itself
    Replies,      \* what the model may answer: decisions, and anything else
    MaxRestarts,  \* bound of the model on restarts of the process
    None

Decisions == {"approve", "reject", "escalate"}
Verdicts == [decision : Decisions, prompt : Prompts, ruleset : Prompts]

ASSUME ConstantsAssumption ==
    /\ None \notin Reviewers \cup Subjects \cup Verdicts
    /\ MaxRestarts \in Nat
    /\ Prompts # {}

VARIABLES
    pc,        \* where each task is in review(): "idle" when in none
    subject,   \* req's cache key, by task
    lock,      \* the task that holds self._lock, or None
    queue,     \* tasks that wait for it, in order
    cache,     \* self._cache, by subject
    file,      \* the contents of prompt.md
    prompt,    \* what a task read from it to send
    ruleset,   \* what a task hashed
    answer,    \* the verdict review() returned to a task last
    rejected,  \* history: subjects a verdict has ever rejected
    restarts   \* history: number of restarts

vars == <<pc, subject, lock, queue, cache, file, prompt, ruleset, answer, rejected, restarts>>

IsRejected(s) == cache[s] # None /\ cache[s].decision = "reject"

Init ==
    /\ pc = [r \in Reviewers |-> "idle"]
    /\ subject = [r \in Reviewers |-> None]
    /\ lock = None
    /\ queue = <<>>
    /\ cache = [s \in Subjects |-> None]
    /\ file \in Prompts
    /\ prompt = [r \in Reviewers |-> None]
    /\ ruleset = [r \in Reviewers |-> None]
    /\ answer = [r \in Reviewers |-> None]
    /\ rejected = {}
    /\ restarts = 0

\* A caller creates the task.
Request(r, s) ==
    /\ pc[r] = "idle"
    /\ pc' = [pc EXCEPT ![r] = "called"]
    /\ subject' = [subject EXCEPT ![r] = s]
    /\ answer' = [answer EXCEPT ![r] = None]
    /\ UNCHANGED <<lock, queue, cache, file, prompt, ruleset, rejected, restarts>>

\* review() is left: by return, exception or cancellation.
Leave(r) ==
    /\ pc' = [pc EXCEPT ![r] = "idle"]
    /\ subject' = [subject EXCEPT ![r] = None]
    /\ prompt' = [prompt EXCEPT ![r] = None]
    /\ ruleset' = [ruleset EXCEPT ![r] = None]

ReturnCached(r) ==
    /\ Leave(r)
    /\ answer' = [answer EXCEPT ![r] = cache[subject[r]]]

\* The first statement under the lock that reads the file.
ReadPrompt(r) ==
    /\ pc' = [pc EXCEPT ![r] = "prompt_read"]
    /\ prompt' = [prompt EXCEPT ![r] = file]
    /\ lock' = r
    /\ UNCHANGED <<subject, ruleset, answer>>

(***************************************************************************)
(* review() up to its first suspension.  asyncio.Lock lets a task through  *)
(* only if the lock is free and nobody waits for it.  The second look at   *)
(* the cache follows the first with nothing in between.                    *)
(***************************************************************************)
Enter(r) ==
    /\ pc[r] = "called"
    /\ \/ /\ IsRejected(subject[r])
          /\ ReturnCached(r)
          /\ UNCHANGED <<lock, queue>>
       \/ /\ ~IsRejected(subject[r])
          /\ lock = None /\ queue = <<>>
          /\ ReadPrompt(r)
          /\ UNCHANGED queue
       \/ /\ ~IsRejected(subject[r])
          /\ lock # None \/ queue # <<>>
          /\ queue' = Append(queue, r)
          /\ pc' = [pc EXCEPT ![r] = "queued"]
          /\ UNCHANGED <<subject, lock, prompt, ruleset, answer>>
    /\ UNCHANGED <<cache, file, rejected, restarts>>

\* Faulty resumptions: without the second look at the cache, and without
\* waiting for the holder.
AcquireUnchecked(r) ==
    /\ pc[r] = "queued" /\ queue # <<>> /\ Head(queue) = r /\ lock = None
    /\ queue' = Tail(queue)
    /\ ReadPrompt(r)
    /\ UNCHANGED <<cache, file, rejected, restarts>>

AcquireAnyTime(r) ==
    /\ pc[r] = "queued" /\ queue # <<>> /\ Head(queue) = r
    /\ queue' = Tail(queue)
    /\ IF IsRejected(subject[r])
       THEN ReturnCached(r) /\ UNCHANGED lock
       ELSE ReadPrompt(r)
    /\ UNCHANGED <<cache, file, rejected, restarts>>

\* The first waiter resumes with the lock, and looks at the cache again.
Acquire(r) ==
    /\ pc[r] = "queued" /\ queue # <<>> /\ Head(queue) = r /\ lock = None
    /\ queue' = Tail(queue)
    /\ IF IsRejected(subject[r])
       THEN ReturnCached(r) /\ UNCHANGED lock
       ELSE ReadPrompt(r)
    /\ UNCHANGED <<cache, file, rejected, restarts>>

\* frozen_prompt_hash reads the file again; then the model is called.
HashAndSend(r) ==
    /\ pc[r] = "prompt_read"
    /\ ruleset' = [ruleset EXCEPT ![r] = file]
    /\ pc' = [pc EXCEPT ![r] = "awaiting"]
    /\ UNCHANGED <<subject, lock, queue, cache, file, prompt, answer, rejected, restarts>>

\* A faulty parser that takes any decision.
AnyReply == Replies

\* The replies _parse_verdict_json lets through; it raises on the others.
WellFormed == Replies \cap Decisions

\* A faulty answer that is returned and not cached.
AnswerUncached(r, reply) ==
    LET verdict == [decision |-> reply, prompt |-> prompt[r], ruleset |-> ruleset[r]]
    IN  /\ pc[r] = "awaiting"
        /\ reply \in WellFormed
        /\ answer' = [answer EXCEPT ![r] = verdict]
        /\ rejected' = IF reply = "reject" THEN rejected \cup {subject[r]} ELSE rejected
        /\ lock' = None
        /\ Leave(r)
        /\ UNCHANGED <<queue, cache, file, restarts>>

\* The model answers: the verdict is cached, whatever it is, and returned.
Answer(r, reply) ==
    LET verdict == [decision |-> reply, prompt |-> prompt[r], ruleset |-> ruleset[r]]
    IN  /\ pc[r] = "awaiting"
        /\ reply \in WellFormed
        /\ cache' = [cache EXCEPT ![subject[r]] = verdict]
        /\ answer' = [answer EXCEPT ![r] = verdict]
        /\ rejected' = IF reply = "reject" THEN rejected \cup {subject[r]} ELSE rejected
        /\ lock' = None
        /\ Leave(r)
        /\ UNCHANGED <<queue, file, restarts>>

\* A faulty failure path that leaves the lock held.
RaiseHoldingLock(r) ==
    /\ pc[r] = "awaiting"
    /\ Leave(r)
    /\ UNCHANGED <<lock, queue, cache, file, answer, rejected, restarts>>

\* The model call raises, its reply is malformed, or the task is cancelled
\* there: `async with` releases the lock.
Raise(r) ==
    /\ pc[r] = "awaiting"
    /\ lock' = None
    /\ Leave(r)
    /\ UNCHANGED <<queue, cache, file, answer, rejected, restarts>>

\* A task is cancelled before it starts or while it waits for the lock.
CancelWaiting(r) ==
    /\ \/ pc[r] = "called" /\ UNCHANGED queue
       \/ /\ pc[r] = "queued"
          /\ \E i \in 1 .. Len(queue) :
                 /\ queue[i] = r
                 /\ queue' = SubSeq(queue, 1, i - 1) \o SubSeq(queue, i + 1, Len(queue))
    /\ Leave(r)
    /\ UNCHANGED <<lock, cache, file, answer, rejected, restarts>>

\* Outside of the process: prompt.md is replaced.
EditPrompt(contents) ==
    /\ file # contents
    /\ file' = contents
    /\ UNCHANGED <<pc, subject, lock, queue, cache, prompt, ruleset, answer, rejected, restarts>>

\* The process restarts: the cache is an attribute of the service.
Restart ==
    /\ restarts < MaxRestarts
    /\ restarts' = restarts + 1
    /\ pc' = [r \in Reviewers |-> "idle"]
    /\ subject' = [r \in Reviewers |-> None]
    /\ lock' = None
    /\ queue' = <<>>
    /\ cache' = [s \in Subjects |-> None]
    /\ prompt' = [r \in Reviewers |-> None]
    /\ ruleset' = [r \in Reviewers |-> None]
    /\ answer' = [r \in Reviewers |-> None]
    /\ UNCHANGED <<file, rejected>>

Review(r) ==
    \/ Enter(r) \/ Acquire(r) \/ HashAndSend(r) \/ Raise(r) \/ CancelWaiting(r)
    \/ \E s \in Subjects : Request(r, s)
    \/ \E reply \in Replies : Answer(r, reply)

Next ==
    \/ \E r \in Reviewers : Review(r)
    \/ \E contents \in Prompts : EditPrompt(contents)
    \/ Restart

Spec == Init /\ [][Next]_vars

(***************************************************************************)
(* asyncio runs every ready task, and wakes the first waiter of a released *)
(* lock.  That a model call comes to an end is the provider's obligation:  *)
(* review() sets no timeout.                                               *)
(***************************************************************************)
FairSpec ==
    /\ Spec
    /\ \A r \in Reviewers :
           /\ WF_vars(Enter(r))
           /\ WF_vars(Acquire(r))
           /\ WF_vars(HashAndSend(r))
           /\ WF_vars(Raise(r) \/ \E reply \in Replies : Answer(r, reply))

-------------------------------------------------------------------------------
TypeOK ==
    /\ pc \in [Reviewers -> {"idle", "called", "queued", "prompt_read", "awaiting"}]
    /\ subject \in [Reviewers -> Subjects \cup {None}]
    /\ lock \in Reviewers \cup {None}
    /\ queue \in Seq(Reviewers)
    /\ cache \in [Subjects -> Verdicts \cup {None}]
    /\ file \in Prompts
    /\ prompt \in [Reviewers -> Prompts \cup {None}]
    /\ ruleset \in [Reviewers -> Prompts \cup {None}]
    /\ answer \in [Reviewers -> Verdicts \cup {None}]
    /\ rejected \subseteq Subjects
    /\ restarts \in Nat

\* Single-flight (auditor.py:9): one consultation of the model at a time.
SingleFlight ==
    \A q, r \in Reviewers :
        pc[q] \in {"prompt_read", "awaiting"} /\ pc[r] \in {"prompt_read", "awaiting"} => q = r

\* The model is never consulted on a subject it has ever rejected ("cannot be
\* re-prompted on a REJECT", AAE_V3_0_Roadmap.md:424).
RejectForGood == \A r \in Reviewers : pc[r] = "awaiting" => subject[r] \notin rejected

\* The same within the life of the process (auditor.py:8), however the requests for
\* a subject overlap.
RejectedNotConsulted == restarts = 0 => RejectForGood

\* The same from one state to the next, restarts apart: nothing replaces or drops
\* a cached reject, not even a verdict that was under way when it came.
RejectFinal ==
    [][\A s \in Subjects :
           IsRejected(s) /\ restarts' = restarts => cache'[s] = cache[s]]_vars

\* Every review ends, for every reviewer: the lock is not kept by a review that
\* raised or was cancelled, and no reviewer is overtaken for ever.
EveryReviewEnds == \A r \in Reviewers : pc[r] # "idle" ~> pc[r] = "idle"

-------------------------------------------------------------------------------
\* The service keeps the auditor's promise: what is asked is what is in review(),
\* what is decided is what is cached.
Auditor == INSTANCE AuditorPromise WITH
    asked <- subject, decided <- cache, answer <- answer

PromiseKept == Auditor!Promise
===============================================================================
