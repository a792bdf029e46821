# A TLA+ verification of the Autonomous Agent Economy

The repository (package `aae`, version 3) is a back end in which a *Mother* agent runs small
businesses through *child* agents. A ledger with three pots pays for everything, a frozen policy
bounds what may be spent, an Ethics Auditor may veto, and one operator steers the whole by mail.
Most of its code is meant to hold whatever the agents ask for. This directory models that code in
TLA+, checks it with TLC on small instances, and proves the most important facts with TLAPS.

Paths below are relative to the root of the repository.

## 1. The system

| Component (source) | State | Operations | What is hard |
|---|---|---|---|
| Inflow split (`aae/cashflow/ledger.py`, `pots.py`, `hard_floors.py`) | none | `split_inflow`, the caps | three roundings to 4 decimals, residues, caps below the balance |
| Cashflow ledger (`ledger.py`, `aae/db/session.py`) | append-only rows; a balance is a sum | `credit`, `debit`, `split_and_record_inflow`, `emergency_transfer_reserve_to_operating`; commit, rollback | checks against rows a session can see; several sessions; rollback of what a check relied on |
| LLM client and router (`aae/core/llm_client.py`, `model_router.py`) | none of its own; reads the ledger and a `BudgetState` | `call` | the balance is read before an `await` and relied on after it; exceptions swallowed |
| Ethics Auditor (`aae/ethics/auditor.py`, `ruleset_hash.py`) | verdict cache, one `asyncio.Lock` | `review` | double-checked cache around a lock, cancellation, restart, prompt read twice |
| Child supervisor (`aae/core/child_supervisor.py`) | registry of children | `register`, `heartbeat`, `record_*`, `evaluate`, `pause`, `kill`, `pause_all`, `kill_all` | `kill_all` is a task group that other tasks overtake |
| Operator mail (`aae/core/operator_parser.py`, `aae/gmail/webhook.py`, `aae/server/routes/webhooks.py`) | Gmail's unread flags | `handle_push`, `parse` | redelivery, arrival meanwhile, failure between two `mark_read` |
| Tool lifecycle (`aae/codebuilder`, `aae/tools`) | registry by SHA-256 | build, escalate, sign, register, retire, invoke | a copy of the request is escalated; registration brings a retired tool back |
| Pre-registration (`aae/preregistration`, the trigger of the migration) | locked rows | `create`, `get`, `ensure_locked_and_exists`, `verify_hash`, `analyze` | weeks between locking and analysing, rows and encoder changed in between, two databases of which one enforces the lock |
| Expansion policy (`aae/core/mother_agent.py`) | none | `current_rung`, `can_propose_new`, `must_use_different_channel` | the gate counts what is live when it is asked; what it let through goes live later |
| Channel health (`aae/channels/health.py`, `base.py` and `health()` of the clients) | `channel_health`, of which the last row counts | `run_health_cycle`, `check_all`, `persist` | one `await` per client, cycles that overlap, a client that raises |
| Frozen paths (`aae/ops/freeze_experiment.py`) | `hashes.lock` | `freeze`, `update`, `verify`, `verify_exit_code` | edits while the files are read, two commands at a time, a writer that is killed |
| Reconciliation (`aae/cashflow/reconcile.py`) | none | `check_drift` | two reads of a changing table |
| Gmail watch (`aae/gmail/watch.py`) | none | `needs_renewal` | two periods and an expiry |

How they interact. The LLM client calls the ledger twice around its call of the provider (a read
before, a debit after) and the router in between. The auditor calls the model through a client it is
given. The supervisor, the auditor and the client are called by tasks of one asyncio loop, and what
runs between two suspensions runs undisturbed. The ledger writes through SQLAlchemy sessions of a
shared database: other sessions, the seeding script among them, see committed rows only. The
operator's mail enters through the server; its results are returned to whoever delivered the push.
The Mother's gate reads the supervisor's registry and the last rows of the health cycle, and what it
lets through enters that registry after a review and an approval. The bootstrap script and the
weekly digest call the frozen-path tool. The callers of most components (a scheduler, the LangGraph
wiring, the code that acts on a supervisor's decision or on a command) are not in the repository. A
model lets such a caller call anything, at any moment, with any argument the code accepts.

What makes each component correct is the list of properties in section 3; `PROJECT.json` names the
hazard each is aimed at, and the most important of those no property covers yet; the smaller ones are in
section 5.

## 2. The modules

| Module | Models | State and actions |
|---|---|---|
| `InflowSplit` | `split_inflow`, caps, `quantize` | pure operators over integers: 1 is a fraction of a cent, `Scale` of them the ledger's quantum of $0.0001 |
| `Cashflow` | `CashflowService`, `session_scope` | `committed` and `pending[s]`: sums of rows by pot; one action per method, `Commit`, `Rollback` |
| `ModelRouter` | `route`, `estimate_cost_usd` | pure operators over the frozen price table, in micro-dollars |
| `LLMClient` | `LLMClient.call`, over `Cashflow` and `ModelRouter` | `call[c]`: the locals of a suspended call; `StartCall`, `FinishCall`, `FailCall` |
| `AuditorPromise` | what the auditor promises | abstract specification: ask, decide, withdraw, forget |
| `EthicsService` | `EthicsService.review` | `pc[r]`, lock and its waiters, cache, prompt file; an action for each stretch between suspensions |
| `ChildSupervisor` | `ChildSupervisor` | `entry[c]` is `self.children`; one action per method; `kill_all` is `StartSweep`, a `SweepKill` per task, `EndSweep`, `CancelSweep` |
| `OperatorParser` | `parse` | an operator on the words of a subject, each word one of the kinds the parser tells apart, and on a body: none, short, or longer than what is quoted of it |
| `OperatorMail` | `handle_push`, its route, Gmail, Pub/Sub | `unread`, `pushes`, `listed`, `parsed`, `handed`; `StartPush`, `HandleMail`, `MarkFails`, `Crash`, `Return` |
| `ToolLifecycle` | `build`, the signer, `ToolRegistry`, `invoke` | `files`, `artifacts` in the callers' hands, `registry`; `Build`, `CrashInBuild`, `WriteFails`, `AttachVerdict`, `Register`, `Retire`, `Invoke`, `Restart` |
| `FrozenPaths` | `freeze_experiment.py`, as the bootstrap script and the digest use it | `lock`, `file`, and for each process its `command`, `reading`, `next`, `seen`; `Start`, `HashNext`, `HashMissing`, `Compare`, `OpenLock`, `WriteLock`, `Kill`, edits |
| `Preregistration` | `register.py`, `analyze.py`, `canonical.py`, the trigger | `row`, `inserted` by session, what an analyst `held`, its `result`, the `encoder`; an action per method, `Commit`, `Rollback`, `Update`, `Delete`, `Install` |
| `MotherLadder` | `mother_agent.py`, `expansion_rungs.py` | pure operators: `CurrentRung`, `Gate`, `MayUse` |
| `ChannelHealth` | the health cycle and `health()` of the clients | `latest` rows, and for each cycle which client it asks and what it `found`; an action per `await`, `Change` |
| `Expansion` | the gate over `ChildSupervisor`, `ChannelHealth` and `MotherLadder` | proposals `out`, the `channel` of each child, `trailing` revenue; `Propose`, `Approve`, `Reject`, `Halt`, `Trade`, `Watch` |
| `MC*` | instances for TLC | constants and symmetries only, except that `MCInflowSplit` sweeps the amounts (`SweepSpec`) and states the properties of a split, and `MCSupervisor` has the constraint of its run |
| `*Proofs` | theorems | see section 4 |

Definitions called "faulty" stand beside the one they vary and are used by no specification: each
is a plausible mistake in that code, and shows that a property notices it.

### Choices that need an argument

*Money.* Amounts are integers, so that Python's `Decimal` arithmetic is exact in the model, and
`quantize` is modelled by what it does: round half to even, to a multiple of `Scale`.
`Cashflow` keeps the sum of a pot's rows instead of the rows, which is all that `balance()` and the
checks read. The 12-digit limit of a row lies above `MaxBalance`, the bound of the model.

*A ledger method is one action.* It does not await. Its only read of the table is its first
statement, its later ones insert rows that no other session sees before `Commit`, and READ
COMMITTED lets a session see its own. Whatever another session commits in the middle of a method
could as well have been committed right after its read. A flush that fails, and a crash, is
`Rollback`.

*The signed transfer.* The HMAC is abstracted to `SignedTransfers`, the amounts the operator has
signed. The model lets each be transferred any number of times, as the code does: the signature
covers the amount and the date only.

*An LLM call* is cut at its one `await`. Between the two halves other calls start and finish, the
session is used, committed and rolled back, the operator stops and resumes the system.
`FinishCall` is the whole tail of `call`, with the `except Exception: pass` around the debit.
A caller may pass a `BudgetState`. `call` then goes by its pot instead of the ledger's
(`OperatingOf`), while the debit is the ledger's as ever; nothing keeps that pot or `spent_mtd_usd`
up to date, so that `Budgets` are inputs of a call, with values that need not be true.

*A review* is cut where it suspends: at the lock and at the model call. The lock is Python's: it
lets a newcomer through only if it is free and nobody waits, and wakes its waiters in order.
The prompt file is read once to be sent and once more to be hashed; another process may replace it
in between, which is why `HashAndSend` is a step of its own. Cancellation can come wherever the
task is suspended. `Restart` empties the cache, which lives in memory.

*`kill_all`* takes its snapshot and creates one task per child before anything else runs
(`StartSweep`); each task yields once (`asyncio.sleep(0)`) and then sets the status. Any other
method may run between two tasks. A second caller may run `kill_all` at the same time.
`Obey` is the caller who acts, at once or later, on what `evaluate` told it. `register` takes a
`ChildRun` in any status, with whatever it has spent and earned, and `record_spend` and
`record_revenue` any amount, so that books may be corrected downwards. `revised` remembers, for
`OrdersStand` only, whose books were changed in the child's favour since its evaluation.

*Mail.* One push is handled at a time because the route calls the synchronous `handle_push` inside
a coroutine. Mail arrives at any moment. `mark_read` may fail after Gmail has marked the mail. The
answer may get lost, in which case Pub/Sub delivers the push again although its commands were
handed on. The order in which `list_unread` lists mail is left open. `parse` accepts any body beside
any command; of REJECT and EMERGENCY_TRANSFER it keeps the first 500 characters, unread.

*Tools.* Every call of the tool life cycle is synchronous, and nothing overtakes it but the end of the
process, which `CrashInBuild` puts before, within and after the write of `tool.py`. `WriteFails` is
an `OSError` at the same places: `build` does not catch it, and the process lives on with its
registry and perhaps an empty file. The hash covers
the files and the escalated request with its id, so that it is taken as injective on requests and
equal for two builds of one request. Failed builds change nothing. Callers keep artifacts over a
restart, the registry does not survive one. An id of a verdict is modelled by that verdict's
decision, which `register` never looks at.

*A frozen-path command* reads one file per step, since an editor or another command may write between
two reads. `write_lock` is two steps, because opening the file for writing empties it before the
object is written; a process killed in between leaves a lock that is not JSON. Hashes are the
contents they are taken of. A lock may list a file that an earlier `FROZEN_PATHS` named.

*Pre-registration.* Of what is registered the threshold is kept, the only field `analyze` compares;
the other fields are covered by the hash and by the trigger in the same way. A hash is the pair of
the encoder and the body. Changes by hand leave the hash alone: it has no key, so that someone who
recomputes it registers anew, and no check in the code could tell. The column rounds a threshold
to four decimals, half up; the payload, which `get` reads, does not.

*A health cycle* asks the clients one after the other. Each answers in one step with what it finds
then, and `persist` runs without another `await` after the last. A client that decodes the reply
raises on one that is not JSON, which ends the cycle with no row written.

*The gate* is a pure function, and the state it is asked about is that of the supervisor and of the
health rows. A proposal stays `out` until it is approved or rejected; `Approve` is `register` of a
child, and `Halt` the supervisor's `kill` of a live one. A pause takes a child off the live ones as
a kill does, and is left to `kill`. The supervisor's own histories (heartbeats, money, sweeps) do
not meet the gate.

## 3. What is checked

| Run | Question | Result |
|---|---|---|
| `split` | Does a split lose or create money, exceed a cap, or round to the wrong side? | `SplitConserves`, `CapsRespected`, `SharesNearest`, `OperatingSharePositive` hold |
| `ledger` | One Mother beside the seeding script: can any history break a pot's rule? | the floor, Growth and Reserve rules hold, and money is conserved |
| `ledger_full_pot` | Is money conserved when an inflow meets a pot above its cap? | **no** |
| `llm` | When may the ledger refuse the cost of a call the check let through? | only if the pot is below the balance the call went by (it shrank meanwhile, or the caller's `BudgetState` was stale), the call cost more than estimated, or the cost has too many decimals |
| `llm_overlap` | Do calls that overlap respect the floor together? | **no** |
| `ethics` | Does the service keep the auditor's promise, one consultation at a time, and does every review end? | yes |
| `supervisor` | Whom may a `kill_all` leave alive, and is what `evaluate` told a caller still due when he gets to it, days later? | only children registered or paused since its snapshot; yes, unless revenue was recorded or spending taken back |
| `mail` | Is a command handed on twice, with words added to its subject, lost without a failure, or left unread for ever? | no |
| `tools` | Which code runs, and can a tool requested as high-risk run unreviewed? | only complete code of a build that passed; no |
| `frozen` | Can a verification be wrong about a file nobody touched, and where does a broken lock come from? | no; from a writer that was killed or is still writing |
| `prereg` | Can an analysis with a valid hash use another threshold, can the alarm be false, can a locked row change on Postgres? | no; without the trigger rows do change, and the hash tells |
| `expansion` | By how much can proposals in flight exceed the limit of children or crowd a channel, and what is the $500 rule worth while channels flap? | by as many as overtook the approval; two channels did answer during the cycle it relied on |

The runs marked **no** check a statement of the repository's own documentation that the code does
not keep. Each is described under `findings` in `PROJECT.json` with the line it contradicts:

* The Growth cap is 30 % of a trailing revenue, which may fall below the pot. `split_inflow` then
  moves *more* than the share to Operating and makes the Growth share negative, and the row of a
  negative share is skipped: Operating is credited with money that never came in.
* Two calls in flight pass the check against the same balance.

What the code does keep of both statements is proved: `SplitExact` says how much too much a full pot
lets in, and that no split loses money; `OneCallRefusals`, that a call that reads the ledger, and that
no other overlaps, is refused afterwards only for a cost above its estimate or one that no row can hold.

Two properties of passing runs are about rules that the code and the roadmap state differently. The
models follow the code, and the properties hold of its rules:

* **`OrdersStand`** and the policy of `evaluate`. `AAE_V3_0_Roadmap.md:624` kills a child that misses its
  target *if day_since_spawn == 30*; the code from that day on (`child_supervisor.py:100`), as
  `tests/test_child_supervisor.py:43` expects of a child of 31 days. Under the roadmap's rule an order to
  kill would lapse the next day, and `OrdersStand` fail: its mutant is that rule. `:626` pauses *for
  the rest of the month*; nothing resets `spent_mtd_usd`, so that the pause is advised for good, and
  `OrdersStand` would not survive the reset either. `:623` and `:625` kill where `:626` pauses, and no
  order is given; `evaluate` looks at the budget first, so that a child that meets a rule to kill is
  paused if it is over its budget too.
* **`NothingAddedToSubject`** and the grammar of commands. `AAE_V3_0_Roadmap.md:928` rejects *any message
  with additional content beyond the allowed grammar*, and the table of that grammar has no body for
  six of the eight commands. `parse` keeps this for subjects, of which alone the property speaks, and
  does not look at bodies: a PAUSE that goes on in its body is handed on as a PAUSE, in the model too.

### Bounds, and why they are enough

* `split`: at `Scale = 4` the Reserve rounding repeats every 32 units and the Growth rounding every
  160; amounts up to 240 contain every tie and every direction of rounding together. Room below a
  cap of 0, 1 and 4 quanta and of no limit: no overflow, part of the share, all of it. Balances 0 and
  3. The theorems of `InflowSplitProofs` have no such
  bound.
* `ledger`: a floor of 2, amounts of 1 and 2, inflows of 4, a signed transfer of 1 and pots between
  -4 and 4 let every check pass and fail by one, let a rollback take back what a check relied on,
  and let a pot be full, over-full and empty. One writing session and the seeding script: other
  sessions only commit credits, and any number of them is covered by the proofs.
* `llm`: two callers are the least that overlap. Each call has no `BudgetState`, one without a monthly
  budget whose pot may be above what the ledger holds, or one with a monthly budget that some requests
  exceed. The ledger takes even amounts only, so that some costs cannot be booked. `MaxBilled` stops
  calls from starting once that much is charged, which allows a cheap call before the ones that
  matter. The ledger's own session takes part in the steps on
  Operating; steps on the other pots do not meet the client.
* `ethics`: three reviewers, so that two wait while one holds the lock, and one of the waiters may be
  cancelled or overtaken. One subject: reviews of different subjects meet only at the lock, where
  the subject plays no part, and the safety properties are proved for any number. Two prompts, one
  restart.
* `supervisor`: two children and one `kill_all`, so that one child can be killed, paused, registered or
  evaluated while the task of the other is pending; any numbers are proved. Days 0, 14, 30 and 31
  are the deadline, the day of the target and the day after, so that a rule that applied on one day
  only would be seen to lapse. Spending and revenue with refunds between -2 and 2, a budget of 2, a target
  of 2 and a burn limit of 1 make every rule apply and not apply, alone and together. The constraint
  `PolicyOrSweep` follows the days, revenue and refunds for one child and before any `kill_all`, and two
  children and a `kill_all` on one day on which they only spend: the policy looks at one child, and
  `kill_all` at no books.
* `mail`: a command of two words, one of three with a body, and two mails that go on after a command,
  one of them with a body longer than what is quoted; several mails meet in one push while another one
  arrives.
* `tools`: one request of high risk by its own account and one that the policy escalates; two kinds of
  verdict. Tools meet nowhere, and the properties are proved for any number.
* `frozen`: two commands, two files read in one order, two contents and a missing file, a path that
  only old locks list. Two edits, so that a file may be changed and changed back, or both changed.
* `prereg`: two sessions and two preregistrations, so that one may be created while the other is read.
  Thresholds 10 and 14 with a quantum of 10: one that the column keeps, one that it rounds. Two
  encoders, and two changes, so that a change can be taken back.
* `expansion`: three children, so that two proposals may overtake a third and the third vertical meets
  its rule; two channels, one of which decodes JSON; two cycles that may overlap. Revenues of 50 and
  500 take the gate to its first and third rung, with the concentration rule; the ladder itself is
  proved monotone for all. Children live for one day, since the gate does not look at their age.

`CHECK_DEADLOCK FALSE` stands where the system really stops: `split` ends at its last amount, and
mail when all mail was sent and handled; and `prereg` when every row is deleted and no change is left.

### Fairness

* `EthicsService`: weak fairness of `Enter`, `Acquire` and `HashAndSend`, as asyncio runs every ready
  task and a released lock wakes its first waiter; weak fairness of the end of a model call, in
  an answer or an exception, which is the provider's obligation: `review` has no timeout, and
  `EveryReviewEnds` does not hold without it. No fairness on requests, cancellations, edits, restarts.
* `OperatorMail`: weak fairness of `StartPush` (Pub/Sub delivers again what was not answered) and
  `Return`; strong fairness of `HandleMail`, since Gmail or the process may fail over and over but not
  every time. No fairness on sending, failing or crashing.
* The other modules are checked for safety only. Nothing in the repository schedules a health cycle, a
  verification or an analysis, so that no fairness of them could be justified.

## 4. What is proved

TLAPS checks the following for every value of the constants that satisfies the named assumptions.

* **`InflowSplitProofs`**, the split for any scale, amount, balances and caps. `SplitExact`: the rows
  add up to the amount and, once more, to every unit by which a pot is above its cap, so that no split
  loses money, only such a pot makes any, and otherwise (`SplitConservesMoney`) they add up to the
  amount. `EntriesRecordable`: the row validator accepts each of them.
  `EverySplitConserves`, `EverySplitRespectsCaps`, `EverySplitNearest` and
  `EveryOperatingSharePositive` are the four properties of the run `split` for every inflow, also one
  that is no multiple of the quantum. The lemmas bound the rounding (`RoundHalfEvenNearest`,
  `QuantizeNearest`), the overflow (`OverflowFits`), and the shares (`SharesBelowAmount`,
  `SharesRounded`); `SweepShares` and `RestAboveHalf` carry them to the sweep.
* **`MoneyProofs`**, in four parts.
  *The ledger.* `TypeCorrect` (any number of sessions), `MoneyConserved` (cites the theorem on the
  split), `MoneyNeverLost` (without the condition on full pots: the table never holds less than came
  in), `ReserveTakenBySignedTransfersOnly`; and, under `SingleWriter` (at most one session is the
  Mother's), `FloorHeldBySingleWriter`, `GrowthHeldBySingleWriter` and
  `DebtorsSeeFloorBySingleWriter`. The floor is a property of a commit, while the check was made at
  a debit, possibly many calls and other sessions' commits earlier. The invariant that carries it
  over is `OwedAboveFloor`: a session whose uncommitted rows lower Operating still sees the floor or
  more. It survives the commits of the other sessions because those owe nothing, which is where
  `SingleWriter` is needed.
  *The ledger as a serial one.* `SingleWriterSerializable`: under `SingleWriter`, `Cashflow` implements
  `SerialLedger`, an abstract ledger in which a transaction is one step. Each commit leaves what the
  calls of its transaction would have left, had they run alone on the balances it was committed on,
  with the checks of the floor, of the row format and of the caps made there. The invariant is
  `ViewsSerial`: what a session sees is a chain of legal calls away from the committed balances
  (`TransactionAlone`). A call appends to the chain (`OneMoreCall`); the commit of another session
  shifts it (`TransactionShifts`), and each call of it stays legal, because that session only topped
  up Operating, where more money refuses no debit (`DebitStaysAllowed`) and which no split looks
  at (`SplitBlindToOperating`), or because the session whose chain it is only tops up itself.
  *The client.* Every step of the client moves the ledger as a call of the service does, or not at
  all (`ClientMoves`), so that what the ledger keeps it keeps under the client too:
  `FloorHeldWithClient`, `MoneyConservedWithClient`, `ReserveKeptWithClient`. `ClientTypeCorrect`, and
  `RefusalsAreExplained` from the invariant `CallsCovered`: a suspended call has checked that its
  estimate leaves the floor in the balance it went by.
  *A client that makes one call at a time.* Of the three reasons of `RefusalsExplained` the first, a pot
  below the balance the call went by, needs an overlap or a stale `BudgetState`: under `OneCallAtATime`
  (one caller, who passes no `BudgetState` and whose session no other task uses during a call, and
  `SingleWriter`) the pot is never smaller after a call than it was checked to be (`PotStands`), and
  `OneCallRefusals` is left with the other two. That every cost is booked could only be proved of
  costs with at most four decimals, which most do not have, and is not claimed.
* **`EthicsProofs`.** `TypeCorrect`, `ConsultationsDoNotOverlap`, `CachedRejectIsFinal`,
  `RejectedNeverConsulted`, and `ServiceKeepsPromise`: the service implements `AuditorPromise`, each
  of its steps a step of the promise or a stutter. `SingleFlight` is not inductive: the invariant
  adds that exactly the holder of the lock is past it, and that the subject of a task past the
  lock is not rejected in the cache, which `Acquire` establishes by looking again and nobody else can
  change while the lock is held. `RejectedNeverConsulted` needs in addition that, before any
  restart, a subject ever rejected is still cached as such.
  `WaitersAwaitSomeone` and `NobodyOvertakes` are the safety half of `EveryReviewEnds`: no waiter is left
  behind by a holder or a first in line that is gone, and none is overtaken. Their invariant `InLine`
  has each waiting task in the queue once and nobody else; every step leaves the line as it is, lets
  a task join at its end, or takes one out of it, anywhere in it if it is cancelled (`LineMoves`).
* **`ChildrenProofs`**, in two parts.
  *The supervisor.* `TypeCorrect`, with the fact that the tasks of a `kill_all` only have registered
  children to kill; `SweepLeavesNobody` from the invariant `SweepSoFar`: while a sweep is
  under way, a child that is neither killed nor archived is pending, or new or paused since the snapshot;
  `LateOrdersDue`, from the monotonicity of time and spending (`BooksGrow`), by which a rule that
  applied goes on applying (`RulesGoOn`), and the invariant `OrdersGrounded`, which has an order of
  `evaluate` stand on its rule from the evaluation to the moment it is obeyed.
  *The expansion.* `ExpansionTypeCorrect`; `CapExceededByOverlapOnly` and
  `ThirdSharesByOverlapOnly` from the invariant `InFlight`, which bounds the live children, and those
  on one channel, by what the gate saw plus those that joined since; `ProposalsBacked` from `Backed`:
  a row says *ok* only of a channel that was up while the cycle behind it ran.
  `RungTwoRuleDecidesNothing`: the rule of $100 for a second child never gives the answer, the
  ladder does. `LadderMonotone`: more revenue or more channels never lower the limit on children.
* **`OperatorMailProofs`.** `CommandsHandedOnce` and `CommandsLostByFailureOnly`. Counting results is
  not inductive; the invariant says where each mail is: what is listed and unparsed is still unread,
  what is parsed or handed on is no longer unread, and the parsed ones have not been handed on yet.
  `MailTypeCorrect` adds that no more pushes wait than mails were sent (`Counted`, which is where the
  set of mails must be finite). `UnreadMailAwaited`: while a mail is unread, a push is left to deliver.
  Mail may arrive during a call that does not list it, and `Return` takes a push away, so that the
  invariant (`Awaited`) counts: during a call there are more pushes than mails that came too late for
  it. This is the safety half of `EveryMailRead`. `CommandsAreWhole`: what is handed on is the parse
  of the mail and nothing else (`HandedAsWritten`), and no subject that goes on after a
  command parses as one (`CommandIsWhole`, from the shapes of a command, `CommandShape`).
* **`ToolLifecycleProofs`.** `TypeCorrect`, `RegisteredToolsHaveCode`, `OnlyTestedCodeRuns`,
  `HighRiskNeedsVerdict`, from an invariant that follows a tool backwards: what is registered was
  signed, what is signed has passed its tests and is on disk, where a later build that is cut short
  may empty the file but never removes it.
* **`FrozenPathsProofs`.** `TypeCorrect`; `TornLocksExplained`; and `VerdictsExact`, whose invariant
  carries a hash from the moment it is taken: what a command has seen of a file is still there
  unless the file is among those touched since.
* **`PreregistrationProofs`.** `TypeCorrect`, `RowsStayAsRegistered`, `ValidHashMeansRegistered`,
  `AlarmsAreExplained`. The invariant follows a payload from the transaction that created it to the
  analyst who holds it: wherever it is, it carries the hash it was registered with, and if its body
  is another one, a change by hand is on record.

Assumptions are those of the modules (`ScaleAssumption`, `SessionsAssumption`, `AmountsAssumption`,
`CapsAssumption`, `MailsAssumption`, ...), which TLC evaluates for the instances. `SingleWriter`
and `OneCallAtATime` are hypotheses of the theorems that name them; the first is the code's intent (it calls the service the single writer) and the run `ledger` is
an instance of it; the runs `llm` and `llm_overlap` show what happens without the other.

Only model-checked: the two liveness properties, `EveryReviewEnds` and `EveryMailRead`. They rest on
fairness, hence on ENABLED, which is out of the prover's reach. Every other property of a passing run
is proved. Facts that need induction over data or RECURSIVE operators cannot be proved with
this prover; the modules that are proved about use none.

## 5. What is not modelled

Seen while reading, exhibited by the models or plain from the source, and given no run:

* A cost has six decimals and a row four, so that the debit of most calls raises inside
  `except Exception: pass` (`llm_client.py:91`): the provider has charged and the ledger does not
  know, although `AAE_V3_0_Roadmap.md:864` has every cost debited. `RefusalsExplained` names the case.
* `handle_push` marks mails read one by one and returns all results at the end (`webhook.py:44`);
  when it is cut short, the commands already marked read are gone. `LostByFailureOnly` is what holds.
* `build` escalates a copy of its request and does not return it (`agent.py:79`). `register`
  (`registry.py:47`) looks at the request its caller has, so that a tool the policy escalates is
  registered at its old tier without a verdict, although `AAE_V3_0_Roadmap.md:679` and `:686` want one;
  and any verdict id would do.
* The floor is checked against what a session sees. With two writing sessions each may debit down to
  the floor and the second commit goes below it; the code calls the service the single writer, and
  nothing enforces it (`session.py` opens a pool). The theorems of `MoneyProofs` that need it say so.
* The cache of rejects is lost with the process, so that a rejected subject may be put before the model
  again after a restart, although `aae/db/models.py:3` says that no in-memory state survives one and
  `AAE_V3_0_Roadmap.md:424` that the auditor cannot be re-prompted on a reject. `RejectedNotConsulted`
  therefore speaks of the life of the process.
* A signed transfer may take Reserve below zero: `_assert_debit_allowed` lets any
  `emergency_transfer` through. No document forbids it.
* `spent_mtd_usd` belongs to the caller's `BudgetState` and `call` does not raise it, so that the
  monthly budget only bounds single calls, although `AAE_V3_0_Roadmap.md:864` says it is incremented.
* The hash recorded with a verdict may be that of a prompt that was not the one sent.
* The rules to kill compare revenue with zero (`child_supervisor.py:91`, `:96`): a child whose refunds
  exceed its sales escapes the deadline and the burn limit, and is only killed by the target of day 30.
* `call` believes the `operating_pot_usd` of a `BudgetState`, however old: a call whose cost the ledger
  cannot bear is let through on it. `RefusalsExplained` counts the case to its first reason.
* An EMERGENCY_TRANSFER without a signature in its body parses as one with it (`operator_parser.py:122`),
  and a REJECT with a body over the 500 characters of `AAE_V3_0_Roadmap.md:917` is cut and accepted.
* `pause` brings a killed child back to *paused*; `pause_all` leaves children that are starting alone;
  `kill_all` does not see a child that is registered after its snapshot.
* The reply to a form letter is composed and never sent; `operator_messages` is never written; the
  order of commands is whatever `list_unread` returns.
* The registry and the spending of the children are in memory, so that after a restart the burn rule
  starts from zero. `check_drift` reads rows and sum in two statements, and takes a commit in between
  for drift.
* `needs_renewal` turns true after 6.5 days, while its docstring renews every 6 days.
* A retired tool returns to service when any copy of its artifact is registered again.
* `update` asks that the changelog exists, not that it was edited since the lock.
* A freeze that is killed while it writes leaves a lock that is not JSON. `read_lock` then raises in
  every later verification, so that `verify_exit_code` and the weekly digest fail instead of
  reporting drift, until somebody freezes again.
* `FROZEN_PATHS` pins `preregistration/schema.py`, which only re-exports `schemas/preregistration.py`:
  edits of the class itself are not noticed. This is about which files are listed, which the model
  takes as given.
* The gate counts live children only: those that are starting or paused, and proposals that wait for
  an approval, are not seen, which is why `CapByOverlapOnly` needs its second term.
* `rung2_requires_100_revenue` is never the answer; `RungTwoRuleDecidesNothing` proves it.
* Overlapping health cycles may write the older observation last. A reply that is not JSON ends a
  cycle and loses the statuses of all clients. `TwoChannelsAnswered` holds in spite of both, of the
  channels that were up at some time during the cycle.
* The trigger forbids updates of locked rows and not their deletion; SQLite has no trigger.

Left out of the components that are modelled:

* `LLMClient` without a `CashflowService`: then the ledger takes no part.
* A flush that fails in the database is a rollback at once; the state of a session between a failed
  flush whose exception is swallowed and its rollback is not modelled.
* `last_error`, row ids, notes, timestamps, wording of rationales, payloads: nothing depends on them.

* `reject_mutation`, `needs_renewal`, `check_drift`, `enforce_domain` and the methods of the channel
  clients other than `health` are called by nothing in the repository. The insert of another row
  under the id of a deleted preregistration, with a hash of its own, is outside of `Preregistration`.
* A failure of the database in `persist` is not modelled.

Left out as components, and why: *reconciliation* changes nothing and has no caller; *Gmail watch
renewal* is a comparison of two instants without a job; the *child agent* is a template without state;
*schemas and settings* are declarations, whose validators stand in the guards of the models. Partly
modelled are the Code Builder's *sandbox* (a docker command line, of which the outcomes are an input),
the *trust boundary* (the set `Writers`), the *server* (its Gmail route; the channel routes change
nothing), the *channels* (health only), the *digest* and the *scripts* (their calls of the components
above) and the *schema of the database* (tables that nothing writes are left out).

## 6. Plan

Done, in this order: `InflowSplit`, `Cashflow`, `LLMClient` over both, `EthicsService` with
`AuditorPromise`, `ChildSupervisor`, `OperatorParser` and `OperatorMail`, `ToolLifecycle`,
`FrozenPaths`, `Preregistration`, and `Expansion` over `ChildSupervisor`, `ChannelHealth` and
`MotherLadder`; their theorems.

Left, the most important first:

1. Deliveries of inflows and of signed transfers by identity, to state the idempotence that
   `AAE_V3_0_Roadmap.md:587` asks for and the code does not have.
2. `check_drift` as two reads over `Cashflow`'s sessions.
3. The state of a session between a swallowed failure and its rollback.
4. `ToolLifecycle` over `EthicsService`: verdicts taken from the auditor instead of from the caller.
5. `SingleWriterSerializable` under the client, whose debits are of any cost.
