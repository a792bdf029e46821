---------------------------- MODULE ChildSupervisor ----------------------------
(***************************************************************************)
(* ChildSupervisor of aae/core/child_supervisor.py: the registry of        *)
(* children in memory, the kill and pause policy, and kill_all, an asyncio *)
(* task group with one task per child, which other tasks of the loop       *)
(* overtake.  Every other method runs without a suspension.  The callers,  *)
(* who evaluate a child and act on the answer, are not in the repository.  *)
(***************************************************************************)
EXTENDS Integers, FiniteSets

CONSTANTS
    Children,       \* child ids
    Sweepers,       \* callers of kill_all
    Days,           \* instants the model distinguishes, as day numbers
    Spends,         \* amounts recorded as spent; a correction is negative
    Revenues,       \* amounts recorded as revenue; a refund is negative
    MaxMoney,       \* bound of the model on a child's spend and revenue
    MonthlyBudget,  \* run.monthly_budget_usd
    Deadline,       \* kill.max_days_to_first_dollar
    Day30Target,    \* kill.min_revenue_by_day_30_usd
    MaxBurn,        \* kill.max_burn_before_first_dollar_usd
    NoChild

Statuses == {"starting", "live", "paused", "killed", "archived"}
Entries == [status : Statuses, spawned : Int, heard : Int, spent : Int, revenue : Int, burned : Int]

ASSUME SupervisorAssumption ==
    /\ NoChild \notin Entries
    /\ Days \subseteq Nat /\ Spends \subseteq Int /\ Revenues \subseteq Int
    /\ MaxMoney \in Nat /\ MonthlyBudget \in Nat \ {0} /\ MaxBurn \in Nat \ {0}
    /\ Deadline \in 7 .. 60 /\ Day30Target \in Nat

VARIABLES
    entry,    \* self.children: the entry of each registered child, or NoChild
    now,      \* the clock
    ordered,  \* what a caller was told to do with a child and has not done yet
    sweep,    \* where each caller is in kill_all
    pending,  \* children its task group has yet to kill
    since,    \* history: children registered or paused since its snapshot
    revised   \* history: children with revenue, or spending taken back, since their evaluation

vars == <<entry, now, ordered, sweep, pending, since, revised>>

Registered == {c \in Children : entry[c] # NoChild}

Init ==
    /\ entry = [c \in Children |-> NoChild]
    /\ now \in Days
    /\ ordered = [c \in Children |-> "keep"]
    /\ sweep = [k \in Sweepers |-> "idle"]
    /\ pending = [k \in Sweepers |-> {}]
    /\ since = [k \in Sweepers |-> {}]
    /\ revised = {}

\* A child is new, or paused, for every kill_all under way.
Disturb(cs) == since' = [k \in Sweepers |-> since[k] \cup cs]

\* A run in any status, with whatever it has spent and earned this month; the burn since
\* its spawn starts at zero.
NewEntry(status, spawned, spent, revenue) ==
    [status |-> status, spawned |-> spawned, heard |-> now,
     spent |-> spent, revenue |-> revenue, burned |-> 0]

Register(c, status, spawned, spent, revenue) ==
    /\ c \notin Registered
    /\ entry' = [entry EXCEPT ![c] = NewEntry(status, spawned, spent, revenue)]
    /\ Disturb({c})
    /\ UNCHANGED <<now, ordered, sweep, pending, revised>>

Heartbeat(c) ==
    /\ c \in Registered
    /\ entry' = [entry EXCEPT ![c].heard = now]
    /\ UNCHANGED <<now, ordered, sweep, pending, since, revised>>

Bounded(total) == total \in -MaxMoney .. MaxMoney

\* Spending counts twice: since the spawn, and in the month.
Spend(e, amount) == [e EXCEPT !.burned = @ + amount, !.spent = @ + amount]

RecordSpend(c, amount) ==
    /\ c \in Registered
    /\ Bounded(entry[c].burned + amount) /\ Bounded(entry[c].spent + amount)
    /\ entry' = [entry EXCEPT ![c] = Spend(entry[c], amount)]
    /\ revised' = IF amount < 0 THEN revised \cup {c} ELSE revised
    /\ UNCHANGED <<now, ordered, sweep, pending, since>>

RecordRevenue(c, amount) ==
    /\ c \in Registered
    /\ Bounded(entry[c].revenue + amount)
    /\ entry' = [entry EXCEPT ![c].revenue = @ + amount]
    /\ revised' = revised \cup {c}
    /\ UNCHANGED <<now, ordered, sweep, pending, since>>

-------------------------------------------------------------------------------
Age(c) == IF now > entry[c].spawned THEN now - entry[c].spawned ELSE 0

OverBudget(c) == entry[c].spent >= MonthlyBudget

\* The three rules that kill, in the order of the code.
BurnedOut(c) == entry[c].burned >= MaxBurn /\ entry[c].revenue = 0
MissedDeadline(c) == Age(c) >= Deadline /\ entry[c].revenue = 0
\* A faulty third rule, for a caller who evaluates every day.
BelowTargetThatDay(c) == Age(c) = 30 /\ entry[c].revenue < Day30Target

BelowTarget(c) == Age(c) >= 30 /\ entry[c].revenue < Day30Target

KillDue(c) == BurnedOut(c) \/ MissedDeadline(c) \/ BelowTarget(c)

\* A faulty evaluate() that swaps action and reason of a breach.
DecisionSwapped(c) ==
    CASE OverBudget(c) -> "monthly_budget_breach"
      [] ~OverBudget(c) /\ KillDue(c) -> "kill"
      [] OTHER -> "keep"

\* evaluate(): the first rule that applies decides; the status is not looked at.
Decision(c) ==
    CASE OverBudget(c) -> "pause"
      [] ~OverBudget(c) /\ KillDue(c) -> "kill"
      [] OTHER -> "keep"

Evaluate(c) ==
    /\ c \in Registered
    /\ ordered' = [ordered EXCEPT ![c] = Decision(c)]
    /\ revised' = revised \ {c}
    /\ UNCHANGED <<entry, now, sweep, pending, since>>

-------------------------------------------------------------------------------
WithStatus(cs, status) ==
    entry' = [c \in Children |-> IF c \in cs THEN [entry[c] EXCEPT !.status = status]
                                             ELSE entry[c]]

\* pause() and kill() take a child in any status.
Pause(c) ==
    /\ c \in Registered
    /\ WithStatus({c}, "paused")
    /\ Disturb({c})
    /\ UNCHANGED <<now, ordered, sweep, pending, revised>>

Kill(c) ==
    /\ c \in Registered
    /\ WithStatus({c}, "killed")
    /\ UNCHANGED <<now, ordered, sweep, pending, since, revised>>

\* A caller does what evaluate() told it, at once or after a while.
Obey(c) ==
    /\ c \in Registered
    /\ \/ ordered[c] = "pause" /\ WithStatus({c}, "paused") /\ Disturb({c})
       \/ ordered[c] = "kill" /\ WithStatus({c}, "killed") /\ UNCHANGED since
    /\ ordered' = [ordered EXCEPT ![c] = "keep"]
    /\ UNCHANGED <<now, sweep, pending, revised>>

Live == {c \in Registered : entry[c].status = "live"}

PauseAll ==
    /\ WithStatus(Live, "paused")
    /\ Disturb(Live)
    /\ UNCHANGED <<now, ordered, sweep, pending, revised>>

-------------------------------------------------------------------------------
\* A faulty filter: the children that earn.
LiveOnly == {c \in Registered : entry[c].status = "live"}

\* Whom kill_all's loop makes a task for.
ToKill == {c \in Registered : entry[c].status \in {"live", "paused", "starting"}}

\* kill_all up to the end of its loop, which creates the tasks.
StartSweep(k) ==
    /\ sweep[k] # "killing"
    /\ sweep' = [sweep EXCEPT ![k] = "killing"]
    /\ pending' = [pending EXCEPT ![k] = ToKill]
    /\ since' = [since EXCEPT ![k] = {}]
    /\ UNCHANGED <<entry, now, ordered, revised>>

\* One task, after its tick.
SweepKill(k, c) ==
    /\ sweep[k] = "killing" /\ c \in pending[k]
    /\ WithStatus({c}, "killed")
    /\ pending' = [pending EXCEPT ![k] = @ \ {c}]
    /\ UNCHANGED <<now, ordered, sweep, since, revised>>

\* The group is done: kill_all returns, or raises because it took too long.
EndSweep(k) ==
    /\ sweep[k] = "killing" /\ pending[k] = {}
    /\ \E outcome \in {"returned", "too slow"} : sweep' = [sweep EXCEPT ![k] = outcome]
    /\ UNCHANGED <<entry, now, ordered, pending, since, revised>>

\* The caller is cancelled, and the group cancels the tasks that are left.
CancelSweep(k) ==
    /\ sweep[k] = "killing"
    /\ sweep' = [sweep EXCEPT ![k] = "cancelled"]
    /\ pending' = [pending EXCEPT ![k] = {}]
    /\ UNCHANGED <<entry, now, ordered, since, revised>>

Tick ==
    /\ \E day \in Days : day > now /\ now' = day
    /\ UNCHANGED <<entry, ordered, sweep, pending, since, revised>>

-------------------------------------------------------------------------------
Supervise(c) ==
    \/ \E status \in Statuses, spawned \in Days, spent \in Spends \cup {0},
          revenue \in Revenues \cup {0} : Register(c, status, spawned, spent, revenue)
    \/ \E amount \in Spends : RecordSpend(c, amount)
    \/ \E amount \in Revenues : RecordRevenue(c, amount)
    \/ Heartbeat(c) \/ Evaluate(c) \/ Obey(c) \/ Pause(c) \/ Kill(c)

Sweep(k) ==
    \/ StartSweep(k) \/ EndSweep(k) \/ CancelSweep(k)
    \/ \E c \in Children : SweepKill(k, c)

Next ==
    \/ \E c \in Children : Supervise(c)
    \/ \E k \in Sweepers : Sweep(k)
    \/ PauseAll
    \/ Tick

Spec == Init /\ [][Next]_vars

-------------------------------------------------------------------------------
TypeOK ==
    /\ entry \in [Children -> Entries \cup {NoChild}]
    /\ now \in Days
    /\ ordered \in [Children -> {"keep", "pause", "kill"}]
    /\ sweep \in [Sweepers -> {"idle", "killing", "returned", "too slow", "cancelled"}]
    /\ pending \in [Sweepers -> SUBSET Children]
    /\ since \in [Sweepers -> SUBSET Children]
    /\ revised \subseteq Children

\* When kill_all has killed everyone in its snapshot, whatever the order in which
\* its tasks ran among everything else, a child that is neither killed nor archived
\* was registered or paused since (child_supervisor.py:123: "kill every live child").
SweepComplete ==
    \A k \in Sweepers, c \in Registered :
        sweep[k] \in {"returned", "too slow"} /\ entry[c].status \notin {"killed", "archived"}
            => c \in since[k]

\* However late a caller acts on an evaluation, and whatever was evaluated, spent or
\* missed meanwhile, the ground for it is still there: a rule to kill that applied goes
\* on applying, as the breach of a budget does, unless revenue was recorded or spending
\* taken back (child_supervisor.py:84-101).  Of the roadmap's policy it would not hold:
\* AAE_V3_0_Roadmap.md:624 has its second rule lapse after day 30, :626 a pause with its
\* month.
OrdersStand ==
    \A c \in Registered \ revised :
        /\ ordered[c] = "kill" => KillDue(c)
        /\ ordered[c] = "pause" => OverBudget(c)

===============================================================================
