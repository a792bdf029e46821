---------------------------- MODULE ChildrenProofs -----------------------------
(***************************************************************************)
(* Proofs about the children, for any number of them.  Of ChildSupervisor: *)
(* the types, that a finished kill_all has left nobody of its snapshot,    *)
(* and that what evaluate() advised stays justified until acted upon.  Of  *)
(* Expansion, which composes it with the channels and the ladder, for any  *)
(* number of channels and health cycles: the types, how far proposals in   *)
(* flight can exceed the limits of the ladder, and that a proposal at $500 *)
(* rests on two channels that did answer.                                  *)
(***************************************************************************)
EXTENDS Expansion, TLAPS, FiniteSetTheorems

-------------------------------------------------------------------------------
(* The supervisor. *)

LEMMA EntryTyped ==
    ASSUME TypeOK, NEW c \in Registered
    PROVE  c \in Children /\ entry[c] \in Entries
BY DEF TypeOK, Registered

\* What the four kinds of update leave of an entry.
LEMMA StatusField ==
    ASSUME NEW e \in Entries, NEW status \in Statuses
    PROVE  LET f == [e EXCEPT !.status = status]
           IN  /\ f \in Entries /\ f.status = status /\ f.spawned = e.spawned
               /\ f.burned = e.burned /\ f.spent = e.spent /\ f.revenue = e.revenue
BY DEF Entries

LEMMA HeardField ==
    ASSUME NEW e \in Entries, NEW day \in Int
    PROVE  LET f == [e EXCEPT !.heard = day]
           IN  /\ f \in Entries /\ f.status = e.status /\ f.spawned = e.spawned
               /\ f.burned = e.burned /\ f.spent = e.spent /\ f.revenue = e.revenue
BY DEF Entries

LEMMA RevenueField ==
    ASSUME NEW e \in Entries, NEW total \in Int
    PROVE  LET f == [e EXCEPT !.revenue = total]
           IN  /\ f \in Entries /\ f.status = e.status /\ f.spawned = e.spawned
               /\ f.burned = e.burned /\ f.spent = e.spent
BY DEF Entries

LEMMA SpendFields ==
    ASSUME NEW e \in Entries, NEW amount \in Int
    PROVE  LET f == Spend(e, amount)
           IN  /\ f \in Entries /\ f.status = e.status /\ f.spawned = e.spawned
               /\ f.burned = e.burned + amount /\ f.spent = e.spent + amount
               /\ f.revenue = e.revenue
<1>1. e.burned + amount \in Int /\ e.spent + amount \in Int
    BY DEF Entries
<1>2. ASSUME NEW x \in Int, NEW y \in Int
      PROVE  LET f == [e EXCEPT !.burned = x, !.spent = y]
             IN  /\ f \in Entries /\ f.status = e.status /\ f.spawned = e.spawned
                 /\ f.burned = x /\ f.spent = y /\ f.revenue = e.revenue
    BY DEF Entries
<1>3. QED BY <1>1, <1>2 DEF Spend

\* What pause, kill and their callers do to the registry.
LEMMA StatusTyped ==
    ASSUME TypeOK, NEW cs, cs \subseteq Registered, NEW status \in Statuses,
           WithStatus(cs, status)
    PROVE  entry' \in [Children -> Entries \cup {NoChild}]
<1>1. SUFFICES ASSUME NEW c \in Children
               PROVE  (IF c \in cs THEN [entry[c] EXCEPT !.status = status] ELSE entry[c])
                          \in Entries \cup {NoChild}
    BY DEF WithStatus
<1>2. CASE c \in cs
    <2>1. entry[c] \in Entries
        BY <1>2, EntryTyped
    <2>2. QED BY <1>2, <2>1 DEF Entries
<1>3. CASE c \notin cs
    BY <1>3 DEF TypeOK
<1>4. QED BY <1>2, <1>3

\* A child's status is all that such a step changes.
LEMMA StatusOnly ==
    ASSUME TypeOK, NEW cs, cs \subseteq Registered, NEW status \in Statuses,
           WithStatus(cs, status)
    PROVE  /\ Registered' = Registered
           /\ \A c \in Registered : entry'[c] = IF c \in cs THEN [entry[c] EXCEPT !.status = status]
                                                            ELSE entry[c]
<1>1. \A c \in Children : entry'[c] = IF c \in cs THEN [entry[c] EXCEPT !.status = status]
                                                  ELSE entry[c]
    BY DEF WithStatus
<1>2. \A c \in Registered : entry'[c] # NoChild
    <2> SUFFICES ASSUME NEW c \in Registered PROVE entry'[c] # NoChild
        OBVIOUS
    <2>1. c \in Children /\ entry[c] \in Entries
        BY EntryTyped
    <2>2. entry'[c] \in Entries
        BY <1>1, <2>1 DEF Entries
    <2>3. QED BY <2>2, SupervisorAssumption
<1>3. \A c \in Children \ Registered : entry'[c] = NoChild
    BY <1>1 DEF Registered
<1>4. QED BY <1>1, <1>2, <1>3 DEF Registered

LEMMA NowTyped ==
    ASSUME TypeOK
    PROVE  now \in Nat
BY SupervisorAssumption DEF TypeOK

LEMMA NewEntryTyped ==
    ASSUME TypeOK, NEW status \in Statuses, NEW spawned \in Days,
           NEW spent \in Spends \cup {0}, NEW revenue \in Revenues \cup {0}
    PROVE  /\ NewEntry(status, spawned, spent, revenue) \in Entries
           /\ NewEntry(status, spawned, spent, revenue).status = status
<1>1. spawned \in Int /\ now \in Int /\ spent \in Int /\ revenue \in Int
    BY NowTyped, SupervisorAssumption
<1>2. QED BY <1>1 DEF NewEntry, Entries

LEMMA RegisterTyped ==
    ASSUME TypeOK, NEW c \in Children, NEW status \in Statuses, NEW spawned \in Days,
           NEW spent \in Spends \cup {0}, NEW revenue \in Revenues \cup {0},
           Register(c, status, spawned, spent, revenue)
    PROVE  TypeOK'
BY NewEntryTyped DEF Register, Disturb, TypeOK

\* A child's books change alone, and stay an entry.
LEMMA BooksTyped ==
    ASSUME TypeOK, NEW c \in Children,
           \/ Heartbeat(c)
           \/ \E amount \in Spends : RecordSpend(c, amount)
           \/ \E amount \in Revenues : RecordRevenue(c, amount)
    PROVE  TypeOK' /\ entry'[c] \in Entries /\ \A d \in Children \ {c} : entry'[d] = entry[d]
<1>1. c \in Registered
    BY DEF Heartbeat, RecordSpend, RecordRevenue
<1>2. entry[c] \in Entries
    BY <1>1, EntryTyped
<1>3. ASSUME NEW e \in Entries, entry' = [entry EXCEPT ![c] = e],
             UNCHANGED <<now, ordered, sweep, pending, since>>, revised' \subseteq Children
      PROVE  TypeOK' /\ entry'[c] \in Entries /\ \A d \in Children \ {c} : entry'[d] = entry[d]
    BY <1>3 DEF TypeOK
<1>4. CASE Heartbeat(c)
    <2>1. now \in Int
        BY NowTyped
    <2>2. [entry[c] EXCEPT !.heard = now] \in Entries
        BY <1>2, <2>1 DEF Entries
    <2>3. entry' = [entry EXCEPT ![c] = [entry[c] EXCEPT !.heard = now]]
        BY <1>4 DEF Heartbeat, TypeOK
    <2>4. QED BY <1>3, <1>4, <2>2, <2>3 DEF Heartbeat, TypeOK
<1>5. ASSUME NEW amount \in Spends, RecordSpend(c, amount)
      PROVE  TypeOK' /\ entry'[c] \in Entries /\ \A d \in Children \ {c} : entry'[d] = entry[d]
    <2>1. amount \in Int
        BY SupervisorAssumption
    <2>2. Spend(entry[c], amount) \in Entries
        BY <1>2, <2>1, SpendFields
    <2>3. QED BY <1>3, <1>5, <2>2 DEF RecordSpend, TypeOK
<1>6. ASSUME NEW amount \in Revenues, RecordRevenue(c, amount)
      PROVE  TypeOK' /\ entry'[c] \in Entries /\ \A d \in Children \ {c} : entry'[d] = entry[d]
    <2>1. amount \in Int
        BY SupervisorAssumption
    <2>2. [entry[c] EXCEPT !.revenue = @ + amount] \in Entries
        BY <1>2, <2>1 DEF Entries
    <2>3. entry' = [entry EXCEPT ![c] = [entry[c] EXCEPT !.revenue = @ + amount]]
        BY <1>2, <1>6 DEF RecordRevenue, TypeOK, Entries
    <2>4. QED BY <1>3, <1>6, <2>2, <2>3 DEF RecordRevenue, TypeOK
<1>7. QED BY <1>4, <1>5, <1>6

\* Books are revised, or only grow.
LEMMA BooksFields ==
    ASSUME TypeOK, NEW c \in Children,
           \/ Heartbeat(c)
           \/ \E amount \in Spends : RecordSpend(c, amount)
           \/ \E amount \in Revenues : RecordRevenue(c, amount)
    PROVE  /\ entry'[c].status = entry[c].status /\ entry'[c].spawned = entry[c].spawned
           /\ \/ c \in revised'
              \/ /\ entry'[c].revenue = entry[c].revenue
                 /\ entry'[c].burned >= entry[c].burned /\ entry'[c].spent >= entry[c].spent
<1> DEFINE Goal == /\ entry'[c].status = entry[c].status /\ entry'[c].spawned = entry[c].spawned
                   /\ \/ c \in revised'
                      \/ /\ entry'[c].revenue = entry[c].revenue
                         /\ entry'[c].burned >= entry[c].burned
                         /\ entry'[c].spent >= entry[c].spent
<1>1. entry[c] \in Entries /\ entry[c].burned \in Int /\ entry[c].spent \in Int
    BY EntryTyped DEF Heartbeat, RecordSpend, RecordRevenue, Entries
<1>2. CASE Heartbeat(c)
    <2> DEFINE heardNow == [entry[c] EXCEPT !.heard = now]
    <2>1. entry' = [entry EXCEPT ![c] = heardNow]
        BY <1>2 DEF Heartbeat, TypeOK
    <2>2. heardNow.status = entry[c].status /\ heardNow.spawned = entry[c].spawned
          /\ heardNow.burned = entry[c].burned /\ heardNow.spent = entry[c].spent
          /\ heardNow.revenue = entry[c].revenue
        <3>1. now \in Int
            BY NowTyped
        <3>2. QED BY <1>1, <3>1, HeardField
    <2> HIDE DEF heardNow
    <2>3. /\ entry'[c].status = entry[c].status /\ entry'[c].spawned = entry[c].spawned
          /\ entry'[c].burned = entry[c].burned /\ entry'[c].spent = entry[c].spent
          /\ entry'[c].revenue = entry[c].revenue
        BY <2>1, <2>2 DEF TypeOK
    <2>4. QED BY <1>1, <2>3
<1>3. ASSUME NEW amount \in Spends, RecordSpend(c, amount)
      PROVE  Goal
    <2>1. amount \in Int /\ entry'[c] = Spend(entry[c], amount)
        BY <1>3, SupervisorAssumption DEF RecordSpend, TypeOK
    <2>2. /\ entry'[c].status = entry[c].status /\ entry'[c].spawned = entry[c].spawned
          /\ entry'[c].burned = entry[c].burned + amount
          /\ entry'[c].spent = entry[c].spent + amount
          /\ entry'[c].revenue = entry[c].revenue
        <3> DEFINE spent == Spend(entry[c], amount)
        <3>2. /\ spent.status = entry[c].status /\ spent.spawned = entry[c].spawned
              /\ spent.burned = entry[c].burned + amount
              /\ spent.spent = entry[c].spent + amount
              /\ spent.revenue = entry[c].revenue
            BY <1>1, <2>1, SpendFields
        <3>3. entry'[c] = spent
            BY <2>1
        <3> HIDE DEF spent
        <3>4. QED BY <3>2, <3>3
    <2>3. amount < 0 => c \in revised'
        BY <1>3 DEF RecordSpend
    <2>4. QED BY <1>1, <2>1, <2>2, <2>3
<1>4. ASSUME NEW amount \in Revenues, RecordRevenue(c, amount)
      PROVE  Goal
    <2>1. entry'[c] = [entry[c] EXCEPT !.revenue = entry[c].revenue + amount]
        BY <1>4 DEF RecordRevenue, TypeOK
    <2>2. entry[c].revenue + amount \in Int
        BY <1>1, SupervisorAssumption DEF Entries
    <2>3. c \in revised'
        BY <1>4 DEF RecordRevenue
    <2>4. QED BY <1>1, <2>1, <2>2, <2>3, RevenueField
<1>5. QED BY <1>2, <1>3, <1>4

LEMMA DecisionGrounded ==
    /\ \A c \in Children : Decision(c) \in {"keep", "pause", "kill"}
    /\ \A c \in Children : (Decision(c) = "kill" => KillDue(c))
                        /\ (Decision(c) = "pause" => OverBudget(c))
BY DEF Decision

LEMMA OrdersTyped ==
    ASSUME TypeOK, NEW c \in Children, Pause(c) \/ Kill(c) \/ Obey(c) \/ Evaluate(c)
    PROVE  TypeOK'
<1>1. c \in Registered
    BY DEF Pause, Kill, Obey, Evaluate
<1>2. CASE Pause(c)
    <2>1. entry' \in [Children -> Entries \cup {NoChild}]
        BY <1>1, <1>2, StatusTyped DEF Pause, Statuses
    <2>2. QED BY <1>2, <2>1 DEF Pause, Disturb, TypeOK
<1>3. CASE Kill(c)
    <2>1. entry' \in [Children -> Entries \cup {NoChild}]
        BY <1>1, <1>3, StatusTyped DEF Kill, Statuses
    <2>2. QED BY <1>3, <2>1 DEF Kill, TypeOK
<1>4. CASE Obey(c)
    <2>1. entry' \in [Children -> Entries \cup {NoChild}]
        BY <1>1, <1>4, StatusTyped DEF Obey, Statuses
    <2>2. ordered' \in [Children -> {"keep", "pause", "kill"}]
        BY <1>4 DEF Obey, TypeOK
    <2>3. since' \in [Sweepers -> SUBSET Children]
        <3>1. CASE Disturb({c})
            BY <3>1 DEF Disturb, TypeOK
        <3>2. CASE UNCHANGED since
            BY <3>2 DEF TypeOK
        <3>3. QED BY <1>4, <3>1, <3>2 DEF Obey
    <2>4. QED BY <1>4, <2>1, <2>2, <2>3 DEF Obey, TypeOK
<1>5. CASE Evaluate(c)
    BY <1>1, <1>5, DecisionGrounded DEF Evaluate, TypeOK
<1>6. QED BY <1>2, <1>3, <1>4, <1>5

LEMMA PauseAllTyped ==
    ASSUME TypeOK, PauseAll
    PROVE  TypeOK'
<1>1. Live \subseteq Registered /\ Live \subseteq Children
    BY DEF Live, Registered
<1>2. entry' \in [Children -> Entries \cup {NoChild}]
    BY <1>1, StatusTyped DEF PauseAll, Statuses
<1>3. QED BY <1>1, <1>2 DEF PauseAll, Disturb, TypeOK

\* A task of kill_all only ever has a registered child to kill.
PendingRegistered == \A k \in Sweepers : pending[k] \subseteq Registered

LEMMA SweepTyped ==
    ASSUME TypeOK, PendingRegistered, NEW k \in Sweepers, Sweep(k)
    PROVE  TypeOK'
<1>1. CASE StartSweep(k)
    BY <1>1 DEF StartSweep, ToKill, Registered, TypeOK
<1>2. CASE EndSweep(k) \/ CancelSweep(k)
    BY <1>2 DEF EndSweep, CancelSweep, TypeOK
<1>3. ASSUME NEW c \in Children, SweepKill(k, c) PROVE TypeOK'
    <2>1. entry' \in [Children -> Entries \cup {NoChild}]
        BY <1>3, StatusTyped DEF SweepKill, PendingRegistered, Statuses
    <2>2. QED BY <1>3, <2>1 DEF SweepKill, TypeOK
<1>4. QED BY <1>1, <1>2, <1>3 DEF Sweep

\* A status changes only for a registered child, so nobody leaves the registry.
LEMMA NobodyLeaves ==
    ASSUME TypeOK, PendingRegistered, [Next]_vars
    PROVE  Registered \subseteq Registered'
<1>1. CASE UNCHANGED vars
    BY <1>1 DEF vars, Registered
<1>2. ASSUME NEW c \in Children, NEW cs, cs \subseteq Registered, NEW status \in Statuses,
             WithStatus(cs, status)
      PROVE  Registered \subseteq Registered'
    BY <1>2, StatusOnly
<1>3. ASSUME NEW c \in Children, Supervise(c) PROVE Registered \subseteq Registered'
    <2>1. CASE Pause(c) \/ Kill(c) \/ Obey(c)
        BY <2>1, <1>2 DEF Pause, Kill, Obey, Statuses
    <2>2. CASE Evaluate(c)
        BY <2>2 DEF Evaluate, Registered
    <2>3. ASSUME NEW status \in Statuses, NEW spawned \in Days,
                 NEW spent \in Spends \cup {0}, NEW revenue \in Revenues \cup {0},
                 Register(c, status, spawned, spent, revenue)
          PROVE  Registered \subseteq Registered'
        BY <2>3 DEF Register, Registered, TypeOK
    <2>4. CASE \/ Heartbeat(c)
               \/ \E amount \in Spends : RecordSpend(c, amount)
               \/ \E amount \in Revenues : RecordRevenue(c, amount)
        <3>1. entry'[c] \in Entries /\ \A d \in Children \ {c} : entry'[d] = entry[d]
            BY <2>4, BooksTyped
        <3>2. entry'[c] # NoChild
            BY <3>1, SupervisorAssumption
        <3>3. QED BY <3>1, <3>2 DEF Registered
    <2>5. QED BY <1>3, <2>1, <2>2, <2>3, <2>4 DEF Supervise
<1>4. ASSUME NEW k \in Sweepers, Sweep(k) PROVE Registered \subseteq Registered'
    <2>1. CASE StartSweep(k) \/ EndSweep(k) \/ CancelSweep(k)
        BY <2>1 DEF StartSweep, EndSweep, CancelSweep, Registered
    <2>2. ASSUME NEW c \in Children, SweepKill(k, c) PROVE Registered \subseteq Registered'
        BY <2>2, <1>2 DEF SweepKill, PendingRegistered, Statuses
    <2>3. QED BY <1>4, <2>1, <2>2 DEF Sweep
<1>5. CASE PauseAll
    BY <1>5, StatusOnly DEF PauseAll, Live, Statuses
<1>6. CASE Tick
    BY <1>6 DEF Tick, Registered
<1>7. QED BY <1>1, <1>3, <1>4, <1>5, <1>6 DEF Next

LEMMA PendingRegisteredStep ==
    ASSUME TypeOK, PendingRegistered, [Next]_vars
    PROVE  PendingRegistered'
<1>1. \A k \in Sweepers : pending'[k] \subseteq pending[k] \cup Registered
    <2>1. ASSUME NEW j \in Sweepers, Sweep(j)
          PROVE  \A k \in Sweepers : pending'[k] \subseteq pending[k] \cup Registered
        <3>1. CASE StartSweep(j)
            BY <3>1 DEF StartSweep, ToKill, TypeOK
        <3>2. CASE EndSweep(j)
            BY <3>2 DEF EndSweep
        <3>3. CASE CancelSweep(j)
            BY <3>3 DEF CancelSweep, TypeOK
        <3>4. ASSUME NEW c \in Children, SweepKill(j, c)
              PROVE  \A k \in Sweepers : pending'[k] \subseteq pending[k] \cup Registered
            BY <3>4 DEF SweepKill, TypeOK
        <3>5. QED BY <2>1, <3>1, <3>2, <3>3, <3>4 DEF Sweep
    <2>2. CASE ~\E j \in Sweepers : Sweep(j)
        BY <2>2 DEF Next, Supervise, Register, Heartbeat, RecordSpend, RecordRevenue, Evaluate,
                    Pause, Kill, Obey, PauseAll, Tick, vars
    <2>3. QED BY <2>1, <2>2
<1>2. QED BY <1>1, NobodyLeaves DEF PendingRegistered

\* Every variable keeps its type, and every task of kill_all has a child that is
\* registered (ChildSupervisor.TypeOK).
THEOREM TypeCorrect == Spec => [](TypeOK /\ PendingRegistered)
<1>1. Init => TypeOK /\ PendingRegistered
    BY DEF Init, TypeOK, PendingRegistered
<1>2. TypeOK /\ PendingRegistered /\ [Next]_vars => TypeOK' /\ PendingRegistered'
    <2> SUFFICES ASSUME TypeOK, PendingRegistered, [Next]_vars
                 PROVE  TypeOK'
        BY PendingRegisteredStep
    <2>1. CASE UNCHANGED vars
        BY <2>1 DEF vars, TypeOK
    <2>2. ASSUME NEW c \in Children, Supervise(c) PROVE TypeOK'
        BY <2>2, RegisterTyped, BooksTyped, OrdersTyped DEF Supervise
    <2>3. CASE Tick
        BY <2>3 DEF Tick, TypeOK
    <2>4. QED BY <2>1, <2>2, <2>3, SweepTyped, PauseAllTyped DEF Next
<1>3. QED BY <1>1, <1>2, PTL DEF Spec

-------------------------------------------------------------------------------
(***************************************************************************)
(* kill_all: whoever was registered at its snapshot is dead, or has a task *)
(* that is still to run, unless somebody interfered since.                 *)
(***************************************************************************)
Dead(c) == entry[c].status \in {"killed", "archived"}

SweepSoFar ==
    \A k \in Sweepers :
        /\ sweep[k] \in {"killing", "returned", "too slow"} =>
               \A c \in Registered :
                   Dead(c) \/ c \in since[k] \/ c \in pending[k]
        /\ sweep[k] \in {"returned", "too slow"} => pending[k] = {}

\* Whoever is not dead after a step of anybody but kill_all was not dead before it,
\* or has been registered or paused by it.
LEMMA OthersDisturb ==
    ASSUME TypeOK, PendingRegistered,
           (\E c \in Children : Supervise(c)) \/ PauseAll \/ Tick \/ UNCHANGED vars
    PROVE  /\ UNCHANGED <<sweep, pending>>
           /\ \A k \in Sweepers : since[k] \subseteq since'[k]
           /\ \A c \in Registered' :
                  \/ c \in Registered /\ (Dead(c) => Dead(c)')
                  \/ \A k \in Sweepers : c \in since'[k]
<1>1. UNCHANGED <<sweep, pending>>
    BY DEF Supervise, Register, Heartbeat, RecordSpend, RecordRevenue, Evaluate, Pause, Kill,
           Obey, PauseAll, Tick, vars
<1>2. \A k \in Sweepers : since[k] \subseteq since'[k]
    BY DEF Supervise, Register, Heartbeat, RecordSpend, RecordRevenue, Evaluate, Pause, Kill,
           Obey, PauseAll, Tick, vars, Disturb
<1> DEFINE Accounted(c) ==
        \/ c \in Registered /\ (Dead(c) => Dead(c)')
        \/ \A k \in Sweepers : c \in since'[k]
<1>3. ASSUME NEW cs, cs \subseteq Registered, NEW status \in Statuses, WithStatus(cs, status),
             status = "killed" \/ Disturb(cs)
      PROVE  \A d \in Registered' : Accounted(d)
    <2> SUFFICES ASSUME NEW d \in Registered' PROVE Accounted(d)
        OBVIOUS
    <2>1. d \in Registered /\ entry[d] \in Entries
        BY <1>3, StatusOnly, EntryTyped
    <2>2. CASE d \in cs /\ status = "killed"
        <3>1. entry'[d] = [entry[d] EXCEPT !.status = "killed"]
            BY <1>3, <2>1, <2>2, StatusOnly
        <3>2. QED BY <2>1, <3>1 DEF Entries, Dead
    <2>3. CASE d \in cs /\ status # "killed"
        BY <1>3, <2>3 DEF Disturb
    <2>4. CASE d \notin cs
        <3>1. entry'[d] = entry[d]
            BY <1>3, <2>1, <2>4, StatusOnly
        <3>2. QED BY <2>1, <3>1 DEF Dead
    <2>5. QED BY <2>2, <2>3, <2>4
<1>4. ASSUME UNCHANGED entry PROVE \A d \in Registered' : Accounted(d)
    BY <1>4 DEF Registered, Dead
<1>5. ASSUME NEW c \in Children, Supervise(c) PROVE \A d \in Registered' : Accounted(d)
    <2>1. CASE Pause(c) \/ Kill(c) \/ Obey(c)
        BY <1>3, <2>1 DEF Pause, Kill, Obey, Statuses
    <2>2. CASE Evaluate(c)
        BY <1>4, <2>2 DEF Evaluate
    <2>3. ASSUME NEW status \in Statuses, NEW spawned \in Days,
                 NEW spent \in Spends \cup {0}, NEW revenue \in Revenues \cup {0},
                 Register(c, status, spawned, spent, revenue)
          PROVE  \A d \in Registered' : Accounted(d)
        <3>1. \A d \in Children \ {c} : entry'[d] = entry[d]
            BY <2>3 DEF Register, TypeOK
        <3>2. \A k \in Sweepers : c \in since'[k]
            BY <2>3 DEF Register, Disturb
        <3>3. QED BY <3>1, <3>2 DEF Registered, Dead
    <2>4. CASE \/ Heartbeat(c)
               \/ \E amount \in Spends : RecordSpend(c, amount)
               \/ \E amount \in Revenues : RecordRevenue(c, amount)
        <3>1. \A d \in Children \ {c} : entry'[d] = entry[d]
            BY <2>4, BooksTyped
        <3>2. c \in Registered /\ entry[c] \in Entries
            BY <2>4, EntryTyped DEF Heartbeat, RecordSpend, RecordRevenue
        <3>3. entry'[c].status = entry[c].status
            BY <2>4, <3>2, BooksFields
        <3>4. QED BY <3>1, <3>2, <3>3 DEF Registered, Dead
    <2>5. QED BY <1>5, <2>1, <2>2, <2>3, <2>4 DEF Supervise
<1>6. ASSUME PauseAll PROVE \A d \in Registered' : Accounted(d)
    <2>1. Live \subseteq Registered /\ "paused" \in Statuses
        BY DEF Live, Statuses
    <2>2. WithStatus(Live, "paused") /\ Disturb(Live)
        BY <1>6 DEF PauseAll
    <2>3. QED BY <1>3, <2>1, <2>2
<1>7. ASSUME Tick \/ UNCHANGED vars PROVE \A d \in Registered' : Accounted(d)
    BY <1>4, <1>7 DEF Tick, vars
<1>8. QED BY <1>1, <1>2, <1>5, <1>6, <1>7

LEMMA SweepSoFarStep ==
    ASSUME TypeOK, PendingRegistered, SweepSoFar, [Next]_vars
    PROVE  SweepSoFar'
<1>1. CASE (\E c \in Children : Supervise(c)) \/ PauseAll \/ Tick \/ UNCHANGED vars
    <2>1. /\ UNCHANGED <<sweep, pending>>
          /\ \A k \in Sweepers : since[k] \subseteq since'[k]
          /\ \A c \in Registered' :
                 \/ c \in Registered /\ (Dead(c) => Dead(c)')
                 \/ \A k \in Sweepers : c \in since'[k]
        BY <1>1, OthersDisturb
    <2>2. QED BY <2>1 DEF SweepSoFar
<1>2. ASSUME NEW j \in Sweepers, StartSweep(j) PROVE SweepSoFar'
    <2>1. Registered' = Registered /\ entry' = entry
        BY <1>2 DEF StartSweep, Registered
    <2>2. \A c \in Registered : Dead(c) \/ c \in ToKill
        BY EntryTyped DEF ToKill, Entries, Statuses, Dead
    <2>3. sweep'[j] = "killing" /\ pending'[j] = ToKill
        BY <1>2 DEF StartSweep, TypeOK
    <2>4. \A k \in Sweepers \ {j} : /\ sweep'[k] = sweep[k] /\ pending'[k] = pending[k]
                                    /\ since'[k] = since[k]
        BY <1>2 DEF StartSweep, TypeOK
    <2>5. QED BY <2>1, <2>2, <2>3, <2>4 DEF SweepSoFar, Dead
<1>3. ASSUME NEW j \in Sweepers, EndSweep(j) PROVE SweepSoFar'
    <2>1. Registered' = Registered /\ UNCHANGED <<entry, pending, since>> /\ pending[j] = {}
        BY <1>3 DEF EndSweep, Registered
    <2>2. sweep[j] = "killing" /\ \A k \in Sweepers \ {j} : sweep'[k] = sweep[k]
        BY <1>3 DEF EndSweep, TypeOK
    <2>3. QED BY <2>1, <2>2 DEF SweepSoFar, Dead
<1>4. ASSUME NEW j \in Sweepers, CancelSweep(j) PROVE SweepSoFar'
    <2>1. Registered' = Registered /\ UNCHANGED <<entry, since>> /\ sweep'[j] = "cancelled"
        BY <1>4 DEF CancelSweep, Registered, TypeOK
    <2>2. \A k \in Sweepers \ {j} : sweep'[k] = sweep[k] /\ pending'[k] = pending[k]
        BY <1>4 DEF CancelSweep, TypeOK
    <2>3. QED BY <2>1, <2>2 DEF SweepSoFar, Dead
<1>5. ASSUME NEW j \in Sweepers, NEW d \in Children, SweepKill(j, d) PROVE SweepSoFar'
    <2>1. d \in Registered /\ entry[d] \in Entries
        BY <1>5, EntryTyped DEF SweepKill, PendingRegistered
    <2>2. Registered' = Registered /\ entry'[d] = [entry[d] EXCEPT !.status = "killed"]
          /\ \A c \in Registered \ {d} : entry'[c] = entry[c]
        <3>1. WithStatus({d}, "killed") /\ {d} \subseteq Registered /\ "killed" \in Statuses
            BY <1>5, <2>1 DEF SweepKill, Statuses
        <3>2. /\ Registered' = Registered
              /\ \A c \in Registered :
                     entry'[c] = IF c \in {d} THEN [entry[c] EXCEPT !.status = "killed"]
                                              ELSE entry[c]
            BY <3>1, StatusOnly
        <3>3. QED BY <2>1, <3>2
    <2>3. Dead(d)'
        BY <2>1, <2>2 DEF Entries, Dead
    <2>4. UNCHANGED <<sweep, since>> /\ \A k \in Sweepers : pending[k] \subseteq pending'[k] \cup {d}
        BY <1>5 DEF SweepKill, TypeOK
    <2>5. \A k \in Sweepers : pending'[k] \subseteq pending[k]
        BY <1>5 DEF SweepKill, TypeOK
    <2>6. ASSUME NEW k \in Sweepers, sweep[k] \in {"killing", "returned", "too slow"},
                 NEW c \in Registered
          PROVE  Dead(c)' \/ c \in since[k] \/ c \in pending'[k]
        <3>1. CASE c = d
            BY <3>1, <2>3
        <3>2. CASE c # d
            <4>1. Dead(c) \/ c \in since[k] \/ c \in pending[k]
                BY <2>6 DEF SweepSoFar
            <4>2. entry'[c] = entry[c]
                BY <3>2, <2>2
            <4>3. pending[k] \subseteq pending'[k] \cup {d}
                BY <2>4
            <4>4. QED BY <4>1, <4>2, <4>3, <3>2 DEF Dead
        <3>3. QED BY <3>1, <3>2
    <2>7. \A k \in Sweepers : sweep[k] \in {"returned", "too slow"} => pending'[k] = {}
        BY <2>5 DEF SweepSoFar
    <2>8. QED BY <2>2, <2>4, <2>6, <2>7 DEF SweepSoFar
<1>6. QED BY <1>1, <1>2, <1>3, <1>4, <1>5 DEF Next, Sweep

\* kill_all leaves nobody of its snapshot alive, in whatever order its tasks and the
\* rest of the program run (ChildSupervisor.SweepComplete).
THEOREM SweepLeavesNobody == Spec => []SweepComplete
<1>1. Init => SweepSoFar
    BY DEF Init, SweepSoFar
<1>2. SweepSoFar => SweepComplete
    BY DEF SweepSoFar, SweepComplete, Dead
<1>3. QED BY <1>1, <1>2, SweepSoFarStep, TypeCorrect, PTL DEF Spec

-------------------------------------------------------------------------------
(***************************************************************************)
(* evaluate(): time passes and books grow, so that a rule that applied     *)
(* goes on applying, unless the books are revised.                         *)
(***************************************************************************)
LEMMA BooksGrow ==
    ASSUME TypeOK, PendingRegistered, [Next]_vars, NEW c \in Registered
    PROVE  /\ c \in Registered'
           /\ entry'[c].spawned = entry[c].spawned
           /\ now' >= now
           /\ \/ c \in revised'
              \/ /\ entry'[c].revenue = entry[c].revenue
                 /\ entry'[c].burned >= entry[c].burned /\ entry'[c].spent >= entry[c].spent
<1>1. c \in Registered' /\ c \in Children /\ entry[c] \in Entries /\ now \in Nat
    BY NobodyLeaves, EntryTyped, NowTyped
<1> DEFINE Grown == /\ entry'[c].spawned = entry[c].spawned
                    /\ \/ c \in revised'
                       \/ /\ entry'[c].revenue = entry[c].revenue
                          /\ entry'[c].burned >= entry[c].burned
                          /\ entry'[c].spent >= entry[c].spent
<1>2. now' >= now
    <2>1. CASE Tick
        BY <1>1, <2>1, SupervisorAssumption DEF Tick
    <2>2. CASE UNCHANGED now
        BY <1>1, <2>2
    <2>3. QED BY <2>1, <2>2 DEF Next, Supervise, Register, Heartbeat, RecordSpend, RecordRevenue,
              Evaluate, Pause, Kill, Obey, Sweep, StartSweep, SweepKill, EndSweep, CancelSweep,
              PauseAll, vars
<1>3. ASSUME entry'[c] = entry[c] PROVE Grown
    BY <1>1, <1>3 DEF Entries
<1>4. ASSUME NEW cs, cs \subseteq Registered, NEW status \in Statuses, WithStatus(cs, status)
      PROVE  Grown
    <2>1. entry'[c] = entry[c] \/ entry'[c] = [entry[c] EXCEPT !.status = status]
        BY <1>4, StatusOnly
    <2>2. entry[c].burned \in Int /\ entry[c].spent \in Int
        BY <1>1 DEF Entries
    <2>3. CASE entry'[c] = [entry[c] EXCEPT !.status = status]
        <3>1. entry'[c].spent = entry[c].spent /\ entry'[c].burned = entry[c].burned
              /\ entry'[c].spawned = entry[c].spawned /\ entry'[c].revenue = entry[c].revenue
            BY <1>1, <2>3, StatusField
        <3>2. QED BY <2>2, <3>1
    <2>4. QED BY <1>3, <2>1, <2>3
<1>5. ASSUME NEW d \in Children, Supervise(d) PROVE Grown
    <2>1. CASE Pause(d) \/ Kill(d) \/ Obey(d)
        BY <1>4, <2>1 DEF Pause, Kill, Obey, Statuses
    <2>2. CASE Evaluate(d)
        BY <1>3, <2>2 DEF Evaluate
    <2>3. ASSUME NEW status \in Statuses, NEW spawned \in Days,
                 NEW spent \in Spends \cup {0}, NEW revenue \in Revenues \cup {0},
                 Register(d, status, spawned, spent, revenue)
          PROVE  Grown
        BY <1>1, <1>3, <2>3 DEF Register, TypeOK
    <2>4. CASE \/ Heartbeat(d)
               \/ \E amount \in Spends : RecordSpend(d, amount)
               \/ \E amount \in Revenues : RecordRevenue(d, amount)
        <3>1. CASE d = c
            BY <2>4, <3>1, BooksFields
        <3>2. CASE d # c
            <4>1. entry'[c] = entry[c]
                BY <1>1, <2>4, <3>2, BooksTyped
            <4>2. QED BY <1>3, <4>1
        <3>3. QED BY <3>1, <3>2
    <2>5. QED BY <1>5, <2>1, <2>2, <2>3, <2>4 DEF Supervise
<1>6. ASSUME NEW k \in Sweepers, Sweep(k) PROVE Grown
    <2>1. CASE StartSweep(k) \/ EndSweep(k) \/ CancelSweep(k)
        BY <1>3, <2>1 DEF StartSweep, EndSweep, CancelSweep
    <2>2. ASSUME NEW d \in Children, SweepKill(k, d) PROVE Grown
        BY <1>4, <2>2 DEF SweepKill, PendingRegistered, Statuses
    <2>3. QED BY <1>6, <2>1, <2>2 DEF Sweep
<1>7. ASSUME PauseAll PROVE Grown
    <2>1. Live \subseteq Registered /\ "paused" \in Statuses /\ WithStatus(Live, "paused")
        BY <1>7 DEF PauseAll, Live, Statuses
    <2>2. QED BY <1>4, <2>1
<1>8. ASSUME Tick \/ UNCHANGED vars PROVE Grown
    BY <1>3, <1>8 DEF Tick, vars
<1>9. QED BY <1>1, <1>2, <1>5, <1>6, <1>7, <1>8 DEF Next

\* What a caller was told stands to reason, or the child's books were revised since.
OrdersGrounded ==
    \A c \in Children : ordered[c] # "keep" =>
        /\ c \in Registered
        /\ \/ c \in revised
           \/ /\ ordered[c] = "kill" => KillDue(c)
              /\ ordered[c] = "pause" => OverBudget(c)

LEMMA RulesGoOn ==
    ASSUME TypeOK, TypeOK', PendingRegistered, [Next]_vars, NEW c \in Registered,
           c \notin revised'
    PROVE  (KillDue(c) => KillDue(c)') /\ (OverBudget(c) => OverBudget(c)')
<1>1. /\ c \in Registered' /\ c \in Children
      /\ entry'[c].spent >= entry[c].spent /\ entry'[c].burned >= entry[c].burned
      /\ entry'[c].spawned = entry[c].spawned /\ entry'[c].revenue = entry[c].revenue
      /\ now' >= now
    BY BooksGrow, EntryTyped
<1>2. entry[c] \in Entries /\ entry'[c] \in Entries /\ now \in Nat /\ now' \in Nat
    BY <1>1, SupervisorAssumption DEF TypeOK, Registered
<1>3. Age(c) \in Int /\ Age(c)' \in Int /\ Age(c)' >= Age(c)
    BY <1>1, <1>2 DEF Age, Entries
<1>4. MonthlyBudget \in Int /\ MaxBurn \in Int /\ Deadline \in Int /\ Day30Target \in Int
    BY SupervisorAssumption
<1> HIDE DEF Age
<1>5. /\ entry[c].spent \in Int /\ entry[c].burned \in Int /\ entry[c].revenue \in Int
      /\ entry'[c].spent \in Int /\ entry'[c].burned \in Int
    BY <1>2 DEF Entries
<1>6. OverBudget(c) => OverBudget(c)'
    BY <1>1, <1>4, <1>5 DEF OverBudget
<1>7. (BurnedOut(c) => BurnedOut(c)') /\ (BelowTarget(c) => BelowTarget(c)')
      /\ (MissedDeadline(c) => MissedDeadline(c)')
    BY <1>1, <1>3, <1>4, <1>5 DEF BurnedOut, MissedDeadline, BelowTarget
<1>8. QED BY <1>6, <1>7 DEF KillDue

LEMMA OrdersGroundedStep ==
    ASSUME TypeOK, TypeOK', PendingRegistered, OrdersGrounded, [Next]_vars
    PROVE  OrdersGrounded'
<1>1. SUFFICES ASSUME NEW c \in Children, ordered'[c] # "keep"
               PROVE  /\ c \in Registered'
                      /\ \/ c \in revised'
                         \/ /\ ordered'[c] = "kill" => KillDue(c)'
                            /\ ordered'[c] = "pause" => OverBudget(c)'
    BY DEF OrdersGrounded
<1>2. CASE Evaluate(c)
    <2>1. c \in Registered /\ UNCHANGED <<entry, now>> /\ ordered'[c] = Decision(c)
        BY <1>2 DEF Evaluate, TypeOK
    <2>2. (KillDue(c) => KillDue(c)') /\ (OverBudget(c) => OverBudget(c)')
        BY <2>1 DEF KillDue, BurnedOut, MissedDeadline, BelowTarget, OverBudget, Age
    <2>3. c \in Registered'
        BY <2>1 DEF Registered
    <2>4. QED BY <2>1, <2>2, <2>3, DecisionGrounded
<1>3. CASE ~Evaluate(c)
    <2>1. ordered'[c] = ordered[c] /\ (c \in revised => c \in revised')
        <3>1. ASSUME NEW d \in Children, Evaluate(d)
              PROVE  ordered'[c] = ordered[c] /\ (c \in revised => c \in revised')
            <4>1. d # c
                BY <1>3, <3>1
            <4>2. ordered' = [ordered EXCEPT ![d] = Decision(d)] /\ revised' = revised \ {d}
                BY <3>1 DEF Evaluate
            <4>3. QED BY <4>1, <4>2 DEF TypeOK
        <3>2. ASSUME NEW d \in Children, Obey(d)
              PROVE  ordered'[c] = ordered[c] /\ (c \in revised => c \in revised')
            BY <1>1, <3>2 DEF Obey, TypeOK
        <3>3. ASSUME NEW d \in Children, Supervise(d), ~Evaluate(d), ~Obey(d)
              PROVE  ordered' = ordered /\ (c \in revised => c \in revised')
            BY <3>3 DEF Supervise, Register, Heartbeat, RecordSpend, RecordRevenue, Pause, Kill
        <3>4. ASSUME NEW k \in Sweepers, Sweep(k)
              PROVE  UNCHANGED <<ordered, revised>>
            BY <3>4 DEF Sweep, StartSweep, SweepKill, EndSweep, CancelSweep
        <3>5. CASE PauseAll \/ Tick \/ UNCHANGED vars
            BY <3>5 DEF PauseAll, Tick, vars
        <3>6. QED BY <3>1, <3>2, <3>3, <3>4, <3>5 DEF Next
    <2>2. c \in Registered
        BY <1>1, <2>1 DEF OrdersGrounded
    <2>3. c \in Registered'
        BY <2>2, NobodyLeaves
    <2>4. c \notin revised' => (KillDue(c) => KillDue(c)') /\ (OverBudget(c) => OverBudget(c)')
        BY <2>2, RulesGoOn
    <2>5. QED BY <1>1, <2>1, <2>3, <2>4 DEF OrdersGrounded
<1>4. QED BY <1>2, <1>3

\* An order that a caller carries out late is still due, for any budget, burn, deadline
\* and target, unless the child's books were revised (ChildSupervisor.OrdersStand).
THEOREM LateOrdersDue == Spec => []OrdersStand
<1>1. Init => OrdersGrounded
    BY DEF Init, OrdersGrounded
<1>2. OrdersGrounded => OrdersStand
    BY DEF OrdersGrounded, OrdersStand, Registered
<1>3. TypeOK /\ TypeOK' /\ PendingRegistered /\ OrdersGrounded /\ [Next]_vars => OrdersGrounded'
    BY OrdersGroundedStep
<1>4. QED BY <1>1, <1>2, <1>3, TypeCorrect, PTL DEF Spec

-------------------------------------------------------------------------------
(* The ladder. *)

IsRung(rung, revenue, channels) ==
    /\ Satisfied(rung, revenue, channels) \/ rung = 1
    /\ \A higher \in Rungs : higher > rung => ~Satisfied(higher, revenue, channels)

\* There is a last rung that is satisfied, or the first.
LEMMA RungDefined ==
    ASSUME NEW revenue \in Int, NEW channels \in Int
    PROVE  /\ CurrentRung(revenue, channels) \in Rungs
           /\ IsRung(CurrentRung(revenue, channels), revenue, channels)
<1>1. \E rung \in Rungs : IsRung(rung, revenue, channels)
    <2> DEFINE S(rung) == Satisfied(rung, revenue, channels)
    <2>1. Rungs = {1, 2, 3, 4, 5}
        BY DEF Rungs
    <2>2. \A rung \in Rungs : (S(rung) \/ rung = 1) /\ (\A higher \in Rungs : higher > rung => ~S(higher))
              => IsRung(rung, revenue, channels)
        BY DEF IsRung
    <2> HIDE DEF S
    <2>3. QED BY <2>1, <2>2
<1>2. QED BY <1>1 DEF CurrentRung, IsRung

LEMMA CapTyped ==
    ASSUME NEW revenue \in Int, NEW channels \in Int
    PROVE  Cap(revenue, channels) \in 1 .. 8
<1>1. \A rung \in Rungs : MaxChildren[rung] \in 1 .. 8
    BY DEF Rungs, MaxChildren
<1>2. QED BY <1>1, RungDefined DEF Cap

\* Above one child the ladder needs $100 and a channel.
LEMMA CapAboveOne ==
    ASSUME NEW revenue \in Int, NEW channels \in Int, Cap(revenue, channels) > 1
    PROVE  revenue >= 100 /\ channels >= 1
<1> DEFINE r == CurrentRung(revenue, channels)
<1>1. r \in Rungs /\ (Satisfied(r, revenue, channels) \/ r = 1)
    BY RungDefined DEF IsRung
<1>2. r # 1
    BY DEF Cap, MaxChildren
<1>3. \A rung \in Rungs \ {1} : MinRevenue[rung] \in Int /\ MinRevenue[rung] >= 100
                             /\ MinChannels[rung] \in Int /\ MinChannels[rung] >= 1
    BY DEF Rungs, MinRevenue, MinChannels
<1> HIDE DEF r
<1>4. revenue >= MinRevenue[r] /\ channels >= MinChannels[r]
    BY <1>1, <1>2 DEF Satisfied
<1>5. QED BY <1>1, <1>2, <1>3, <1>4

\* What a gate that says "ok" has seen.
LEMMA GateOk ==
    ASSUME NEW revenue \in Int, NEW channels \in Int, NEW children \in Nat,
           Gate(revenue, channels, children) = "ok"
    PROVE  children < Cap(revenue, channels) /\ ~Concentrated(revenue, channels)
<1>1. Cap(revenue, channels) \in Int
    BY CapTyped
<1>2. children >= Cap(revenue, channels) \/ children < Cap(revenue, channels)
    BY <1>1
<1>3. QED BY <1>2 DEF Gate

\* The reason "rung2_requires_100_revenue" is never given: the limit of the first rung
\* already refuses a second child below $100, and without a channel too, which that rule
\* does not ask for (mother_agent.py:71-75).
THEOREM RungTwoRuleDecidesNothing ==
    ASSUME NEW revenue \in Int, NEW channels \in Int, NEW children \in Nat
    PROVE  /\ Gate(revenue, channels, children) # "rung2_requires_100_revenue"
           /\ Gate(revenue, channels, children) = "ok" /\ children >= 1
                  => revenue >= 100 /\ channels >= 1
<1>1. Cap(revenue, channels) \in 1 .. 8
    BY CapTyped
<1>2. children >= 1 /\ children < Cap(revenue, channels) => revenue >= 100 /\ channels >= 1
    BY <1>1, CapAboveOne
<1>3. Gate(revenue, channels, children) = "rung2_requires_100_revenue" =>
          children < Cap(revenue, channels) /\ children >= 1 /\ revenue < 100
    BY DEF Gate
<1>4. QED BY <1>2, <1>3, GateOk

\* More revenue and more channels never lower the limit.
THEOREM LadderMonotone ==
    ASSUME NEW revenue \in Int, NEW channels \in Int, NEW more \in Nat, NEW others \in Nat
    PROVE  Cap(revenue, channels) <= Cap(revenue + more, channels + others)
<1> DEFINE low == CurrentRung(revenue, channels)
           high == CurrentRung(revenue + more, channels + others)
<1>1. /\ low \in Rungs /\ (Satisfied(low, revenue, channels) \/ low = 1)
      /\ high \in Rungs
      /\ \A rung \in Rungs : rung > high => ~Satisfied(rung, revenue + more, channels + others)
    BY RungDefined DEF IsRung
<1>2. \A rung \in Rungs : Satisfied(rung, revenue, channels)
                              => Satisfied(rung, revenue + more, channels + others)
    <2>1. \A rung \in Rungs : MinRevenue[rung] \in Int /\ MinChannels[rung] \in Int
        BY DEF Rungs, MinRevenue, MinChannels
    <2>2. QED BY <2>1 DEF Satisfied
<1>3. low <= high
    <2> HIDE DEF low, high
    <2>1. low \in Int /\ high \in Int /\ high >= 1
        BY <1>1 DEF Rungs
    <2>2. QED BY <1>1, <1>2, <2>1
<1>4. \A i, j \in Rungs : i <= j => MaxChildren[i] <= MaxChildren[j]
    BY DEF Rungs, MaxChildren
<1>5. QED BY <1>1, <1>3, <1>4 DEF Cap

-------------------------------------------------------------------------------
(* The types. *)

\* An approval adds a live child, or none.
LEMMA LiveAfterApprove ==
    ASSUME ExpansionTypeOK, NEW c \in Children, NEW status \in {"starting", "live"},
           Approve(c, status)
    PROVE  /\ c \in out /\ c \notin Registered /\ c \notin Live
           /\ Registered' = Registered \cup {c}
           /\ Live' = IF status = "live" THEN Live \cup {c} ELSE Live
<1> DEFINE e == NewEntry(status, now, 0, 0)
<1>1. c \in out /\ c \notin Registered /\ c \notin Live
    BY DEF Approve, Settle, ExpansionTypeOK, Live
<1>2. \A d \in Children : entry'[d] = IF d = c THEN e ELSE entry[d]
    BY DEF Approve, Register, ExpansionTypeOK, TypeOK
<1>3. e.status = status /\ e \in Entries
    <2>1. now \in Days /\ status \in Statuses
        BY DEF ExpansionTypeOK, TypeOK, Statuses
    <2>2. QED BY <2>1, NewEntryTyped DEF ExpansionTypeOK
<1>4. e # NoChild
    BY <1>3, SupervisorAssumption
<1> HIDE DEF e
<1>5. Registered' = Registered \cup {c}
    BY <1>2, <1>4 DEF Registered
<1>6. \A d \in Registered : d # c /\ entry'[d] = entry[d]
    BY <1>1, <1>2 DEF Registered
<1>7. entry'[c].status = status
    BY <1>2, <1>3
<1>8. \A d \in Registered' : d \in Live' <=> entry'[d].status = "live"
    BY DEF Live
<1>9. Live' \subseteq Registered' /\ Live \subseteq Registered
    BY DEF Live
<1>10. \A d \in Registered : d \in Live' <=> d \in Live
    BY <1>5, <1>6, <1>8 DEF Live
<1>11. c \in Live' <=> status = "live"
    BY <1>5, <1>7, <1>8
<1>12. QED BY <1>1, <1>5, <1>9, <1>10, <1>11

\* A kill takes one child off.
LEMMA LiveAfterHalt ==
    ASSUME ExpansionTypeOK, NEW c \in Children, Halt(c)
    PROVE  Registered' = Registered /\ Live' = Live \ {c} /\ c \in Live
<1>1. TypeOK /\ {c} \subseteq Registered /\ WithStatus({c}, "killed") /\ c \in Live
    BY DEF ExpansionTypeOK, Halt, Kill, Live
<1>2. /\ Registered' = Registered
      /\ \A d \in Registered : entry'[d] = IF d \in {c} THEN [entry[d] EXCEPT !.status = "killed"]
                                                        ELSE entry[d]
    BY <1>1, StatusOnly DEF Statuses
<1>3. entry'[c].status = "killed"
    <2>1. c \in Registered /\ entry[c] \in Entries
        BY <1>1, EntryTyped
    <2>2. entry'[c] = [entry[c] EXCEPT !.status = "killed"]
        BY <1>2, <2>1
    <2>3. QED BY <2>1, <2>2, StatusField DEF Statuses
<1>4. QED BY <1>1, <1>2, <1>3 DEF Live

LEMMA LiveCounted ==
    ASSUME ExpansionTypeOK
    PROVE  /\ IsFiniteSet(Live) /\ Cardinality(Live) \in Nat
           /\ LiveChannels \in Nat
           /\ trailing \in Int
<1>1. Live \in SUBSET Children
    BY DEF Live, Registered
<1>2. {c \in Channels : latest[c] = "ok"} \in SUBSET Channels
    OBVIOUS
<1>3. QED BY <1>1, <1>2, ExpansionAssumption, ChannelAssumption, FS_Subset, FS_CardinalityType
          DEF LiveChannels, ExpansionTypeOK

\* The health cycles keep to their types.
LEMMA HealthTyped ==
    ASSUME HealthTypeOK, HealthNext
    PROVE  HealthTypeOK'
<1>1. Len(Clients) \in Nat /\ Len(Clients) > 0
    BY ChannelAssumption
<1>2. ASSUME NEW k \in Cycles, StartCycle(k)
      PROVE  HealthTypeOK'
    BY <1>1, <1>2 DEF StartCycle, Up, HealthTypeOK
<1>3. ASSUME NEW k \in Cycles
      PROVE  WithStatusOf(k) \in [Channels -> {"none", "ok", "failed"}]
    BY DEF WithStatusOf, Status, HealthTypeOK
<1>4. ASSUME NEW k \in Cycles, EndCycle(k)
      PROVE  /\ asking' \in [Cycles -> 0 .. Len(Clients)]
             /\ found' \in [Cycles -> [Channels -> {"none", "ok", "failed"}]]
             /\ wasUp' \in [Cycles -> SUBSET Channels]
    BY <1>1, <1>4 DEF EndCycle, HealthTypeOK
<1>5. ASSUME NEW k \in Cycles, CheckNext(k)
      PROVE  HealthTypeOK'
    <2>1. asking' \in [Cycles -> 0 .. Len(Clients)]
        BY <1>1, <1>5 DEF CheckNext, HealthTypeOK
    <2>2. found' \in [Cycles -> [Channels -> {"none", "ok", "failed"}]]
        BY <1>3, <1>5 DEF CheckNext, HealthTypeOK
    <2>3. QED BY <1>5, <2>1, <2>2 DEF CheckNext, HealthTypeOK
<1>6. ASSUME NEW k \in Cycles, CheckLast(k)
      PROVE  HealthTypeOK'
    BY <1>3, <1>4, <1>6 DEF CheckLast, HealthTypeOK
<1>7. ASSUME NEW k \in Cycles, CheckRaises(k)
      PROVE  HealthTypeOK'
    BY <1>4, <1>7 DEF CheckRaises, HealthTypeOK
<1>8. ASSUME NEW c \in Channels, NEW answer \in Answers, Change(c, answer)
      PROVE  HealthTypeOK'
    BY <1>8 DEF Change, HealthTypeOK
<1>9. QED BY <1>2, <1>5, <1>6, <1>7, <1>8 DEF HealthNext

LEMMA TypesStep ==
    ASSUME ExpansionTypeOK, [ExpansionNext]_allVars
    PROVE  ExpansionTypeOK'
<1>1. ASSUME NEW c \in Children, NEW on \in Channels, Propose(c, on)
      PROVE  ExpansionTypeOK'
    <2>1. Cap(trailing, LiveChannels) \in 0 .. 8
        BY CapTyped, LiveCounted
    <2>2. UNCHANGED <<entry, now, ordered, sweep, pending, since, revised>> /\ UNCHANGED healthVars
        BY <1>1 DEF Propose, vars
    <2>3. TypeOK' /\ HealthTypeOK' /\ Registered' = Registered /\ Live' = Live
        BY <2>2 DEF ExpansionTypeOK, TypeOK, HealthTypeOK, healthVars, Registered, Live
    <2>4. on # NoChannel
        BY ExpansionAssumption
    <2>5. \A d \in Children : channel'[d] # NoChannel <=> d \in out' \cup Live'
        BY <1>1, <2>3, <2>4 DEF Propose, ExpansionTypeOK
    <2>6. \A d \in Children \ out' : cap'[d] = 0 /\ joined'[d] = 0
        BY <1>1 DEF Propose, ExpansionTypeOK
    <2>7. QED BY <1>1, <2>1, <2>3, <2>5, <2>6 DEF Propose, ExpansionTypeOK
<1>2. ASSUME NEW c \in Children, NEW status \in {"starting", "live"}, Approve(c, status)
      PROVE  ExpansionTypeOK'
    <2>1. TypeOK'
        <3>1. TypeOK /\ now \in Days /\ status \in Statuses
            BY DEF ExpansionTypeOK, TypeOK, Statuses
        <3>2. Register(c, status, now, 0, 0)
            BY <1>2 DEF Approve
        <3>3. QED BY <3>1, <3>2, RegisterTyped
    <2>2. HealthTypeOK' /\ trailing' \in RevenueLevels
        BY <1>2 DEF Approve, ExpansionTypeOK, HealthTypeOK, healthVars
    <2>3. /\ Registered' = Registered \cup {c} /\ out' = out \ {c} /\ c \in out
          /\ Live' = IF status = "live" THEN Live \cup {c} ELSE Live
        <3>1. out' = out \ {c}
            BY <1>2 DEF Approve, Settle
        <3>2. QED BY <1>2, <3>1, LiveAfterApprove
    <2>4. out' \subseteq Children \ Registered'
        BY <2>3 DEF ExpansionTypeOK
    <2>5. cap' \in [Children -> 0 .. 8] /\ (\A d \in Children \ out' : cap'[d] = 0)
        BY <1>2, <2>3 DEF Approve, Settle, ExpansionTypeOK
    <2>6. joined' \in [Children -> Nat] /\ (\A d \in Children \ out' : joined'[d] = 0)
        BY <1>2, <2>3 DEF Approve, ExpansionTypeOK
    <2>7. channel' \in [Children -> Channels \cup {NoChannel}]
        BY <1>2 DEF Approve, ExpansionTypeOK
    <2>8. \A d \in Children : channel'[d] # NoChannel <=> d \in out' \cup Live'
        <3>1. c \notin Live /\ c \in out
            BY <1>2, LiveAfterApprove
        <3>2. channel'[c] = IF status = "live" THEN channel[c] ELSE NoChannel
            BY <1>2 DEF Approve, ExpansionTypeOK
        <3>3. QED BY <1>2, <2>3, <3>1, <3>2 DEF Approve, ExpansionTypeOK
    <2>9. QED BY <2>1, <2>2, <2>4, <2>5, <2>6, <2>7, <2>8 DEF ExpansionTypeOK
<1>3. ASSUME NEW c \in Children, Reject(c)
      PROVE  ExpansionTypeOK'
    <2>1. UNCHANGED <<entry, now, ordered, sweep, pending, since, revised>> /\ UNCHANGED healthVars
        BY <1>3 DEF Reject, vars
    <2>2. TypeOK' /\ HealthTypeOK' /\ Registered' = Registered /\ Live' = Live
        BY <2>1 DEF ExpansionTypeOK, TypeOK, HealthTypeOK, healthVars, Registered, Live
    <2>3. c \notin Live
        BY <1>3 DEF Reject, Settle, ExpansionTypeOK, Live
    <2>4. \A d \in Children : channel'[d] # NoChannel <=> d \in out' \cup Live'
        BY <1>3, <2>2, <2>3 DEF Reject, Settle, ExpansionTypeOK
    <2>5. QED BY <1>3, <2>2, <2>4 DEF Reject, Settle, ExpansionTypeOK
<1>4. ASSUME NEW c \in Children, Halt(c)
      PROVE  ExpansionTypeOK'
    <2>1. TypeOK'
        BY <1>4, OrdersTyped DEF Halt, ExpansionTypeOK
    <2>2. HealthTypeOK'
        BY <1>4 DEF Halt, ExpansionTypeOK, HealthTypeOK, healthVars
    <2>3. Registered' = Registered /\ Live' = Live \ {c} /\ c \in Live
        BY <1>4, LiveAfterHalt
    <2>4. c \notin out
        BY <2>3 DEF ExpansionTypeOK, Live
    <2>5. \A d \in Children : channel'[d] # NoChannel <=> d \in out' \cup Live'
        BY <1>4, <2>3, <2>4 DEF Halt, ExpansionTypeOK
    <2>6. QED BY <1>4, <2>1, <2>2, <2>3, <2>5 DEF Halt, ExpansionTypeOK
<1>5. CASE Trade \/ Watch \/ UNCHANGED allVars
    <2>1. UNCHANGED <<entry, now, ordered, sweep, pending, since, revised>>
        BY <1>5 DEF Trade, Watch, allVars, vars
    <2>2. TypeOK' /\ Registered' = Registered /\ Live' = Live
        BY <2>1 DEF ExpansionTypeOK, TypeOK, Registered, Live
    <2>3. HealthTypeOK'
        <3>1. CASE HealthNext
            BY <3>1, HealthTyped DEF ExpansionTypeOK
        <3>2. CASE UNCHANGED healthVars
            BY <3>2 DEF ExpansionTypeOK, HealthTypeOK, healthVars
        <3>3. QED BY <1>5, <3>1, <3>2 DEF Trade, Watch, allVars
    <2>4. trailing' \in RevenueLevels /\ UNCHANGED <<out, channel, cap, joined>>
        BY <1>5 DEF Trade, Watch, allVars, expansionVars, ExpansionTypeOK
    <2>5. QED BY <2>2, <2>3, <2>4 DEF ExpansionTypeOK
<1>6. QED BY <1>1, <1>2, <1>3, <1>4, <1>5 DEF ExpansionNext

\* Every state has the declared types, the live children and the proposals in flight
\* have channels, and no other child has one (Expansion.tla, child_supervisor.py:49).
THEOREM ExpansionTypeCorrect == ExpansionSpec => []ExpansionTypeOK
<1>1. ExpansionInit => ExpansionTypeOK
    <2> SUFFICES ASSUME ExpansionInit PROVE ExpansionTypeOK
        OBVIOUS
    <2>1. Registered = {} /\ Live = {}
        BY DEF ExpansionInit, Init, Registered, Live
    <2>2. TypeOK
        BY DEF ExpansionInit, Init, TypeOK
    <2>3. HealthTypeOK
        BY ChannelAssumption DEF ExpansionInit, HealthInit, HealthTypeOK
    <2>4. QED BY <2>1, <2>2, <2>3 DEF ExpansionInit, ExpansionTypeOK
<1>2. QED BY <1>1, TypesStep, PTL DEF ExpansionSpec

-------------------------------------------------------------------------------
(* Proposals in flight. *)

Sharing(on) == {d \in Live : channel[d] = on}

\* What a proposal can still count on: each child that went live since it was let
\* through takes one place.
InFlight ==
    \A c \in out :
        /\ Cardinality(Live) + 1 <= cap[c] + joined[c]
        /\ Cardinality(Sharing(channel[c])) <= 1 + joined[c]

\* A set that grows by one element, or shrinks, within a finite one.
LEMMA CountGrows ==
    ASSUME NEW S, IsFiniteSet(S), NEW x, NEW T, T \subseteq S \cup {x}
    PROVE  /\ IsFiniteSet(T) /\ Cardinality(T) \in Nat /\ Cardinality(S) \in Nat
           /\ Cardinality(T) <= Cardinality(S) + 1
           /\ T \subseteq S => Cardinality(T) <= Cardinality(S)
<1>1. IsFiniteSet(S \cup {x}) /\ Cardinality(S \cup {x}) <= Cardinality(S) + 1
    <2>1. Cardinality(S) \in Nat
        BY FS_CardinalityType
    <2>2. QED BY <2>1, FS_AddElement
<1>2. T \in SUBSET (S \cup {x}) /\ (T \subseteq S => T \in SUBSET S)
    OBVIOUS
<1>3. IsFiniteSet(T) /\ Cardinality(T) <= Cardinality(S \cup {x})
    BY <1>1, <1>2, FS_Subset
<1>4. T \subseteq S => Cardinality(T) <= Cardinality(S)
    BY <1>2, FS_Subset
<1>5. Cardinality(T) \in Nat /\ Cardinality(S) \in Nat /\ Cardinality(S \cup {x}) \in Nat
    BY <1>1, <1>3, FS_CardinalityType
<1>6. QED BY <1>1, <1>3, <1>4, <1>5

LEMMA SharingCounted ==
    ASSUME ExpansionTypeOK, NEW on
    PROVE  IsFiniteSet(Sharing(on)) /\ Cardinality(Sharing(on)) \in Nat
<1>1. Sharing(on) \in SUBSET Live
    BY DEF Sharing
<1>2. QED BY <1>1, LiveCounted, FS_Subset, FS_CardinalityType

\* The rule of the third vertical leaves at most one other on the channel.
LEMMA SharingProposed ==
    ASSUME ExpansionTypeOK, NEW on, MayUse(Live, channel, on)
    PROVE  Cardinality(Sharing(on)) <= 1
<1>1. CASE Cardinality(Live) >= 2
    <2>1. Sharing(on) = {}
        BY <1>1 DEF MayUse, Sharing
    <2>2. QED BY <2>1, FS_EmptySet
<1>2. CASE ~(Cardinality(Live) >= 2)
    <2>1. Sharing(on) \in SUBSET Live
        BY DEF Sharing
    <2>2. Cardinality(Sharing(on)) <= Cardinality(Live)
        BY <2>1, LiveCounted, FS_Subset
    <2>3. QED BY <1>2, <2>2, LiveCounted, SharingCounted
<1>3. QED BY <1>1, <1>2

\* A proposal that stays on the table keeps its places, if it was credited with a
\* child whenever one went live.
LEMMA InFlightKept ==
    ASSUME ExpansionTypeOK, ExpansionTypeOK', InFlight, NEW d \in out, NEW x,
           cap'[d] = cap[d], channel'[d] = channel[d],
           \/ Live' \subseteq Live /\ joined'[d] = joined[d]
           \/ Live' \subseteq Live \cup {x} /\ joined'[d] = joined[d] + 1,
           \A e \in Live' : e \in Live => channel'[e] = channel[e]
    PROVE  /\ Cardinality(Live') + 1 <= cap'[d] + joined'[d]
           /\ Cardinality({e \in Live' : channel'[e] = channel'[d]}) <= 1 + joined'[d]
<1> DEFINE S == Sharing(channel[d])
           T == {e \in Live' : channel'[e] = channel'[d]}
<1>1. /\ Cardinality(Live) + 1 <= cap[d] + joined[d]
      /\ Cardinality(S) <= 1 + joined[d]
    BY DEF InFlight
<1>2. T \subseteq S \cup {x} /\ (Live' \subseteq Live => T \subseteq S)
    BY DEF Sharing
<1>3. IsFiniteSet(S) /\ IsFiniteSet(Live)
    BY SharingCounted, LiveCounted
<1>4. cap[d] \in Nat /\ joined[d] \in Nat
    BY DEF ExpansionTypeOK
<1> HIDE DEF S, T
<1>5. /\ Cardinality(T) \in Nat /\ Cardinality(S) \in Nat
      /\ Cardinality(T) <= Cardinality(S) + 1
      /\ Live' \subseteq Live => Cardinality(T) <= Cardinality(S)
    BY <1>2, <1>3, CountGrows
<1>6. Live' \subseteq Live \cup {x}
    OBVIOUS
<1>7. /\ Cardinality(Live') \in Nat /\ Cardinality(Live) \in Nat
      /\ Cardinality(Live') <= Cardinality(Live) + 1
      /\ Live' \subseteq Live => Cardinality(Live') <= Cardinality(Live)
    BY <1>3, <1>6, CountGrows
<1>8. Cardinality(Live') + 1 <= cap'[d] + joined'[d] /\ Cardinality(T) <= 1 + joined'[d]
    BY <1>1, <1>4, <1>5, <1>7
<1>9. QED BY <1>8 DEF T

LEMMA InFlightStep ==
    ASSUME ExpansionTypeOK, ExpansionTypeOK', InFlight, [ExpansionNext]_allVars
    PROVE  InFlight'
<1> SUFFICES ASSUME NEW d \in out'
             PROVE  /\ Cardinality(Live') + 1 <= cap'[d] + joined'[d]
                    /\ Cardinality({e \in Live' : channel'[e] = channel'[d]}) <= 1 + joined'[d]
    BY DEF InFlight, Sharing
<1>1. ASSUME NEW c \in Children, NEW on \in Channels, Propose(c, on)
      PROVE  /\ Cardinality(Live') + 1 <= cap'[d] + joined'[d]
             /\ Cardinality({e \in Live' : channel'[e] = channel'[d]}) <= 1 + joined'[d]
    <2>1. Live' = Live
        BY <1>1 DEF Propose, vars, Live, Registered
    <2>2. c \notin Live /\ c \notin out /\ out' = out \cup {c} /\ joined' = joined
        BY <1>1 DEF Propose, Live
    <2>3. \A e \in Children \ {c} : channel'[e] = channel[e] /\ cap'[e] = cap[e]
        BY <1>1 DEF Propose, ExpansionTypeOK
    <2>4. Live \subseteq Children /\ out \subseteq Children
        BY DEF Live, Registered, ExpansionTypeOK
    <2>5. CASE d = c
        <3>1. channel'[c] = on /\ cap'[c] = Cap(trailing, LiveChannels)
            BY <1>1 DEF Propose, ExpansionTypeOK
        <3>2. Cardinality(Live) < Cap(trailing, LiveChannels)
            BY <1>1, LiveCounted, GateOk DEF Propose
        <3>3. Cardinality(Sharing(on)) <= 1
            BY <1>1, SharingProposed DEF Propose
        <3>4. {e \in Live' : channel'[e] = channel'[c]} = Sharing(on)
            BY <2>1, <2>2, <2>3, <2>4, <3>1 DEF Sharing
        <3>5. joined'[c] \in Nat /\ Cap(trailing, LiveChannels) \in Int
            BY CapTyped, LiveCounted DEF ExpansionTypeOK
        <3>6. Cardinality(Live) \in Nat /\ Cardinality(Sharing(on)) \in Nat
            BY LiveCounted, SharingCounted
        <3>7. /\ Cardinality(Live) + 1 <= cap'[c] + joined'[c]
              /\ Cardinality(Sharing(on)) <= 1 + joined'[c]
            BY <3>1, <3>2, <3>3, <3>5, <3>6
        <3>8. QED BY <2>1, <2>5, <3>4, <3>7
    <2>6. CASE d # c
        <3>1. d \in out /\ channel'[d] = channel[d] /\ cap'[d] = cap[d] /\ joined'[d] = joined[d]
            BY <2>2, <2>3, <2>4, <2>6
        <3>2. \A e \in Live' : e \in Live => channel'[e] = channel[e]
            BY <2>1, <2>2, <2>3, <2>4
        <3>3. QED BY <2>1, <3>1, <3>2, InFlightKept
    <2>7. QED BY <2>5, <2>6
<1>2. ASSUME NEW c \in Children, NEW status \in {"starting", "live"}, Approve(c, status)
      PROVE  /\ Cardinality(Live') + 1 <= cap'[d] + joined'[d]
             /\ Cardinality({e \in Live' : channel'[e] = channel'[d]}) <= 1 + joined'[d]
    <2>1. /\ c \notin Live
          /\ Live' = IF status = "live" THEN Live \cup {c} ELSE Live
        BY <1>2, LiveAfterApprove
    <2>2. d \in out /\ d # c /\ d \in Children
        BY <1>2 DEF Approve, Settle, ExpansionTypeOK
    <2>3. \A e \in Children \ {c} : channel'[e] = channel[e] /\ cap'[e] = cap[e]
        BY <1>2 DEF Approve, Settle, ExpansionTypeOK
    <2>4. joined'[d] = joined[d] + (IF status = "live" THEN 1 ELSE 0)
        BY <1>2, <2>2 DEF Approve
    <2>5. joined[d] \in Nat
        BY <2>2 DEF ExpansionTypeOK
    <2>6. \/ Live' \subseteq Live /\ joined'[d] = joined[d]
          \/ Live' \subseteq Live \cup {c} /\ joined'[d] = joined[d] + 1
        BY <2>1, <2>4, <2>5
    <2>7. Live \subseteq Children
        BY DEF Live, Registered
    <2>8. \A e \in Live' : e \in Live => channel'[e] = channel[e]
        BY <2>1, <2>3, <2>7
    <2>9. channel'[d] = channel[d] /\ cap'[d] = cap[d]
        BY <2>2, <2>3
    <2>10. QED BY <2>2, <2>6, <2>8, <2>9, InFlightKept
<1>3. ASSUME NEW c \in Children, Reject(c)
      PROVE  /\ Cardinality(Live') + 1 <= cap'[d] + joined'[d]
             /\ Cardinality({e \in Live' : channel'[e] = channel'[d]}) <= 1 + joined'[d]
    <2>1. Live' = Live
        BY <1>3 DEF Reject, vars, Live, Registered
    <2>2. d \in out /\ d # c /\ d \in Children /\ c \notin Live /\ Live \subseteq Children
        BY <1>3 DEF Reject, Settle, ExpansionTypeOK, Live, Registered
    <2>3. \A e \in Children \ {c} :
              channel'[e] = channel[e] /\ cap'[e] = cap[e] /\ joined'[e] = joined[e]
        BY <1>3 DEF Reject, Settle, ExpansionTypeOK
    <2>4. \A e \in Live' : e \in Live => channel'[e] = channel[e]
        BY <2>2, <2>3
    <2>5. QED BY <2>1, <2>2, <2>3, <2>4, InFlightKept
<1>4. ASSUME NEW c \in Children, Halt(c)
      PROVE  /\ Cardinality(Live') + 1 <= cap'[d] + joined'[d]
             /\ Cardinality({e \in Live' : channel'[e] = channel'[d]}) <= 1 + joined'[d]
    <2>1. Live' = Live \ {c} /\ c \in Live /\ Live \subseteq Children
        BY <1>4, LiveAfterHalt DEF Live, Registered
    <2>2. d \in out /\ d # c /\ d \in Children /\ cap' = cap /\ joined' = joined
        BY <1>4, <2>1 DEF Halt, ExpansionTypeOK, Live
    <2>3. \A e \in Children \ {c} : channel'[e] = channel[e]
        BY <1>4 DEF Halt, ExpansionTypeOK
    <2>4. \A e \in Live' : e \in Live => channel'[e] = channel[e]
        BY <2>1, <2>3
    <2>5. QED BY <2>1, <2>2, <2>3, <2>4, InFlightKept
<1>5. CASE Trade \/ Watch \/ UNCHANGED allVars
    <2>1. UNCHANGED vars /\ UNCHANGED <<out, channel, cap, joined>>
        BY <1>5 DEF Trade, Watch, allVars, expansionVars
    <2>2. Live' = Live
        BY <2>1 DEF vars, Live, Registered
    <2>3. QED BY <2>1, <2>2, InFlightKept
<1>6. QED BY <1>1, <1>2, <1>3, <1>4, <1>5 DEF ExpansionNext

\* Only an approval registers a child.
LEMMA ApprovedHow ==
    ASSUME ExpansionTypeOK, [ExpansionNext]_allVars, NEW c \in Children, Approved(c)
    PROVE  \E status \in {"starting", "live"} : Approve(c, status)
<1>1. c \notin Registered /\ c \in Registered'
    BY DEF Approved
<1>2. ASSUME NEW d \in Children, NEW status \in {"starting", "live"}, Approve(d, status)
      PROVE  Approve(c, status)
    BY <1>1, <1>2, LiveAfterApprove
<1>3. ASSUME NEW d \in Children, Halt(d)
      PROVE  FALSE
    BY <1>1, <1>3, LiveAfterHalt
<1>4. CASE UNCHANGED vars
    BY <1>1, <1>4 DEF vars, Registered
<1>5. QED BY <1>2, <1>3, <1>4 DEF ExpansionNext, Propose, Reject, Trade, Watch, allVars

LEMMA InFlightInvariant == ExpansionSpec => [](ExpansionTypeOK /\ InFlight)
<1>1. ExpansionInit => InFlight
    BY DEF ExpansionInit, InFlight
<1>2. QED BY <1>1, InFlightStep, ExpansionTypeCorrect, PTL DEF ExpansionSpec

\* What an approval finds, step by step.
LEMMA ApprovalCounts ==
    ASSUME ExpansionTypeOK, InFlight, [ExpansionNext]_allVars, NEW c \in Children, Approved(c)
    PROVE  /\ Cardinality(Live') <= cap[c] + joined[c]
           /\ Cardinality({d \in Live' : channel[d] = channel[c]}) <= 2 + joined[c]
<1>1. PICK status \in {"starting", "live"} : Approve(c, status)
    BY ApprovedHow
<1>2. c \in out /\ Live' \subseteq Live \cup {c}
    BY <1>1, LiveAfterApprove
<1>3. /\ Cardinality(Live) + 1 <= cap[c] + joined[c]
      /\ Cardinality(Sharing(channel[c])) <= 1 + joined[c]
    BY <1>2 DEF InFlight
<1>4. {d \in Live' : channel[d] = channel[c]} \subseteq Sharing(channel[c]) \cup {c}
    BY <1>2 DEF Sharing
<1>5. cap[c] \in Nat /\ joined[c] \in Nat
    BY DEF ExpansionTypeOK
<1>6. /\ Cardinality(Live') \in Nat /\ Cardinality(Live) \in Nat
      /\ Cardinality(Live') <= Cardinality(Live) + 1
    BY <1>2, LiveCounted, CountGrows
<1>7. IsFiniteSet(Sharing(channel[c])) /\ Cardinality(Sharing(channel[c])) \in Nat
    BY SharingCounted
<1>8. /\ Cardinality({d \in Live' : channel[d] = channel[c]}) \in Nat
      /\ Cardinality({d \in Live' : channel[d] = channel[c]}) <= Cardinality(Sharing(channel[c])) + 1
    BY <1>4, <1>7, CountGrows
<1>9. QED BY <1>3, <1>5, <1>6, <1>7, <1>8

\* The limit of the ladder is exceeded only by children that overtook the one that is
\* approved, one for one (mother_agent.py:71, child_supervisor.py:144).
THEOREM CapExceededByOverlapOnly == ExpansionSpec => CapByOverlapOnly
<1>1. ExpansionTypeOK /\ InFlight /\ [ExpansionNext]_allVars =>
          [\A c \in Children : Approved(c) => Cardinality(Live') <= cap[c] + joined[c]]_allVars
    BY ApprovalCounts
<1>2. QED BY <1>1, InFlightInvariant, PTL DEF ExpansionSpec, CapByOverlapOnly

\* A third live child on a channel has overtaken, or was overtaken by, another one
\* (mother_agent.py:79-83).
THEOREM ThirdSharesByOverlapOnly == ExpansionSpec => TwoShareAtMost
<1>1. ExpansionTypeOK /\ InFlight /\ [ExpansionNext]_allVars =>
          [\A c \in Children : Approved(c) =>
               Cardinality({d \in Live' : channel[d] = channel[c]}) <= 2 + joined[c]]_allVars
    BY ApprovalCounts
<1>2. QED BY <1>1, InFlightInvariant, PTL DEF ExpansionSpec, TwoShareAtMost

-------------------------------------------------------------------------------
(* Channel health. *)

\* A row or a status that says "ok" is backed by an answer within its cycle.
Backed ==
    /\ \A c \in Channels : latest[c] = "ok" => c \in basis
    /\ \A k \in Cycles : asking[k] # 0 => Up \subseteq wasUp[k]
    /\ \A k \in Cycles, c \in Channels : asking[k] = 0 => found[k][c] # "ok"
    /\ \A k \in Cycles, c \in Channels : found[k][c] = "ok" => c \in wasUp[k]

\* The client that is asked exists, and what it adds is backed.
LEMMA StatusBacked ==
    ASSUME HealthTypeOK, Backed, NEW k \in Cycles, asking[k] # 0
    PROVE  /\ Asked(k) \in Channels
           /\ \A c \in Channels : WithStatusOf(k)[c] = "ok" => c \in wasUp[k]
<1>1. Asked(k) \in Channels
    <2>1. asking[k] \in 1 .. Len(Clients)
        BY ChannelAssumption DEF HealthTypeOK
    <2>2. QED BY <2>1, ChannelAssumption DEF Asked
<1>2. Status(Asked(k)) = "ok" => Asked(k) \in wasUp[k]
    BY <1>1 DEF Status, Ok, Up, Backed
<1>3. QED BY <1>1, <1>2 DEF WithStatusOf, Backed, HealthTypeOK

LEMMA BackedStep ==
    ASSUME HealthTypeOK, Backed, HealthNext
    PROVE  Backed'
<1>1. ASSUME NEW k \in Cycles, StartCycle(k)
      PROVE  Backed'
    <2>1. asking[k] = 0 /\ \A c \in Channels : found[k][c] # "ok"
        BY <1>1 DEF StartCycle, Backed
    <2>2. \A j \in Cycles : wasUp'[j] = IF j = k THEN Up ELSE wasUp[j]
        BY <1>1 DEF StartCycle, HealthTypeOK
    <2>3. Up' = Up /\ UNCHANGED <<latest, found, basis>>
        BY <1>1 DEF StartCycle, Up
    <2>4. \A j \in Cycles : asking'[j] = IF j = k THEN 1 ELSE asking[j]
        BY <1>1 DEF StartCycle, HealthTypeOK
    <2>5. QED BY <2>1, <2>2, <2>3, <2>4 DEF Backed
<1>2. ASSUME NEW k \in Cycles, EndCycle(k), UNCHANGED truth,
             \A c \in Channels : latest'[c] = "ok" => c \in basis'
      PROVE  Backed'
    <2>1. \A j \in Cycles : asking'[j] # 0 => Up' \subseteq wasUp'[j]
        BY <1>2 DEF EndCycle, Backed, Up, HealthTypeOK
    <2>2. \A j \in Cycles, c \in Channels : found'[j][c] = "ok" => c \in wasUp'[j]
        BY <1>2 DEF EndCycle, Backed, HealthTypeOK
    <2>3. \A j \in Cycles, c \in Channels : asking'[j] = 0 => found'[j][c] # "ok"
        BY <1>2 DEF EndCycle, Backed, HealthTypeOK
    <2>4. QED BY <1>2, <2>1, <2>2, <2>3 DEF Backed
<1>3. ASSUME NEW k \in Cycles, CheckNext(k)
      PROVE  Backed'
    <2>1. \A c \in Channels : WithStatusOf(k)[c] = "ok" => c \in wasUp[k]
        BY <1>3, StatusBacked DEF CheckNext
    <2>2. asking[k] # 0
        BY <1>3 DEF CheckNext
    <2>3. \A j \in Cycles : asking'[j] # 0 => Up' \subseteq wasUp'[j]
        BY <1>3, <2>2 DEF CheckNext, Backed, Up, HealthTypeOK
    <2>4. \A j \in Cycles, c \in Channels : found'[j][c] = "ok" => c \in wasUp'[j]
        BY <1>3, <2>1 DEF CheckNext, Backed, HealthTypeOK
    <2>5. \A j \in Cycles, c \in Channels : asking'[j] = 0 => found'[j][c] # "ok"
        <3>1. asking[k] \in Nat
            BY DEF HealthTypeOK
        <3>2. QED BY <1>3, <2>2, <3>1 DEF CheckNext, Backed, HealthTypeOK
    <2>6. QED BY <1>3, <2>3, <2>4, <2>5 DEF Backed, CheckNext
<1>4. ASSUME NEW k \in Cycles, CheckLast(k)
      PROVE  Backed'
    <2>1. asking[k] # 0
        BY <1>4, ChannelAssumption DEF CheckLast
    <2>2. \A c \in Channels : latest'[c] = "ok" => c \in basis'
        BY <1>4, <2>1, StatusBacked DEF CheckLast
    <2>3. QED BY <1>2, <1>4, <2>2 DEF CheckLast
<1>5. ASSUME NEW k \in Cycles, CheckRaises(k)
      PROVE  Backed'
    BY <1>2, <1>5 DEF CheckRaises, Backed
<1>6. ASSUME NEW c \in Channels, NEW answer \in Answers, Change(c, answer)
      PROVE  Backed'
    <2>1. \A j \in Cycles : wasUp[j] \subseteq wasUp'[j]
        BY <1>6 DEF Change, HealthTypeOK
    <2>2. \A j \in Cycles : asking[j] # 0 /\ answer # "down" => c \in wasUp'[j]
        BY <1>6 DEF Change, HealthTypeOK
    <2>3. \A d \in Up' : d \in Up \/ (d = c /\ answer # "down")
        BY <1>6 DEF Change, Up, HealthTypeOK
    <2>4. UNCHANGED <<latest, asking, found, basis>>
        BY <1>6 DEF Change
    <2>5. \A j \in Cycles : asking'[j] # 0 => Up' \subseteq wasUp'[j]
        BY <2>1, <2>2, <2>3, <2>4 DEF Backed
    <2>6. QED BY <2>1, <2>4, <2>5 DEF Backed
<1>7. QED BY <1>1, <1>3, <1>4, <1>5, <1>6 DEF HealthNext

LEMMA BackedInvariant == ExpansionSpec => [](ExpansionTypeOK /\ Backed)
<1>1. ExpansionInit => Backed
    BY DEF ExpansionInit, HealthInit, Backed
<1>2. ExpansionTypeOK /\ Backed /\ [ExpansionNext]_allVars => Backed'
    <2> SUFFICES ASSUME ExpansionTypeOK, Backed, [ExpansionNext]_allVars PROVE Backed'
        OBVIOUS
    <2>1. CASE HealthNext
        BY <2>1, BackedStep DEF ExpansionTypeOK
    <2>2. CASE UNCHANGED healthVars
        BY <2>2 DEF healthVars, Backed, Up
    <2>3. HealthNext \/ UNCHANGED healthVars
        BY DEF ExpansionNext, Propose, Approve, Reject, Halt, Trade, Watch, allVars
    <2>4. QED BY <2>1, <2>2, <2>3
<1>3. QED BY <1>1, <1>2, ExpansionTypeCorrect, PTL DEF ExpansionSpec

\* At $500 and more a proposal rests on two channels that did answer while the cycle
\* that wrote the last rows was running (mother_agent.py:69, channels/health.py:18-45).
THEOREM ProposalsBacked == ExpansionSpec => TwoChannelsAnswered
<1> DEFINE Answered ==
        \A c \in Children : c \in out' \ out /\ trailing >= 500 => Cardinality(basis) >= 2
<1>1. ExpansionTypeOK /\ Backed /\ [ExpansionNext]_allVars => [Answered]_allVars
    <2> SUFFICES ASSUME ExpansionTypeOK, Backed, [ExpansionNext]_allVars,
                        NEW c \in Children, c \in out' \ out, trailing >= 500
                 PROVE  Cardinality(basis) >= 2
        OBVIOUS
    <2>1. \E d \in Children, on \in Channels : Propose(d, on)
        BY DEF ExpansionNext, Approve, Settle, Reject, Halt, Trade, Watch, allVars, expansionVars
    <2>2. ~Concentrated(trailing, LiveChannels)
        BY <2>1, GateOk, LiveCounted DEF Propose
    <2>3. LiveChannels >= 2
        BY <2>2, LiveCounted DEF Concentrated
    <2>4. {d \in Channels : latest[d] = "ok"} \in SUBSET basis
        BY DEF Backed
    <2>5. IsFiniteSet(basis) /\ basis \in SUBSET Channels
        BY ChannelAssumption, FS_Subset DEF ExpansionTypeOK, HealthTypeOK
    <2>6. LiveChannels <= Cardinality(basis) /\ Cardinality(basis) \in Nat
        BY <2>4, <2>5, FS_Subset, FS_CardinalityType DEF LiveChannels
    <2>7. QED BY <2>3, <2>6, LiveCounted
<1>2. QED BY <1>1, BackedInvariant, PTL DEF ExpansionSpec, TwoChannelsAnswered
===============================================================================
