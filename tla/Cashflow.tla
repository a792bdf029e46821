------------------------------- MODULE Cashflow -------------------------------
(***************************************************************************)
(* The three-pot ledger: CashflowService of aae/cashflow/ledger.py, over   *)
(* the transactions of aae/db/session.py.                                  *)
(*                                                                         *)
(* The ledger is a table of signed rows and a balance is the sum of a      *)
(* pot's rows, so the state is that sum for the committed rows and, for    *)
(* each database session, for the rows it has flushed and not committed.   *)
(* A session reads committed rows and its own (READ COMMITTED).  A method  *)
(* is one action: it has no await, its only read of the table is its first *)
(* statement, and its rows are invisible to other sessions until Commit.   *)
(* A method that raises changes nothing and is no step.                    *)
(***************************************************************************)
EXTENDS InflowSplit

CONSTANTS
    Sessions,         \* database sessions with a CashflowService
    Writers,          \* those of the Mother; any other one is day0_bootstrap's
    Floor,            \* OPERATING_HARD_FLOOR_USD
    Amounts,          \* what credit and debit are called with
    Inflows,          \* revenue that arrives: amounts the ledger can hold
    SignedTransfers,  \* the amounts the operator has signed a transfer for
    ReserveCaps,      \* reserve_cap arguments, or NoCap
    TrailingRevenues, \* trailing_90d_revenue arguments
    MaxBalance        \* bound of the model: no pot of a view leaves -Max .. Max

ASSUME SessionsAssumption == Writers \subseteq Sessions
ASSUME FloorAssumption == Floor \in Nat
ASSUME AmountsAssumption ==
    /\ Amounts \subseteq Nat \ {0}
    /\ Inflows \subseteq {a \in Nat \ {0} : a % Scale = 0}
    /\ SignedTransfers \subseteq Nat \ {0}
ASSUME CapsAssumption ==
    /\ ReserveCaps \subseteq {c \in Nat : c % Scale = 0} \cup {NoCap}
    /\ TrailingRevenues \subseteq Nat

VARIABLES
    committed,  \* sum of the committed rows, by pot
    pending,    \* sum of the flushed, uncommitted rows, by session and pot
    (***********************************************************************)
    (* History, read by no action: the money the committed calls, and each *)
    (* session's uncommitted calls, brought in from outside less what they *)
    (* paid out; and whether an inflow met a pot already over its cap.     *)
    (***********************************************************************)
    received,
    pendingReceived,
    metFullPot

ledgerVars == <<committed, pending, received, pendingReceived, metFullPot>>

\* A faulty table of sums that leaves a pot out.
NoRowsOfGrowth == [p \in Pots \ {"growth"} |-> 0]

NoRows == [p \in Pots |-> 0]
Row(pot, delta) == [p \in Pots |-> IF p = pot THEN delta ELSE 0]
Plus(f, g) == [p \in Pots |-> f[p] + g[p]]

\* balance() and snapshot(): what session s sees.
View(s) == Plus(committed, pending[s])

-------------------------------------------------------------------------------
(* Faulty debit checks: against zero instead of the floor, of the balance  *)
(* before the debit, and blind to the source of a Reserve debit.           *)

DebitAllowedAtZero(snapshot, pot, delta, source) ==
    LET newBalance == snapshot[pot] + delta
    IN  CASE pot = "operating" -> newBalance >= 0
          [] pot = "reserve" -> source = "emergency_transfer"
          [] pot = "growth" -> newBalance >= 0

DebitAllowedOldBalance(snapshot, pot, delta, source) ==
    CASE pot = "operating" -> snapshot[pot] >= Floor
      [] pot = "reserve" -> source = "emergency_transfer"
      [] pot = "growth" -> snapshot[pot] >= 0

DebitAllowedAnySource(snapshot, pot, delta, source) ==
    pot # "reserve" => snapshot[pot] + delta >= (IF pot = "operating" THEN Floor ELSE 0)

\* _assert_debit_allowed.
DebitAllowed(snapshot, pot, delta, source) ==
    LET newBalance == snapshot[pot] + delta
    IN  CASE pot = "operating" -> newBalance >= Floor
          [] pot = "reserve" -> source = "emergency_transfer"
          [] pot = "growth" -> newBalance >= 0

\* The CashflowEntry validator: at most four decimals.  Its limit of eight
\* integer digits lies above MaxBalance.
Representable(delta) == delta % Scale = 0

\* The checks of record() for one row.
Recordable(s, pot, delta, source) ==
    /\ delta # 0
    /\ delta < 0 => DebitAllowed(View(s), pot, delta, source)
    /\ Representable(delta)

\* The rows of one call are added and flushed; `external` is the money they
\* take from or hand to the outside.
Flush(s, rows, external) ==
    /\ pending' = [pending EXCEPT ![s] = Plus(@, rows)]
    /\ \A p \in Pots : View(s)[p] + rows[p] \in -MaxBalance .. MaxBalance
    /\ pendingReceived' = [pendingReceived EXCEPT ![s] = @ + external]
    /\ UNCHANGED <<committed, received>>

-------------------------------------------------------------------------------
Credit(s, pot, amount) ==
    /\ s \in Writers \/ pot = "operating"   \* seed-operating tops up Operating
    /\ Recordable(s, pot, amount, "other")
    /\ Flush(s, Row(pot, amount), amount)
    /\ UNCHANGED metFullPot

Debit(s, pot, amount) ==
    /\ s \in Writers
    /\ Recordable(s, pot, -amount, "other")
    /\ Flush(s, Row(pot, -amount), -amount)
    /\ UNCHANGED metFullPot

OverCap(current, cap) == cap # NoCap /\ current > cap

SplitAndRecordInflow(s, amount, reserveCap, trailing) ==
    LET snapshot == View(s)
        growthCap == GrowthCapFromTrailingRevenue(trailing)
        split == SplitInflow(amount, snapshot, reserveCap, growthCap)
    IN  /\ s \in Writers
        /\ split.operating > 0
        /\ Flush(s, EntriesOf(split), amount)
        /\ metFullPot' = (\/ metFullPot
                          \/ OverCap(snapshot["reserve"], reserveCap)
                          \/ OverCap(snapshot["growth"], growthCap))

\* A faulty transfer whose first row is lost.
EmergencyTransferOneRow(s, amount) ==
    /\ s \in Writers
    /\ Recordable(s, "reserve", -amount, "emergency_transfer")
    /\ Flush(s, Row("operating", amount), 0)
    /\ UNCHANGED metFullPot

\* emergency_transfer_reserve_to_operating with a signature that verifies.
EmergencyTransfer(s, amount) ==
    /\ s \in Writers
    /\ Recordable(s, "reserve", -amount, "emergency_transfer")
    /\ Flush(s, Plus(Row("reserve", -amount), Row("operating", amount)), 0)
    /\ UNCHANGED metFullPot

\* session_scope on success.
Commit(s) ==
    /\ pending[s] # NoRows
    /\ \A p \in Pots : View(s)[p] \in -MaxBalance .. MaxBalance
    /\ committed' = View(s)
    /\ received' = received + pendingReceived[s]
    /\ pending' = [pending EXCEPT ![s] = NoRows]
    /\ pendingReceived' = [pendingReceived EXCEPT ![s] = 0]
    /\ UNCHANGED metFullPot

\* session_scope on any exception, a failed flush, or a crash of the process.
Rollback(s) ==
    /\ pending[s] # NoRows
    /\ pending' = [pending EXCEPT ![s] = NoRows]
    /\ pendingReceived' = [pendingReceived EXCEPT ![s] = 0]
    /\ UNCHANGED <<committed, received, metFullPot>>

Call(s) ==
    \/ \E pot \in Pots, a \in Amounts : Credit(s, pot, a) \/ Debit(s, pot, a)
    \/ \E a \in Inflows, cap \in ReserveCaps, t \in TrailingRevenues :
           SplitAndRecordInflow(s, a, cap, t)
    \/ \E a \in SignedTransfers : EmergencyTransfer(s, a)

Init ==
    /\ committed = NoRows
    /\ pending = [s \in Sessions |-> NoRows]
    /\ received = 0
    /\ pendingReceived = [s \in Sessions |-> 0]
    /\ metFullPot = FALSE

Next == \E s \in Sessions : Call(s) \/ Commit(s) \/ Rollback(s)

Spec == Init /\ [][Next]_ledgerVars

-------------------------------------------------------------------------------
TypeOK ==
    /\ committed \in [Pots -> Int]
    /\ pending \in [Sessions -> [Pots -> Int]]
    /\ received \in Int
    /\ pendingReceived \in [Sessions -> Int]
    /\ metFullPot \in BOOLEAN

\* Hard floor (ledger.py:221, AAE_V3_0_Roadmap.md:1250): no commit lowers the
\* Operating pot to less than the floor, whatever was credited, transferred
\* and rolled back since the debit was checked.
OperatingFloorHeld ==
    [][committed'["operating"] < committed["operating"]
           => committed'["operating"] >= Floor]_ledgerVars

\* What makes it so: a session that owes Operating money still sees the floor.
OwedAboveFloor ==
    \A s \in Sessions : pending[s]["operating"] < 0 => View(s)["operating"] >= Floor

\* The Growth pot never goes below zero, in the table or in any session's view.
GrowthNeverNegative ==
    /\ committed["growth"] >= 0
    /\ \A s \in Sessions : View(s)["growth"] >= 0

\* Reserve is inviolate (ledger.py:226-230): outside of a rollback, the only step
\* that lowers what a session has in Reserve is a transfer of a signed amount, and
\* all of it arrives in Operating.
ReserveInviolate ==
    [][\A s \in Sessions :
           pending'[s] # NoRows /\ pending'[s]["reserve"] < pending[s]["reserve"] =>
               \E a \in SignedTransfers :
                   pending'[s] = Plus(pending[s], Plus(Row("reserve", -a),
                                                       Row("operating", a)))]_ledgerVars

\* Nothing is created or lost: the table holds what came in less what went out,
\* as long as no inflow met a pot over its cap.
LedgerBalanced == ~metFullPot => TotalOf(committed) = received

\* The same for every history, as section 7.2 has it ("every revenue inflow is
\* split"; overflow "goes to Operating").
EveryInflowBalanced == TotalOf(committed) = received
===============================================================================
