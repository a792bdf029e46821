------------------------------ MODULE MoneyProofs ------------------------------
(***************************************************************************)
(* Theorems of the money: what every history of the ledger keeps, and what *)
(* a call of the LLM client over it can count on.                          *)
(*                                                                         *)
(* In the ledger's part, what is common to the calls of the service is     *)
(* stated once (CallRows): which rows a call may flush.  Each invariant    *)
(* then has three kinds of step: a call, a commit and a rollback.          *)
(* The serial ledger is the abstract specification that Cashflow           *)
(* implements when one session writes for the Mother.                      *)
(***************************************************************************)
EXTENDS LLMClient, InflowSplitProofs

-------------------------------------------------------------------------------

\* The table and every open transaction hold amounts the ledger can hold.
LedgerRows ==
    /\ committed \in [Pots -> Ledger]
    /\ pending \in [Sessions -> [Pots -> Ledger]]

\* What one call of session s adds to its transaction.
CallRowsAre(s, rows, external) ==
    /\ pending' = [pending EXCEPT ![s] = Plus(@, rows)]
    /\ pendingReceived' = [pendingReceived EXCEPT ![s] = @ + external]
    /\ UNCHANGED <<committed, received>>
    /\ metFullPot' \in BOOLEAN /\ (metFullPot => metFullPot')
    /\ rows["operating"] < 0 => View(s)["operating"] + rows["operating"] >= Floor
    /\ rows["growth"] < 0 => View(s)["growth"] + rows["growth"] >= 0
    /\ s \notin Writers => rows["operating"] >= 0 /\ rows["growth"] = 0
    /\ rows["reserve"] < 0 =>
           \E a \in SignedTransfers :
               rows = Plus(Row("reserve", -a), Row("operating", a))
    /\ ~metFullPot' => TotalOf(rows) = external
    /\ TotalOf(rows) >= external

\* A step of the ledger, whoever takes it: rows are flushed, or a transaction ends.
Flushes(s) ==
    \E rows \in [Pots -> Ledger], external \in Int : CallRowsAre(s, rows, external)
Moves == \E s \in Sessions : Flushes(s) \/ Commit(s) \/ Rollback(s)

LEMMA LedgerSub == Ledger \subseteq Int
BY DEF Ledger

LEMMA ViewValue ==
    ASSUME LedgerRows, NEW s \in Sessions, NEW p \in Pots
    PROVE  /\ View(s)[p] = committed[p] + pending[s][p]
           /\ View(s)[p] \in Ledger
<1>1. committed[p] \in Ledger /\ pending[s][p] \in Ledger
    BY DEF LedgerRows
<1>2. View(s)[p] = committed[p] + pending[s][p]
    BY DEF View, Plus
<1>3. QED BY <1>1, <1>2, LedgerClosed

LEMMA RowIsRow ==
    ASSUME NEW pot \in Pots, NEW d \in Ledger
    PROVE  /\ Row(pot, d) \in [Pots -> Ledger]
           /\ TotalOf(Row(pot, d)) = d
           /\ \A p \in Pots : Row(pot, d)[p] = IF p = pot THEN d ELSE 0
<1>1. Row(pot, d) \in [Pots -> Ledger]
    BY ZeroInLedger DEF Row
<1>2. \A p \in Pots : Row(pot, d)[p] = IF p = pot THEN d ELSE 0
    BY DEF Row
<1>3. TotalOf(Row(pot, d)) = d
    BY <1>2, LedgerSub DEF TotalOf, Pots
<1>4. QED BY <1>1, <1>2, <1>3

LEMMA CreditRows ==
    ASSUME TypeOK, LedgerRows, NEW s \in Sessions, NEW pot \in Pots, NEW a \in Amounts,
           Credit(s, pot, a)
    PROVE  Flushes(s)
<1>1. a \in Nat \ {0} /\ a \in Ledger
    BY AmountsAssumption, LedgerIffRepresentable DEF Credit, Recordable, Representable
<1>2. /\ Row(pot, a) \in [Pots -> Ledger]
      /\ TotalOf(Row(pot, a)) = a
      /\ \A p \in Pots : Row(pot, a)[p] = IF p = pot THEN a ELSE 0
    BY <1>1, RowIsRow
<1>3. \A p \in Pots : Row(pot, a)[p] >= 0
    BY <1>1, <1>2
<1>4. CallRowsAre(s, Row(pot, a), a)
    BY <1>1, <1>2, <1>3 DEF CallRowsAre, Credit, Flush, TypeOK, Pots
<1>5. QED BY <1>1, <1>2, <1>4 DEF Flushes

LEMMA DebitRows ==
    ASSUME TypeOK, LedgerRows, NEW s \in Sessions, NEW pot \in Pots, NEW a \in Nat \ {0},
           Debit(s, pot, a)
    PROVE  Flushes(s)
<1>1. a \in Nat \ {0} /\ -a \in Int /\ -a < 0
    OBVIOUS
<1>2. -a \in Ledger
    BY <1>1, LedgerIffRepresentable DEF Debit, Recordable, Representable
<1>3. /\ Row(pot, -a) \in [Pots -> Ledger]
      /\ TotalOf(Row(pot, -a)) = -a
      /\ \A p \in Pots : Row(pot, -a)[p] = IF p = pot THEN -a ELSE 0
    BY <1>2, RowIsRow
<1>4. DebitAllowed(View(s), pot, -a, "other")
    BY <1>1 DEF Debit, Recordable
<1>5. /\ pot = "operating" => View(s)["operating"] + (-a) >= Floor
      /\ pot = "growth" => View(s)["growth"] + (-a) >= 0
      /\ pot # "reserve"
    BY <1>4 DEF DebitAllowed, Pots
<1>6. /\ Row(pot, -a)["operating"] < 0 => pot = "operating"
      /\ Row(pot, -a)["growth"] < 0 => pot = "growth"
      /\ ~(Row(pot, -a)["reserve"] < 0)
    BY <1>3, <1>5 DEF Pots
<1>7. CallRowsAre(s, Row(pot, -a), -a)
    BY <1>1, <1>3, <1>5, <1>6 DEF CallRowsAre, Debit, Flush, TypeOK, Pots
<1>8. QED BY <1>1, <1>3, <1>7 DEF Flushes

LEMMA TransferRows ==
    ASSUME TypeOK, LedgerRows, NEW s \in Sessions, NEW a \in SignedTransfers,
           EmergencyTransfer(s, a)
    PROVE  Flushes(s)
<1> DEFINE rows == Plus(Row("reserve", -a), Row("operating", a))
<1>1. a \in Nat \ {0} /\ -a \in Int
    BY AmountsAssumption
<1>2. -a \in Ledger
    BY <1>1, LedgerIffRepresentable DEF EmergencyTransfer, Recordable, Representable
<1>3. a \in Ledger
    <2>1. a = 0 - (-a)
        BY <1>1
    <2>2. QED BY <1>2, <2>1, ZeroInLedger, LedgerClosed
<1>4. /\ rows["operating"] = a /\ rows["reserve"] = -a /\ rows["growth"] = 0
    BY <1>1 DEF Plus, Row, Pots
<1>5. rows \in [Pots -> Ledger]
    <2>1. rows = [p \in Pots |-> Row("reserve", -a)[p] + Row("operating", a)[p]]
        BY DEF Plus
    <2>2. \A p \in Pots : rows[p] \in Ledger
        BY <1>2, <1>3, <1>4, ZeroInLedger DEF Pots
    <2> HIDE DEF rows
    <2>3. rows = [p \in Pots |-> rows[p]]
        BY <2>1
    <2>4. QED BY <2>2, <2>3
<1>6. TotalOf(rows) = 0
    BY <1>1, <1>4 DEF TotalOf
<1>7. /\ pending' = [pending EXCEPT ![s] = Plus(@, rows)]
      /\ pendingReceived' = [pendingReceived EXCEPT ![s] = @ + 0]
      /\ UNCHANGED <<committed, received, metFullPot>>
      /\ s \in Writers
    BY DEF EmergencyTransfer, Flush
<1>8. rows["reserve"] < 0 =>
          \E b \in SignedTransfers : rows = Plus(Row("reserve", -b), Row("operating", b))
    OBVIOUS
<1> HIDE DEF rows
<1>9. CallRowsAre(s, rows, 0)
    BY <1>1, <1>4, <1>6, <1>7, <1>8 DEF CallRowsAre, TypeOK
<1>10. QED BY <1>5, <1>9 DEF Flushes

\* What split_and_record_inflow hands to split_inflow.
LEMMA InflowInputs ==
    ASSUME NEW b \in [Pots -> Ledger], NEW a \in Inflows, NEW cap \in ReserveCaps,
           NEW t \in TrailingRevenues
    PROVE  SplitInputs(a, b, cap, GrowthCapFromTrailingRevenue(t))
<1>1. a \in Nat \ {0} /\ a \in Ledger
    BY AmountsAssumption, LedgerIffRepresentable
<1>2. cap \in Caps
    BY CapsAssumption, LedgerIffRepresentable DEF Caps
<1>3. GrowthCapFromTrailingRevenue(t) \in Caps
    <2>1. t * GrowthCapPct \in Int
        BY CapsAssumption DEF GrowthCapPct
    <2>2. Quantize(t * GrowthCapPct, 100) \in Ledger
        BY <2>1, QuantizeNearest
    <2>3. QED BY <2>2 DEF GrowthCapFromTrailingRevenue, Caps
<1>4. QED BY <1>1, <1>2, <1>3 DEF SplitInputs, Pots

LEMMA InflowRows ==
    ASSUME TypeOK, LedgerRows, NEW s \in Sessions, NEW a \in Inflows,
           NEW cap \in ReserveCaps, NEW t \in TrailingRevenues,
           SplitAndRecordInflow(s, a, cap, t)
    PROVE  Flushes(s)
<1> DEFINE growthCap == GrowthCapFromTrailingRevenue(t)
           rows == EntriesOf(SplitInflow(a, View(s), cap, growthCap))
<1>1. /\ pending' = [pending EXCEPT ![s] = Plus(@, rows)]
      /\ pendingReceived' = [pendingReceived EXCEPT ![s] = @ + a]
      /\ UNCHANGED <<committed, received>>
      /\ s \in Writers
      /\ metFullPot' = (\/ metFullPot
                        \/ OverCap(View(s)["reserve"], cap)
                        \/ OverCap(View(s)["growth"], growthCap))
    BY DEF SplitAndRecordInflow, Flush
<1>2. View(s) \in [Pots -> Ledger]
    BY ViewValue DEF View, Plus
<1>3. SplitInputs(a, View(s), cap, growthCap)
    BY <1>2, InflowInputs
<1> HIDE DEF growthCap
<1>4. /\ rows \in [Pots -> Ledger]
      /\ rows["operating"] > 0 /\ rows["reserve"] >= 0 /\ rows["growth"] >= 0
    BY <1>3, EntriesRecordable
<1>5. ~metFullPot' => TotalOf(rows) = a
    <2>1. SUFFICES ASSUME ~metFullPot' PROVE TotalOf(rows) = a
        OBVIOUS
    <2>2. Within(View(s), "reserve", cap) /\ Within(View(s), "growth", growthCap)
        BY <1>1, <2>1 DEF Within, OverCap
    <2>3. QED BY <1>3, <2>2, SplitConservesMoney
<1>6. TotalOf(rows) >= a
    BY <1>3, SplitExact
<1>7. metFullPot' \in BOOLEAN /\ (metFullPot => metFullPot')
    BY <1>1
<1> HIDE DEF rows
<1>8. /\ rows["operating"] \in Int /\ rows["reserve"] \in Int /\ rows["growth"] \in Int
    BY <1>4, LedgerSub DEF Pots
<1>9. CallRowsAre(s, rows, a)
    BY <1>1, <1>4, <1>5, <1>6, <1>7, <1>8 DEF CallRowsAre
<1>10. QED BY <1>4, <1>9, AmountsAssumption DEF Flushes

LEMMA CallRows ==
    ASSUME TypeOK, LedgerRows, NEW s \in Sessions, Call(s)
    PROVE  Flushes(s)
BY CreditRows, DebitRows, InflowRows, TransferRows, AmountsAssumption DEF Call

-------------------------------------------------------------------------------
(***************************************************************************)
(* Type correctness, and the ledger holds representable amounts.           *)
(***************************************************************************)

Typed == TypeOK /\ LedgerRows

LEMMA NoRowsIsEmpty ==
    /\ NoRows \in [Pots -> Ledger]
    /\ \A p \in Pots : NoRows[p] = 0
    /\ TotalOf(NoRows) = 0
BY ZeroInLedger DEF NoRows, Pots, TotalOf

LEMMA PlusTyped ==
    ASSUME NEW f \in [Pots -> Ledger], NEW g \in [Pots -> Ledger]
    PROVE  /\ Plus(f, g) \in [Pots -> Ledger]
           /\ \A p \in Pots : Plus(f, g)[p] = f[p] + g[p]
           /\ TotalOf(Plus(f, g)) = TotalOf(f) + TotalOf(g)
<1>1. \A p \in Pots : Plus(f, g)[p] = f[p] + g[p]
    BY DEF Plus
<1>2. \A p \in Pots : f[p] + g[p] \in Ledger
    BY LedgerClosed
<1>3. Plus(f, g) \in [Pots -> Ledger]
    BY <1>2 DEF Plus
<1>4. \A p \in Pots : f[p] \in Int /\ g[p] \in Int
    BY LedgerSub
<1>5. TotalOf(Plus(f, g)) = TotalOf(f) + TotalOf(g)
    BY <1>1, <1>4 DEF TotalOf, Pots
<1>6. QED BY <1>1, <1>3, <1>5

LEMMA ViewTyped ==
    ASSUME Typed, NEW s \in Sessions
    PROVE  View(s) \in [Pots -> Ledger]
<1>1. committed \in [Pots -> Ledger] /\ pending[s] \in [Pots -> Ledger]
    BY DEF Typed, LedgerRows
<1>2. QED BY <1>1, PlusTyped DEF View

LEMMA NextMoves == Typed /\ [Next]_ledgerVars => [Moves]_ledgerVars
BY CallRows DEF Next, Moves, Typed

LEMMA TypedStep == Typed /\ [Moves]_ledgerVars => Typed'
<1> SUFFICES ASSUME Typed, [Moves]_ledgerVars PROVE Typed'
    OBVIOUS
<1> USE DEF Typed, TypeOK, LedgerRows
<1>1. ASSUME NEW s \in Sessions, Flushes(s) PROVE Typed'
    <2>1. PICK rows \in [Pots -> Ledger], external \in Int : CallRowsAre(s, rows, external)
        BY <1>1 DEF Flushes
    <2>2. Plus(pending[s], rows) \in [Pots -> Ledger]
        BY PlusTyped
    <2>3. pending' \in [Sessions -> [Pots -> Ledger]]
        BY <2>1, <2>2 DEF CallRowsAre
    <2>4. pending' \in [Sessions -> [Pots -> Int]]
        BY <2>3, LedgerSub
    <2>5. pendingReceived' \in [Sessions -> Int]
        BY <2>1 DEF CallRowsAre
    <2>6. QED BY <2>1, <2>3, <2>4, <2>5 DEF CallRowsAre
<1>2. ASSUME NEW s \in Sessions, Commit(s) PROVE Typed'
    <2>1. committed' \in [Pots -> Ledger]
        BY <1>2, ViewTyped DEF Commit
    <2>2. committed' \in [Pots -> Int]
        BY <2>1, LedgerSub
    <2>3. pending' \in [Sessions -> [Pots -> Ledger]]
        BY <1>2, NoRowsIsEmpty DEF Commit
    <2>4. pending' \in [Sessions -> [Pots -> Int]]
        BY <2>3, LedgerSub
    <2>5. QED BY <1>2, <2>1, <2>2, <2>3, <2>4 DEF Commit
<1>3. ASSUME NEW s \in Sessions, Rollback(s) PROVE Typed'
    <2>1. pending' \in [Sessions -> [Pots -> Ledger]]
        BY <1>3, NoRowsIsEmpty DEF Rollback
    <2>2. pending' \in [Sessions -> [Pots -> Int]]
        BY <2>1, LedgerSub
    <2>3. QED BY <1>3, <2>1, <2>2 DEF Rollback
<1>4. CASE UNCHANGED ledgerVars
    BY <1>4 DEF ledgerVars
<1>5. QED BY <1>1, <1>2, <1>3, <1>4 DEF Moves

LEMMA TypedInit == Init => Typed
<1> SUFFICES ASSUME Init PROVE Typed
    OBVIOUS
<1>1. NoRows \in [Pots -> Int]
    BY NoRowsIsEmpty, LedgerSub
<1>2. committed \in [Pots -> Int] /\ pending \in [Sessions -> [Pots -> Int]]
    BY <1>1 DEF Init
<1>3. LedgerRows
    BY NoRowsIsEmpty DEF Init, LedgerRows
<1>4. received \in Int /\ pendingReceived \in [Sessions -> Int]
    BY DEF Init
<1>5. metFullPot \in BOOLEAN
    BY Zenon DEF Init
<1>6. QED BY <1>2, <1>3, <1>4, <1>5 DEF Typed, TypeOK

LEMMA AlwaysTyped == Spec => []Typed
<1>1. QED BY TypedInit, TypedStep, NextMoves, PTL DEF Spec

\* Every balance is an integer in every pot of every session (Cashflow.TypeOK).
THEOREM TypeCorrect == Spec => []TypeOK
<1>1. Typed => TypeOK
    BY DEF Typed
<1>2. QED BY <1>1, AlwaysTyped, PTL

-------------------------------------------------------------------------------
(***************************************************************************)
(* Conservation.                                                           *)
(***************************************************************************)

\* LedgerBalanced for the table and for every open transaction.
AllBalanced ==
    ~metFullPot =>
        /\ TotalOf(committed) = received
        /\ \A s \in Sessions : TotalOf(pending[s]) = pendingReceived[s]

LEMMA AllBalancedStep == Typed /\ AllBalanced /\ [Moves]_ledgerVars => AllBalanced'
<1> SUFFICES ASSUME Typed, AllBalanced, [Moves]_ledgerVars, ~metFullPot'
             PROVE  /\ TotalOf(committed') = received'
                    /\ \A s \in Sessions : TotalOf(pending'[s]) = pendingReceived'[s]
    BY DEF AllBalanced
<1> USE DEF AllBalanced, Typed, TypeOK, LedgerRows
<1>1. ASSUME NEW s \in Sessions, Flushes(s)
      PROVE  /\ TotalOf(committed') = received'
             /\ \A t \in Sessions : TotalOf(pending'[t]) = pendingReceived'[t]
    <2>1. PICK rows \in [Pots -> Ledger], external \in Int : CallRowsAre(s, rows, external)
        BY <1>1 DEF Flushes
    <2>2. ~metFullPot /\ TotalOf(rows) = external
        BY <2>1 DEF CallRowsAre
    <2>3. TotalOf(Plus(pending[s], rows)) = pendingReceived[s] + external
        BY <2>2, PlusTyped
    <2>4. QED BY <2>1, <2>2, <2>3 DEF CallRowsAre
<1>2. ASSUME NEW s \in Sessions, Commit(s)
      PROVE  /\ TotalOf(committed') = received'
             /\ \A t \in Sessions : TotalOf(pending'[t]) = pendingReceived'[t]
    <2>1. TotalOf(View(s)) = TotalOf(committed) + TotalOf(pending[s])
        BY PlusTyped DEF View
    <2>2. TotalOf(committed') = received'
        BY <1>2, <2>1 DEF Commit
    <2>3. QED BY <1>2, <2>2, NoRowsIsEmpty DEF Commit
<1>3. ASSUME NEW s \in Sessions, Rollback(s)
      PROVE  /\ TotalOf(committed') = received'
             /\ \A t \in Sessions : TotalOf(pending'[t]) = pendingReceived'[t]
    BY <1>3, NoRowsIsEmpty DEF Rollback
<1>4. CASE UNCHANGED ledgerVars
    BY <1>4 DEF ledgerVars
<1>5. QED BY <1>1, <1>2, <1>3, <1>4 DEF Moves

\* Until an inflow meets a pot above its cap, the committed rows add up to the
\* money that came in less the money paid out: residues, overflows, transfers,
\* refused debits and rollbacks create and lose nothing (Cashflow.LedgerBalanced).
THEOREM MoneyConserved == Spec => []LedgerBalanced
<1>1. Init => AllBalanced
    BY NoRowsIsEmpty DEF Init, AllBalanced
<1>2. AllBalanced => LedgerBalanced
    BY DEF AllBalanced, LedgerBalanced
<1>3. QED BY <1>1, <1>2, AllBalancedStep, NextMoves, AlwaysTyped, PTL DEF Spec

\* The table, and every open transaction, may hold more than came in, never less.
NothingLost ==
    /\ TotalOf(committed) >= received
    /\ \A s \in Sessions : TotalOf(pending[s]) >= pendingReceived[s]

LEMMA TotalTyped ==
    ASSUME NEW f \in [Pots -> Ledger] PROVE TotalOf(f) \in Int
<1>1. \A p \in Pots : f[p] \in Int
    BY LedgerSub
<1>2. QED BY <1>1 DEF TotalOf, Pots

LEMMA NothingLostStep == Typed /\ NothingLost /\ [Moves]_ledgerVars => NothingLost'
<1> SUFFICES ASSUME Typed, NothingLost, [Moves]_ledgerVars
             PROVE  /\ TotalOf(committed') >= received'
                    /\ \A s \in Sessions : TotalOf(pending'[s]) >= pendingReceived'[s]
    BY DEF NothingLost
<1> USE DEF NothingLost, Typed, TypeOK, LedgerRows
<1>1. ASSUME NEW s \in Sessions, Flushes(s)
      PROVE  /\ TotalOf(committed') >= received'
             /\ \A t \in Sessions : TotalOf(pending'[t]) >= pendingReceived'[t]
    <2>1. PICK rows \in [Pots -> Ledger], external \in Int : CallRowsAre(s, rows, external)
        BY <1>1 DEF Flushes
    <2>2. TotalOf(rows) >= external
        BY <2>1 DEF CallRowsAre
    <2>3. TotalOf(Plus(pending[s], rows)) >= pendingReceived[s] + external
        BY <2>2, PlusTyped, TotalTyped
    <2>4. QED BY <2>1, <2>3 DEF CallRowsAre
<1>2. ASSUME NEW s \in Sessions, Commit(s)
      PROVE  /\ TotalOf(committed') >= received'
             /\ \A t \in Sessions : TotalOf(pending'[t]) >= pendingReceived'[t]
    <2>1. TotalOf(View(s)) = TotalOf(committed) + TotalOf(pending[s])
        BY PlusTyped DEF View
    <2>2. TotalOf(View(s)) >= received + pendingReceived[s]
        BY <2>1, TotalTyped
    <2>3. TotalOf(committed') >= received'
        BY <1>2, <2>2 DEF Commit
    <2>4. QED BY <1>2, <2>3, NoRowsIsEmpty DEF Commit
<1>3. ASSUME NEW s \in Sessions, Rollback(s)
      PROVE  /\ TotalOf(committed') >= received'
             /\ \A t \in Sessions : TotalOf(pending'[t]) >= pendingReceived'[t]
    BY <1>3, NoRowsIsEmpty DEF Rollback
<1>4. CASE UNCHANGED ledgerVars
    BY <1>4 DEF ledgerVars
<1>5. QED BY <1>1, <1>2, <1>3, <1>4 DEF Moves

\* In every history, pots above their caps included, the table holds at least what came in
\* less what was paid out: the books may show money that never came (the finding about a
\* full pot), they never miss any (ledger.py:60-84).
THEOREM MoneyNeverLost == Spec => [](TotalOf(committed) >= received)
<1>1. Init => NothingLost
    BY NoRowsIsEmpty DEF Init, NothingLost
<1>2. NothingLost => TotalOf(committed) >= received
    BY DEF NothingLost
<1>3. QED BY <1>1, <1>2, NothingLostStep, NextMoves, AlwaysTyped, PTL DEF Spec

-------------------------------------------------------------------------------
(***************************************************************************)
(* The floors, for any number of sessions that only top up Operating and   *)
(* at most one of the Mother's.                                            *)
(***************************************************************************)

SingleWriter == \A s, t \in Writers : s = t

SeedOnlyTopsUp ==
    \A s \in Sessions \ Writers :
        pending[s]["operating"] >= 0 /\ pending[s]["growth"] = 0

FloorInv == OwedAboveFloor /\ GrowthNeverNegative /\ SeedOnlyTopsUp

LEMMA FloorInvStep ==
    ASSUME SingleWriter
    PROVE  Typed /\ FloorInv /\ [Moves]_ledgerVars => FloorInv'
<1> SUFFICES ASSUME Typed, FloorInv, [Moves]_ledgerVars PROVE FloorInv'
    OBVIOUS
<1>1. /\ committed["operating"] \in Int /\ committed["growth"] \in Int
      /\ \A t \in Sessions : pending[t]["operating"] \in Int /\ pending[t]["growth"] \in Int
    BY DEF Typed, TypeOK, Pots
<1>2. /\ committed["growth"] >= 0
      /\ \A t \in Sessions :
            /\ pending[t]["operating"] < 0
                   => committed["operating"] + pending[t]["operating"] >= Floor
            /\ committed["growth"] + pending[t]["growth"] >= 0
            /\ t \notin Writers => pending[t]["operating"] >= 0 /\ pending[t]["growth"] = 0
    BY DEF FloorInv, OwedAboveFloor, GrowthNeverNegative, SeedOnlyTopsUp, View, Plus, Pots
<1>3. SUFFICES
        /\ committed'["growth"] >= 0
        /\ \A t \in Sessions :
            /\ pending'[t]["operating"] < 0
                   => committed'["operating"] + pending'[t]["operating"] >= Floor
            /\ committed'["growth"] + pending'[t]["growth"] >= 0
            /\ t \notin Writers => pending'[t]["operating"] >= 0 /\ pending'[t]["growth"] = 0
    BY DEF FloorInv, OwedAboveFloor, GrowthNeverNegative, SeedOnlyTopsUp, View, Plus, Pots
<1> DEFINE Goal ==
        /\ committed'["growth"] >= 0
        /\ \A t \in Sessions :
            /\ pending'[t]["operating"] < 0
                   => committed'["operating"] + pending'[t]["operating"] >= Floor
            /\ committed'["growth"] + pending'[t]["growth"] >= 0
            /\ t \notin Writers => pending'[t]["operating"] >= 0 /\ pending'[t]["growth"] = 0
<1>4. ASSUME NEW s \in Sessions, Flushes(s) PROVE Goal
    <2>1. PICK rows \in [Pots -> Ledger], external \in Int : CallRowsAre(s, rows, external)
        BY <1>4 DEF Flushes
    <2>2. rows["operating"] \in Int /\ rows["growth"] \in Int
        BY LedgerSub DEF Pots
    <2>3. /\ committed' = committed
          /\ \A t \in Sessions : t # s => pending'[t] = pending[t]
          /\ pending'[s]["operating"] = pending[s]["operating"] + rows["operating"]
          /\ pending'[s]["growth"] = pending[s]["growth"] + rows["growth"]
        BY <2>1 DEF CallRowsAre, Typed, TypeOK, Plus, Pots
    <2>4. /\ rows["operating"] < 0 =>
                committed["operating"] + pending[s]["operating"] + rows["operating"] >= Floor
          /\ rows["growth"] < 0 =>
                committed["growth"] + pending[s]["growth"] + rows["growth"] >= 0
          /\ s \notin Writers => rows["operating"] >= 0 /\ rows["growth"] = 0
        BY <2>1 DEF CallRowsAre, View, Plus, Pots
    <2>5. QED BY <1>1, <1>2, <2>2, <2>3, <2>4, FloorAssumption
<1>5. ASSUME NEW s \in Sessions, Commit(s) PROVE Goal
    <2>1. /\ committed'["operating"] = committed["operating"] + pending[s]["operating"]
          /\ committed'["growth"] = committed["growth"] + pending[s]["growth"]
          /\ \A t \in Sessions : t # s => pending'[t] = pending[t]
          /\ pending'[s]["operating"] = 0 /\ pending'[s]["growth"] = 0
        BY <1>5, NoRowsIsEmpty DEF Commit, View, Plus, Typed, TypeOK, Pots
    <2>2. CASE s \in Writers
        <3>1. \A t \in Sessions : t # s => t \notin Writers
            BY <2>2 DEF SingleWriter
        <3>2. QED BY <1>1, <1>2, <2>1, <3>1, FloorAssumption
    <2>3. CASE s \notin Writers
        BY <1>1, <1>2, <2>1, <2>3, FloorAssumption
    <2>4. QED BY <2>2, <2>3
<1>6. ASSUME NEW s \in Sessions, Rollback(s) PROVE Goal
    <2>1. /\ committed' = committed
          /\ \A t \in Sessions : t # s => pending'[t] = pending[t]
          /\ pending'[s]["operating"] = 0 /\ pending'[s]["growth"] = 0
        BY <1>6, NoRowsIsEmpty DEF Rollback, Typed, TypeOK, Pots
    <2>2. QED BY <1>1, <1>2, <2>1
<1>7. CASE UNCHANGED ledgerVars
    BY <1>2, <1>7 DEF ledgerVars
<1>8. QED BY <1>4, <1>5, <1>6, <1>7 DEF Moves

LEMMA FloorInvInit == Init => FloorInv
BY NoRowsIsEmpty DEF Init, FloorInv, OwedAboveFloor, GrowthNeverNegative,
                     SeedOnlyTopsUp, View, Plus, Pots

LEMMA AlwaysFloorInv ==
    ASSUME SingleWriter PROVE Spec => []FloorInv
<1>1. QED BY FloorInvInit, FloorInvStep, NextMoves, AlwaysTyped, PTL DEF Spec

LEMMA FloorStep ==
    Typed /\ FloorInv /\ [Moves]_ledgerVars
        => [committed'["operating"] < committed["operating"]
               => committed'["operating"] >= Floor]_ledgerVars
<1> SUFFICES ASSUME Typed, FloorInv, Moves,
                    committed'["operating"] < committed["operating"]
             PROVE  committed'["operating"] >= Floor
    OBVIOUS
<1>1. PICK s \in Sessions : Flushes(s) \/ Commit(s) \/ Rollback(s)
    BY DEF Moves
<1>2. committed["operating"] \in Int /\ pending[s]["operating"] \in Int
    BY DEF Typed, TypeOK, Pots
<1>3. CASE Flushes(s)
    <2>1. committed' = committed
        BY <1>3 DEF Flushes, CallRowsAre, Typed
    <2>2. QED BY <1>2, <2>1
<1>4. CASE Commit(s)
    <2>1. committed' = View(s)
        BY <1>4 DEF Commit
    <2>2. View(s)["operating"] = committed["operating"] + pending[s]["operating"]
        BY DEF View, Plus, Pots
    <2>3. pending[s]["operating"] < 0
        BY <1>2, <2>1, <2>2
    <2>4. QED BY <2>1, <2>3 DEF FloorInv, OwedAboveFloor
<1>5. CASE Rollback(s)
    BY <1>2, <1>5 DEF Rollback
<1>6. QED BY <1>1, <1>3, <1>4, <1>5

\* With one session of the Mother, however many seed scripts run beside it, no
\* commit lowers Operating below its hard floor (Cashflow.OperatingFloorHeld).
THEOREM FloorHeldBySingleWriter ==
    ASSUME SingleWriter PROVE Spec => OperatingFloorHeld
<1>1. QED BY FloorStep, NextMoves, AlwaysTyped, AlwaysFloorInv, PTL DEF Spec, OperatingFloorHeld

\* Under the same assumption the Growth pot never goes below zero, in the table
\* or in a session's view (Cashflow.GrowthNeverNegative).
THEOREM GrowthHeldBySingleWriter ==
    ASSUME SingleWriter PROVE Spec => []GrowthNeverNegative
<1>1. FloorInv => GrowthNeverNegative
    BY DEF FloorInv
<1>2. QED BY <1>1, AlwaysFloorInv, PTL

\* And a session whose uncommitted rows lower Operating sees the floor or more, whatever
\* the other sessions have committed since its check (Cashflow.OwedAboveFloor).
THEOREM DebtorsSeeFloorBySingleWriter ==
    ASSUME SingleWriter PROVE Spec => []OwedAboveFloor
<1>1. FloorInv => OwedAboveFloor
    BY DEF FloorInv
<1>2. QED BY <1>1, AlwaysFloorInv, PTL

-------------------------------------------------------------------------------
\* What of Cashflow.ReserveInviolate is about one step.
ReserveKept ==
    \A s \in Sessions :
        pending'[s] # NoRows /\ pending'[s]["reserve"] < pending[s]["reserve"] =>
            \E a \in SignedTransfers :
                pending'[s] = Plus(pending[s], Plus(Row("reserve", -a),
                                                    Row("operating", a)))

LEMMA ReserveStep == Typed /\ [Moves]_ledgerVars => [ReserveKept]_ledgerVars
<1> SUFFICES ASSUME Typed, Moves, NEW t \in Sessions, pending'[t] # NoRows,
                    pending'[t]["reserve"] < pending[t]["reserve"]
             PROVE  \E a \in SignedTransfers :
                        pending'[t] = Plus(pending[t], Plus(Row("reserve", -a),
                                                            Row("operating", a)))
    BY DEF ReserveKept
<1>1. PICK s \in Sessions : Flushes(s) \/ Commit(s) \/ Rollback(s)
    BY DEF Moves
<1>2. pending[t]["reserve"] \in Int
    BY DEF Typed, TypeOK, Pots
<1>3. t = s
    BY <1>1, <1>2 DEF Flushes, CallRowsAre, Commit, Rollback, Typed, TypeOK
<1>4. CASE Flushes(s)
    <2>1. PICK rows \in [Pots -> Ledger], external \in Int : CallRowsAre(s, rows, external)
        BY <1>4 DEF Flushes
    <2>2. pending'[t] = Plus(pending[t], rows)
        BY <1>3, <2>1 DEF CallRowsAre, Typed, TypeOK
    <2>3. rows["reserve"] \in Int
        BY LedgerSub DEF Pots
    <2>4. rows["reserve"] < 0
        BY <1>2, <2>2, <2>3 DEF Plus, Pots
    <2>5. QED BY <2>1, <2>2, <2>4 DEF CallRowsAre
<1>5. CASE Commit(s) \/ Rollback(s)
    BY <1>3, <1>5 DEF Commit, Rollback, Typed, TypeOK
<1>6. QED BY <1>1, <1>4, <1>5

\* For any sessions, nothing but a transfer of a signed amount takes money out of
\* Reserve, and all of it arrives in Operating (Cashflow.ReserveInviolate).
THEOREM ReserveTakenBySignedTransfersOnly == Spec => ReserveInviolate
<1>1. QED BY ReserveStep, NextMoves, AlwaysTyped, PTL DEF Spec, ReserveInviolate, ReserveKept

-------------------------------------------------------------------------------
(***************************************************************************)
(* The ledger as a serial one: its transactions might have run one after   *)
(* the other.  A call takes its decision from the balances it is made on;  *)
(* other sessions may have committed since, and with one session of the    *)
(* Mother what they committed changes no decision.                         *)
(***************************************************************************)

\* One call of session s, made on the balances b, turns them into e.
CallAlone(s, b, e) ==
    \/ \E pot \in Pots, a \in Amounts :
           /\ s \in Writers \/ pot = "operating"
           /\ Representable(a)
           /\ e = Plus(b, Row(pot, a))
    \/ \E pot \in Pots, a \in Amounts :
           /\ s \in Writers
           /\ Representable(-a) /\ DebitAllowed(b, pot, -a, "other")
           /\ e = Plus(b, Row(pot, -a))
    \/ \E a \in Inflows, cap \in ReserveCaps, t \in TrailingRevenues :
           LET split == SplitInflow(a, b, cap, GrowthCapFromTrailingRevenue(t))
           IN  /\ s \in Writers
               /\ split.operating > 0
               /\ e = Plus(b, EntriesOf(split))
    \/ \E a \in SignedTransfers :
           /\ s \in Writers
           /\ Representable(-a) /\ DebitAllowed(b, "reserve", -a, "emergency_transfer")
           /\ e = Plus(b, Plus(Row("reserve", -a), Row("operating", a)))

Snapshots == [Pots -> Ledger]

\* A whole transaction of s, run from the balances b to e with nobody else there.
TransactionAlone(s, b, e) ==
    \E n \in Nat : \E chain \in [0 .. n -> Snapshots] :
        /\ chain[0] = b /\ chain[n] = e
        /\ \A i \in 0 .. n - 1 : CallAlone(s, chain[i], chain[i + 1])

\* The ledger one would write if transactions were atomic.
SerialLedger ==
    /\ committed = NoRows
    /\ [][\E s \in Sessions : TransactionAlone(s, committed, committed')]_committed

LEMMA SumsCommute ==
    ASSUME NEW f \in Snapshots, NEW g \in Snapshots, NEW h \in Snapshots
    PROVE  Plus(Plus(f, g), h) = Plus(Plus(f, h), g)
<1>1. \A p \in Pots : f[p] \in Int /\ g[p] \in Int /\ h[p] \in Int
    BY LedgerSub DEF Snapshots
<1>2. \A p \in Pots : (f[p] + g[p]) + h[p] = (f[p] + h[p]) + g[p]
    BY <1>1
<1>3. QED BY <1>2 DEF Plus

LEMMA SumsAssociate ==
    ASSUME NEW f \in Snapshots, NEW g \in Snapshots, NEW h \in Snapshots
    PROVE  Plus(f, Plus(g, h)) = Plus(Plus(f, g), h)
<1>1. \A p \in Pots : f[p] \in Int /\ g[p] \in Int /\ h[p] \in Int
    BY LedgerSub DEF Snapshots
<1>2. \A p \in Pots : f[p] + (g[p] + h[p]) = (f[p] + g[p]) + h[p]
    BY <1>1
<1>3. QED BY <1>2 DEF Plus

LEMMA RowIsSnapshot ==
    ASSUME NEW pot \in Pots, NEW a \in Int, Representable(a)
    PROVE  Row(pot, a) \in Snapshots
BY RowIsRow, LedgerIffRepresentable DEF Snapshots, Representable

LEMMA TransferIsSnapshot ==
    ASSUME NEW a \in SignedTransfers, Representable(-a)
    PROVE  Plus(Row("reserve", -a), Row("operating", a)) \in Snapshots
<1>1. a \in Int /\ -a \in Ledger /\ 0 - (-a) = a
    BY AmountsAssumption, LedgerIffRepresentable DEF Representable
<1>2. a \in Ledger
    BY <1>1, ZeroInLedger, LedgerClosed
<1>3. QED BY <1>1, <1>2, RowIsRow, PlusTyped DEF Snapshots, Pots

\* The split looks at Reserve and Growth only.
LEMMA SplitBlindToOperating ==
    ASSUME NEW b, NEW c, NEW a, NEW cap, NEW growthCap,
           b["reserve"] = c["reserve"], b["growth"] = c["growth"]
    PROVE  SplitInflow(a, b, cap, growthCap) = SplitInflow(a, c, cap, growthCap)
BY DEF SplitInflow

TopsUp(d) == d["operating"] >= 0 /\ d["reserve"] = 0 /\ d["growth"] = 0

\* More in Operating refuses no debit.
LEMMA DebitStaysAllowed ==
    ASSUME NEW b \in Snapshots, NEW d \in Snapshots, TopsUp(d), NEW pot \in Pots, NEW delta \in Int,
           NEW source, DebitAllowed(b, pot, delta, source)
    PROVE  DebitAllowed(Plus(b, d), pot, delta, source)
<1>1. /\ Plus(b, d)["operating"] = b["operating"] + d["operating"]
      /\ Plus(b, d)["growth"] = b["growth"] + d["growth"]
      /\ b["operating"] \in Int /\ b["growth"] \in Int
      /\ d["operating"] \in Int /\ d["operating"] >= 0 /\ d["growth"] = 0
    BY PlusTyped, LedgerSub DEF Pots, TopsUp, Snapshots
<1>2. CASE pot = "operating"
    <2>1. b["operating"] + delta >= Floor
        BY <1>2 DEF DebitAllowed
    <2>2. Plus(b, d)["operating"] + delta >= Floor
        BY <1>1, <2>1, FloorAssumption
    <2>3. QED BY <1>2, <2>2 DEF DebitAllowed
<1>3. CASE pot = "reserve"
    BY <1>3 DEF DebitAllowed
<1>4. CASE pot = "growth"
    <2>1. b["growth"] + delta >= 0
        BY <1>4 DEF DebitAllowed
    <2>2. Plus(b, d)["growth"] + delta >= 0
        BY <1>1, <2>1
    <2>3. QED BY <1>4, <2>2 DEF DebitAllowed
<1>5. QED BY <1>2, <1>3, <1>4 DEF Pots

\* Rows another session has put in meanwhile, when a call is still right on them.
HarmlessTo(s, d) == s \in Writers => TopsUp(d)

LEMMA CallAloneShifts ==
    ASSUME NEW s \in Sessions, NEW b \in Snapshots, NEW e \in Snapshots, NEW d \in Snapshots,
           HarmlessTo(s, d), CallAlone(s, b, e)
    PROVE  CallAlone(s, Plus(b, d), Plus(e, d))
<1>1. CASE \E pot \in Pots, a \in Amounts :
               /\ s \in Writers \/ pot = "operating"
               /\ Representable(a)
               /\ e = Plus(b, Row(pot, a))
    <2>1. PICK pot \in Pots, a \in Amounts :
              /\ s \in Writers \/ pot = "operating"
              /\ Representable(a)
              /\ e = Plus(b, Row(pot, a))
        BY <1>1
    <2>2. Row(pot, a) \in Snapshots
        BY <2>1, AmountsAssumption, RowIsSnapshot
    <2>3. Plus(e, d) = Plus(Plus(b, d), Row(pot, a))
        BY <2>1, <2>2, SumsCommute
    <2>4. QED BY <2>1, <2>3 DEF CallAlone
<1>2. CASE \E pot \in Pots, a \in Amounts :
               /\ s \in Writers
               /\ Representable(-a) /\ DebitAllowed(b, pot, -a, "other")
               /\ e = Plus(b, Row(pot, -a))
    <2>1. PICK pot \in Pots, a \in Amounts :
              /\ s \in Writers
              /\ Representable(-a) /\ DebitAllowed(b, pot, -a, "other")
              /\ e = Plus(b, Row(pot, -a))
        BY <1>2
    <2>2. -a \in Int /\ Row(pot, -a) \in Snapshots
        BY <2>1, AmountsAssumption, RowIsSnapshot
    <2>3. Plus(e, d) = Plus(Plus(b, d), Row(pot, -a))
        BY <2>1, <2>2, SumsCommute
    <2>4. DebitAllowed(Plus(b, d), pot, -a, "other")
        BY <2>1, <2>2, DebitStaysAllowed DEF HarmlessTo
    <2>5. QED BY <2>1, <2>3, <2>4 DEF CallAlone
<1>3. ASSUME NEW a \in Inflows, NEW cap \in ReserveCaps, NEW t \in TrailingRevenues,
             s \in Writers,
             SplitInflow(a, b, cap, GrowthCapFromTrailingRevenue(t)).operating > 0,
             e = Plus(b, EntriesOf(SplitInflow(a, b, cap, GrowthCapFromTrailingRevenue(t))))
      PROVE  CallAlone(s, Plus(b, d), Plus(e, d))
    <2> DEFINE growthCap == GrowthCapFromTrailingRevenue(t)
               split == SplitInflow(a, b, cap, growthCap)
    <2>1. /\ b["reserve"] \in Int /\ b["growth"] \in Int
          /\ Plus(b, d)["reserve"] = b["reserve"] + d["reserve"]
          /\ Plus(b, d)["growth"] = b["growth"] + d["growth"]
        BY PlusTyped, LedgerSub DEF Pots, Snapshots
    <2>2. SplitInflow(a, Plus(b, d), cap, growthCap) = split
        BY <1>3, <2>1, SplitBlindToOperating DEF HarmlessTo, TopsUp
    <2>3. EntriesOf(split) \in Snapshots
        BY InflowInputs, EntriesRecordable DEF Snapshots
    <2> HIDE DEF growthCap
    <2>4. split.operating > 0 /\ e = Plus(b, EntriesOf(split))
        BY <1>3 DEF growthCap
    <2>5. Plus(e, d) = Plus(Plus(b, d), EntriesOf(split))
        BY <2>3, <2>4, SumsCommute
    <2>6. QED BY <1>3, <2>2, <2>4, <2>5 DEF CallAlone, growthCap
<1>4. CASE \E a \in SignedTransfers :
               /\ s \in Writers
               /\ Representable(-a) /\ DebitAllowed(b, "reserve", -a, "emergency_transfer")
               /\ e = Plus(b, Plus(Row("reserve", -a), Row("operating", a)))
    <2>1. PICK a \in SignedTransfers :
              /\ s \in Writers
              /\ Representable(-a) /\ DebitAllowed(b, "reserve", -a, "emergency_transfer")
              /\ e = Plus(b, Plus(Row("reserve", -a), Row("operating", a)))
        BY <1>4
    <2> DEFINE rows == Plus(Row("reserve", -a), Row("operating", a))
    <2>2. rows \in Snapshots
        BY <2>1, TransferIsSnapshot
    <2>3. Plus(e, d) = Plus(Plus(b, d), rows)
        BY <2>1, <2>2, SumsCommute
    <2>4. DebitAllowed(Plus(b, d), "reserve", -a, "emergency_transfer")
        BY <2>1, AmountsAssumption, DebitStaysAllowed DEF HarmlessTo, Pots
    <2>5. QED BY <2>1, <2>3, <2>4 DEF CallAlone
<1>5. QED BY <1>1, <1>2, <1>3, <1>4 DEF CallAlone

LEMMA EmptyTransaction ==
    ASSUME NEW s \in Sessions, NEW b \in Snapshots PROVE TransactionAlone(s, b, b)
<1> DEFINE chain == [i \in 0 .. 0 |-> b]
<1>1. chain \in [0 .. 0 -> Snapshots] /\ chain[0] = b
    OBVIOUS
<1>2. \A i \in 0 .. 0 - 1 : CallAlone(s, chain[i], chain[i + 1])
    OBVIOUS
<1>3. QED BY <1>1, <1>2 DEF TransactionAlone

LEMMA OneMoreCall ==
    ASSUME NEW s \in Sessions, NEW b \in Snapshots, NEW e \in Snapshots, NEW g \in Snapshots,
           TransactionAlone(s, b, e), CallAlone(s, e, g)
    PROVE  TransactionAlone(s, b, g)
<1>0. PICK n \in Nat : \E f \in [0 .. n -> Snapshots] :
          /\ f[0] = b /\ f[n] = e
          /\ \A i \in 0 .. n - 1 : CallAlone(s, f[i], f[i + 1])
    BY DEF TransactionAlone
<1>1. PICK f \in [0 .. n -> Snapshots] :
          /\ f[0] = b /\ f[n] = e
          /\ \A i \in 0 .. n - 1 : CallAlone(s, f[i], f[i + 1])
    BY <1>0
<1> DEFINE chain == [i \in 0 .. n + 1 |-> IF i = n + 1 THEN g ELSE f[i]]
<1>2. chain \in [0 .. n + 1 -> Snapshots]
    <2>1. ASSUME NEW i \in 0 .. n + 1 PROVE chain[i] \in Snapshots
        <3>1. i # n + 1 => i \in 0 .. n
            OBVIOUS
        <3>2. QED BY <3>1
    <2>2. QED BY <2>1
<1>3. /\ \A i \in 0 .. n : chain[i] = f[i]
      /\ chain[n + 1] = g
    OBVIOUS
<1>4. ASSUME NEW i \in 0 .. (n + 1) - 1 PROVE CallAlone(s, chain[i], chain[i + 1])
    <2>1. CASE i = n
        <3>1. chain[i] = e /\ chain[i + 1] = g
            BY <1>1, <1>3, <2>1
        <3>2. QED BY <3>1
    <2>2. CASE i # n
        <3>1. i \in 0 .. n - 1 /\ i \in 0 .. n /\ i + 1 \in 0 .. n
            BY <2>2
        <3>2. chain[i] = f[i] /\ chain[i + 1] = f[i + 1]
            BY <1>3, <3>1
        <3>3. QED BY <1>1, <3>1, <3>2
    <2>3. QED BY <2>1, <2>2
<1>5. chain[0] = b
    BY <1>1, <1>3
<1>6. n + 1 \in Nat
    OBVIOUS
<1> HIDE DEF chain
<1>7. QED BY <1>2, <1>3, <1>4, <1>5, <1>6 DEF TransactionAlone

LEMMA TransactionShifts ==
    ASSUME NEW s \in Sessions, NEW b \in Snapshots, NEW e \in Snapshots, NEW d \in Snapshots,
           HarmlessTo(s, d), TransactionAlone(s, b, e)
    PROVE  TransactionAlone(s, Plus(b, d), Plus(e, d))
<1>0. PICK n \in Nat : \E f \in [0 .. n -> Snapshots] :
          /\ f[0] = b /\ f[n] = e
          /\ \A i \in 0 .. n - 1 : CallAlone(s, f[i], f[i + 1])
    BY DEF TransactionAlone
<1>1. PICK f \in [0 .. n -> Snapshots] :
          /\ f[0] = b /\ f[n] = e
          /\ \A i \in 0 .. n - 1 : CallAlone(s, f[i], f[i + 1])
    BY <1>0
<1> DEFINE chain == [i \in 0 .. n |-> Plus(f[i], d)]
<1>2. chain \in [0 .. n -> Snapshots]
    BY PlusTyped DEF Snapshots
<1>3. chain[0] = Plus(b, d) /\ chain[n] = Plus(e, d)
    BY <1>1
<1>4. ASSUME NEW i \in 0 .. n - 1 PROVE CallAlone(s, chain[i], chain[i + 1])
    <2>1. i \in 0 .. n /\ i + 1 \in 0 .. n
        OBVIOUS
    <2>2. f[i] \in Snapshots /\ f[i + 1] \in Snapshots
        BY <2>1
    <2>3. chain[i] = Plus(f[i], d) /\ chain[i + 1] = Plus(f[i + 1], d)
        BY <2>1
    <2>4. QED BY <1>1, <2>2, <2>3, CallAloneShifts
<1> HIDE DEF chain
<1>5. QED BY <1>2, <1>3, <1>4 DEF TransactionAlone

-------------------------------------------------------------------------------
\* What every session sees is what its own calls make of the committed balances.
ViewsSerial ==
    \A s \in Sessions :
        /\ TransactionAlone(s, committed, View(s))
        /\ s \notin Writers => TopsUp(pending[s])

LEMMA PendingTyped ==
    ASSUME Typed, NEW s \in Sessions
    PROVE  committed \in Snapshots /\ pending[s] \in Snapshots /\ View(s) \in Snapshots
BY ViewTyped DEF Typed, LedgerRows, Snapshots

\* Rows that a session flushes are added to what it sees, and to no one else's view.
LEMMA FlushedView ==
    ASSUME Typed, NEW s \in Sessions, NEW rows \in Snapshots, committed' = committed,
           pending' = [pending EXCEPT ![s] = Plus(@, rows)]
    PROVE  /\ View(s)' = Plus(View(s), rows)
           /\ pending'[s] = Plus(pending[s], rows)
           /\ \A t \in Sessions \ {s} : View(t)' = View(t) /\ pending'[t] = pending[t]
<1>1. pending'[s] = Plus(pending[s], rows)
    BY DEF Typed, TypeOK
<1>2. Plus(committed, Plus(pending[s], rows)) = Plus(Plus(committed, pending[s]), rows)
    BY PendingTyped, SumsAssociate
<1>3. View(s)' = Plus(View(s), rows)
    BY <1>1, <1>2 DEF View
<1>4. QED BY <1>1, <1>3 DEF View, Typed, TypeOK

\* A call decides on the view of its session: it is that call, alone, on that view.
LEMMA CallIsAlone ==
    ASSUME Typed, NEW s \in Sessions, Call(s)
    PROVE  /\ CallAlone(s, View(s), View(s)') /\ View(s)' \in Snapshots
           /\ s \notin Writers /\ TopsUp(pending[s]) => TopsUp(pending'[s])
           /\ committed' = committed
           /\ \A t \in Sessions \ {s} : View(t)' = View(t) /\ pending'[t] = pending[t]
<1> DEFINE Goal == /\ CallAlone(s, View(s), View(s)') /\ View(s)' \in Snapshots
                   /\ s \notin Writers /\ TopsUp(pending[s]) => TopsUp(pending'[s])
                   /\ committed' = committed
                   /\ \A t \in Sessions \ {s} : View(t)' = View(t) /\ pending'[t] = pending[t]
<1>1. ASSUME NEW rows \in Snapshots, committed' = committed,
             pending' = [pending EXCEPT ![s] = Plus(@, rows)],
             CallAlone(s, View(s), Plus(View(s), rows)),
             s \notin Writers => TopsUp(rows)
      PROVE  Goal
    <2>1. View(s)' \in Snapshots
        <3>1. View(s)' = Plus(View(s), rows)
            BY <1>1, FlushedView
        <3>2. View(s) \in Snapshots
            BY PendingTyped
        <3>3. Plus(View(s), rows) \in Snapshots
            BY <3>2, PlusTyped DEF Snapshots
        <3>4. QED BY <3>1, <3>3
    <2>2. TopsUp(pending[s]) /\ TopsUp(rows) => TopsUp(pending'[s])
        <3>1. pending'[s] = Plus(pending[s], rows)
            BY <1>1, FlushedView
        <3>2. \A p \in Pots : pending[s][p] \in Int /\ rows[p] \in Int
            BY PendingTyped, LedgerSub DEF Snapshots
        <3>3. \A p \in Pots : pending'[s][p] = pending[s][p] + rows[p]
            BY <3>1 DEF Plus
        <3>4. QED BY <3>2, <3>3 DEF TopsUp, Pots
    <2>3. QED BY <1>1, <2>1, <2>2, FlushedView
<1>2. ASSUME NEW pot \in Pots, NEW a \in Amounts, Credit(s, pot, a) PROVE Goal
    <2>1. /\ s \in Writers \/ pot = "operating"
          /\ Representable(a) /\ a \in Int /\ a > 0 /\ Row(pot, a) \in Snapshots
        BY <1>2, AmountsAssumption, RowIsSnapshot DEF Credit, Recordable
    <2>2. CallAlone(s, View(s), Plus(View(s), Row(pot, a)))
        BY <2>1 DEF CallAlone
    <2>3. s \notin Writers => TopsUp(Row(pot, a))
        BY <2>1 DEF TopsUp, Row, Pots
    <2>4. QED BY <1>1, <1>2, <2>1, <2>2, <2>3 DEF Credit, Flush
<1>3. ASSUME NEW pot \in Pots, NEW a \in Amounts, Debit(s, pot, a) PROVE Goal
    <2>1. /\ s \in Writers
          /\ a \in Nat \ {0} /\ -a \in Int /\ -a < 0
          /\ Representable(-a) /\ Row(pot, -a) \in Snapshots
        BY <1>3, AmountsAssumption, RowIsSnapshot DEF Debit, Recordable
    <2>2. DebitAllowed(View(s), pot, -a, "other")
        BY <1>3, <2>1 DEF Debit, Recordable
    <2>3. CallAlone(s, View(s), Plus(View(s), Row(pot, -a)))
        BY <2>1, <2>2 DEF CallAlone
    <2>4. QED BY <1>1, <1>3, <2>1, <2>3 DEF Debit, Flush
<1>4. ASSUME NEW a \in Inflows, NEW cap \in ReserveCaps, NEW t \in TrailingRevenues,
             SplitAndRecordInflow(s, a, cap, t)
      PROVE  Goal
    <2> DEFINE split == SplitInflow(a, View(s), cap, GrowthCapFromTrailingRevenue(t))
               rows == EntriesOf(split)
    <2>1. rows \in Snapshots
        BY ViewTyped, InflowInputs, EntriesRecordable DEF Snapshots
    <2>2. /\ s \in Writers /\ split.operating > 0
          /\ committed' = committed /\ pending' = [pending EXCEPT ![s] = Plus(@, rows)]
        BY <1>4 DEF SplitAndRecordInflow, Flush
    <2>3. CallAlone(s, View(s), Plus(View(s), rows))
        BY <2>2 DEF CallAlone
    <2> HIDE DEF rows
    <2>4. QED BY <1>1, <2>1, <2>2, <2>3
<1>5. ASSUME NEW a \in SignedTransfers, EmergencyTransfer(s, a) PROVE Goal
    <2> DEFINE rows == Plus(Row("reserve", -a), Row("operating", a))
    <2>1. /\ s \in Writers /\ a \in Nat \ {0} /\ -a < 0 /\ Representable(-a)
        BY <1>5, AmountsAssumption DEF EmergencyTransfer, Recordable
    <2>2. DebitAllowed(View(s), "reserve", -a, "emergency_transfer")
        BY <1>5, <2>1 DEF EmergencyTransfer, Recordable
    <2>3. rows \in Snapshots
        BY <2>1, TransferIsSnapshot
    <2>4. CallAlone(s, View(s), Plus(View(s), rows))
        BY <2>1, <2>2 DEF CallAlone
    <2>5. committed' = committed /\ pending' = [pending EXCEPT ![s] = Plus(@, rows)]
        BY <1>5 DEF EmergencyTransfer, Flush
    <2> HIDE DEF rows
    <2>6. QED BY <1>1, <2>1, <2>3, <2>4, <2>5
<1>6. QED BY <1>2, <1>3, <1>4, <1>5 DEF Call

LEMMA ViewOfNothing ==
    ASSUME NEW b \in Snapshots PROVE Plus(b, NoRows) = b
<1>1. \A p \in Pots : b[p] \in Int /\ NoRows[p] = 0
    BY NoRowsIsEmpty, LedgerSub DEF Snapshots
<1>2. \A p \in Pots : b[p] + NoRows[p] = b[p]
    BY <1>1
<1>3. QED BY <1>2 DEF Plus, Snapshots

LEMMA NothingTopsUp == TopsUp(NoRows)
BY NoRowsIsEmpty DEF TopsUp, Pots

LEMMA ViewsSerialStep ==
    ASSUME SingleWriter
    PROVE  Typed /\ ViewsSerial /\ [Next]_ledgerVars => ViewsSerial'
<1> SUFFICES ASSUME Typed, ViewsSerial, [Next]_ledgerVars, NEW t \in Sessions
             PROVE  /\ TransactionAlone(t, committed', View(t)')
                    /\ t \notin Writers => TopsUp(pending'[t])
    BY DEF ViewsSerial
<1>1. /\ TransactionAlone(t, committed, View(t))
      /\ t \notin Writers => TopsUp(pending[t])
    BY DEF ViewsSerial
<1> DEFINE Goal == /\ TransactionAlone(t, committed', View(t)')
                   /\ t \notin Writers => TopsUp(pending'[t])
<1>2. ASSUME NEW s \in Sessions, Call(s) PROVE Goal
    <2>1. CASE t = s
        BY <1>1, <1>2, <2>1, CallIsAlone, PendingTyped, OneMoreCall
    <2>2. CASE t # s
        <3>1. View(t)' = View(t) /\ pending'[t] = pending[t] /\ committed' = committed
            BY <1>2, <2>2, CallIsAlone
        <3>2. QED BY <1>1, <3>1
    <2>3. QED BY <2>1, <2>2
<1>3. ASSUME NEW s \in Sessions, Commit(s) PROVE Goal
    <2>1. committed' = View(s) /\ pending' = [pending EXCEPT ![s] = NoRows]
        BY <1>3 DEF Commit
    <2>2. CASE t = s
        <3>1. pending'[t] = NoRows
            BY <2>1, <2>2 DEF Typed, TypeOK
        <3>2. View(t)' = committed'
            BY <2>1, <3>1, PendingTyped, ViewOfNothing DEF View
        <3>3. QED BY <2>1, <3>1, <3>2, PendingTyped, EmptyTransaction, NothingTopsUp
    <2>3. CASE t # s
        <3>1. pending'[t] = pending[t]
            BY <2>1, <2>3 DEF Typed, TypeOK
        <3>2. HarmlessTo(t, pending[s])
            <4>1. t \in Writers => s \notin Writers
                BY <2>3 DEF SingleWriter
            <4>2. QED BY <4>1 DEF HarmlessTo, ViewsSerial
        <3>3. committed' = Plus(committed, pending[s])
            BY <2>1 DEF View
        <3>4. View(t)' = Plus(View(t), pending[s])
            <4>1. Plus(Plus(committed, pending[s]), pending[t])
                      = Plus(Plus(committed, pending[t]), pending[s])
                BY PendingTyped, SumsCommute
            <4>2. QED BY <3>1, <3>3, <4>1 DEF View
        <3>5. TransactionAlone(t, Plus(committed, pending[s]), Plus(View(t), pending[s]))
            BY <1>1, <3>2, PendingTyped, TransactionShifts
        <3>6. QED BY <1>1, <3>1, <3>3, <3>4, <3>5
    <2>4. QED BY <2>2, <2>3
<1>4. ASSUME NEW s \in Sessions, Rollback(s) PROVE Goal
    <2>1. committed' = committed /\ pending' = [pending EXCEPT ![s] = NoRows]
        BY <1>4 DEF Rollback
    <2>2. CASE t = s
        <3>1. pending'[t] = NoRows
            BY <2>1, <2>2 DEF Typed, TypeOK
        <3>2. View(t)' = committed'
            BY <2>1, <3>1, PendingTyped, ViewOfNothing DEF View
        <3>3. QED BY <2>1, <3>1, <3>2, PendingTyped, EmptyTransaction, NothingTopsUp
    <2>3. CASE t # s
        <3>1. pending'[t] = pending[t]
            BY <2>1, <2>3 DEF Typed, TypeOK
        <3>2. View(t)' = View(t)
            BY <2>1, <3>1 DEF View
        <3>3. QED BY <1>1, <2>1, <3>1, <3>2
    <2>4. QED BY <2>2, <2>3
<1>5. CASE UNCHANGED ledgerVars
    BY <1>1, <1>5 DEF ledgerVars, View
<1>6. QED BY <1>2, <1>3, <1>4, <1>5 DEF Next

LEMMA ViewsSerialInit == Init => ViewsSerial
<1> SUFFICES ASSUME Init, NEW s \in Sessions
             PROVE  TransactionAlone(s, committed, View(s)) /\ TopsUp(pending[s])
    BY DEF ViewsSerial
<1>1. committed = NoRows /\ pending[s] = NoRows /\ NoRows \in Snapshots
    BY NoRowsIsEmpty DEF Init, Snapshots
<1>2. View(s) = committed
    BY <1>1, ViewOfNothing DEF View
<1>3. QED BY <1>1, <1>2, EmptyTransaction, NothingTopsUp

LEMMA StepIsSerial ==
    Typed /\ ViewsSerial /\ [Next]_ledgerVars
        => [\E s \in Sessions : TransactionAlone(s, committed, committed')]_committed
<1> SUFFICES ASSUME Typed, ViewsSerial, [Next]_ledgerVars, committed' # committed
             PROVE  \E s \in Sessions : TransactionAlone(s, committed, committed')
    OBVIOUS
<1>1. PICK s \in Sessions : Commit(s)
    <2>1. ASSUME NEW s \in Sessions, Call(s) PROVE FALSE
        BY <2>1, CallIsAlone
    <2>2. QED BY <2>1 DEF Next, Rollback, ledgerVars
<1>2. QED BY <1>1 DEF Commit, ViewsSerial

\* With one session of the Mother, the interleaved transactions leave in the table what
\* some serial order of them would have left, each check of a floor and of a cap made on
\* the balances its transaction was committed on (ledger.py:88-119, 142-157; session.py).
THEOREM SingleWriterSerializable ==
    ASSUME SingleWriter PROVE Spec => SerialLedger
<1>1. Init => committed = NoRows
    BY DEF Init
<1>2. Typed /\ ViewsSerial /\ [Next]_ledgerVars => ViewsSerial'
    BY ViewsSerialStep
<1>3. QED BY <1>1, <1>2, ViewsSerialInit, StepIsSerial, AlwaysTyped, PTL DEF Spec, SerialLedger

-------------------------------------------------------------------------------
(***************************************************************************)
(* The client over the ledger.  All it does to the ledger is a debit of a  *)
(* positive cost, so that its steps are moves of the ledger, or none.      *)
(***************************************************************************)

LEMMA RoundHalfEvenNat ==
    ASSUME NEW n \in Nat, NEW d \in Nat \ {0}
    PROVE  RoundHalfEven(n, d) \in Nat
<1>1. n \div d \in Nat
    OBVIOUS
<1>2. QED BY <1>1 DEF RoundHalfEven

\* A call costs a number of micro-dollars, whichever model serves it.
LEMMA CostNat ==
    ASSUME NEW model \in Models, NEW i \in Nat, NEW o \in Nat
    PROVE  EstimateCost(model, i, o) \in Nat
<1>1. PriceIn[model] \in Nat /\ PriceOut[model] \in Nat
    BY DEF Models, PriceIn, PriceOut
<1>2. i * PriceIn[model] + o * PriceOut[model] \in Nat
    BY <1>1
<1>3. QED BY <1>2, RoundHalfEvenNat DEF EstimateCost

LEMMA RouteModel == ASSUME NEW agent, NEW task, NEW operating PROVE Route(agent, task, operating) \in Models
BY DEF Route, Models, PriceIn

ClientTyped == Typed /\ LLMTypeOK

\* What a suspended call has checked of the balance it read.
CallsCovered ==
    \A c \in Callers : call[c] # Idle => call[c].operating - call[c].est >= Floor

LEMMA SuspendedCall ==
    ASSUME LLMTypeOK, NEW c \in Callers, call[c] # Idle
    PROVE  call[c].model \in Models /\ call[c].operating \in Int /\ call[c].est \in Nat
BY DEF LLMTypeOK

LEMMA ClientMoves == ClientTyped /\ [LLMNext]_allVars => [Moves]_ledgerVars
<1> SUFFICES ASSUME ClientTyped, [LLMNext]_allVars PROVE [Moves]_ledgerVars
    OBVIOUS
<1> USE DEF ClientTyped
<1>1. ASSUME NEW c \in Callers, NEW req \in Requests, NEW budget \in Budgets,
              StartCall(c, req, budget) PROVE [Moves]_ledgerVars
    BY <1>1 DEF StartCall
<1>2. ASSUME NEW c \in Callers, NEW answer \in Answers, FinishCall(c, answer)
      PROVE  [Moves]_ledgerVars
    <2> DEFINE cost == EstimateCost(call[c].model, answer.tokensIn, answer.tokensOut)
    <2>1. cost \in Nat
        BY <1>2, SuspendedCall, CostNat, ClientAssumption DEF FinishCall
    <2>2. Debit(ClientSession, "operating", cost) \/ UNCHANGED ledgerVars
        BY <1>2 DEF FinishCall
    <2> HIDE DEF cost
    <2>3. CASE Debit(ClientSession, "operating", cost)
        <3>1. cost # 0
            BY <2>3 DEF Debit, Recordable
        <3>2. ClientSession \in Sessions /\ "operating" \in Pots
            BY ClientAssumption, SessionsAssumption DEF Pots
        <3>3. Flushes(ClientSession)
            BY <2>1, <2>3, <3>1, <3>2, DebitRows DEF Typed
        <3>4. QED BY <3>2, <3>3 DEF Moves
    <2>4. QED BY <2>2, <2>3
<1>3. ASSUME NEW c \in Callers, FailCall(c) PROVE [Moves]_ledgerVars
    BY <1>3 DEF FailCall
<1>4. ASSUME NEW state, SetSystemState(state) PROVE [Moves]_ledgerVars
    BY <1>4 DEF SetSystemState
<1>5. ASSUME NEW s \in Sessions, LedgerStep(s) PROVE [Moves]_ledgerVars
    <2>1. CASE \E a \in Amounts : Credit(s, "operating", a) \/ Debit(s, "operating", a)
        <3>1. Call(s)
            BY <2>1 DEF Call, Pots
        <3>2. QED BY <3>1, CallRows DEF Moves, Typed
    <2>2. CASE Commit(s) \/ Rollback(s)
        BY <2>2 DEF Moves
    <2>3. QED BY <1>5, <2>1, <2>2 DEF LedgerStep
<1>6. CASE UNCHANGED allVars
    BY <1>6 DEF allVars
<1>7. QED BY <1>1, <1>2, <1>3, <1>4, <1>5, <1>6 DEF LLMNext

LEMMA ClientTypedStep == ClientTyped /\ [LLMNext]_allVars => ClientTyped'
<1> SUFFICES ASSUME ClientTyped, [LLMNext]_allVars PROVE ClientTyped'
    OBVIOUS
<1>1. Typed'
    BY ClientMoves, TypedStep DEF ClientTyped
<1>2. SUFFICES /\ call' \in [Callers -> [model : Models, operating : Int, est : Nat] \cup {Idle}]
               /\ systemState' \in {"normal", "hard_stop"}
               /\ billed' \in [Callers -> Nat]
               /\ refused' \in Nat
    BY <1>1 DEF ClientTyped, LLMTypeOK, Typed
<1> USE DEF ClientTyped, LLMTypeOK
<1>3. ASSUME NEW c \in Callers, NEW req \in Requests, NEW budget \in Budgets,
              StartCall(c, req, budget)
      PROVE  /\ call' \in [Callers -> [model : Models, operating : Int, est : Nat] \cup {Idle}]
             /\ UNCHANGED <<systemState, billed, refused>>
    <2> DEFINE operating == OperatingOf(budget)
               model == Route(req.agent, req.task, operating)
               est == EstimateCost(model, req.tokensIn, req.maxTokens)
    <2>1. ClientSession \in Sessions
        BY ClientAssumption, SessionsAssumption
    <2>2. operating \in Int
        <3>1. View(ClientSession)["operating"] \in Int
            BY <2>1, ViewTyped, LedgerSub DEF Pots
        <3>2. budget # NoBudget => budget.pot \in Int
            BY ClientAssumption
        <3>3. QED BY <3>1, <3>2 DEF OperatingOf
    <2>3. model \in Models
        BY RouteModel
    <2>4. est \in Nat
        BY <2>3, CostNat, ClientAssumption
    <2>5. /\ call' = [call EXCEPT ![c] = [model |-> model, operating |-> operating, est |-> est]]
          /\ UNCHANGED <<systemState, billed, refused>>
        BY <1>3 DEF StartCall
    <2> HIDE DEF operating, model, est
    <2>6. QED BY <2>2, <2>3, <2>4, <2>5
<1>4. ASSUME NEW c \in Callers, NEW answer \in Answers, FinishCall(c, answer)
      PROVE  /\ call' \in [Callers -> [model : Models, operating : Int, est : Nat] \cup {Idle}]
             /\ billed' \in [Callers -> Nat] /\ refused' \in Nat
             /\ UNCHANGED systemState
    <2> DEFINE cost == EstimateCost(call[c].model, answer.tokensIn, answer.tokensOut)
    <2>1. cost \in Nat
        BY <1>4, SuspendedCall, CostNat, ClientAssumption DEF FinishCall
    <2>2. /\ billed' = [billed EXCEPT ![c] = @ + cost]
          /\ refused' = refused \/ refused' = refused + cost
          /\ call' = [call EXCEPT ![c] = Idle]
          /\ UNCHANGED systemState
        BY <1>4 DEF FinishCall
    <2> HIDE DEF cost
    <2>3. QED BY <2>1, <2>2
<1>5. ASSUME NEW c \in Callers, FailCall(c)
      PROVE  /\ call' \in [Callers -> [model : Models, operating : Int, est : Nat] \cup {Idle}]
             /\ UNCHANGED <<systemState, billed, refused>>
    BY <1>5 DEF FailCall
<1>6. ASSUME NEW state \in {"normal", "hard_stop"}, SetSystemState(state)
      PROVE  /\ systemState' \in {"normal", "hard_stop"}
             /\ UNCHANGED <<call, billed, refused>>
    BY <1>6 DEF SetSystemState
<1>7. ASSUME NEW s \in Sessions, LedgerStep(s) PROVE UNCHANGED llmVars
    BY <1>7 DEF LedgerStep
<1>8. CASE UNCHANGED allVars
    BY <1>8 DEF allVars, llmVars
<1>9. QED BY <1>3, <1>4, <1>5, <1>6, <1>7, <1>8 DEF LLMNext, llmVars

LEMMA AlwaysClientTyped == LLMSpec => []ClientTyped
<1>1. LLMInit => ClientTyped
    BY TypedInit DEF LLMInit, ClientTyped, LLMTypeOK, Typed
<1>2. QED BY <1>1, ClientTypedStep, PTL DEF LLMSpec
\* The calls, what was charged and what was refused keep their types, whatever the tokens
\* of a request and of an answer (LLMClient.LLMTypeOK).
THEOREM ClientTypeCorrect == LLMSpec => []LLMTypeOK
<1>1. ClientTyped => LLMTypeOK
    BY DEF ClientTyped
<1>2. QED BY <1>1, AlwaysClientTyped, PTL

LEMMA CallsCoveredStep == ClientTyped /\ CallsCovered /\ [LLMNext]_allVars => CallsCovered'
<1> SUFFICES ASSUME ClientTyped, CallsCovered, [LLMNext]_allVars,
                    NEW d \in Callers, call'[d] # Idle
             PROVE  call'[d].operating - call'[d].est >= Floor
    BY DEF CallsCovered
<1>1. call[d] # Idle => call[d].operating - call[d].est >= Floor
    BY DEF CallsCovered
<1>2. call \in [Callers -> [model : Models, operating : Int, est : Nat] \cup {Idle}]
    BY DEF ClientTyped, LLMTypeOK
<1>3. ASSUME NEW c \in Callers, NEW req \in Requests, NEW budget \in Budgets,
              StartCall(c, req, budget)
      PROVE  call'[d].operating - call'[d].est >= Floor
    <2> DEFINE operating == OperatingOf(budget)
               model == Route(req.agent, req.task, operating)
               est == EstimateCost(model, req.tokensIn, req.maxTokens)
    <2>1. /\ call' = [call EXCEPT ![c] = [model |-> model, operating |-> operating, est |-> est]]
          /\ operating - est >= Floor
        BY <1>3 DEF StartCall, WithinBudget
    <2> HIDE DEF operating, model, est
    <2>2. QED BY <1>1, <1>2, <2>1
<1>4. ASSUME NEW c \in Callers, call' = [call EXCEPT ![c] = Idle]
      PROVE  call'[d].operating - call'[d].est >= Floor
    BY <1>1, <1>2, <1>4
<1>5. CASE UNCHANGED call
    BY <1>1, <1>5
<1>6. CASE UNCHANGED allVars
    BY <1>5, <1>6 DEF allVars, llmVars
<1>7. QED BY <1>3, <1>4, <1>5, <1>6
          DEF LLMNext, FinishCall, FailCall, SetSystemState, LedgerStep, llmVars

\* The ledger refuses the cost of an answered call only if the pot is below the balance
\* the call went by, its own read or its BudgetState's, or the call cost more than was
\* estimated, or the cost has too many decimals: any callers, sessions, budgets and tokens
\* (LLMClient.RefusalsExplained).
THEOREM RefusalsAreExplained == LLMSpec => RefusalsExplained
<1> DEFINE Explained(c) ==
               \/ View(ClientSession)["operating"] < call[c].operating
               \/ refused' - refused > call[c].est
               \/ ~Representable(refused' - refused)
           A == \A c \in Callers :
                    LET cost == refused' - refused
                    IN  cost > 0 /\ call[c] # Idle /\ call'[c] = Idle =>
                            \/ View(ClientSession)["operating"] < call[c].operating
                            \/ cost > call[c].est
                            \/ ~Representable(cost)
<1>1. ClientTyped /\ CallsCovered /\ [LLMNext]_allVars => [A]_allVars
    <2> SUFFICES ASSUME ClientTyped, CallsCovered, LLMNext, NEW c \in Callers,
                        refused' - refused > 0, call[c] # Idle, call'[c] = Idle
                 PROVE  Explained(c)
        OBVIOUS
    <2>1. /\ call \in [Callers -> [model : Models, operating : Int, est : Nat] \cup {Idle}]
          /\ refused \in Nat
        BY DEF ClientTyped, LLMTypeOK
    <2>2. refused' # refused
        BY <2>1
    <2>3. PICK d \in Callers, answer \in Answers : FinishCall(d, answer)
        BY <2>2 DEF LLMNext, StartCall, FailCall, SetSystemState, LedgerStep, llmVars
    <2>4. d = c
        BY <2>1, <2>3 DEF FinishCall
    <2> DEFINE cost == EstimateCost(call[c].model, answer.tokensIn, answer.tokensOut)
    <2>5. cost \in Nat
        BY SuspendedCall, CostNat, ClientAssumption DEF ClientTyped
    <2>6. /\ refused' = refused + cost
          /\ ~Recordable(ClientSession, "operating", -cost, "other")
        BY <2>2, <2>3, <2>4 DEF FinishCall
    <2> HIDE DEF cost
    <2>7. refused' - refused = cost /\ cost > 0
        BY <2>1, <2>5, <2>6
    <2>8. CASE ~DebitAllowed(View(ClientSession), "operating", -cost, "other")
        <3>1. ~(View(ClientSession)["operating"] + (-cost) >= Floor)
            BY <2>8 DEF DebitAllowed
        <3>2. View(ClientSession)["operating"] \in Int
            <4>1. ClientSession \in Sessions
                BY ClientAssumption, SessionsAssumption
            <4>2. QED BY <4>1, ViewTyped, LedgerSub DEF ClientTyped, Pots
        <3>3. /\ call[c].operating \in Int /\ call[c].est \in Nat
              /\ call[c].operating - call[c].est >= Floor
            BY SuspendedCall DEF ClientTyped, CallsCovered
        <3>4. QED BY <2>5, <2>7, <3>1, <3>2, <3>3, FloorAssumption
    <2>9. CASE ~Representable(-cost)
        <3>1. ASSUME Representable(cost) PROVE FALSE
            <4>1. cost \in Ledger /\ 0 \in Ledger
                BY <2>5, <3>1, LedgerIffRepresentable, ZeroInLedger DEF Representable
            <4>2. 0 - cost \in Ledger /\ 0 - cost = -cost /\ -cost \in Int
                BY <2>5, <4>1, LedgerClosed
            <4>3. QED BY <2>9, <4>2, LedgerIffRepresentable DEF Representable
        <3>2. QED BY <2>7, <3>1
    <2>10. -cost # 0
        BY <2>5, <2>7
    <2>11. QED BY <2>6, <2>8, <2>9, <2>10 DEF Recordable
<1>2. LLMInit => CallsCovered
    BY DEF LLMInit, CallsCovered
<1>3. QED BY <1>1, <1>2, AlwaysClientTyped, CallsCoveredStep, PTL DEF LLMSpec, RefusalsExplained

\* The costs of the client's calls, debited long after they were checked, leave the floor
\* where it is as well, as long as all calls debit through one session
\* (Cashflow.OperatingFloorHeld, of the client's specification).
THEOREM FloorHeldWithClient ==
    ASSUME SingleWriter PROVE LLMSpec => OperatingFloorHeld
<1> DEFINE Held == committed'["operating"] < committed["operating"]
                       => committed'["operating"] >= Floor
<1>1. LLMInit => FloorInv
    BY FloorInvInit DEF LLMInit
<1>2. ClientTyped /\ FloorInv /\ [LLMNext]_allVars => FloorInv'
    BY ClientMoves, FloorInvStep DEF ClientTyped
<1>3. ClientTyped /\ FloorInv /\ [LLMNext]_allVars => [Held]_ledgerVars
    BY ClientMoves, FloorStep DEF ClientTyped
<1>4. QED BY <1>1, <1>2, <1>3, AlwaysClientTyped, PTL DEF LLMSpec, OperatingFloorHeld

\* The client's debits, booked or refused, lose no money of the ledger
\* (Cashflow.LedgerBalanced, of the client's specification).
THEOREM MoneyConservedWithClient == LLMSpec => []LedgerBalanced
<1>1. LLMInit => AllBalanced
    BY NoRowsIsEmpty DEF LLMInit, Init, AllBalanced
<1>2. ClientTyped /\ AllBalanced /\ [LLMNext]_allVars => AllBalanced'
    BY ClientMoves, AllBalancedStep DEF ClientTyped
<1>3. AllBalanced => LedgerBalanced
    BY DEF AllBalanced, LedgerBalanced
<1>4. QED BY <1>1, <1>2, <1>3, AlwaysClientTyped, PTL DEF LLMSpec

\* Nor does the client ever pay a provider out of Reserve
\* (Cashflow.ReserveInviolate, of the client's specification).
THEOREM ReserveKeptWithClient == LLMSpec => ReserveInviolate
<1>1. ClientTyped /\ [LLMNext]_allVars => [ReserveKept]_ledgerVars
    BY ClientMoves, ReserveStep DEF ClientTyped
<1>2. QED BY <1>1, AlwaysClientTyped, PTL DEF LLMSpec, ReserveInviolate, ReserveKept

-------------------------------------------------------------------------------
(* A client that makes one call at a time. *)

(***************************************************************************)
(* RefusalsExplained leaves the ledger three reasons to refuse the cost of *)
(* an answered call.  The first, a pot below the balance the call went by, *)
(* takes either a pot that shrank meanwhile, which two calls in flight are *)
(* enough for, or a BudgetState whose pot was stale to begin with.  Where  *)
(* no call passes a BudgetState and calls follow one another, in a session *)
(* no other task uses and beside no other session of the Mother, the       *)
(* balance was read from the ledger and the pot never shrinks during a     *)
(* call.                                                                   *)
(***************************************************************************)
OneCallAtATime ==
    /\ SingleWriter
    /\ ~SessionShared
    /\ Budgets \subseteq {NoBudget}
    /\ \A c, d \in Callers : c = d

PotStands ==
    \A c \in Callers : call[c] # Idle => View(ClientSession)["operating"] >= call[c].operating

LEMMA OperatingView ==
    ASSUME Typed
    PROVE  /\ View(ClientSession)["operating"]
                  = committed["operating"] + pending[ClientSession]["operating"]
           /\ View(ClientSession)["operating"] \in Int
           /\ \A s \in Sessions : pending[s]["operating"] \in Int
           /\ committed["operating"] \in Int
<1>1. ClientSession \in Sessions
    BY ClientAssumption, SessionsAssumption
<1>2. \A s \in Sessions : pending[s]["operating"] \in Int
    BY DEF Typed, TypeOK, Pots
<1>3. committed["operating"] \in Int
    BY DEF Typed, TypeOK, Pots
<1>4. View(ClientSession)["operating"]
          = committed["operating"] + pending[ClientSession]["operating"]
    BY DEF View, Plus, Pots
<1>5. QED BY <1>1, <1>2, <1>3, <1>4

\* The seed script commits money while a call is under way, and takes none.
LEMMA OtherSessionsTopUp ==
    ASSUME SingleWriter, Typed, FloorInv, NEW s \in Sessions, s # ClientSession, LedgerStep(s)
    PROVE  View(ClientSession)'["operating"] >= View(ClientSession)["operating"]
<1>1. ClientSession \in Sessions /\ s \notin Writers
    BY ClientAssumption, SessionsAssumption DEF SingleWriter
<1>2. /\ \A t \in Sessions : pending[t]["operating"] \in Int
      /\ committed["operating"] \in Int
    BY OperatingView
<1>3. pending[s]["operating"] >= 0
    BY <1>1 DEF FloorInv, SeedOnlyTopsUp
<1>4. SUFFICES /\ pending'[ClientSession] = pending[ClientSession]
               /\ committed'["operating"] \in Int
               /\ committed'["operating"] >= committed["operating"]
    <2>1. /\ View(ClientSession)'["operating"]
                = committed'["operating"] + pending'[ClientSession]["operating"]
          /\ View(ClientSession)["operating"]
                = committed["operating"] + pending[ClientSession]["operating"]
        BY DEF View, Plus, Pots
    <2>2. QED BY <1>1, <1>2, <2>1
<1>5. CASE \E a \in Amounts : Credit(s, "operating", a) \/ Debit(s, "operating", a)
    BY <1>1, <1>2, <1>5 DEF Credit, Debit, Flush, Typed, TypeOK
<1>6. CASE Commit(s)
    <2>1. committed'["operating"] = committed["operating"] + pending[s]["operating"]
        BY <1>6 DEF Commit, View, Plus, Pots
    <2>2. pending'[ClientSession] = pending[ClientSession]
        BY <1>1, <1>6 DEF Commit, Typed, TypeOK
    <2>3. QED BY <1>2, <1>3, <2>1, <2>2
<1>7. CASE Rollback(s)
    BY <1>1, <1>2, <1>7 DEF Rollback, Typed, TypeOK
<1>8. QED BY <1>5, <1>6, <1>7 DEF LedgerStep

LEMMA PotStandsStep ==
    ASSUME OneCallAtATime
    PROVE  ClientTyped /\ FloorInv /\ PotStands /\ [LLMNext]_allVars => PotStands'
<1> SUFFICES ASSUME ClientTyped, FloorInv, PotStands, [LLMNext]_allVars,
                    NEW d \in Callers, call'[d] # Idle
             PROVE  View(ClientSession)'["operating"] >= call'[d].operating
    BY DEF PotStands
<1>1. call \in [Callers -> [model : Models, operating : Int, est : Nat] \cup {Idle}]
    BY DEF ClientTyped, LLMTypeOK
<1>2. View(ClientSession)["operating"] \in Int
    BY OperatingView DEF ClientTyped
<1>3. call[d] # Idle => /\ call[d].operating \in Int
                        /\ View(ClientSession)["operating"] >= call[d].operating
    BY SuspendedCall DEF PotStands, ClientTyped
<1>4. ASSUME NEW c \in Callers, NEW req \in Requests, NEW budget \in Budgets,
              StartCall(c, req, budget)
      PROVE  View(ClientSession)'["operating"] >= call'[d].operating
    <2> DEFINE operating == OperatingOf(budget)
               model == Route(req.agent, req.task, operating)
               est == EstimateCost(model, req.tokensIn, req.maxTokens)
    <2>1. /\ call' = [call EXCEPT ![c] = [model |-> model, operating |-> operating, est |-> est]]
          /\ committed' = committed /\ pending' = pending
        BY <1>4 DEF StartCall, ledgerVars
    <2>2. View(ClientSession)'["operating"] = operating
        <3>1. budget = NoBudget
            BY DEF OneCallAtATime
        <3>2. QED BY <2>1, <3>1 DEF View, OperatingOf
    <2>3. c = d
        BY DEF OneCallAtATime
    <2> HIDE DEF operating, model, est
    <2>4. call'[d].operating = operating
        BY <1>1, <2>1, <2>3
    <2>5. operating \in Int
        <3>1. View(ClientSession)' = View(ClientSession)
            BY <2>1 DEF View
        <3>2. QED BY <1>2, <2>2, <3>1
    <2>6. QED BY <2>2, <2>4, <2>5
<1>5. ASSUME NEW c \in Callers, call' = [call EXCEPT ![c] = Idle]
      PROVE  FALSE
    <2>1. c = d
        BY DEF OneCallAtATime
    <2>2. QED BY <1>1, <1>5, <2>1
<1>6. ASSUME UNCHANGED <<ledgerVars, call>>
      PROVE  View(ClientSession)'["operating"] >= call'[d].operating
    <2>1. View(ClientSession)' = View(ClientSession)
        BY <1>6 DEF View, ledgerVars
    <2>2. QED BY <1>3, <1>6, <2>1
<1>7. ASSUME NEW s \in Sessions, LedgerStep(s)
      PROVE  View(ClientSession)'["operating"] >= call'[d].operating
    <2>1. call' = call
        BY <1>7 DEF LedgerStep, llmVars
    <2>2. s # ClientSession
        BY <1>7, <2>1 DEF LedgerStep, OneCallAtATime
    <2>3. View(ClientSession)'["operating"] >= View(ClientSession)["operating"]
        BY <1>7, <2>2, OtherSessionsTopUp DEF OneCallAtATime, ClientTyped
    <2>4. View(ClientSession)'["operating"] \in Int
        <3>1. Typed'
            BY ClientTypedStep DEF ClientTyped
        <3>2. ClientSession \in Sessions
            BY ClientAssumption, SessionsAssumption
        <3>3. QED BY <3>1, <3>2 DEF Typed, TypeOK, View, Plus, Pots
    <2>5. QED BY <1>2, <1>3, <2>1, <2>3, <2>4
<1>8. CASE UNCHANGED allVars
    BY <1>6, <1>8 DEF allVars, llmVars
<1>9. QED BY <1>4, <1>5, <1>6, <1>7, <1>8
          DEF LLMNext, FinishCall, FailCall, SetSystemState

LEMMA AlwaysPotStands ==
    ASSUME OneCallAtATime PROVE LLMSpec => [](ClientTyped /\ FloorInv /\ PotStands)
<1>1. LLMInit => FloorInv /\ PotStands
    BY FloorInvInit DEF LLMInit, PotStands
<1>2. ClientTyped /\ FloorInv /\ [LLMNext]_allVars => FloorInv'
    BY ClientMoves, FloorInvStep DEF ClientTyped, OneCallAtATime
<1>3. QED BY <1>1, <1>2, PotStandsStep, AlwaysClientTyped, PTL DEF LLMSpec

\* Of calls made one at a time without a BudgetState, so that each reads the ledger, a
\* cost is refused only if it exceeds the estimate or has too many decimals: what was
\* checked before the await still holds after it (llm_client.py:71-97;
\* LLMClient.RefusalsExplained without its first reason).
THEOREM OneCallRefusals ==
    ASSUME OneCallAtATime
    PROVE  LLMSpec => [][\A c \in Callers :
                            LET cost == refused' - refused
                            IN  cost > 0 /\ call[c] # Idle /\ call'[c] = Idle =>
                                    cost > call[c].est \/ ~Representable(cost)]_allVars
<1> DEFINE A == \A c \in Callers :
                    LET cost == refused' - refused
                    IN  cost > 0 /\ call[c] # Idle /\ call'[c] = Idle =>
                            \/ View(ClientSession)["operating"] < call[c].operating
                            \/ cost > call[c].est
                            \/ ~Representable(cost)
           B == \A c \in Callers :
                    LET cost == refused' - refused
                    IN  cost > 0 /\ call[c] # Idle /\ call'[c] = Idle =>
                            cost > call[c].est \/ ~Representable(cost)
<1>1. ClientTyped /\ PotStands /\ [A]_allVars => [B]_allVars
    <2> SUFFICES ASSUME ClientTyped, PotStands, A, NEW c \in Callers,
                        refused' - refused > 0, call[c] # Idle, call'[c] = Idle
                 PROVE  refused' - refused > call[c].est \/ ~Representable(refused' - refused)
        OBVIOUS
    <2>1. /\ View(ClientSession)["operating"] \in Int /\ call[c].operating \in Int
          /\ View(ClientSession)["operating"] >= call[c].operating
        BY OperatingView, SuspendedCall DEF ClientTyped, PotStands
    <2>2. \/ View(ClientSession)["operating"] < call[c].operating
          \/ refused' - refused > call[c].est
          \/ ~Representable(refused' - refused)
        OBVIOUS
    <2>3. QED BY <2>1, <2>2
<1>2. LLMSpec => [][A]_allVars
    BY RefusalsAreExplained DEF RefusalsExplained
<1>3. QED BY <1>1, <1>2, AlwaysPotStands, PTL
================================================================================
