---------------------------- MODULE InflowSplitProofs ---------------------------
(***************************************************************************)
(* Proofs about the split: what it computes, for every amount, balance,    *)
(* cap and Scale, and that the properties TLC checks on the sweep of       *)
(* MCInflowSplit hold for a sweep over any balances and rooms, to any end. *)
(***************************************************************************)
EXTENDS MCInflowSplit, TLAPS

\* The amounts a ledger row can hold.
Ledger == {x \in Int : \E k \in Int : x = Scale * k}

\* Decimal division of an integer by a positive one.
LEMMA DivMod ==
    ASSUME NEW n \in Int, NEW d \in Nat \ {0}
    PROVE  /\ (n \div d) \in Int
           /\ (n % d) \in 0 .. (d - 1)
           /\ n = d * (n \div d) + (n % d)
OBVIOUS

\* A multiple divides without remainder.
LEMMA DivMultiple ==
    ASSUME NEW k \in Int, NEW d \in Nat \ {0}
    PROVE  (d * k) \div d = k /\ (d * k) % d = 0
OBVIOUS

\* The amounts the CashflowEntry validator accepts are those a row can hold.
LEMMA LedgerIffRepresentable ==
    ASSUME NEW x \in Int
    PROVE  x \in Ledger <=> x % Scale = 0
<1>1. ASSUME x % Scale = 0 PROVE x \in Ledger
    <2>1. (x \div Scale) \in Int /\ x = Scale * (x \div Scale) + (x % Scale)
        BY ScaleAssumption, DivMod
    <2>2. x = Scale * (x \div Scale)
        BY <1>1, <2>1, ScaleAssumption
    <2>3. QED BY <2>1, <2>2 DEF Ledger
<1>2. ASSUME x \in Ledger PROVE x % Scale = 0
    BY <1>2, ScaleAssumption, DivMultiple DEF Ledger
<1>3. QED BY <1>1, <1>2

\* Sums and differences of ledger amounts are ledger amounts.
LEMMA LedgerClosed ==
    ASSUME NEW x \in Ledger, NEW y \in Ledger
    PROVE  x + y \in Ledger /\ x - y \in Ledger
<1>1. PICK j \in Int : x = Scale * j
    BY DEF Ledger
<1>2. PICK k \in Int : y = Scale * k
    BY DEF Ledger
<1>3. x + y = Scale * (j + k) /\ x - y = Scale * (j - k)
    BY <1>1, <1>2, ScaleAssumption
<1>4. x + y \in Int /\ x - y \in Int /\ j + k \in Int /\ j - k \in Int
    BY <1>1, <1>2, ScaleAssumption
<1>5. QED BY <1>3, <1>4 DEF Ledger

LEMMA ZeroInLedger == 0 \in Ledger
<1>1. 0 = Scale * 0
    BY ScaleAssumption
<1>2. QED BY <1>1 DEF Ledger

\* Rounding half to even is off by at most half a unit.
LEMMA RoundHalfEvenNearest ==
    ASSUME NEW n \in Int, NEW d \in Nat \ {0}
    PROVE  /\ RoundHalfEven(n, d) \in Int
           /\ 2 * (d * RoundHalfEven(n, d)) <= 2 * n + d
           /\ 2 * (d * RoundHalfEven(n, d)) >= 2 * n - d
<1>1. /\ (n \div d) \in Int
      /\ (n % d) \in 0 .. (d - 1)
      /\ n = d * (n \div d) + (n % d)
    BY DivMod
<1>2. QED BY <1>1 DEF RoundHalfEven

\* quantize() returns a ledger amount within half a quantum of n/d.
LEMMA QuantizeNearest ==
    ASSUME NEW n \in Int, NEW d \in Nat \ {0}
    PROVE  /\ Quantize(n, d) \in Ledger
           /\ 2 * (d * Quantize(n, d)) <= 2 * n + d * Scale
           /\ 2 * (d * Quantize(n, d)) >= 2 * n - d * Scale
<1> DEFINE r == RoundHalfEven(n, d * Scale)
<1>1. d * Scale \in Nat \ {0}
    BY ScaleAssumption
<1>2. /\ r \in Int
      /\ 2 * ((d * Scale) * r) <= 2 * n + d * Scale
      /\ 2 * ((d * Scale) * r) >= 2 * n - d * Scale
    BY <1>1, RoundHalfEvenNearest
<1> HIDE DEF r
<1>3. Scale * r \in Ledger
    BY <1>2, ScaleAssumption DEF Ledger
<1>4. (d * Scale) * r = d * (Scale * r)
    BY <1>2, ScaleAssumption
<1>5. Quantize(n, d) = Scale * r
    BY DEF Quantize, r
<1>6. QED BY <1>2, <1>3, <1>4, <1>5

\* quantize() changes no amount that is already a ledger amount.
LEMMA QuantizeOfLedger ==
    ASSUME NEW x \in Ledger
    PROVE  Quantize(x, 1) = x
<1>1. PICK k \in Int : x = Scale * k
    BY DEF Ledger
<1>2. (x \div Scale) = k /\ (x % Scale) = 0
    BY <1>1, ScaleAssumption, DivMultiple
<1>3. RoundHalfEven(x, Scale) = k
    BY <1>2, ScaleAssumption DEF RoundHalfEven
<1>4. 1 * Scale = Scale
    BY ScaleAssumption
<1>5. QED BY <1>1, <1>3, <1>4 DEF Quantize

Caps == Ledger \cup {NoCap}

\* A share gives up a ledger amount; nothing while the pot has room for it, and
\* exactly what does not fit otherwise.
LEMMA OverflowFits ==
    ASSUME NEW current \in Ledger, NEW share \in Ledger, NEW cap \in Caps
    PROVE  /\ Overflow(current, share, cap) \in Ledger
           /\ Overflow(current, share, cap) >= 0
           /\ cap # NoCap => current + share - Overflow(current, share, cap) <= cap
           /\ ~(cap # NoCap /\ current > cap) /\ share >= 0
                  => Overflow(current, share, cap) <= share
<1>1. CASE cap # NoCap /\ current + share > cap
    <2>1. cap \in Ledger
        BY <1>1 DEF Caps
    <2>2. current + share \in Ledger
        BY LedgerClosed
    <2>3. current + share - cap \in Ledger
        BY <2>1, <2>2, LedgerClosed
    <2>4. current \in Int /\ share \in Int /\ cap \in Int
        BY <2>1 DEF Ledger
    <2>5. Overflow(current, share, cap) = current + share - cap
        BY <1>1 DEF Overflow
    <2>6. QED BY <1>1, <2>3, <2>4, <2>5
<1>2. CASE ~(cap # NoCap /\ current + share > cap)
    <2>1. Overflow(current, share, cap) = 0
        BY <1>2 DEF Overflow
    <2>2. current \in Int /\ share \in Int /\ cap # NoCap => cap \in Int
        BY DEF Ledger, Caps
    <2>3. QED BY <1>2, <2>1, <2>2, ZeroInLedger DEF Ledger
<1>3. QED BY <1>1, <1>2

(***************************************************************************)
(* The split of a positive ledger amount.                                  *)
(***************************************************************************)
SplitInputs(amount, snapshot, reserveCap, growthCap) ==
    /\ amount \in Ledger /\ amount > 0
    /\ snapshot["reserve"] \in Ledger /\ snapshot["growth"] \in Ledger
    /\ reserveCap \in Caps /\ growthCap \in Caps

\* The two shares before overflow: ledger amounts, not negative, and together
\* smaller than the inflow.
LEMMA SharesBelowAmount ==
    ASSUME NEW amount \in Ledger, amount > 0
    PROVE  LET reserve == Quantize(amount * ReserveSplit, 100)
               growth == Quantize(amount * GrowthSplit, 100)
           IN  /\ reserve \in Ledger /\ reserve >= 0
               /\ growth \in Ledger /\ growth >= 0
               /\ amount - reserve - growth > 0
<1> DEFINE reserve == Quantize(amount * ReserveSplit, 100)
           growth == Quantize(amount * GrowthSplit, 100)
<1>1. PICK k \in Int : amount = Scale * k
    BY DEF Ledger
<1>2. k >= 1
    BY <1>1, ScaleAssumption
<1>3. amount \in Int /\ amount * ReserveSplit \in Int /\ amount * GrowthSplit \in Int
    BY DEF Ledger, ReserveSplit, GrowthSplit
<1>4. /\ reserve \in Ledger
      /\ 2 * (100 * reserve) <= 2 * (amount * ReserveSplit) + 100 * Scale
      /\ 2 * (100 * reserve) >= 2 * (amount * ReserveSplit) - 100 * Scale
    BY <1>3, QuantizeNearest
<1>5. /\ growth \in Ledger
      /\ 2 * (100 * growth) <= 2 * (amount * GrowthSplit) + 100 * Scale
      /\ 2 * (100 * growth) >= 2 * (amount * GrowthSplit) - 100 * Scale
    BY <1>3, QuantizeNearest
<1> HIDE DEF reserve, growth
<1>6. PICK i \in Int : reserve = Scale * i
    BY <1>4 DEF Ledger
<1>7. PICK j \in Int : growth = Scale * j
    BY <1>5 DEF Ledger
<1>8. 200 * i <= 50 * k + 100 /\ 200 * i >= 50 * k - 100
    <2>1. 2 * (100 * reserve) = Scale * (200 * i)
        BY <1>6, ScaleAssumption
    <2>2. 2 * (amount * ReserveSplit) + 100 * Scale = Scale * (50 * k + 100)
        BY <1>1, ScaleAssumption DEF ReserveSplit
    <2>3. 2 * (amount * ReserveSplit) - 100 * Scale = Scale * (50 * k - 100)
        BY <1>1, ScaleAssumption DEF ReserveSplit
    <2>4. QED BY <1>4, <2>1, <2>2, <2>3, ScaleAssumption
<1>9. 200 * j <= 30 * k + 100 /\ 200 * j >= 30 * k - 100
    <2>1. 2 * (100 * growth) = Scale * (200 * j)
        BY <1>7, ScaleAssumption
    <2>2. 2 * (amount * GrowthSplit) + 100 * Scale = Scale * (30 * k + 100)
        BY <1>1, ScaleAssumption DEF GrowthSplit
    <2>3. 2 * (amount * GrowthSplit) - 100 * Scale = Scale * (30 * k - 100)
        BY <1>1, ScaleAssumption DEF GrowthSplit
    <2>4. QED BY <1>5, <2>1, <2>2, <2>3, ScaleAssumption
<1>10. i >= 0 /\ j >= 0 /\ k - i - j > 0
    BY <1>2, <1>8, <1>9
<1>11. amount - reserve - growth = Scale * (k - i - j)
    BY <1>1, <1>6, <1>7, ScaleAssumption
<1>12. reserve >= 0 /\ growth >= 0 /\ amount - reserve - growth > 0
    BY <1>6, <1>7, <1>10, <1>11, ScaleAssumption
<1>13. QED BY <1>4, <1>5, <1>12 DEF reserve, growth

\* The split in terms of the shares before overflow: every quantization after the
\* first is of a ledger amount, so it changes nothing.
LEMMA SplitShares ==
    ASSUME NEW amount, NEW snapshot, NEW reserveCap, NEW growthCap,
           SplitInputs(amount, snapshot, reserveCap, growthCap)
    PROVE  LET split == SplitInflow(amount, snapshot, reserveCap, growthCap)
               reserve == Quantize(amount * ReserveSplit, 100)
               growth == Quantize(amount * GrowthSplit, 100)
               reserveOver == Overflow(snapshot["reserve"], reserve, reserveCap)
               growthOver == Overflow(snapshot["growth"], growth, growthCap)
           IN  /\ split.operating = amount - reserve - growth + reserveOver + growthOver
               /\ split.reserve = reserve - reserveOver
               /\ split.growth = growth - growthOver
               /\ split.operating \in Ledger
               /\ split.reserve \in Ledger
               /\ split.growth \in Ledger
<1> DEFINE split == SplitInflow(amount, snapshot, reserveCap, growthCap)
           reserve == Quantize(amount * ReserveSplit, 100)
           growth == Quantize(amount * GrowthSplit, 100)
           reserveOver == Overflow(snapshot["reserve"], reserve, reserveCap)
           growthOver == Overflow(snapshot["growth"], growth, growthCap)
<1>1. amount \in Ledger /\ reserve \in Ledger /\ growth \in Ledger
    BY SharesBelowAmount DEF SplitInputs
<1> HIDE DEF reserve, growth
<1>2. reserveOver \in Ledger /\ growthOver \in Ledger
    BY <1>1, OverflowFits DEF SplitInputs
<1>3. /\ split.operating = Quantize(amount - reserve - growth + reserveOver + growthOver, 1)
      /\ split.reserve = Quantize(reserve - reserveOver, 1)
      /\ split.growth = Quantize(growth - growthOver, 1)
    BY DEF SplitInflow, reserve, growth
<1> HIDE DEF split, reserve, growth, reserveOver, growthOver
<1>4. /\ amount - reserve - growth + reserveOver + growthOver \in Ledger
      /\ reserve - reserveOver \in Ledger
      /\ growth - growthOver \in Ledger
    <2>1. amount - reserve \in Ledger
        BY <1>1, LedgerClosed
    <2>2. amount - reserve - growth \in Ledger
        BY <1>1, <2>1, LedgerClosed
    <2>3. amount - reserve - growth + reserveOver \in Ledger
        BY <1>2, <2>2, LedgerClosed
    <2>4. QED BY <1>1, <1>2, <2>3, LedgerClosed
<1>5. QED
    BY <1>3, <1>4, QuantizeOfLedger DEF split, reserve, growth, reserveOver, growthOver

\* The rows of a split are ledger amounts, none negative, Operating's positive:
\* no inflow makes credit() raise halfway (ledger.py:187-189).
THEOREM EntriesRecordable ==
    ASSUME NEW amount, NEW snapshot, NEW reserveCap, NEW growthCap,
           SplitInputs(amount, snapshot, reserveCap, growthCap)
    PROVE  LET split == SplitInflow(amount, snapshot, reserveCap, growthCap)
               entries == EntriesOf(split)
           IN  /\ entries \in [Pots -> Ledger]
               /\ entries["operating"] > 0
               /\ entries["reserve"] >= 0 /\ entries["growth"] >= 0
<1> DEFINE split == SplitInflow(amount, snapshot, reserveCap, growthCap)
           reserve == Quantize(amount * ReserveSplit, 100)
           growth == Quantize(amount * GrowthSplit, 100)
           reserveOver == Overflow(snapshot["reserve"], reserve, reserveCap)
           growthOver == Overflow(snapshot["growth"], growth, growthCap)
<1>1. /\ split.operating = amount - reserve - growth + reserveOver + growthOver
      /\ split.operating \in Ledger /\ split.reserve \in Ledger /\ split.growth \in Ledger
    BY SplitShares
<1>2. /\ reserve \in Ledger /\ growth \in Ledger
      /\ amount - reserve - growth > 0
    BY SharesBelowAmount DEF SplitInputs
<1> HIDE DEF reserve, growth
<1>3. reserveOver \in Ledger /\ reserveOver >= 0 /\ growthOver \in Ledger /\ growthOver >= 0
    BY <1>2, OverflowFits DEF SplitInputs
<1>4. /\ amount \in Int /\ reserve \in Int /\ growth \in Int
      /\ reserveOver \in Int /\ growthOver \in Int
    BY <1>2, <1>3 DEF SplitInputs, Ledger
<1> HIDE DEF split, reserve, growth, reserveOver, growthOver
<1>5. split.operating > 0
    BY <1>1, <1>2, <1>3, <1>4
<1>6. \A x \in Ledger : x \in Int
    BY DEF Ledger
<1>7. EntriesOf(split) \in [Pots -> Ledger]
    BY <1>1, ZeroInLedger DEF EntriesOf, Pots
<1>8. EntriesOf(split)["operating"] = split.operating
    BY DEF EntriesOf, Pots
<1>9. EntriesOf(split)["reserve"] >= 0 /\ EntriesOf(split)["growth"] >= 0
    BY <1>1, <1>6 DEF EntriesOf, Pots
<1>10. QED BY <1>5, <1>7, <1>8, <1>9 DEF split

\* A pot of snapshot may take an inflow: it is not above its cap.
Within(snapshot, pot, cap) == ~(cap # NoCap /\ snapshot[pot] > cap)

\* Conservation: while no pot is above its cap, the rows of a split add up to the
\* inflow, and no row lifts its pot above the cap (ledger.py:69-84).
THEOREM SplitConservesMoney ==
    ASSUME NEW amount, NEW snapshot, NEW reserveCap, NEW growthCap,
           SplitInputs(amount, snapshot, reserveCap, growthCap),
           Within(snapshot, "reserve", reserveCap),
           Within(snapshot, "growth", growthCap)
    PROVE  LET entries == EntriesOf(SplitInflow(amount, snapshot, reserveCap, growthCap))
           IN  /\ TotalOf(entries) = amount
               /\ reserveCap # NoCap => snapshot["reserve"] + entries["reserve"] <= reserveCap
               /\ growthCap # NoCap => snapshot["growth"] + entries["growth"] <= growthCap
<1> DEFINE split == SplitInflow(amount, snapshot, reserveCap, growthCap)
           reserve == Quantize(amount * ReserveSplit, 100)
           growth == Quantize(amount * GrowthSplit, 100)
           reserveOver == Overflow(snapshot["reserve"], reserve, reserveCap)
           growthOver == Overflow(snapshot["growth"], growth, growthCap)
<1>1. /\ split.operating = amount - reserve - growth + reserveOver + growthOver
      /\ split.reserve = reserve - reserveOver
      /\ split.growth = growth - growthOver
    BY SplitShares
<1>2. reserve \in Ledger /\ reserve >= 0 /\ growth \in Ledger /\ growth >= 0
    BY SharesBelowAmount DEF SplitInputs
<1> HIDE DEF reserve, growth
<1>3. /\ reserveOver \in Ledger /\ reserveOver <= reserve
      /\ reserveCap # NoCap => snapshot["reserve"] + reserve - reserveOver <= reserveCap
    <2>1. snapshot["reserve"] \in Ledger /\ reserveCap \in Caps
        BY DEF SplitInputs
    <2> DEFINE current == snapshot["reserve"]
    <2> HIDE DEF current
    <2>2. /\ Overflow(current, reserve, reserveCap) \in Ledger
          /\ reserveCap # NoCap => current + reserve - Overflow(current, reserve, reserveCap) <= reserveCap
          /\ ~(reserveCap # NoCap /\ current > reserveCap) /\ reserve >= 0
                 => Overflow(current, reserve, reserveCap) <= reserve
        <3>1. current \in Ledger
            BY <2>1 DEF current
        <3>2. QED BY <1>2, <2>1, <3>1, OverflowFits
    <2>3. QED BY <1>2, <2>2 DEF Within, current
<1>4. /\ growthOver \in Ledger /\ growthOver <= growth
      /\ growthCap # NoCap => snapshot["growth"] + growth - growthOver <= growthCap
    <2>1. snapshot["growth"] \in Ledger /\ growthCap \in Caps
        BY DEF SplitInputs
    <2> DEFINE current == snapshot["growth"]
    <2> HIDE DEF current
    <2>2. /\ Overflow(current, growth, growthCap) \in Ledger
          /\ growthCap # NoCap => current + growth - Overflow(current, growth, growthCap) <= growthCap
          /\ ~(growthCap # NoCap /\ current > growthCap) /\ growth >= 0
                 => Overflow(current, growth, growthCap) <= growth
        <3>1. current \in Ledger
            BY <2>1 DEF current
        <3>2. QED BY <1>2, <2>1, <3>1, OverflowFits
    <2>3. QED BY <1>2, <2>2 DEF Within, current
<1>5. /\ amount \in Int /\ reserve \in Int /\ growth \in Int
      /\ reserveOver \in Int /\ growthOver \in Int
      /\ snapshot["reserve"] \in Int /\ snapshot["growth"] \in Int
    BY <1>2, <1>3, <1>4 DEF SplitInputs, Ledger
<1> HIDE DEF split, reserve, growth, reserveOver, growthOver
<1>6. /\ EntriesOf(split)["operating"] = split.operating
      /\ EntriesOf(split)["reserve"] = split.reserve
      /\ EntriesOf(split)["growth"] = split.growth
    BY <1>1, <1>3, <1>4, <1>5 DEF EntriesOf, Pots
<1>7. TotalOf(EntriesOf(split)) = amount
    BY <1>1, <1>5, <1>6 DEF TotalOf
<1>8. /\ reserveCap # NoCap => snapshot["reserve"] + split.reserve <= reserveCap
      /\ growthCap # NoCap => snapshot["growth"] + split.growth <= growthCap
    <2>1. /\ snapshot["reserve"] + split.reserve = snapshot["reserve"] + reserve - reserveOver
          /\ snapshot["growth"] + split.growth = snapshot["growth"] + growth - growthOver
        BY <1>1, <1>5
    <2>2. QED BY <1>3, <1>4, <2>1
<1>9. QED BY <1>6, <1>7, <1>8 DEF split

\* By how much a pot of the snapshot is above its cap.
Excess(snapshot, pot, cap) ==
    IF cap # NoCap /\ snapshot[pot] > cap THEN snapshot[pot] - cap ELSE 0

\* What is written of a share is what its overflow leaves of it, except that a pot above
\* its cap would have to give its excess back, and the row that says so is not written.
LEMMA WrittenShare ==
    ASSUME NEW snapshot, NEW pot, snapshot[pot] \in Ledger, NEW share \in Ledger, share >= 0,
           NEW cap \in Caps
    PROVE  LET kept == share - Overflow(snapshot[pot], share, cap)
           IN  /\ kept \in Ledger
               /\ (IF kept > 0 THEN kept ELSE 0) = kept + Excess(snapshot, pot, cap)
               /\ Excess(snapshot, pot, cap) \in Nat
<1> DEFINE current == snapshot[pot]
           kept == share - Overflow(current, share, cap)
           excess == Excess(snapshot, pot, cap)
<1>1. current \in Int /\ share \in Int /\ (cap # NoCap => cap \in Int)
    BY DEF Ledger, Caps
<1>2. kept \in Ledger /\ kept \in Int
    BY OverflowFits, LedgerClosed DEF Ledger
<1>3. CASE cap # NoCap /\ current > cap
    <2>1. kept = cap - current /\ excess = current - cap
        BY <1>1, <1>3 DEF Overflow, Excess
    <2> HIDE DEF kept, excess, current
    <2>2. (IF kept > 0 THEN kept ELSE 0) = kept + excess /\ excess \in Nat
        BY <1>1, <1>3, <2>1
    <2>3. QED BY <1>2, <2>2 DEF kept, excess, current
<1>4. CASE ~(cap # NoCap /\ current > cap)
    <2>1. Overflow(current, share, cap) <= share /\ Overflow(current, share, cap) \in Int
        BY <1>4, OverflowFits DEF Ledger
    <2>2. excess = 0
        BY <1>4 DEF Excess
    <2>3. kept >= 0
        BY <1>1, <2>1
    <2> HIDE DEF kept, excess
    <2>4. (IF kept > 0 THEN kept ELSE 0) = kept + excess /\ excess \in Nat
        BY <1>2, <2>2, <2>3
    <2>5. QED BY <1>2, <2>4 DEF kept, excess
<1>5. QED BY <1>3, <1>4

\* What the rows of a split add up to, whatever the pots hold: the inflow, and once more
\* every dollar by which a pot is above its cap.  No split loses money, and only one that
\* meets a pot above its cap makes any (ledger.py:72-84, 191-196).
THEOREM SplitExact ==
    ASSUME NEW amount, NEW snapshot, NEW reserveCap, NEW growthCap,
           SplitInputs(amount, snapshot, reserveCap, growthCap)
    PROVE  LET entries == EntriesOf(SplitInflow(amount, snapshot, reserveCap, growthCap))
           IN  /\ TotalOf(entries) = amount + Excess(snapshot, "reserve", reserveCap)
                                            + Excess(snapshot, "growth", growthCap)
               /\ TotalOf(entries) >= amount
<1> DEFINE split == SplitInflow(amount, snapshot, reserveCap, growthCap)
           reserve == Quantize(amount * ReserveSplit, 100)
           growth == Quantize(amount * GrowthSplit, 100)
           reserveOver == Overflow(snapshot["reserve"], reserve, reserveCap)
           growthOver == Overflow(snapshot["growth"], growth, growthCap)
           reserveExcess == Excess(snapshot, "reserve", reserveCap)
           growthExcess == Excess(snapshot, "growth", growthCap)
<1>1. /\ split.operating = amount - reserve - growth + reserveOver + growthOver
      /\ split.reserve = reserve - reserveOver
      /\ split.growth = growth - growthOver
    BY SplitShares
<1>2. reserve \in Ledger /\ reserve >= 0 /\ growth \in Ledger /\ growth >= 0
    BY SharesBelowAmount DEF SplitInputs
<1> HIDE DEF reserve, growth
<1>3. /\ (IF reserve - reserveOver > 0 THEN reserve - reserveOver ELSE 0)
             = reserve - reserveOver + reserveExcess
      /\ reserveExcess \in Nat /\ reserve - reserveOver \in Ledger
    BY <1>2, WrittenShare DEF SplitInputs
<1>4. /\ (IF growth - growthOver > 0 THEN growth - growthOver ELSE 0)
             = growth - growthOver + growthExcess
      /\ growthExcess \in Nat /\ growth - growthOver \in Ledger
    BY <1>2, WrittenShare DEF SplitInputs
<1>5. reserveOver \in Int /\ growthOver \in Int
    BY <1>2, OverflowFits DEF SplitInputs, Ledger
<1>6. amount \in Int /\ reserve \in Int /\ growth \in Int
    BY <1>2 DEF SplitInputs, Ledger
<1> HIDE DEF split, reserveOver, growthOver, reserveExcess, growthExcess
<1>7. /\ EntriesOf(split)["operating"] = split.operating
      /\ EntriesOf(split)["reserve"] = IF split.reserve > 0 THEN split.reserve ELSE 0
      /\ EntriesOf(split)["growth"] = IF split.growth > 0 THEN split.growth ELSE 0
    BY DEF EntriesOf, Pots
<1>8. /\ EntriesOf(split)["reserve"] = reserve - reserveOver + reserveExcess
      /\ EntriesOf(split)["growth"] = growth - growthOver + growthExcess
    BY <1>1, <1>3, <1>4, <1>7
<1>9. TotalOf(EntriesOf(split)) = amount + reserveExcess + growthExcess
    BY <1>1, <1>3, <1>4, <1>5, <1>6, <1>7, <1>8 DEF TotalOf
<1>10. TotalOf(EntriesOf(split)) >= amount
    BY <1>3, <1>4, <1>6, <1>9
<1>11. QED BY <1>9, <1>10 DEF split, reserveExcess, growthExcess

-------------------------------------------------------------------------------
(* Amounts that are not multiples of a quantum, as the sweep has them. *)

\* The two shares before overflow: within half a quantum of their percentages, and
\* not negative.
LEMMA SharesRounded ==
    ASSUME NEW amount \in Nat \ {0}
    PROVE  LET reserve == Quantize(amount * ReserveSplit, 100)
               growth == Quantize(amount * GrowthSplit, 100)
           IN  /\ reserve \in Ledger /\ reserve >= 0
               /\ growth \in Ledger /\ growth >= 0
               /\ 200 * reserve <= 50 * amount + 100 * Scale
               /\ 200 * reserve >= 50 * amount - 100 * Scale
               /\ 200 * growth <= 30 * amount + 100 * Scale
               /\ 200 * growth >= 30 * amount - 100 * Scale
<1> DEFINE reserve == Quantize(amount * ReserveSplit, 100)
           growth == Quantize(amount * GrowthSplit, 100)
<1>1. amount * ReserveSplit = 25 * amount /\ amount * GrowthSplit = 15 * amount
    BY DEF ReserveSplit, GrowthSplit
<1>2. 25 * amount \in Int /\ 15 * amount \in Int
    OBVIOUS
<1>3. /\ reserve \in Ledger
      /\ 2 * (100 * reserve) <= 2 * (25 * amount) + 100 * Scale
      /\ 2 * (100 * reserve) >= 2 * (25 * amount) - 100 * Scale
    BY <1>1, <1>2, QuantizeNearest
<1>4. /\ growth \in Ledger
      /\ 2 * (100 * growth) <= 2 * (15 * amount) + 100 * Scale
      /\ 2 * (100 * growth) >= 2 * (15 * amount) - 100 * Scale
    BY <1>1, <1>2, QuantizeNearest
<1> HIDE DEF reserve, growth
<1>5. ASSUME NEW x \in Ledger, 200 * x > -100 * Scale PROVE x >= 0
    <2>1. PICK i \in Int : x = Scale * i
        BY DEF Ledger
    <2>2. i < 0 => Scale * i <= -Scale
        BY ScaleAssumption
    <2>3. i >= 0 => Scale * i >= 0
        BY ScaleAssumption
    <2>4. QED BY <1>5, <2>1, <2>2, <2>3, ScaleAssumption
<1>6. reserve \in Int /\ growth \in Int
    BY <1>3, <1>4 DEF Ledger
<1>7. 200 * reserve > -100 * Scale /\ 200 * growth > -100 * Scale
    BY <1>3, <1>4, <1>6, ScaleAssumption
<1>8. reserve >= 0 /\ growth >= 0
    BY <1>3, <1>4, <1>5, <1>7
<1>9. QED BY <1>3, <1>4, <1>6, <1>8, ScaleAssumption DEF reserve, growth

(***************************************************************************)
(* What the sweep splits.  rest is Operating's share before it is          *)
(* quantized: what the other two shares leave of the inflow.               *)
(***************************************************************************)
SweepTyped ==
    /\ inflow \in Nat \ {0}
    /\ pots \in [{"reserve", "growth"} -> Ledger]
    /\ room \in [{"reserve", "growth"} -> {r \in Ledger : r >= 0} \cup {NoCap}]

LEMMA AlwaysSweepTyped == SweepSpec => []SweepTyped
<1>1. SweepInit => SweepTyped
    <2>1. \A b \in Balances : Scale * b \in Ledger
        BY SweepAssumption, ScaleAssumption DEF Ledger
    <2>2. \A r \in Rooms : Scale * r \in Ledger /\ Scale * r >= 0
        BY SweepAssumption, ScaleAssumption DEF Ledger
    <2>3. QED BY <2>1, <2>2 DEF SweepInit, SweepTyped
<1>2. SweepTyped /\ [NextAmount]_sweepVars => SweepTyped'
    BY DEF SweepTyped, NextAmount, sweepVars
<1>3. QED BY <1>1, <1>2, PTL DEF SweepSpec

\* The shares of the sweep, and the rows written for them.
LEMMA SweepShares ==
    ASSUME SweepTyped
    PROVE  LET reserve == Quantize(inflow * ReserveSplit, 100)
               growth == Quantize(inflow * GrowthSplit, 100)
               rest == inflow - shares.reserve - shares.growth
           IN  /\ shares.reserve \in Ledger /\ 0 <= shares.reserve /\ shares.reserve <= reserve
               /\ shares.growth \in Ledger /\ 0 <= shares.growth /\ shares.growth <= growth
               /\ room["reserve"] = NoCap => shares.reserve = reserve
               /\ room["growth"] = NoCap => shares.growth = growth
               /\ room["reserve"] # NoCap => shares.reserve <= room["reserve"]
               /\ room["growth"] # NoCap => shares.growth <= room["growth"]
               /\ shares.operating = Quantize(rest, 1)
               /\ sharesWritten["operating"] = shares.operating
               /\ sharesWritten["reserve"] = shares.reserve
               /\ sharesWritten["growth"] = shares.growth
<1> DEFINE reserve == Quantize(inflow * ReserveSplit, 100)
           growth == Quantize(inflow * GrowthSplit, 100)
           reserveOver == Overflow(pots["reserve"], reserve, CapOf("reserve"))
           growthOver == Overflow(pots["growth"], growth, CapOf("growth"))
<1>1. /\ inflow \in Nat \ {0}
      /\ reserve \in Ledger /\ reserve >= 0
      /\ growth \in Ledger /\ growth >= 0
    BY SharesRounded DEF SweepTyped
<1>2. /\ shares.operating = Quantize(inflow - reserve - growth + reserveOver + growthOver, 1)
      /\ shares.reserve = Quantize(reserve - reserveOver, 1)
      /\ shares.growth = Quantize(growth - growthOver, 1)
    BY DEF shares, SplitInflow
<1> HIDE DEF reserve, growth
<1>3. ASSUME NEW pot \in {"reserve", "growth"}, NEW share \in Ledger, share >= 0
      PROVE  LET over == Overflow(pots[pot], share, CapOf(pot))
             IN  /\ over \in Ledger /\ 0 <= over /\ over <= share
                 /\ share - over \in Ledger
                 /\ room[pot] = NoCap => over = 0
                 /\ room[pot] # NoCap => share - over <= room[pot]
    <2> DEFINE current == pots[pot]
               cap == CapOf(pot)
    <2>1. current \in Ledger /\ current \in Int /\ share \in Int
        BY DEF SweepTyped, Ledger
    <2>2. CASE room[pot] = NoCap
        <3>1. cap = NoCap
            BY <2>2 DEF CapOf
        <3>2. Overflow(current, share, cap) = 0
            BY <3>1 DEF Overflow
        <3>3. share - 0 = share
            BY <2>1
        <3>4. QED BY <1>3, <2>2, <3>2, <3>3, ZeroInLedger
    <2>3. CASE room[pot] # NoCap
        <3>1. room[pot] \in Ledger /\ room[pot] >= 0 /\ room[pot] \in Int
            BY <2>3 DEF SweepTyped, Ledger
        <3>2. cap = current + room[pot]
            BY <2>3 DEF CapOf
        <3>3. cap \in Ledger /\ cap \in Int
            BY <2>1, <3>1, <3>2, LedgerClosed DEF Ledger
        <3> HIDE DEF current, cap
        <3>4. cap # NoCap /\ cap \in Caps /\ ~(current > cap)
            BY <2>1, <3>1, <3>2, <3>3, NoCapAssumption DEF Caps
        <3>5. /\ Overflow(current, share, cap) \in Ledger
              /\ Overflow(current, share, cap) >= 0
              /\ current + share - Overflow(current, share, cap) <= cap
              /\ Overflow(current, share, cap) <= share
            BY <1>3, <2>1, <3>4, OverflowFits
        <3>6. Overflow(current, share, cap) \in Int
            BY <3>5 DEF Ledger
        <3>7. share - Overflow(current, share, cap) \in Ledger
            BY <3>5, LedgerClosed
        <3>8. share - Overflow(current, share, cap) <= room[pot]
            BY <2>1, <3>1, <3>2, <3>5, <3>6
        <3>9. QED BY <2>3, <3>5, <3>6, <3>7, <3>8 DEF current, cap
    <2>4. QED BY <2>2, <2>3
<1>4. /\ reserveOver \in Ledger /\ 0 <= reserveOver /\ reserveOver <= reserve
      /\ reserve - reserveOver \in Ledger
      /\ room["reserve"] = NoCap => reserveOver = 0
      /\ room["reserve"] # NoCap => reserve - reserveOver <= room["reserve"]
    BY <1>1, <1>3
<1>5. /\ growthOver \in Ledger /\ 0 <= growthOver /\ growthOver <= growth
      /\ growth - growthOver \in Ledger
      /\ room["growth"] = NoCap => growthOver = 0
      /\ room["growth"] # NoCap => growth - growthOver <= room["growth"]
    BY <1>1, <1>3
<1> HIDE DEF reserveOver, growthOver
<1>6. shares.reserve = reserve - reserveOver /\ shares.growth = growth - growthOver
    BY <1>2, <1>4, <1>5, QuantizeOfLedger
<1>7. /\ reserve \in Int /\ growth \in Int /\ reserveOver \in Int /\ growthOver \in Int
    BY <1>1, <1>4, <1>5 DEF Ledger
<1>8. inflow - reserve - growth + reserveOver + growthOver
          = inflow - shares.reserve - shares.growth
    BY <1>1, <1>6, <1>7
<1>9. /\ sharesWritten["operating"] = shares.operating
      /\ sharesWritten["reserve"] = shares.reserve
      /\ sharesWritten["growth"] = shares.growth
    <2>1. 0 <= shares.reserve /\ 0 <= shares.growth /\ shares.reserve \in Int /\ shares.growth \in Int
        BY <1>4, <1>5, <1>6, <1>7
    <2> HIDE DEF shares
    <2>2. QED BY <2>1 DEF sharesWritten, EntriesOf, Pots
<1>10. QED BY <1>1, <1>2, <1>4, <1>5, <1>6, <1>7, <1>8, <1>9 DEF reserve, growth

\* Rounding to the quantum is off by half of it, and by nothing for a ledger amount.
LEMMA QuantizeOne ==
    ASSUME NEW x \in Int
    PROVE  /\ Quantize(x, 1) \in Ledger
           /\ 2 * Quantize(x, 1) <= 2 * x + Scale
           /\ 2 * Quantize(x, 1) >= 2 * x - Scale
<1>1. /\ Quantize(x, 1) \in Ledger
      /\ 2 * (1 * Quantize(x, 1)) <= 2 * x + 1 * Scale
      /\ 2 * (1 * Quantize(x, 1)) >= 2 * x - 1 * Scale
    BY QuantizeNearest
<1>2. Quantize(x, 1) \in Int
    BY <1>1 DEF Ledger
<1>3. QED BY <1>1, <1>2, ScaleAssumption

\* While no pot is above its cap, the rows written for an inflow of any size add up
\* to it, to half a quantum (MCInflowSplit.SplitConserves; ledger.py:62-84).
THEOREM EverySplitConserves == SweepSpec => []SplitConserves
<1>1. ASSUME SweepTyped PROVE SplitConserves
    <2> DEFINE rest == inflow - shares.reserve - shares.growth
    <2>1. /\ shares.reserve \in Ledger /\ shares.growth \in Ledger
          /\ shares.operating = Quantize(rest, 1)
          /\ TotalOf(sharesWritten) = shares.operating + shares.reserve + shares.growth
        BY <1>1, SweepShares DEF TotalOf
    <2>2. /\ inflow \in Int /\ shares.reserve \in Int /\ shares.growth \in Int
        BY <1>1, <2>1 DEF SweepTyped, Ledger
    <2>3. /\ shares.operating \in Int
          /\ 2 * shares.operating <= 2 * rest + Scale
          /\ 2 * shares.operating >= 2 * rest - Scale
        <3>1. rest \in Int
            BY <2>2
        <3> HIDE DEF rest
        <3>2. QED BY <2>1, <3>1, QuantizeOne DEF Ledger
    <2>4. ASSUME inflow % Scale = 0 PROVE shares.operating = rest
        <3>1. inflow \in Ledger
            BY <2>2, <2>4, LedgerIffRepresentable
        <3>2. rest \in Ledger
            BY <2>1, <3>1, LedgerClosed
        <3>3. QED BY <2>1, <3>2, QuantizeOfLedger
    <2> DEFINE o == shares.operating
               r == shares.reserve
               g == shares.growth
               t == TotalOf(sharesWritten)
    <2>5. t = o + r + g
        BY <2>1
    <2>6. /\ o \in Int /\ r \in Int /\ g \in Int /\ inflow \in Int
          /\ 2 * o <= 2 * (inflow - r - g) + Scale
          /\ 2 * o >= 2 * (inflow - r - g) - Scale
          /\ inflow % Scale = 0 => o = inflow - r - g
        BY <2>2, <2>3, <2>4
    <2> HIDE DEF o, r, g, t, rest
    <2>7. /\ 2 * (t - inflow) <= Scale /\ 2 * (t - inflow) >= -Scale
          /\ inflow % Scale = 0 => t - inflow = 0
        BY <2>5, <2>6, ScaleAssumption
    <2>8. QED BY <2>7 DEF SplitConserves, t
<1>2. QED BY <1>1, AlwaysSweepTyped, PTL

\* No inflow lifts a pot above its cap (MCInflowSplit.CapsRespected; ledger.py:72-79).
THEOREM EverySplitRespectsCaps == SweepSpec => []CapsRespected
<1>1. ASSUME SweepTyped PROVE CapsRespected
    <2> SUFFICES ASSUME NEW pot \in {"reserve", "growth"}, room[pot] # NoCap
                 PROVE  pots[pot] + sharesWritten[pot] <= pots[pot] + room[pot]
        BY DEF CapsRespected, CapOf
    <2>1. /\ sharesWritten["reserve"] \in Ledger /\ sharesWritten["growth"] \in Ledger
          /\ room["reserve"] # NoCap => sharesWritten["reserve"] <= room["reserve"]
          /\ room["growth"] # NoCap => sharesWritten["growth"] <= room["growth"]
        BY <1>1, SweepShares
    <2>2. sharesWritten[pot] \in Int /\ sharesWritten[pot] <= room[pot]
        BY <2>1 DEF Ledger
    <2>3. pots[pot] \in Int /\ room[pot] \in Int
        BY <1>1 DEF SweepTyped, Ledger
    <2>4. QED BY <2>2, <2>3
<1>2. QED BY <1>1, AlwaysSweepTyped, PTL

\* Uncapped, every share is its percentage of the inflow, to half a quantum and to
\* three halves for Operating (MCInflowSplit.SharesNearest; ledger.py:65-70).
THEOREM EverySplitNearest == SweepSpec => []SharesNearest
<1>1. ASSUME SweepTyped PROVE SharesNearest
    <2> SUFFICES ASSUME \A pot \in {"reserve", "growth"} : room[pot] = NoCap
                 PROVE  /\ 2 * (100 * shares.reserve - 25 * inflow) \in -100 * Scale .. 100 * Scale
                        /\ 2 * (100 * shares.growth - 15 * inflow) \in -100 * Scale .. 100 * Scale
                        /\ 2 * (100 * shares.operating - 60 * inflow) \in -300 * Scale .. 300 * Scale
        BY DEF SharesNearest
    <2>1. inflow \in Nat \ {0}
        BY <1>1 DEF SweepTyped
    <2> DEFINE rest == inflow - shares.reserve - shares.growth
    <2>2. /\ shares.reserve = Quantize(inflow * ReserveSplit, 100)
          /\ shares.growth = Quantize(inflow * GrowthSplit, 100)
          /\ shares.operating = Quantize(rest, 1)
        BY <1>1, SweepShares
    <2> DEFINE o == shares.operating
               r == shares.reserve
               g == shares.growth
    <2>3. /\ r \in Ledger /\ g \in Ledger
          /\ 200 * r <= 50 * inflow + 100 * Scale /\ 200 * r >= 50 * inflow - 100 * Scale
          /\ 200 * g <= 30 * inflow + 100 * Scale /\ 200 * g >= 30 * inflow - 100 * Scale
        BY <2>1, <2>2, SharesRounded
    <2>4. r \in Int /\ g \in Int /\ o = Quantize(inflow - r - g, 1)
        BY <2>2, <2>3 DEF Ledger
    <2> HIDE DEF o, r, g, rest
    <2>5. /\ o \in Int
          /\ 2 * o <= 2 * (inflow - r - g) + Scale /\ 2 * o >= 2 * (inflow - r - g) - Scale
        BY <2>1, <2>4, QuantizeOne DEF Ledger
    <2>6. /\ 2 * (100 * r - 25 * inflow) \in -100 * Scale .. 100 * Scale
          /\ 2 * (100 * g - 15 * inflow) \in -100 * Scale .. 100 * Scale
          /\ 2 * (100 * o - 60 * inflow) \in -300 * Scale .. 300 * Scale
        BY <2>1, <2>3, <2>4, <2>5, ScaleAssumption
    <2>7. QED BY <2>6 DEF o, r, g
<1>2. QED BY <1>1, AlwaysSweepTyped, PTL

(***************************************************************************)
(* The two other shares are nothing of an inflow below two quanta, and the *)
(* Growth share nothing of one below 10/3 quanta; from there on they leave *)
(* more than half a quantum.                                               *)
(***************************************************************************)
LEMMA RestAboveHalf ==
    ASSUME NEW a \in Nat, a >= Scale,
           NEW r \in Ledger, 200 * r <= 50 * a + 100 * Scale,
           NEW g \in Ledger, 200 * g <= 30 * a + 100 * Scale
    PROVE  2 * (a - r - g) > Scale
<1>1. ASSUME NEW x \in Ledger PROVE x \in Int /\ (x <= 0 \/ x >= Scale)
    <2>1. PICK i \in Int : x = Scale * i
        BY DEF Ledger
    <2>2. (i <= 0 => Scale * i <= 0) /\ (i >= 1 => Scale * i >= Scale)
        BY ScaleAssumption
    <2>3. i <= 0 \/ i >= 1
        OBVIOUS
    <2>4. QED BY <2>1, <2>2, <2>3, ScaleAssumption
<1>2. r \in Int /\ (r <= 0 \/ r >= Scale) /\ g \in Int /\ (g <= 0 \/ g >= Scale)
    BY <1>1
<1>3. QED BY <1>2, ScaleAssumption

\* No inflow of a quantum or more makes credit() raise for its Operating share
\* (MCInflowSplit.OperatingSharePositive; ledger.py:187).
THEOREM EveryOperatingSharePositive == SweepSpec => []OperatingSharePositive
<1>1. ASSUME SweepTyped PROVE OperatingSharePositive
    <2> SUFFICES ASSUME inflow >= Scale PROVE shares.operating > 0
        BY DEF OperatingSharePositive
    <2>1. inflow \in Nat \ {0}
        BY <1>1 DEF SweepTyped
    <2> DEFINE reserve == Quantize(inflow * ReserveSplit, 100)
               growth == Quantize(inflow * GrowthSplit, 100)
               o == shares.operating
               r == shares.reserve
               g == shares.growth
    <2>2. /\ r \in Ledger /\ r <= reserve /\ g \in Ledger /\ g <= growth
          /\ o = Quantize(inflow - r - g, 1)
        BY <1>1, SweepShares
    <2>3. /\ reserve \in Ledger /\ growth \in Ledger
          /\ 200 * reserve <= 50 * inflow + 100 * Scale
          /\ 200 * growth <= 30 * inflow + 100 * Scale
        BY <2>1, SharesRounded
    <2> HIDE DEF reserve, growth, o, r, g
    <2>4. 2 * (inflow - reserve - growth) > Scale
        BY <2>1, <2>3, RestAboveHalf
    <2>5. reserve \in Int /\ growth \in Int /\ r \in Int /\ g \in Int
        BY <2>2, <2>3 DEF Ledger
    <2>6. 2 * (inflow - r - g) > Scale
        BY <2>1, <2>2, <2>4, <2>5, ScaleAssumption
    <2>7. o \in Int /\ 2 * o >= 2 * (inflow - r - g) - Scale
        BY <2>1, <2>2, <2>5, QuantizeOne DEF Ledger
    <2>8. o > 0
        BY <2>1, <2>5, <2>6, <2>7, ScaleAssumption
    <2>9. QED BY <2>8 DEF o
<1>2. QED BY <1>1, AlwaysSweepTyped, PTL
===============================================================================
