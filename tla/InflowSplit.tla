----------------------------- MODULE InflowSplit -----------------------------
(***************************************************************************)
(* The arithmetic of the three-pot split: aae/cashflow/ledger.py,          *)
(* pots.py and the constants of hard_floors.py.                            *)
(*                                                                         *)
(* Money is an integer number of the smallest unit any amount of the       *)
(* program is written in.  A ledger row holds multiples of Scale of these  *)
(* units: rows have 4 decimals (schemas/cashflow.py), model costs have 6,  *)
(* so Scale is 100 when the unit is a micro-dollar, and 1 when every       *)
(* amount already fits the ledger.                                         *)
(***************************************************************************)
EXTENDS Integers

CONSTANTS
    Scale,      \* units in one ledger quantum, Decimal("0.0001")
    NoCap       \* reserve_cap=None: the pot has no cap

ASSUME ScaleAssumption == Scale \in Nat \ {0}
ASSUME NoCapAssumption == NoCap \notin Int

Pots == {"operating", "reserve", "growth"}

ReserveSplit == 25     \* percent; Operating takes the rest, 60
GrowthSplit == 15
GrowthCapPct == 30     \* percent of the trailing 90 days' revenue

\* Faulty roundings: ROUND_FLOOR and ROUND_CEILING instead of the default.
RoundDown(n, d) == n \div d
RoundUp(n, d) == -((-n) \div d)

(***************************************************************************)
(* Decimal.quantize: n/d rounded to the nearest multiple of Scale, ties to *)
(* the even multiple (ROUND_HALF_EVEN, the context's default).             *)
(***************************************************************************)
RoundHalfEven(n, d) ==
    LET quotient == n \div d
        remainder == n % d
    IN  IF 2 * remainder > d \/ (2 * remainder = d /\ quotient % 2 = 1)
        THEN quotient + 1
        ELSE quotient

Quantize(n, d) == Scale * RoundHalfEven(n, d * Scale)

ReserveCapFromBurn(dailyBurn, runwayDays) == Quantize(dailyBurn * runwayDays, 1)
GrowthCapFromTrailingRevenue(trailing) == Quantize(trailing * GrowthCapPct, 100)

\* A faulty overflow that looks at the pot before the share is added.
OverflowOfFullPot(current, share, cap) ==
    IF cap # NoCap /\ current > cap THEN current + share - cap ELSE 0

\* What a share must give up so that its pot stays within its cap.
Overflow(current, share, cap) ==
    IF cap # NoCap /\ current + share > cap THEN current + share - cap ELSE 0

\* A faulty split that lets go of the Growth overflow.
SplitInflowLosingOverflow(amount, snapshot, reserveCap, growthCap) ==
    LET reserve == Quantize(amount * ReserveSplit, 100)
        growth == Quantize(amount * GrowthSplit, 100)
        reserveOver == Overflow(snapshot["reserve"], reserve, reserveCap)
        growthOver == Overflow(snapshot["growth"], growth, growthCap)
    IN  [operating |-> Quantize(amount - reserve - growth + reserveOver, 1),
         reserve |-> Quantize(reserve - reserveOver, 1),
         growth |-> Quantize(growth - growthOver, 1)]

(***************************************************************************)
(* split_inflow.  Operating gets its rounded 60% and the residue of the    *)
(* three roundings, which is whatever the two other shares leave; then the *)
(* overflow of each capped pot; then each share is quantized.              *)
(***************************************************************************)
SplitInflow(amount, snapshot, reserveCap, growthCap) ==
    LET reserve == Quantize(amount * ReserveSplit, 100)
        growth == Quantize(amount * GrowthSplit, 100)
        reserveOver == Overflow(snapshot["reserve"], reserve, reserveCap)
        growthOver == Overflow(snapshot["growth"], growth, growthCap)
    IN  [operating |-> Quantize(amount - reserve - growth + reserveOver + growthOver, 1),
         reserve |-> Quantize(reserve - reserveOver, 1),
         growth |-> Quantize(growth - growthOver, 1)]

(***************************************************************************)
(* The rows split_and_record_inflow writes for a split: Operating's always *)
(* (credit() raises if it is not positive), the others' only if positive.  *)
(***************************************************************************)
EntriesOf(split) ==
    [p \in Pots |-> IF p = "operating" \/ split[p] > 0 THEN split[p] ELSE 0]

TotalOf(deltas) == deltas["operating"] + deltas["reserve"] + deltas["growth"]
=============================================================================
