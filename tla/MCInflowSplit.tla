---------------------------- MODULE MCInflowSplit ----------------------------
(***************************************************************************)
(* Checks the split on every amount up to MaxAmount, against every pair of *)
(* pot balances and every pair of caps that stays at or above them.  The   *)
(* amounts cover a full period of the roundings (at Scale = 4, 32 units    *)
(* for the Reserve share and 160 for the Growth share), so every tie and   *)
(* every direction of rounding occurs.                                     *)
(***************************************************************************)
EXTENDS InflowSplit

CONSTANTS
    MaxAmount,  \* the last amount of the sweep
    Balances,   \* balances of the pots, in quanta
    Rooms       \* room below a cap, in quanta

ASSUME SweepAssumption == Balances \subseteq Int /\ Rooms \subseteq Nat

VARIABLES inflow, pots, room

sweepVars == <<inflow, pots, room>>

\* The caps are given as the room left below them; NoCap is no limit.
CapOf(pot) == IF room[pot] = NoCap THEN NoCap ELSE pots[pot] + room[pot]

SweepInit ==
    /\ inflow = 1
    /\ pots \in [{"reserve", "growth"} -> {Scale * b : b \in Balances}]
    /\ room \in [{"reserve", "growth"} -> {Scale * r : r \in Rooms} \cup {NoCap}]

NextAmount ==
    /\ inflow < MaxAmount
    /\ inflow' = inflow + 1
    /\ UNCHANGED <<pots, room>>

SweepSpec == SweepInit /\ [][NextAmount]_sweepVars

shares == SplitInflow(inflow, pots, CapOf("reserve"), CapOf("growth"))
sharesWritten == EntriesOf(shares)

\* While no pot is above its cap, the rows written for an inflow add up to the
\* inflow, to half a quantum: ledger.py:69-84 moves residue and overflow to
\* Operating instead of losing either (ledger.py:62: "overflow rolls to Operating").
SplitConserves ==
    LET error == TotalOf(sharesWritten) - inflow
    IN  /\ 2 * error <= Scale /\ 2 * error >= -Scale
        /\ inflow % Scale = 0 => error = 0

\* A pot at or below its cap is not lifted above it by an inflow (ledger.py:72-79).
CapsRespected ==
    \A pot \in {"reserve", "growth"} :
        room[pot] # NoCap => pots[pot] + sharesWritten[pot] <= CapOf(pot)

\* Uncapped, each share is its percentage of the inflow to half a quantum, and
\* Operating carries the rounding error of the two others (ledger.py:65-70).
SharesNearest ==
    (\A pot \in {"reserve", "growth"} : room[pot] = NoCap) =>
        /\ 2 * (100 * shares.reserve - 25 * inflow) \in -100 * Scale .. 100 * Scale
        /\ 2 * (100 * shares.growth - 15 * inflow) \in -100 * Scale .. 100 * Scale
        /\ 2 * (100 * shares.operating - 60 * inflow) \in -300 * Scale .. 300 * Scale

\* split_and_record_inflow raises on a non-positive Operating share; no inflow
\* worth a quantum or more can get one (ledger.py:187 and 163).
OperatingSharePositive == inflow >= Scale => shares.operating > 0
=============================================================================
