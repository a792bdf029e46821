------------------------------ MODULE MotherLadder ------------------------------
(***************************************************************************)
(* The Mother's expansion policy, aae/core/mother_agent.py over the frozen *)
(* thresholds of aae/config/frozen/expansion_rungs.py: pure functions of   *)
(* the trailing revenue in dollars, the channels that are live and the     *)
(* children that are live.                                                 *)
(***************************************************************************)
EXTENDS Integers, FiniteSets

Rungs == 1 .. 5

\* RUNG_THRESHOLDS, by rung.
MinRevenue == <<0, 100, 500, 2000, 10000>>
MinChannels == <<0, 1, 2, 2, 2>>
MaxChildren == <<1, 2, 3, 5, 8>>

Satisfied(rung, revenue, channels) ==
    revenue >= MinRevenue[rung] /\ channels >= MinChannels[rung]

\* current_rung(): the last rung that is satisfied, and the first if none is.
CurrentRung(revenue, channels) ==
    CHOOSE rung \in Rungs :
        /\ Satisfied(rung, revenue, channels) \/ rung = 1
        /\ \A higher \in Rungs : higher > rung => ~Satisfied(higher, revenue, channels)

Cap(revenue, channels) == MaxChildren[CurrentRung(revenue, channels)]

Concentrated(revenue, channels) == revenue >= 500 /\ channels < 2

\* A faulty gate whose limit is one too high.
GateAtCap(revenue, channels, children) ==
    CASE Concentrated(revenue, channels) -> "concentration_rule_halt"
      [] ~Concentrated(revenue, channels) /\ children > Cap(revenue, channels) ->
             "max_children_reached"
      [] OTHER -> "ok"

\* can_propose_new(): the first rule that refuses gives the reason.
Gate(revenue, channels, children) ==
    CASE Concentrated(revenue, channels) -> "concentration_rule_halt"
      [] ~Concentrated(revenue, channels) /\ children >= Cap(revenue, channels) ->
             "max_children_reached"
      [] /\ ~Concentrated(revenue, channels) /\ children < Cap(revenue, channels)
         /\ children >= 1 /\ revenue < 100 -> "rung2_requires_100_revenue"
      [] OTHER -> "ok"

\* A faulty rule that binds one vertical late.
MayUseLate(verticals, channelOf, proposed) ==
    Cardinality(verticals) > 2 => \A v \in verticals : channelOf[v] # proposed

\* must_use_different_channel(), on the list of the live verticals' channels.
MayUse(verticals, channelOf, proposed) ==
    Cardinality(verticals) >= 2 => \A v \in verticals : channelOf[v] # proposed
===============================================================================
