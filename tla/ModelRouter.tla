----------------------------- MODULE ModelRouter -----------------------------
(***************************************************************************)
(* Which model serves a call and what it costs: aae/core/model_router.py   *)
(* over the table of aae/config/frozen/model_routing.py.  Costs are in     *)
(* micro-dollars, the quantum of estimate_cost_usd.                        *)
(***************************************************************************)
EXTENDS InflowSplit

CONSTANT LowWater    \* OPERATING_LOW_WATER_MARK_USD

ASSUME LowWaterAssumption == LowWater \in Nat

\* A price is in tenths of a micro-dollar per token ($1 per million is 10).
PriceIn == [opus |-> 50, sonnet |-> 30, haiku |-> 10, flash_lite |-> 1]
PriceOut == [opus |-> 250, sonnet |-> 150, haiku |-> 50, flash_lite |-> 4]

Models == DOMAIN PriceIn

Route(agent, task, operating) ==
    CASE agent = "ethics_auditor" -> "opus"
      [] agent = "code_builder" -> "haiku"
      [] OTHER ->
            IF operating < LowWater THEN "haiku"
            ELSE CASE task \in {"propose_vertical", "debug_child"} -> "opus"
                   [] task = "bulk_classify" -> "flash_lite"
                   [] OTHER -> "sonnet"

EstimateCost(model, tokensIn, tokensOut) ==
    RoundHalfEven(tokensIn * PriceIn[model] + tokensOut * PriceOut[model], 10)
==============================================================================
