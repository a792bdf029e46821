------------------------------ MODULE MCCashflow ------------------------------
(***************************************************************************)
(* Instances of Cashflow.  One unit of the model is one ledger quantum.    *)
(***************************************************************************)
EXTENDS Cashflow

CONSTANTS m1, seed

OneWriter == {m1}
MotherAndSeed == {m1, seed}
MaybeCapped == {NoCap, ReserveCapFromBurn(1, 1)}
===============================================================================
