------------------------------ MODULE MCSupervisor ------------------------------
(***************************************************************************)
(* Instances of ChildSupervisor.                                           *)
(***************************************************************************)
EXTENDS ChildSupervisor, TLC

\* Negative amounts, which a configuration file cannot write.
SpendAndRefund == {1, -1}
RevenueAndRefund == {1, -2}

\* Children are interchangeable.
ChildSymmetry == Permutations(Children)

\* Bound of the model: the days, revenue and refunds are followed for one child and
\* before any kill_all, since the policy looks at one child; two children and a kill_all
\* on one day, on which they only spend, since kill_all looks at no books.
PolicyOrSweep ==
    \/ /\ Cardinality(Registered) <= 1
       /\ \A k \in Sweepers : sweep[k] = "idle"
    \/ /\ now = 0
       /\ \A c \in Registered :
              /\ entry[c].spawned = 0 /\ entry[c].revenue = 0
              /\ entry[c].spent = entry[c].burned /\ entry[c].spent >= 0
===============================================================================
