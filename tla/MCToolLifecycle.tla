--------------------------- MODULE MCToolLifecycle ---------------------------
(***************************************************************************)
(* Instances of ToolLifecycle: a request of high risk by its own account,  *)
(* and one of low risk with a field of personal data.                      *)
(***************************************************************************)
EXTENDS ToolLifecycle

CONSTANTS q1, q2

Asked == [r \in Requests |->
             IF r = q1
             THEN [tier |-> "high", forbidden |-> FALSE, pii |-> FALSE,
                   network |-> TRUE, domains |-> TRUE]
             ELSE [tier |-> "low", forbidden |-> FALSE, pii |-> TRUE,
                   network |-> FALSE, domains |-> FALSE]]
==============================================================================
