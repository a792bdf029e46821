---------------------------- MODULE MCOperatorMail ----------------------------
(***************************************************************************)
(* Instances of OperatorMail: two commands, and two mails that begin with  *)
(* one and go on, with bodies and without.                                 *)
(***************************************************************************)
EXTENDS OperatorMail

CONSTANTS m1, m2, m3, m4

Transfer == <<"EMERGENCY_TRANSFER", "amount", "reserve->operating">>

Letters ==
    [m \in Mails |->
        CASE m = m1 -> [subject |-> <<"KILL", "ALL">>, body |-> "empty"]
          [] m = m2 -> [subject |-> Transfer, body |-> "short"]
          [] m = m3 -> [subject |-> <<"PAUSE", "other">>, body |-> "empty"]
          [] OTHER  -> [subject |-> <<"APPROVE", "uuid", "amount">>, body |-> "long"]]
===============================================================================
