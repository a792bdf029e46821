---------------------------- MODULE OperatorParser ----------------------------
(***************************************************************************)
(* parse() of aae/core/operator_parser.py, on the words of a subject line  *)
(* and a body.  A word is what the parser can tell of it: one of the seven *)
(* verbs, ALL and the transfer's direction in any case, a UUID, an amount  *)
(* of at most two decimals, or anything else.  A body is never looked at:  *)
(* of two commands its first 500 characters are kept, of the others none.  *)
(***************************************************************************)
EXTENDS Naturals, Sequences

Verbs == {"APPROVE", "REJECT", "CONTINUE", "PAUSE", "KILL", "RESUME", "EMERGENCY_TRANSFER"}
Words == Verbs \cup {"ALL", "reserve->operating", "uuid", "amount", "other"}

Actions == {"APPROVE", "REJECT", "CONTINUE", "PAUSE", "KILL_CHILD", "KILL_ALL", "RESUME",
            "EMERGENCY_TRANSFER"}
FormLetter == "form letter"

\* Bodies: none, one of up to 500 characters, and a longer one.
Bodies == {"empty", "short", "long"}
Excerpt(body) == IF body = "long" THEN "short" ELSE body

Results == [action : Actions \cup {FormLetter}, excerpt : {"empty", "short"}]

\* A faulty parser that reads CONTINUE and PAUSE off the first word.
ActionFirstWord(words) ==
    CASE words # <<>> /\ words[1] \in {"CONTINUE", "PAUSE"} -> words[1]
      [] Len(words) = 2 /\ words[1] \in {"APPROVE", "REJECT", "RESUME"} /\ words[2] = "uuid" ->
            words[1]
      [] words = <<"KILL", "ALL">> -> "KILL_ALL"
      [] words = <<"KILL", "uuid">> -> "KILL_CHILD"
      [] words = <<"EMERGENCY_TRANSFER", "amount", "reserve->operating">> ->
            "EMERGENCY_TRANSFER"
      [] OTHER -> FormLetter

\* A faulty parser that names the action of KILL after its verb.
ActionKillAsVerb(words) ==
    CASE Len(words) = 1 /\ words[1] \in {"CONTINUE", "PAUSE"} -> words[1]
      [] Len(words) = 2 /\ words[1] \in {"APPROVE", "REJECT", "RESUME"} /\ words[2] = "uuid" ->
            words[1]
      [] Len(words) = 2 /\ words[1] = "KILL" /\ words[2] \in {"ALL", "uuid"} -> "KILL"
      [] words = <<"EMERGENCY_TRANSFER", "amount", "reserve->operating">> ->
            "EMERGENCY_TRANSFER"
      [] OTHER -> FormLetter

\* One branch per verb; each wants its exact number of words.
ActionOf(words) ==
    CASE Len(words) = 1 /\ words[1] \in {"CONTINUE", "PAUSE"} -> words[1]
      [] Len(words) = 2 /\ words[1] \in {"APPROVE", "REJECT", "RESUME"} /\ words[2] = "uuid" ->
            words[1]
      [] words = <<"KILL", "ALL">> -> "KILL_ALL"
      [] words = <<"KILL", "uuid">> -> "KILL_CHILD"
      [] words = <<"EMERGENCY_TRANSFER", "amount", "reserve->operating">> ->
            "EMERGENCY_TRANSFER"
      [] OTHER -> FormLetter

\* What is made of a mail.
Parse(mail) ==
    LET action == ActionOf(mail.subject)
    IN  [action  |-> action,
         excerpt |-> IF action \in {"REJECT", "EMERGENCY_TRANSFER"} THEN Excerpt(mail.body)
                                                                   ELSE "empty"]
===============================================================================
