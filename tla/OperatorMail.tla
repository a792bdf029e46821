----------------------------- MODULE OperatorMail -----------------------------
(***************************************************************************)
(* How the operator's mail becomes commands: handle_push of                *)
(* aae/gmail/webhook.py behind the route of aae/server/routes/webhooks.py. *)
(* Pub/Sub delivers a push for each new mail, again and again until it is  *)
(* answered.  One process serves the route and handle_push never awaits,   *)
(* so one push is handled at a time; but it calls Gmail once to list the   *)
(* unread mail and once per mail to mark it read, and mail arrives, calls  *)
(* fail and the process may die in between.  The results are the value     *)
(* that handle_push returns: there is no other trace of a command.         *)
(***************************************************************************)
EXTENDS OperatorParser, FiniteSets

CONSTANTS
    Mails,   \* the mails the operator may send
    Text     \* Text[m]: the words of m's subject, and its body

ASSUME MailsAssumption == IsFiniteSet(Mails)
ASSUME TextAssumption == Text \in [Mails -> [subject : Seq(Words), body : Bodies]]

VARIABLES
    sent,      \* mails the operator has sent
    unread,    \* those that Gmail lists as unread
    pushes,    \* pushes Pub/Sub has yet to get an answer to
    handling,  \* whether handle_push is under way
    listed,    \* mails of its list it has yet to go through
    parsed,    \* mails whose result is in its list `parsed`
    handed,    \* handed[m]: the results for m that handle_push has returned
    failed     \* history: whether a call of handle_push was ever cut short

vars == <<sent, unread, pushes, handling, listed, parsed, handed, failed>>

Init ==
    /\ sent = {}
    /\ unread = {}
    /\ pushes = 0
    /\ handling = FALSE
    /\ listed = {}
    /\ parsed = {}
    /\ handed = [m \in Mails |-> <<>>]
    /\ failed = FALSE

\* The operator sends a mail, and Gmail notifies Pub/Sub.
Send(m) ==
    /\ m \notin sent
    /\ sent' = sent \cup {m}
    /\ unread' = unread \cup {m}
    /\ pushes' = pushes + 1
    /\ UNCHANGED <<handling, listed, parsed, handed, failed>>

\* A push is delivered: list_unread.  A call that fails up to here, on a malformed
\* envelope or for want of a transport, changes nothing.
StartPush ==
    /\ pushes > 0 /\ ~handling
    /\ handling' = TRUE
    /\ listed' = unread
    /\ parsed' = {}
    /\ UNCHANGED <<sent, unread, pushes, handed, failed>>

\* A faulty loop that marks all mail read, not just the mail it has parsed.
HandleMailMarkAll(m) ==
    /\ m \in listed
    /\ listed' = listed \ {m}
    /\ parsed' = parsed \cup {m}
    /\ unread' = {}
    /\ UNCHANGED <<sent, pushes, handling, handed, failed>>

\* One round of the loop: parse, append, mark_read.
HandleMail(m) ==
    /\ m \in listed
    /\ listed' = listed \ {m}
    /\ parsed' = parsed \cup {m}
    /\ unread' = unread \ {m}
    /\ UNCHANGED <<sent, pushes, handling, handed, failed>>

\* handle_push ends without a result, and the push stays unanswered.
CutShort ==
    /\ handling' = FALSE
    /\ listed' = {}
    /\ parsed' = {}
    /\ failed' = TRUE
    /\ UNCHANGED <<sent, pushes, handed>>

\* A faulty loop that goes on when mark_read has raised.
MarkFailsSwallowed(m) ==
    /\ m \in listed
    /\ listed' = listed \ {m}
    /\ parsed' = parsed \cup {m}
    /\ failed' = TRUE
    /\ UNCHANGED <<sent, unread, pushes, handling, handed>>

\* mark_read raises, whether Gmail has marked the mail or not.
MarkFails(m) ==
    /\ m \in listed
    /\ unread' \in {unread, unread \ {m}}
    /\ CutShort

\* The process dies.
Crash ==
    /\ handling
    /\ CutShort
    /\ UNCHANGED unread

\* A faulty answer that also settles the pushes that came in meanwhile.
ReturnSettlesAll ==
    /\ handling /\ listed = {}
    /\ handed' = [m \in Mails |-> IF m \in parsed THEN Append(handed[m], Parse(Text[m]))
                                                  ELSE handed[m]]
    /\ handling' = FALSE
    /\ parsed' = {}
    /\ pushes' = 0
    /\ UNCHANGED <<sent, unread, listed, failed>>

\* handle_push returns, and the route answers; the answer may not reach Pub/Sub.
Return ==
    /\ handling /\ listed = {}
    /\ handed' = [m \in Mails |-> IF m \in parsed THEN Append(handed[m], Parse(Text[m]))
                                                  ELSE handed[m]]
    /\ handling' = FALSE
    /\ parsed' = {}
    /\ pushes' \in {pushes - 1, pushes}
    /\ UNCHANGED <<sent, unread, listed, failed>>

Next ==
    \/ \E m \in Mails : Send(m) \/ HandleMail(m) \/ MarkFails(m)
    \/ StartPush \/ Return \/ Crash

Spec == Init /\ [][Next]_vars

(***************************************************************************)
(* Pub/Sub delivers again what was not answered, and handle_push runs.     *)
(* Gmail and the process may fail over and over, but not every time.       *)
(***************************************************************************)
FairSpec ==
    /\ Spec
    /\ WF_vars(StartPush)
    /\ WF_vars(Return)
    /\ \A m \in Mails : SF_vars(HandleMail(m))

-------------------------------------------------------------------------------
TypeOK ==
    /\ sent \subseteq Mails /\ unread \subseteq Mails
    /\ listed \subseteq Mails /\ parsed \subseteq Mails
    /\ pushes \in 0 .. Cardinality(Mails)
    /\ handling \in BOOLEAN /\ failed \in BOOLEAN
    /\ handed \in [Mails -> Seq(Results)]

\* No command is handed on twice, however often its push is delivered and whatever
\* fails: a redelivered push finds the mail read (webhook.py:41-44).
HandedOnce == \A m \in Mails : Len(handed[m]) <= 1

\* Every mail is unread, or on its way in handle_push, or handed on to the Mother
\* (webhook.py:3-5: "emit an OperatorMessage or FormLetter for the Mother Agent to
\* act on").
NoCommandLost == \A m \in sent : m \in unread \cup parsed \/ handed[m] # <<>>

\* So it is as long as every call of handle_push gets to its end, whatever arrives
\* while it is under way.
LostByFailureOnly == ~failed => NoCommandLost

\* Every mail is read, whatever fails on the way.
EveryMailRead == \A m \in Mails : m \in unread ~> m \notin unread

\* What is handed on as a command has a subject with nothing added to it: no shorter
\* subject that it starts with is a command by itself (test_operator_parser.py:51-53:
\* "CONTINUE now" gets a form letter; operator_parser.py:70-127).
NothingAddedToSubject ==
    \A m \in Mails : \A i \in DOMAIN handed[m] :
        handed[m][i].action # FormLetter =>
            \A n \in 0 .. Len(Text[m].subject) - 1 :
                ActionOf(SubSeq(Text[m].subject, 1, n)) = FormLetter
===============================================================================
