-------------------------- MODULE OperatorMailProofs --------------------------
(***************************************************************************)
(* Proofs about OperatorMail, for any number of mails: its safety          *)
(* properties hold however pushes, failures and new mail are interleaved.  *)
(***************************************************************************)
EXTENDS OperatorMail, FiniteSetTheorems, TLAPS

(***************************************************************************)
(* Where a mail can be.  A mail that has been handed on is neither unread  *)
(* nor parsed, so that no later call can hand it on again; and between two *)
(* calls nothing is listed or parsed.                                      *)
(***************************************************************************)
Typed ==
    /\ sent \subseteq Mails /\ unread \subseteq Mails
    /\ listed \subseteq Mails /\ parsed \subseteq Mails
    /\ handling \in BOOLEAN /\ failed \in BOOLEAN
    /\ handed \in [Mails -> Seq(Results)]

Places ==
    /\ listed \subseteq unread
    /\ unread \cup parsed \subseteq sent
    /\ parsed \cap unread = {}
    /\ ~handling => listed = {} /\ parsed = {}

Handed ==
    \A m \in Mails :
        /\ Len(handed[m]) <= 1
        /\ handed[m] # <<>> => m \in sent /\ m \notin unread \cup parsed

IInv == Typed /\ Places /\ Handed /\ LostByFailureOnly

LEMMA ActionTyped == ASSUME NEW words PROVE ActionOf(words) \in Actions \cup {FormLetter}
<1> DEFINE bare == Len(words) = 1 /\ words[1] \in {"CONTINUE", "PAUSE"}
           named == /\ Len(words) = 2 /\ words[1] \in {"APPROVE", "REJECT", "RESUME"}
                    /\ words[2] = "uuid"
           transfer == words = <<"EMERGENCY_TRANSFER", "amount", "reserve->operating">>
           verb == words[1]
           killAll == words = <<"KILL", "ALL">>
           killChild == words = <<"KILL", "uuid">>
<1>1. ActionOf(words) = CASE bare -> verb [] named -> verb [] killAll -> "KILL_ALL"
                          [] killChild -> "KILL_CHILD" [] transfer -> "EMERGENCY_TRANSFER"
                          [] OTHER -> FormLetter
    BY Zenon DEF ActionOf
<1>2. (bare \/ named => verb \in Actions)
    BY DEF Actions
<1>3. {"KILL_ALL", "KILL_CHILD", "EMERGENCY_TRANSFER", FormLetter} \subseteq Actions \cup {FormLetter}
    BY DEF Actions
<1> HIDE DEF bare, named, transfer, verb, killAll, killChild
<1>4. QED BY <1>1, <1>2, <1>3

LEMMA ParseResult == ASSUME NEW m \in Mails PROVE Parse(Text[m]) \in Results
<1>1. Text[m].body \in Bodies /\ Excerpt(Text[m].body) \in {"empty", "short"}
    BY TextAssumption DEF Bodies, Excerpt
<1>2. ActionOf(Text[m].subject) \in Actions \cup {FormLetter}
    BY ActionTyped
<1>3. ASSUME NEW action \in Actions \cup {FormLetter}, NEW excerpt \in {"empty", "short"}
      PROVE  [action |-> action, excerpt |-> excerpt] \in Results
    BY DEF Results
<1>4. QED BY <1>1, <1>2, <1>3 DEF Parse

LEMMA InitIInv == Init => IInv
<1> SUFFICES ASSUME Init PROVE IInv
    OBVIOUS
<1>1. \A m \in Mails : handed[m] = <<>> /\ Len(handed[m]) = 0
    BY DEF Init
<1>2. handed \in [Mails -> Seq(Results)]
    BY DEF Init
<1>3. Typed /\ Places
    BY <1>2 DEF Init, Typed, Places
<1>4. Handed
    BY <1>1 DEF Handed
<1>5. LostByFailureOnly
    BY DEF Init, LostByFailureOnly, NoCommandLost
<1>6. QED BY <1>3, <1>4, <1>5 DEF IInv

LEMMA SendStep ==
    ASSUME IInv, NEW m \in Mails, Send(m) PROVE IInv'
<1>1. Typed'
    BY DEF IInv, Typed, Send
<1>2. Places'
    BY DEF IInv, Places, Send
<1>3. Handed'
    BY DEF IInv, Handed, Places, Send
<1>4. LostByFailureOnly'
    BY DEF IInv, LostByFailureOnly, NoCommandLost, Send
<1>5. QED BY <1>1, <1>2, <1>3, <1>4 DEF IInv

LEMMA StartPushStep ==
    ASSUME IInv, StartPush PROVE IInv'
<1>1. Typed'
    BY DEF IInv, Typed, StartPush
<1>2. Places'
    BY DEF IInv, Places, StartPush
<1>3. Handed'
    BY DEF IInv, Handed, StartPush
<1>4. LostByFailureOnly'
    BY DEF IInv, Places, LostByFailureOnly, NoCommandLost, StartPush
<1>5. QED BY <1>1, <1>2, <1>3, <1>4 DEF IInv

LEMMA HandleMailStep ==
    ASSUME IInv, NEW m \in Mails, HandleMail(m) PROVE IInv'
<1>1. Typed'
    BY DEF IInv, Typed, HandleMail
<1>2. Places'
    BY DEF IInv, Places, HandleMail
<1>3. Handed'
    BY DEF IInv, Handed, Places, HandleMail
<1>4. LostByFailureOnly'
    BY DEF IInv, LostByFailureOnly, NoCommandLost, HandleMail
<1>5. QED BY <1>1, <1>2, <1>3, <1>4 DEF IInv

\* A call that is cut short forgets what it has parsed: from here on commands may
\* be lost, and still none is handed on twice.
LEMMA CutShortStep ==
    ASSUME IInv, CutShort, unread' \subseteq unread PROVE IInv'
<1>1. Typed'
    BY DEF IInv, Typed, CutShort
<1>2. Places'
    BY DEF IInv, Places, CutShort
<1>3. Handed'
    BY DEF IInv, Handed, CutShort
<1>4. LostByFailureOnly'
    BY DEF LostByFailureOnly, CutShort
<1>5. QED BY <1>1, <1>2, <1>3, <1>4 DEF IInv

LEMMA ReturnStep ==
    ASSUME IInv, Return PROVE IInv'
<1>1. ASSUME NEW m \in Mails
      PROVE  /\ handed'[m] \in Seq(Results)
             /\ Len(handed'[m]) <= 1
             /\ m \in parsed => handed'[m] # <<>>
             /\ m \notin parsed => handed'[m] = handed[m]
    <2>1. handed[m] \in Seq(Results) /\ Len(handed[m]) <= 1
        BY DEF IInv, Typed, Handed
    <2>2. CASE m \in parsed
        <3>1. handed[m] = <<>>
            BY <2>2 DEF IInv, Handed
        <3>2. handed'[m] = Append(<<>>, Parse(Text[m]))
            BY <2>2, <3>1 DEF Return
        <3>3. handed'[m] = <<Parse(Text[m])>>
            BY <3>2
        <3>4. QED BY <2>2, <3>3, ParseResult
    <2>3. CASE m \notin parsed
        BY <2>1, <2>3 DEF Return
    <2>4. QED BY <2>2, <2>3
<1>2. Typed'
    <2>1. handed' \in [Mails -> Seq(Results)]
        BY <1>1 DEF Return
    <2>2. QED BY <2>1 DEF IInv, Typed, Return
<1>3. Places'
    BY DEF IInv, Places, Return
<1>4. Handed'
    BY <1>1 DEF IInv, Handed, Places, Return
<1>5. LostByFailureOnly'
    <2> SUFFICES ASSUME ~failed, NEW m \in sent, m \notin unread PROVE handed'[m] # <<>>
        BY DEF LostByFailureOnly, NoCommandLost, Return
    <2>1. m \in parsed \/ handed[m] # <<>>
        BY DEF IInv, LostByFailureOnly, NoCommandLost
    <2>2. QED BY <1>1, <2>1 DEF IInv, Typed
<1>6. QED BY <1>2, <1>3, <1>4, <1>5 DEF IInv

LEMMA AlwaysIInv == Spec => []IInv
<1>1. IInv /\ [Next]_vars => IInv'
    <2> SUFFICES ASSUME IInv, [Next]_vars PROVE IInv'
        OBVIOUS
    <2>1. CASE \E m \in Mails : Send(m)
        BY <2>1, SendStep
    <2>2. CASE \E m \in Mails : HandleMail(m)
        BY <2>2, HandleMailStep
    <2>3. CASE \E m \in Mails : MarkFails(m)
        <3>1. unread' \subseteq unread /\ CutShort
            BY <2>3 DEF MarkFails
        <3>2. QED BY <3>1, CutShortStep
    <2>4. CASE StartPush
        BY <2>4, StartPushStep
    <2>5. CASE Return
        BY <2>5, ReturnStep
    <2>6. CASE Crash
        <3>1. unread' \subseteq unread /\ CutShort
            BY <2>6 DEF Crash
        <3>2. QED BY <3>1, CutShortStep
    <2>7. CASE UNCHANGED vars
        BY <2>7 DEF vars, IInv, Typed, Places, Handed, LostByFailureOnly, NoCommandLost
    <2>8. QED BY <2>1, <2>2, <2>3, <2>4, <2>5, <2>6, <2>7 DEF Next
<1>2. QED BY <1>1, InitIInv, PTL DEF Spec

\* No command is handed on twice, however often its push is delivered and whatever
\* fails (OperatorMail.HandedOnce; webhook.py:41-44).
THEOREM CommandsHandedOnce == Spec => []HandedOnce
<1>1. IInv => HandedOnce
    BY DEF IInv, Handed, HandedOnce
<1>2. QED BY <1>1, AlwaysIInv, PTL

\* As long as no call of handle_push is cut short, no command is lost
\* (OperatorMail.LostByFailureOnly; webhook.py:3-5).
THEOREM CommandsLostByFailureOnly == Spec => []LostByFailureOnly
<1>1. IInv => LostByFailureOnly
    BY DEF IInv
<1>2. QED BY <1>1, AlwaysIInv, PTL

-------------------------------------------------------------------------------
(* The pushes that Pub/Sub still has to get an answer to. *)

(***************************************************************************)
(* Each mail brings one push, and only a call of handle_push that answers  *)
(* takes one away: the one it was made for, which is still there.          *)
(***************************************************************************)
Counted ==
    /\ pushes \in Nat
    /\ pushes <= Cardinality(sent)
    /\ handling => pushes > 0

LEMMA CountedStep == ASSUME IInv, Counted, [Next]_vars PROVE Counted'
<1>1. IsFiniteSet(sent) /\ Cardinality(sent) \in Nat
    BY MailsAssumption, FS_Subset, FS_CardinalityType DEF IInv, Typed
<1>2. CASE \E m \in Mails : Send(m)
    <2>1. PICK m \in Mails : Send(m)
        BY <1>2
    <2>2. Cardinality(sent \cup {m}) = Cardinality(sent) + 1
        BY <1>1, <2>1, FS_AddElement DEF Send
    <2>3. sent' = sent \cup {m} /\ pushes' = pushes + 1 /\ handling' = handling
        BY <2>1 DEF Send
    <2>4. QED BY <1>1, <2>2, <2>3 DEF Counted
<1>3. CASE StartPush
    BY <1>3 DEF Counted, StartPush
<1>4. CASE \E m \in Mails : HandleMail(m) \/ MarkFails(m)
    BY <1>4 DEF Counted, HandleMail, MarkFails, CutShort
<1>5. CASE Return
    <2>1. pushes' \in {pushes - 1, pushes} /\ pushes > 0 /\ handling' = FALSE /\ sent' = sent
        BY <1>5 DEF Counted, Return
    <2>2. QED BY <1>1, <2>1 DEF Counted
<1>6. CASE Crash
    BY <1>6 DEF Counted, Crash, CutShort
<1>7. CASE UNCHANGED vars
    BY <1>7 DEF Counted, vars
<1>8. QED BY <1>2, <1>3, <1>4, <1>5, <1>6, <1>7 DEF Next

\* The state keeps its types; no more pushes are waiting than there are mails
\* (OperatorMail.TypeOK; webhook.py:25-46).
THEOREM MailTypeCorrect == Spec => []TypeOK
<1>1. Init => Counted
    <2>1. Cardinality({}) = 0
        BY FS_EmptySet
    <2>2. QED BY <2>1 DEF Init, Counted
<1>2. IInv /\ Counted => TypeOK
    <2> SUFFICES ASSUME IInv, Counted PROVE TypeOK
        OBVIOUS
    <2>1. Cardinality(Mails) \in Nat /\ Cardinality(sent) \in Nat
              /\ Cardinality(sent) <= Cardinality(Mails)
        BY MailsAssumption, FS_Subset, FS_CardinalityType DEF IInv, Typed
    <2>2. pushes \in 0 .. Cardinality(Mails)
        BY <2>1 DEF Counted
    <2>3. QED BY <2>2 DEF IInv, Typed, TypeOK
<1>3. QED BY <1>1, <1>2, CountedStep, AlwaysIInv, PTL DEF Spec

(***************************************************************************)
(* Mail that came after a call of handle_push had listed its own is not    *)
(* listed, and each such mail brought a push besides the one under way.    *)
(***************************************************************************)
Awaited ==
    /\ unread # {} => pushes > 0
    /\ handling => Cardinality(unread \ listed) < pushes

LEMMA AwaitedStep == ASSUME IInv, Counted, Awaited, [Next]_vars PROVE Awaited'
<1> DEFINE late == unread \ listed
<1>1. /\ IsFiniteSet(unread) /\ Cardinality(unread) \in Nat
      /\ IsFiniteSet(late) /\ Cardinality(late) \in Nat
      /\ pushes \in Nat
    BY MailsAssumption, FS_Subset, FS_CardinalityType DEF IInv, Typed, Counted
<1>2. CASE \E m \in Mails : Send(m)
    <2>1. PICK m \in Mails : Send(m)
        BY <1>2
    <2>2. m \notin unread /\ m \notin listed
        BY <2>1 DEF Send, IInv, Places
    <2>3. (unread \ listed)' = late \cup {m}
        BY <2>1, <2>2 DEF Send
    <2>4. Cardinality(late \cup {m}) = Cardinality(late) + 1
        BY <1>1, <2>2, FS_AddElement
    <2>5. pushes' = pushes + 1 /\ handling' = handling
        BY <2>1 DEF Send
    <2>6. pushes' > 0
        BY <1>1, <2>5 DEF Counted
    <2>7. handling => Cardinality(late) < pushes
        BY DEF Awaited
    <2>8. Cardinality((unread \ listed)') = Cardinality(late) + 1
        BY <2>3, <2>4
    <2> HIDE DEF late
    <2>9. handling' => Cardinality((unread \ listed)') < pushes'
        BY <1>1, <2>5, <2>7, <2>8
    <2>10. QED BY <2>6, <2>9 DEF Awaited
<1>3. CASE StartPush
    <2>1. (unread \ listed)' = {} /\ unread' = unread /\ pushes' = pushes /\ pushes > 0
        BY <1>3 DEF StartPush
    <2>2. QED BY <2>1, FS_EmptySet DEF Awaited
<1>4. CASE \E m \in Mails : HandleMail(m)
    <2>1. (unread \ listed)' = late /\ unread' \subseteq unread
              /\ pushes' = pushes /\ handling' = handling
        BY <1>4 DEF HandleMail
    <2>2. QED BY <2>1 DEF Awaited
<1>5. CASE (\E m \in Mails : MarkFails(m)) \/ Crash
    <2>1. unread' \subseteq unread /\ handling' = FALSE /\ pushes' = pushes
        BY <1>5 DEF MarkFails, Crash, CutShort
    <2>2. QED BY <2>1 DEF Awaited
<1>6. CASE Return
    <2>1. /\ late = unread /\ unread' = unread /\ handling' = FALSE
          /\ handling /\ pushes' \in {pushes - 1, pushes}
        BY <1>6 DEF Return
    <2>2. Cardinality(unread) < pushes
        BY <2>1 DEF Awaited
    <2>3. unread # {} => Cardinality(unread) # 0
        BY <1>1, FS_EmptySet
    <2>4. QED BY <1>1, <2>1, <2>2, <2>3 DEF Awaited
<1>7. CASE UNCHANGED vars
    BY <1>7 DEF Awaited, vars
<1>8. QED BY <1>2, <1>3, <1>4, <1>5, <1>6, <1>7 DEF Next

\* While a mail is unread, Pub/Sub has a push to deliver again: none is forgotten when it
\* arrives during a call, or when a call fails or its answer is lost.  This is what
\* OperatorMail.EveryMailRead rests on beside fairness (webhook.py:35-46).
THEOREM UnreadMailAwaited == Spec => [](unread # {} => pushes > 0)
<1>1. Init => Counted /\ Awaited
    <2>1. Cardinality({}) = 0
        BY FS_EmptySet
    <2>2. QED BY <2>1 DEF Init, Counted, Awaited
<1>2. Awaited => (unread # {} => pushes > 0)
    BY DEF Awaited
<1>3. QED BY <1>1, <1>2, CountedStep, AwaitedStep, AlwaysIInv, PTL DEF Spec

-------------------------------------------------------------------------------
(* What is handed on as a command. *)

\* What a command looks like: its verb and its number of words.
LEMMA CommandShape ==
    ASSUME NEW words, ActionOf(words) # FormLetter
    PROVE  \/ Len(words) = 1 /\ words[1] \in {"CONTINUE", "PAUSE"}
           \/ Len(words) = 2 /\ words[1] \in {"APPROVE", "REJECT", "RESUME", "KILL"}
           \/ Len(words) = 3 /\ words[1] = "EMERGENCY_TRANSFER"
<1> DEFINE bare == Len(words) = 1 /\ words[1] \in {"CONTINUE", "PAUSE"}
           named == /\ Len(words) = 2 /\ words[1] \in {"APPROVE", "REJECT", "RESUME"}
                    /\ words[2] = "uuid"
           transfer == words = <<"EMERGENCY_TRANSFER", "amount", "reserve->operating">>
           verb == words[1]
           killAll == words = <<"KILL", "ALL">>
           killChild == words = <<"KILL", "uuid">>
<1>1. ActionOf(words) = CASE bare -> verb [] named -> verb [] killAll -> "KILL_ALL"
                          [] killChild -> "KILL_CHILD" [] transfer -> "EMERGENCY_TRANSFER"
                          [] OTHER -> FormLetter
    BY Zenon DEF ActionOf
<1>2. /\ killAll \/ killChild => Len(words) = 2 /\ words[1] = "KILL"
      /\ transfer => Len(words) = 3 /\ words[1] = "EMERGENCY_TRANSFER"
    OBVIOUS
<1>3. bare \/ named \/ killAll \/ killChild \/ transfer
    <2> HIDE DEF bare, named, transfer, verb, killAll, killChild
    <2>1. QED BY <1>1
<1>4. QED BY <1>2, <1>3

\* For every subject line: no proper beginning of a command is a command
\* (operator_parser.py: each branch wants its exact number of words).
LEMMA CommandIsWhole ==
    ASSUME NEW words \in Seq(Words), ActionOf(words) # FormLetter, NEW n \in 0 .. Len(words) - 1
    PROVE  ActionOf(SubSeq(words, 1, n)) = FormLetter
<1> DEFINE start == SubSeq(words, 1, n)
<1>1. Len(start) = n /\ (n > 0 => start[1] = words[1])
    OBVIOUS
<1>2. n < Len(words)
    OBVIOUS
<1> HIDE DEF start
<1>3. SUFFICES ASSUME ActionOf(start) # FormLetter PROVE FALSE
    BY DEF start
<1>4. QED BY <1>1, <1>2, <1>3, CommandShape

\* A result that was handed on for a mail is what parse() makes of it.
HandedAsWritten == \A m \in Mails : handed[m] \in {<<>>, <<Parse(Text[m])>>}

LEMMA HandedAsWrittenStep == ASSUME IInv, HandedAsWritten, [Next]_vars PROVE HandedAsWritten'
<1>1. CASE UNCHANGED handed
    BY <1>1 DEF HandedAsWritten
<1>2. CASE Return
    <2> SUFFICES ASSUME NEW m \in Mails PROVE handed'[m] \in {<<>>, <<Parse(Text[m])>>}
        BY DEF HandedAsWritten
    <2>1. CASE m \in parsed
        <3>1. handed[m] = <<>>
            BY <2>1 DEF IInv, Handed
        <3>2. handed'[m] = Append(<<>>, Parse(Text[m]))
            BY <1>2, <2>1, <3>1 DEF Return
        <3>3. QED BY <3>2
    <2>2. CASE m \notin parsed
        BY <1>2, <2>2 DEF Return, HandedAsWritten
    <2>3. QED BY <2>1, <2>2
<1>3. UNCHANGED handed \/ Return
    BY DEF Next, vars, Send, StartPush, HandleMail, MarkFails, Crash, CutShort
<1>4. QED BY <1>1, <1>2, <1>3

\* No mail is handed on as a command whose subject begins with a shorter command
\* (OperatorMail.NothingAddedToSubject; operator_parser.py:70-127).
THEOREM CommandsAreWhole == Spec => []NothingAddedToSubject
<1>1. Init => HandedAsWritten
    BY DEF Init, HandedAsWritten
<1>2. HandedAsWritten => NothingAddedToSubject
    <2> SUFFICES ASSUME HandedAsWritten, NEW m \in Mails, NEW i \in DOMAIN handed[m],
                        handed[m][i].action # FormLetter,
                        NEW n \in 0 .. Len(Text[m].subject) - 1
                 PROVE  ActionOf(SubSeq(Text[m].subject, 1, n)) = FormLetter
        BY DEF NothingAddedToSubject
    <2>1. handed[m][i] = Parse(Text[m])
        BY DEF HandedAsWritten
    <2>2. ActionOf(Text[m].subject) # FormLetter
        BY <2>1 DEF Parse
    <2>3. Text[m].subject \in Seq(Words)
        BY TextAssumption
    <2>4. QED BY <2>2, <2>3, CommandIsWhole
<1>3. QED BY <1>1, <1>2, HandedAsWrittenStep, AlwaysIInv, PTL DEF Spec
===============================================================================
