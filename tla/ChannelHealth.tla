----------------------------- MODULE ChannelHealth -----------------------------
(***************************************************************************)
(* Channel health, aae/channels: run_health_cycle() asks every client one  *)
(* after the other, with an await for each, and then writes all the rows.  *)
(* A client turns what httpx raises into a status; a reply that is not     *)
(* JSON raises something else in the clients that decode it, and the cycle *)
(* ends without a row.  The Mother consults the last row of each channel.  *)
(***************************************************************************)
EXTENDS Integers, Sequences, FiniteSets

CONSTANTS
    Channels,     \* the channels with a client
    Clients,      \* in which order they are asked
    JsonClients,  \* those whose health() decodes the reply
    Cycles        \* callers of run_health_cycle

ASSUME ChannelAssumption ==
    /\ Clients \in Seq(Channels) /\ Len(Clients) > 0
    /\ \A c \in Channels : \E i \in 1 .. Len(Clients) : Clients[i] = c
    /\ JsonClients \subseteq Channels /\ IsFiniteSet(Channels)

VARIABLES
    truth,   \* how each channel would answer now
    latest,  \* channel_health: the last row of each channel
    asking,  \* which client each cycle asks next, 0 when it is idle
    found,   \* what it has found
    wasUp,   \* history: channels that would have answered since it began
    basis    \* history: wasUp of the cycle that wrote the last rows

healthVars == <<truth, latest, asking, found, wasUp, basis>>

\* What a channel may answer; a reply that is not read cannot be garbled.
Answers == {"up", "down", "garbled"}
Answer(c) == IF c \in JsonClients THEN Answers ELSE {"up", "down"}

\* health(): whether the channel is ok, for a client that does not raise.
Ok(c) == truth[c] # "down"
Raises(c) == truth[c] = "garbled"

Up == {c \in Channels : truth[c] # "down"}

HealthInit ==
    /\ truth \in [Channels -> Answers] /\ \A c \in Channels : truth[c] \in Answer(c)
    /\ latest = [c \in Channels |-> "none"]
    /\ asking = [k \in Cycles |-> 0]
    /\ found = [k \in Cycles |-> [c \in Channels |-> "none"]]
    /\ wasUp = [k \in Cycles |-> {}]
    /\ basis = {}

StartCycle(k) ==
    /\ asking[k] = 0
    /\ asking' = [asking EXCEPT ![k] = 1]
    /\ wasUp' = [wasUp EXCEPT ![k] = Up]
    /\ UNCHANGED <<truth, latest, found, basis>>

\* The cycle ends, and its list of statuses is gone.
EndCycle(k) ==
    /\ asking' = [asking EXCEPT ![k] = 0]
    /\ found' = [found EXCEPT ![k] = [c \in Channels |-> "none"]]
    /\ wasUp' = [wasUp EXCEPT ![k] = {}]

\* The client that is asked, once it has an answer.
Asked(k) == Clients[asking[k]]
Status(c) == IF Ok(c) THEN "ok" ELSE "failed"

\* A faulty cycle that keeps the rows of the one before for the channels that fail.
WithStatusOfOk(k) ==
    IF Ok(Asked(k)) THEN [found[k] EXCEPT ![Asked(k)] = "ok"]
                    ELSE [found[k] EXCEPT ![Asked(k)] = latest[Asked(k)]]

WithStatusOf(k) == [found[k] EXCEPT ![Asked(k)] = Status(Asked(k))]

\* check_all() goes on to the next client ...
CheckNext(k) ==
    /\ asking[k] \in 1 .. Len(Clients) - 1 /\ ~Raises(Asked(k))
    /\ found' = [found EXCEPT ![k] = WithStatusOf(k)]
    /\ asking' = [asking EXCEPT ![k] = @ + 1]
    /\ UNCHANGED <<truth, latest, wasUp, basis>>

\* ... and after the last one persist() writes them all, without another await.
CheckLast(k) ==
    /\ asking[k] = Len(Clients) /\ ~Raises(Asked(k))
    /\ latest' = WithStatusOf(k)
    /\ basis' = wasUp[k]
    /\ EndCycle(k)
    /\ UNCHANGED truth

\* A client raises: the cycle ends, and no row is written.
CheckRaises(k) ==
    /\ asking[k] # 0 /\ Raises(Asked(k))
    /\ EndCycle(k)
    /\ UNCHANGED <<truth, latest, basis>>

\* A channel changes.
Change(c, answer) ==
    /\ answer \in Answer(c) \ {truth[c]}
    /\ truth' = [truth EXCEPT ![c] = answer]
    /\ wasUp' = [k \in Cycles |-> IF asking[k] # 0 /\ answer # "down"
                                  THEN wasUp[k] \cup {c} ELSE wasUp[k]]
    /\ UNCHANGED <<latest, asking, found, basis>>

HealthNext ==
    \/ \E k \in Cycles : StartCycle(k) \/ CheckNext(k) \/ CheckLast(k) \/ CheckRaises(k)
    \/ \E c \in Channels, answer \in Answers : Change(c, answer)

-------------------------------------------------------------------------------
HealthTypeOK ==
    /\ truth \in [Channels -> Answers]
    /\ latest \in [Channels -> {"none", "ok", "failed"}]
    /\ asking \in [Cycles -> 0 .. Len(Clients)]
    /\ found \in [Cycles -> [Channels -> {"none", "ok", "failed"}]]
    /\ wasUp \in [Cycles -> SUBSET Channels]
    /\ basis \subseteq Channels
===============================================================================
