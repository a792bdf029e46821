------------------------------- MODULE Expansion -------------------------------
(***************************************************************************)
(* The Mother's gate on new verticals among what it is asked about: the    *)
(* channels' last rows (ChannelHealth) and the live children               *)
(* (ChildSupervisor).  A proposal takes days to be reviewed and approved;  *)
(* meanwhile revenue and channels change, children die, and the gate may   *)
(* be asked again.  Who asks it is not in the repository: the model lets   *)
(* it be asked at any moment.                                              *)
(***************************************************************************)
EXTENDS ChildSupervisor, ChannelHealth, MotherLadder

CONSTANTS RevenueLevels, NoChannel

ASSUME ExpansionAssumption ==
    RevenueLevels \subseteq Int /\ NoChannel \notin Channels /\ IsFiniteSet(Children)

VARIABLES
    trailing,  \* trailing 30-day revenue
    out,       \* children proposed, and not yet approved or rejected
    channel,   \* the revenue channel of the children proposed or live
    cap,       \* history: the limit that held when a proposal was let through
    joined     \* history: children that went live since

expansionVars == <<trailing, out, channel, cap, joined>>
allVars == <<vars, healthVars, expansionVars>>

ExpansionInit ==
    /\ Init /\ HealthInit
    /\ trailing \in RevenueLevels
    /\ out = {}
    /\ channel = [c \in Children |-> NoChannel]
    /\ cap = [c \in Children |-> 0]
    /\ joined = [c \in Children |-> 0]

LiveChannels == Cardinality({c \in Channels : latest[c] = "ok"})

-------------------------------------------------------------------------------
\* The gate lets a proposal on a channel through; a refusal changes nothing.
Propose(c, on) ==
    /\ c \notin out \cup Registered
    /\ Gate(trailing, LiveChannels, Cardinality(Live)) = "ok"
    /\ MayUse(Live, channel, on)
    /\ out' = out \cup {c}
    /\ channel' = [channel EXCEPT ![c] = on]
    /\ cap' = [cap EXCEPT ![c] = Cap(trailing, LiveChannels)]
    /\ UNCHANGED <<vars, healthVars, trailing, joined>>

\* A faulty decision that leaves the proposal on the table.
SettleNever(c) ==
    /\ c \in out
    /\ UNCHANGED <<out, cap>>

\* A proposal leaves the table.
Settle(c) ==
    /\ c \in out
    /\ out' = out \ {c}
    /\ cap' = [cap EXCEPT ![c] = 0]

\* The operator approves it, and the child goes live or is still starting.
Approve(c, status) ==
    /\ Register(c, status, now, 0, 0)
    /\ Settle(c)
    /\ joined' = [d \in Children |->
                     IF d \in out \ {c} THEN joined[d] + (IF status = "live" THEN 1 ELSE 0)
                                        ELSE 0]
    /\ channel' = [channel EXCEPT ![c] = IF status = "live" THEN @ ELSE NoChannel]
    /\ UNCHANGED <<healthVars, trailing>>

\* The auditor or the operator rejects it.
Reject(c) ==
    /\ Settle(c)
    /\ joined' = [joined EXCEPT ![c] = 0]
    /\ channel' = [channel EXCEPT ![c] = NoChannel]
    /\ UNCHANGED <<vars, healthVars, trailing>>

\* The supervisor kills a live child; a pause takes it off the live ones as well.
Halt(c) ==
    /\ c \in Live /\ Kill(c)
    /\ channel' = [channel EXCEPT ![c] = NoChannel]
    /\ UNCHANGED <<healthVars, trailing, out, cap, joined>>

Trade ==
    /\ trailing' \in RevenueLevels \ {trailing}
    /\ UNCHANGED <<vars, healthVars, out, channel, cap, joined>>

Watch == HealthNext /\ UNCHANGED <<vars, expansionVars>>

ExpansionNext ==
    \/ \E c \in Children, on \in Channels : Propose(c, on)
    \/ \E c \in Children, status \in {"starting", "live"} : Approve(c, status)
    \/ \E c \in Children : Reject(c) \/ Halt(c)
    \/ Trade
    \/ Watch

ExpansionSpec == ExpansionInit /\ [][ExpansionNext]_allVars

-------------------------------------------------------------------------------
ExpansionTypeOK ==
    /\ TypeOK /\ HealthTypeOK
    /\ trailing \in RevenueLevels
    /\ out \subseteq Children \ Registered
    /\ channel \in [Children -> Channels \cup {NoChannel}]
    /\ \A c \in Children : channel[c] # NoChannel <=> c \in out \cup Live
    /\ cap \in [Children -> 0 .. 8]
    /\ joined \in [Children -> Nat]
    /\ \A c \in Children \ out : cap[c] = 0 /\ joined[c] = 0

\* The child that is approved in a step.
Approved(c) == c \in Registered' \ Registered

\* However long an approval takes, a child that is started brings the live ones above
\* the limit of its proposal only by as many as went live after it: two gates in a row
\* count the same children (mother_agent.py:71, child_supervisor.py:144).
CapByOverlapOnly ==
    [][\A c \in Children : Approved(c) => Cardinality(Live') <= cap[c] + joined[c]]_allVars

\* No third live child shares a channel, unless it overtook another proposal
\* (mother_agent.py:79-83: the third vertical must differ from the first two).
TwoShareAtMost ==
    [][\A c \in Children : Approved(c) =>
           Cardinality({d \in Live' : channel[d] = channel[c]}) <= 2 + joined[c]]_allVars

\* From $500 on a proposal passes only if two channels did answer while the last health
\* cycle that wrote its rows was running, however many cycles failed or overlapped since
\* (mother_agent.py:69, channels/health.py:18-45).
TwoChannelsAnswered ==
    [][\A c \in Children : c \in out' \ out /\ trailing >= 500 =>
           Cardinality(basis) >= 2]_allVars
===============================================================================
