--------------------------- MODULE FrozenPathsProofs ---------------------------
(***************************************************************************)
(* Theorems about FrozenPaths.  The inductive invariant adds to the types  *)
(* what a command knows half way: each file it has hashed and that nobody  *)
(* has edited since still contains what it has computed the hash of.       *)
(***************************************************************************)
EXTENDS FrozenPaths, TLAPS

\* What a command has hashed so far.
HashedSoFar ==
    \A j \in Jobs : \A i \in 1 .. Len(Order) : reading[j] # "idle" /\ i < next[j] =>
        /\ seen[j][Order[i]] \in Contents
        /\ Order[i] \notin touched[j] => seen[j][Order[i]] = file[Order[i]]

\* A job that is idle has hashed nothing, one that writes the lock has hashed every file.
Positions ==
    \A j \in Jobs :
        /\ reading[j] = "idle" => next[j] = 1
        /\ reading[j] = "writing" => next[j] = Len(Order) + 1

IInv == TypeOK /\ HashedSoFar /\ Positions

-------------------------------------------------------------------------------
LEMMA OrderListsPaths ==
    /\ Len(Order) \in Nat
    /\ \A i \in 1 .. Len(Order) : Order[i] \in Paths
    /\ \A p \in Paths : \E i \in 1 .. Len(Order) : Order[i] = p
BY FrozenAssumption

\* A command that has hashed every file knows them all.
LEMMA KnowsEveryFile ==
    ASSUME IInv, NEW j \in Jobs, reading[j] # "idle", next[j] = Len(Order) + 1
    PROVE  /\ seen[j] \in [Paths -> Contents]
           /\ \A p \in Paths \ touched[j] : seen[j][p] = file[p]
<1>1. ASSUME NEW p \in Paths
      PROVE  /\ seen[j][p] \in Contents
             /\ p \notin touched[j] => seen[j][p] = file[p]
  <2>1. PICK i \in 1 .. Len(Order) : Order[i] = p
    BY OrderListsPaths
  <2>2. i < next[j]
    BY OrderListsPaths
  <2> QED BY <2>1, <2>2 DEF IInv, HashedSoFar
<1>2. seen[j] \in [Paths -> Contents \cup {Unread}]
  BY DEF IInv, TypeOK
<1> QED BY <1>1, <1>2

LEMMA FullHashIsObject ==
    ASSUME NEW hashes \in [Paths -> Contents]
    PROVE  hashes \in Objects /\ hashes # Absent /\ hashes # Torn
<1>1. hashes \in Objects
  BY DEF Objects
<1> QED BY <1>1, FrozenAssumption

LEMMA ReadLockIsObject ==
    ASSUME lock \in Objects \cup {Absent, Torn}, lock # Torn
    PROVE  ReadLock \in Objects
<1>1. CASE lock = Absent
  <2>1. [p \in {} |-> Missing] \in [{} -> Contents]
    OBVIOUS
  <2> QED BY <1>1, <2>1 DEF ReadLock, Objects
<1>2. CASE lock # Absent
  BY <1>2 DEF ReadLock
<1> QED BY <1>1, <1>2

-------------------------------------------------------------------------------
LEMMA InitInvariant == Init => IInv
<1> SUFFICES ASSUME Init PROVE IInv
  OBVIOUS
<1>1. 1 \in 1 .. Len(Order) + 1
  BY OrderListsPaths
<1>2. lock \in Objects \cup {Absent, Torn} /\ file \in [Paths -> Contents \cup {Missing}]
  BY DEF Init
<1>3. seen \in [Jobs -> [Paths -> Contents \cup {Unread}]]
  BY DEF Init
<1>4. TypeOK
  BY <1>1, <1>2, <1>3 DEF Init, TypeOK, Commands, Outcomes
<1>5. HashedSoFar /\ Positions
  BY DEF Init, HashedSoFar, Positions
<1> QED BY <1>4, <1>5 DEF IInv

LEMMA StepInvariant == IInv /\ [Next]_vars => IInv'
<1> SUFFICES ASSUME IInv, [Next]_vars PROVE IInv'
  OBVIOUS
<1> USE OrderListsPaths DEF IInv
<1>1. ASSUME NEW j \in Jobs, NEW c \in Commands, Start(j, c) PROVE IInv'
  <2>1. CASE c = "update" /\ ~changelog
    <3>1. End(j, "error") /\ UNCHANGED <<file, lock, changelog, cutShort, edits>>
      BY <1>1, <2>1 DEF Start
    <3>2. TypeOK'
      BY <1>1, <3>1 DEF Start, End, TypeOK, Outcomes
    <3>3. HashedSoFar' /\ Positions'
      BY <1>1, <3>1 DEF Start, End, TypeOK, HashedSoFar, Positions
    <3> QED BY <3>2, <3>3
  <2>2. CASE ~(c = "update" /\ ~changelog)
    <3>1. /\ reading' = [reading EXCEPT ![j] = "hashing"]
          /\ outcome' = [outcome EXCEPT ![j] = "none"]
          /\ UNCHANGED <<next, seen, file, lock, changelog, cutShort, edits>>
      BY <1>1, <2>2 DEF Start
    <3>2. TypeOK'
      BY <1>1, <3>1 DEF Start, TypeOK, Outcomes
    <3>3. HashedSoFar' /\ Positions'
      BY <1>1, <3>1 DEF Start, TypeOK, HashedSoFar, Positions
    <3> QED BY <3>2, <3>3
  <2> QED BY <2>1, <2>2
<1>2. ASSUME NEW j \in Jobs, HashNext(j) PROVE IInv'
  <2>1. Order[next[j]] \in Paths /\ next[j] \in 1 .. Len(Order)
    BY <1>2 DEF HashNext, Hashing, TypeOK
  <2>2. TypeOK'
    BY <1>2, <2>1 DEF HashNext, Hashing, TypeOK
  <2>3. HashedSoFar'
    BY <1>2, <2>1 DEF HashNext, Hashing, TypeOK, HashedSoFar
  <2>4. Positions'
    BY <1>2 DEF HashNext, Hashing, TypeOK, Positions
  <2> QED BY <2>2, <2>3, <2>4
<1>3. ASSUME NEW j \in Jobs, NEW result \in Outcomes, End(j, result),
             UNCHANGED <<file, touched>>, lock' \in Objects \cup {Absent, Torn},
             UNCHANGED <<changelog, command, edits>>,
             relocked' \in [Jobs -> BOOLEAN], cutShort' \in BOOLEAN
      PROVE  IInv'
  <2>1. TypeOK'
    BY <1>3 DEF End, TypeOK
  <2>2. HashedSoFar' /\ Positions'
    BY <1>3 DEF End, TypeOK, HashedSoFar, Positions
  <2> QED BY <2>1, <2>2
<1>4. ASSUME NEW j \in Jobs, HashMissing(j) PROVE IInv'
  BY <1>3, <1>4 DEF HashMissing, Outcomes, TypeOK
<1>5. ASSUME NEW j \in Jobs, Compare(j) PROVE IInv'
  BY <1>3, <1>5 DEF Compare, Outcomes, TypeOK
<1>6. ASSUME NEW j \in Jobs, OpenLock(j) PROVE IInv'
  <2>1. TypeOK'
    BY <1>6 DEF OpenLock, RelockedBy, TypeOK
  <2>2. HashedSoFar' /\ Positions'
    BY <1>6 DEF OpenLock, Hashed, TypeOK, HashedSoFar, Positions
  <2> QED BY <2>1, <2>2
<1>7. ASSUME NEW j \in Jobs, WriteLock(j) PROVE IInv'
  <2>1. seen[j] \in Objects
    BY <1>7, KnowsEveryFile, FullHashIsObject DEF WriteLock, Positions
  <2> QED BY <1>3, <1>7, <2>1 DEF WriteLock, RelockedBy, Outcomes, TypeOK
<1>8. ASSUME NEW j \in Jobs, Kill(j) PROVE IInv'
  BY <1>3, <1>8 DEF Kill, Outcomes, TypeOK
<1>9. ASSUME NEW p \in Paths, NEW content \in Contents \cup {Missing}, EditFile(p, content)
      PROVE  IInv'
  <2>1. TypeOK'
    BY <1>9 DEF EditFile, jobVars, TypeOK
  <2>2. HashedSoFar' /\ Positions'
    BY <1>9 DEF EditFile, jobVars, TypeOK, HashedSoFar, Positions
  <2> QED BY <2>1, <2>2
<1>10. CASE EditChangelog
  BY <1>10 DEF EditChangelog, jobVars, TypeOK, HashedSoFar, Positions
<1>11. CASE UNCHANGED vars
  BY <1>11 DEF vars, TypeOK, HashedSoFar, Positions
<1> QED BY <1>1, <1>2, <1>4, <1>5, <1>6, <1>7, <1>8, <1>9, <1>10, <1>11 DEF Next, Run

LEMMA Invariant == Spec => []IInv
<1> QED BY InitInvariant, StepInvariant, PTL DEF Spec

\* Every variable of the tool keeps its type: a lock is a whole object unless it is
\* being written or its writer was killed.
THEOREM TypeCorrect == Spec => []TypeOK
<1>1. IInv => TypeOK
  BY DEF IInv
<1> QED BY <1>1, Invariant, PTL

-------------------------------------------------------------------------------
\* A lock that cannot be read is being written, or its writer was killed, for any
\* number of commands at a time (freeze_experiment.py:56-69).
THEOREM TornLocksExplained == Spec => []TornExplained
<1>1. Init => TornExplained
  BY FrozenAssumption DEF Init, TornExplained
<1>2. IInv /\ TornExplained /\ [Next]_vars => TornExplained'
  <2> SUFFICES ASSUME IInv, TornExplained, [Next]_vars PROVE TornExplained'
    OBVIOUS
  <2> USE DEF IInv, TypeOK, TornExplained
  <2>1. ASSUME NEW j \in Jobs, NEW c \in Commands, Start(j, c) PROVE TornExplained'
    BY <2>1 DEF Start, End
  <2>2. ASSUME NEW j \in Jobs, HashNext(j) PROVE TornExplained'
    BY <2>2 DEF HashNext
  <2>3. ASSUME NEW j \in Jobs, HashMissing(j) PROVE TornExplained'
    BY <2>3 DEF HashMissing, Hashing, End
  <2>4. ASSUME NEW j \in Jobs, Compare(j) PROVE TornExplained'
    BY <2>4 DEF Compare, Hashed, End
  <2>5. ASSUME NEW j \in Jobs, OpenLock(j) PROVE TornExplained'
    BY <2>5 DEF OpenLock
  <2>6. ASSUME NEW j \in Jobs, WriteLock(j) PROVE TornExplained'
    BY <2>6, KnowsEveryFile, FullHashIsObject DEF WriteLock, Positions
  <2>7. ASSUME NEW j \in Jobs, Kill(j) PROVE TornExplained'
    BY <2>7 DEF Kill, End
  <2>8. ASSUME NEW p \in Paths, NEW content \in Contents \cup {Missing}, EditFile(p, content)
        PROVE  TornExplained'
    BY <2>8 DEF EditFile, jobVars
  <2>9. CASE EditChangelog \/ UNCHANGED vars
    BY <2>9 DEF EditChangelog, jobVars, vars
  <2> QED BY <2>1, <2>2, <2>3, <2>4, <2>5, <2>6, <2>7, <2>8, <2>9 DEF Next, Run
<1> QED BY <1>1, <1>2, Invariant, PTL DEF Spec

-------------------------------------------------------------------------------
\* What VerdictExact says of one job.
Exact(j) ==
    reading[j] = "idle" /\ ~relocked[j] =>
        /\ outcome[j] = "ok" =>
               /\ lock # Torn
               /\ \A p \in Paths \ touched[j] : Lists(ReadLock, p, file[p])
               /\ command[j] # "verify" => DOMAIN ReadLock = Paths
        /\ outcome[j] = "drift" /\ touched[j] = {} =>
               IF command[j] = "verify"
               THEN \E p \in Paths : ~Lists(ReadLock, p, file[p])
               ELSE ReadLock # file

\* The steps of the other jobs either leave the lock alone or void a verdict.
LEMMA OthersKeepExact ==
    ASSUME IInv, NEW j \in Jobs, NEW k \in Jobs, k # j, Exact(j), Run(k)
    PROVE  Exact(j)'
<1> USE DEF IInv, TypeOK, Exact, ReadLock, Lists
<1>1. ASSUME NEW c \in Commands, Start(k, c) PROVE Exact(j)'
  BY <1>1 DEF Start, End
<1>2. CASE HashNext(k)
  BY <1>2 DEF HashNext
<1>3. CASE HashMissing(k)
  BY <1>3 DEF HashMissing, End
<1>4. CASE Compare(k)
  BY <1>4 DEF Compare, End
<1>5. CASE OpenLock(k) \/ WriteLock(k)
  BY <1>5 DEF OpenLock, WriteLock, RelockedBy
<1>6. CASE Kill(k)
  BY <1>6 DEF Kill, End
<1> QED BY <1>1, <1>2, <1>3, <1>4, <1>5, <1>6 DEF Run

\* A comparison answers for the files as they were hashed.
LEMMA CompareIsExact ==
    ASSUME IInv, NEW j \in Jobs, Compare(j)
    PROVE  Exact(j)'
<1>1. /\ seen[j] \in [Paths -> Contents]
      /\ \A p \in Paths \ touched[j] : seen[j][p] = file[p]
  BY KnowsEveryFile DEF Compare, Hashed
<1>2. UNCHANGED <<file, lock, command, touched>> /\ ReadLock' = ReadLock
  BY DEF Compare, ReadLock
<1>3. command[j] \in {"verify", "verify_exit_code"}
  BY DEF IInv, TypeOK, Compare, Commands, Writers
<1>4. CASE lock = Torn
  BY <1>4 DEF Compare, End, Exact, IInv, TypeOK
<1>5. CASE lock # Torn /\ Agrees(command[j], ReadLock, seen[j])
  <2>1. outcome'[j] = "ok"
    BY <1>5 DEF Compare, End, IInv, TypeOK
  <2>2. \A p \in Paths \ touched[j] : Lists(ReadLock, p, file[p])
    BY <1>1, <1>5 DEF Agrees, Lists
  <2>3. command[j] # "verify" => DOMAIN ReadLock = Paths
    BY <1>1, <1>5 DEF Agrees
  <2> QED BY <1>2, <1>5, <2>1, <2>2, <2>3 DEF Exact, Lists
<1>6. CASE lock # Torn /\ ~Agrees(command[j], ReadLock, seen[j])
  <2>1. outcome'[j] = "drift"
    BY <1>6 DEF Compare, End, IInv, TypeOK
  <2>2. touched[j] = {} => seen[j] = file
    BY <1>1 DEF IInv, TypeOK
  <2>3. touched[j] = {} =>
            IF command[j] = "verify"
            THEN \E p \in Paths : ~Lists(ReadLock, p, file[p])
            ELSE ReadLock # file
    BY <1>6, <2>2 DEF Agrees
  <2> QED BY <1>2, <2>1, <2>3 DEF Exact, Lists
<1> QED BY <1>4, <1>5, <1>6

LEMMA WriteIsExact ==
    ASSUME IInv, NEW j \in Jobs, WriteLock(j)
    PROVE  Exact(j)'
<1>1. /\ seen[j] \in [Paths -> Contents]
      /\ \A p \in Paths \ touched[j] : seen[j][p] = file[p]
  BY KnowsEveryFile DEF WriteLock, IInv, Positions
<1>2. seen[j] # Torn /\ seen[j] # Absent
  BY <1>1, FullHashIsObject
<1>3. outcome'[j] = "ok" /\ UNCHANGED <<file, touched>> /\ lock' = seen[j]
  BY DEF WriteLock, End, IInv, TypeOK
<1>4. ReadLock' = seen[j]
  BY <1>2, <1>3 DEF ReadLock
<1>5. \A p \in Paths \ touched[j] : Lists(seen[j], p, file[p])
  BY <1>1 DEF Lists
<1> QED BY <1>1, <1>2, <1>3, <1>4, <1>5 DEF Exact, Lists

\* A file that is missing is in no lock.
LEMMA MissingIsExact ==
    ASSUME IInv, NEW j \in Jobs, HashMissing(j)
    PROVE  Exact(j)'
<1>1. PICK p \in Paths : file[p] = Missing
  BY OrderListsPaths DEF HashMissing, Hashing, IInv, TypeOK
<1>2. UNCHANGED <<file, lock, command, touched>> /\ ReadLock' = ReadLock
  BY DEF HashMissing, ReadLock
<1>3. ReadLock # file
  <2>1. CASE lock = Torn
    BY <2>1, FrozenAssumption DEF ReadLock, IInv, TypeOK
  <2>2. CASE lock # Torn
    <3>1. PICK listed \in SUBSET (Paths \cup Retired) : ReadLock \in [listed -> Contents]
      BY <2>2, ReadLockIsObject DEF IInv, TypeOK, Objects
    <3>2. SUFFICES ASSUME ReadLock = file PROVE FALSE
      OBVIOUS
    <3>3. DOMAIN file = Paths /\ DOMAIN ReadLock = listed
      BY <3>1 DEF IInv, TypeOK
    <3>4. file[p] \in Contents
      BY <3>1, <3>2, <3>3
    <3> QED BY <1>1, <3>4, FrozenAssumption
  <2> QED BY <2>1, <2>2
<1>4. outcome'[j] = (IF command[j] = "verify_exit_code" THEN "drift" ELSE "error")
  BY DEF HashMissing, End, IInv, TypeOK
<1> QED BY <1>2, <1>3, <1>4 DEF Exact, IInv, TypeOK, Commands

LEMMA OwnStepsKeepExact ==
    ASSUME IInv, NEW j \in Jobs, Exact(j), Run(j)
    PROVE  Exact(j)'
<1>1. ASSUME NEW c \in Commands, Start(j, c) PROVE Exact(j)'
  <2>1. outcome'[j] \in {"none", "error"}
    BY <1>1 DEF Start, End, IInv, TypeOK
  <2> QED BY <2>1 DEF Exact
<1>2. CASE HashNext(j) \/ OpenLock(j)
  BY <1>2 DEF HashNext, Hashing, OpenLock, Exact, IInv, TypeOK
<1>3. CASE Kill(j)
  BY <1>3 DEF Kill, End, Exact, IInv, TypeOK
<1> QED BY <1>1, <1>2, <1>3, CompareIsExact, WriteIsExact, MissingIsExact DEF Run

\* A verification that is content, or a freeze that is done, answers for every file
\* that was not edited since it was read, and a drift is there, for any number of files,
\* commands at a time and edits (freeze_experiment.py:65-107).
THEOREM VerdictsExact == Spec => []VerdictExact
<1>1. Init => VerdictExact
  BY DEF Init, VerdictExact
<1>2. IInv /\ VerdictExact /\ [Next]_vars => VerdictExact'
  <2> SUFFICES ASSUME IInv, VerdictExact, [Next]_vars, NEW j \in Jobs PROVE Exact(j)'
    BY DEF VerdictExact, Exact
  <2>1. Exact(j)
    BY DEF VerdictExact, Exact
  <2>2. ASSUME NEW k \in Jobs, Run(k) PROVE Exact(j)'
    BY <2>1, <2>2, OthersKeepExact, OwnStepsKeepExact
  <2>3. ASSUME NEW p \in Paths, NEW content \in Contents \cup {Missing}, EditFile(p, content)
        PROVE  Exact(j)'
    <3>1. touched'[j] = touched[j] \cup {p}
      BY <2>3 DEF EditFile, IInv, TypeOK
    <3>2. \A q \in Paths \ touched'[j] : file'[q] = file[q]
      BY <2>3, <3>1 DEF EditFile, IInv, TypeOK
    <3>3. UNCHANGED <<lock, jobVars, relocked>> /\ ReadLock' = ReadLock
      BY <2>3 DEF EditFile, ReadLock
    <3> QED BY <2>1, <3>1, <3>2, <3>3 DEF Exact, Lists, jobVars
  <2>4. CASE EditChangelog \/ UNCHANGED vars
    BY <2>1, <2>4 DEF EditChangelog, jobVars, vars, Exact, ReadLock, Lists
  <2> QED BY <2>2, <2>3, <2>4 DEF Next
<1> QED BY <1>1, <1>2, Invariant, PTL DEF Spec
===============================================================================
