------------------------------ MODULE FrozenPaths ------------------------------
(***************************************************************************)
(* The frozen-path integrity tool, aae/ops/freeze_experiment.py: freeze,   *)
(* update, verify and verify_exit_code, each a process that reads the      *)
(* frozen files one after the other and then reads or writes hashes.lock,  *)
(* while the files are edited, a command is killed, or another command     *)
(* runs.  A SHA-256 stands for the content it is taken of.                 *)
(***************************************************************************)
EXTENDS Integers, Sequences

CONSTANTS
    Jobs,       \* processes that run a command, one after the other
    Paths,      \* the files FROZEN_PATHS names
    Order,      \* FROZEN_PATHS: in which order they are read
    Retired,    \* files an earlier FROZEN_PATHS named, which a lock may still list
    Contents,   \* what a file may contain
    MaxEdits,   \* bound of the model on edits of the files
    Missing, Unread, Absent, Torn

\* The bootstrap script's seed-frozen-hashes is a freeze, its verify-frozen and the weekly
\* digest a verify_exit_code.
Commands == {"freeze", "update", "verify", "verify_exit_code"}
Writers == {"freeze", "update"}
Outcomes == {"none", "ok", "drift", "error", "killed"}

\* A lock is a JSON object from paths to hashes.
Objects == UNION {[listed -> Contents] : listed \in SUBSET (Paths \cup Retired)}

ASSUME FrozenAssumption ==
    /\ Order \in Seq(Paths)
    /\ \A p \in Paths : \E i \in 1 .. Len(Order) : Order[i] = p
    /\ Missing \notin Contents /\ Unread \notin Contents
    /\ Absent \notin Objects /\ Torn \notin Objects /\ Absent # Torn
    /\ Torn \notin [Paths -> Contents \cup {Missing}]
    /\ MaxEdits \in Nat

VARIABLES
    file,       \* what each frozen file contains, or Missing
    changelog,  \* CHANGELOG.frozen.md exists
    lock,       \* hashes.lock: Absent, an object, or Torn
    command,    \* the last command of each job
    reading,    \* "idle", "hashing" or "writing"
    next,       \* the position in FROZEN_PATHS it hashes next
    seen,       \* the hashes it has computed
    outcome,    \* how its last command ended
    touched,    \* history: files edited since it hashed them
    relocked,   \* history: another job wrote the lock since it read or wrote it
    cutShort,   \* history: a command was killed while it wrote the lock
    edits

vars == <<file, changelog, lock, command, reading, next, seen, outcome,
          touched, relocked, cutShort, edits>>
jobVars == <<command, reading, next, seen, outcome>>

Init ==
    /\ file \in [Paths -> Contents]
    /\ changelog \in BOOLEAN
    /\ lock \in Objects \cup {Absent}
    /\ command = [j \in Jobs |-> "verify"]
    /\ reading = [j \in Jobs |-> "idle"]
    /\ next = [j \in Jobs |-> 1]
    /\ seen = [j \in Jobs |-> [p \in Paths |-> Unread]]
    /\ outcome = [j \in Jobs |-> "none"]
    /\ touched = [j \in Jobs |-> {}]
    /\ relocked = [j \in Jobs |-> FALSE]
    /\ cutShort = FALSE
    /\ edits = 0

-------------------------------------------------------------------------------
\* A command ends, and what it has computed is gone.
End(j, result) ==
    /\ reading' = [reading EXCEPT ![j] = "idle"]
    /\ next' = [next EXCEPT ![j] = 1]
    /\ seen' = [seen EXCEPT ![j] = [p \in Paths |-> Unread]]
    /\ outcome' = [outcome EXCEPT ![j] = result]

\* A faulty freeze() that opens the lock before it reads the files.
StartOpeningLock(j, c) ==
    /\ reading[j] = "idle"
    /\ command' = [command EXCEPT ![j] = c]
    /\ touched' = [touched EXCEPT ![j] = {}]
    /\ relocked' = [k \in Jobs |-> k # j]
    /\ lock' = IF c \in Writers THEN Torn ELSE lock
    /\ reading' = [reading EXCEPT ![j] = "hashing"]
    /\ outcome' = [outcome EXCEPT ![j] = "none"]
    /\ UNCHANGED <<file, changelog, next, seen, cutShort, edits>>

\* A command begins; update refuses when there is no changelog.
Start(j, c) ==
    /\ reading[j] = "idle"
    /\ command' = [command EXCEPT ![j] = c]
    /\ touched' = [touched EXCEPT ![j] = {}]
    /\ relocked' = [relocked EXCEPT ![j] = FALSE]
    /\ IF c = "update" /\ ~changelog
       THEN End(j, "error")
       ELSE /\ reading' = [reading EXCEPT ![j] = "hashing"]
            /\ outcome' = [outcome EXCEPT ![j] = "none"]
            /\ UNCHANGED <<next, seen>>
    /\ UNCHANGED <<file, changelog, lock, cutShort, edits>>

Hashing(j) == reading[j] = "hashing" /\ next[j] <= Len(Order)

\* A faulty compute_hashes() that takes a missing file for one more content.
HashNextMissing(j) ==
    /\ Hashing(j)
    /\ seen' = [seen EXCEPT ![j][Order[next[j]]] = file[Order[next[j]]]]
    /\ touched' = [touched EXCEPT ![j] = @ \ {Order[next[j]]}]
    /\ next' = [next EXCEPT ![j] = @ + 1]
    /\ UNCHANGED <<file, changelog, lock, command, reading, outcome, relocked, cutShort, edits>>

\* compute_hashes(), one file.
HashNext(j) ==
    /\ Hashing(j)
    /\ file[Order[next[j]]] # Missing
    /\ seen' = [seen EXCEPT ![j][Order[next[j]]] = file[Order[next[j]]]]
    /\ touched' = [touched EXCEPT ![j] = @ \ {Order[next[j]]}]
    /\ next' = [next EXCEPT ![j] = @ + 1]
    /\ UNCHANGED <<file, changelog, lock, command, reading, outcome, relocked, cutShort, edits>>

\* FileNotFoundError, which only verify_exit_code turns into an answer.
HashMissing(j) ==
    /\ Hashing(j)
    /\ file[Order[next[j]]] = Missing
    /\ End(j, IF command[j] = "verify_exit_code" THEN "drift" ELSE "error")
    /\ UNCHANGED <<file, changelog, lock, command, touched, relocked, cutShort, edits>>

Hashed(j) == reading[j] = "hashing" /\ next[j] = Len(Order) + 1

\* read_lock(): no lock reads as an empty object.
ReadLock == IF lock = Absent THEN [p \in {} |-> Missing] ELSE lock

Lists(object, p, content) == p \in DOMAIN object /\ object[p] = content

\* A faulty verify() that looks for the paths the lock lists only.
AgreesOnListed(c, object, hashes) ==
    IF c = "verify"
    THEN \A p \in Paths : p \in DOMAIN object => object[p] = hashes[p]
    ELSE object = hashes

\* verify() asks of each frozen path, verify_exit_code() compares the dicts.
Agrees(c, object, hashes) ==
    IF c = "verify"
    THEN \A p \in Paths : Lists(object, p, hashes[p])
    ELSE object = hashes

Compare(j) ==
    /\ Hashed(j) /\ command[j] \notin Writers
    /\ End(j, CASE lock = Torn -> "error"
                [] lock # Torn /\ Agrees(command[j], ReadLock, seen[j]) -> "ok"
                [] OTHER -> "drift")
    /\ relocked' = [relocked EXCEPT ![j] = FALSE]
    /\ UNCHANGED <<file, changelog, lock, command, touched, cutShort, edits>>

\* The locks of one FROZEN_PATHS have the same length: a write replaces all of it.
RelockedBy(j) == relocked' = [k \in Jobs |-> k # j]

\* write_lock() opens the file, which empties it ...
OpenLock(j) ==
    /\ Hashed(j) /\ command[j] \in Writers
    /\ lock' = Torn
    /\ reading' = [reading EXCEPT ![j] = "writing"]
    /\ RelockedBy(j)
    /\ UNCHANGED <<file, changelog, command, next, seen, outcome, touched, cutShort, edits>>

\* ... and writes all of the object.
WriteLock(j) ==
    /\ reading[j] = "writing"
    /\ lock' = seen[j]
    /\ End(j, "ok")
    /\ RelockedBy(j)
    /\ UNCHANGED <<file, changelog, command, touched, cutShort, edits>>

Kill(j) ==
    /\ reading[j] # "idle"
    /\ End(j, "killed")
    /\ cutShort' = (cutShort \/ reading[j] = "writing")
    /\ UNCHANGED <<file, changelog, lock, command, touched, relocked, edits>>

-------------------------------------------------------------------------------
EditFile(p, content) ==
    /\ edits < MaxEdits /\ content # file[p]
    /\ file' = [file EXCEPT ![p] = content]
    /\ touched' = [j \in Jobs |-> touched[j] \cup {p}]
    /\ edits' = edits + 1
    /\ UNCHANGED <<changelog, lock, jobVars, relocked, cutShort>>

EditChangelog ==
    /\ changelog' = ~changelog
    /\ UNCHANGED <<file, lock, jobVars, touched, relocked, cutShort, edits>>

Run(j) ==
    \/ \E c \in Commands : Start(j, c)
    \/ HashNext(j) \/ HashMissing(j) \/ Compare(j)
    \/ OpenLock(j) \/ WriteLock(j) \/ Kill(j)

Next ==
    \/ \E j \in Jobs : Run(j)
    \/ \E p \in Paths, content \in Contents \cup {Missing} : EditFile(p, content)
    \/ EditChangelog

Spec == Init /\ [][Next]_vars

-------------------------------------------------------------------------------
TypeOK ==
    /\ file \in [Paths -> Contents \cup {Missing}]
    /\ changelog \in BOOLEAN
    /\ lock \in Objects \cup {Absent, Torn}
    /\ command \in [Jobs -> Commands]
    /\ reading \in [Jobs -> {"idle", "hashing", "writing"}]
    /\ next \in [Jobs -> 1 .. Len(Order) + 1]
    /\ seen \in [Jobs -> [Paths -> Contents \cup {Unread}]]
    /\ outcome \in [Jobs -> Outcomes]
    /\ touched \in [Jobs -> SUBSET Paths]
    /\ relocked \in [Jobs -> BOOLEAN]
    /\ cutShort \in BOOLEAN
    /\ edits \in Nat

\* A verification that is content, or a freeze that is done, answers for every file
\* that was not edited since it was read, for as long as nobody else writes the lock;
\* a drift it reports is there if nothing was edited meanwhile.  Only verify() accepts
\* a lock that lists more than FROZEN_PATHS (freeze_experiment.py:78 and 107).
VerdictExact ==
    \A j \in Jobs : reading[j] = "idle" /\ ~relocked[j] =>
        /\ outcome[j] = "ok" =>
               /\ lock # Torn
               /\ \A p \in Paths \ touched[j] : Lists(ReadLock, p, file[p])
               /\ command[j] # "verify" => DOMAIN ReadLock = Paths
        /\ outcome[j] = "drift" /\ touched[j] = {} =>
               IF command[j] = "verify"
               THEN \E p \in Paths : ~Lists(ReadLock, p, file[p])
               ELSE ReadLock # file

\* A lock that cannot be read is being written, or its writer was killed: a freeze that
\* fails on a missing file leaves the lock it found (freeze_experiment.py:56-69).
TornExplained ==
    lock = Torn => cutShort \/ \E j \in Jobs : reading[j] = "writing"
===============================================================================
