---------------------------- MODULE Preregistration ----------------------------
(***************************************************************************)
(* Pre-registration, aae/preregistration: create() hashes and inserts a    *)
(* locked row, get() reads it back, analyze() compares an observation with *)
(* it, weeks later, in another session and another process.  In between    *)
(* rows are changed by hand, which the trigger of the Postgres migration   *)
(* forbids and SQLite does not, and canonical.py is replaced.  Of what is  *)
(* registered the model keeps the threshold; a SHA-256 stands for what it  *)
(* is taken of, and for the encoder it was taken with.                     *)
(***************************************************************************)
EXTENDS Integers

CONSTANTS
    Ids,           \* preregistrations
    Sessions,      \* database sessions, of one process or of several
    Thresholds,    \* thresholds that are registered or edited into a row
    Observations,  \* values observed in the end
    Quantum,       \* units of a threshold in the last decimal of Numeric(12, 4)
    Encoders,      \* versions of canonical.py
    MaxEdits,      \* bound of the model on changes by hand
    None

ASSUME PreregistrationAssumption ==
    /\ Thresholds \subseteq Nat \ {0} /\ Observations \subseteq Int
    /\ Quantum \in Nat \ {0} /\ MaxEdits \in Nat

\* What a hash covers: a payload without its lock_hash.
Bodies == [threshold : Thresholds, locked : BOOLEAN]
Hashes == [encoder : Encoders, of : Bodies]
Payloads == [body : Bodies, lock_hash : Hashes]
Rows == [primary_threshold : {n \in Nat : n % Quantum = 0}, locked : BOOLEAN, payload : Payloads]
Results == [id : Ids, threshold : Thresholds, met : BOOLEAN, hash_valid : BOOLEAN,
            encoder : Encoders]

ASSUME NoneAssumption ==
    None \notin Rows /\ None \notin Results /\ None \notin Thresholds
    /\ None \notin Encoders /\ None \notin [id : Ids, payload : Payloads]

VARIABLES
    postgres,    \* the database has the trigger
    encoder,     \* the canonical.py that is installed
    row,         \* the committed rows
    inserted,    \* rows a session has flushed and not committed
    held,        \* the preregistration a session has read
    result,      \* its last analysis
    registered,  \* history: the threshold create() was called with
    hashedWith,  \* history: the encoder it used
    edited,      \* history: preregistrations whose payload was changed by hand
    edits

vars == <<postgres, encoder, row, inserted, held, result, registered, hashedWith, edited, edits>>

Init ==
    /\ postgres \in BOOLEAN
    /\ encoder \in Encoders
    /\ row = [i \in Ids |-> None]
    /\ inserted = [s \in Sessions |-> [i \in Ids |-> None]]
    /\ held = [s \in Sessions |-> None]
    /\ result = [s \in Sessions |-> None]
    /\ registered = [i \in Ids |-> None]
    /\ hashedWith = [i \in Ids |-> None]
    /\ edited = {}
    /\ edits = 0

-------------------------------------------------------------------------------
\* A faulty canonical_payload() that strips more than the lock_hash.
HashWithoutThreshold(enc, body) ==
    [encoder |-> enc, of |-> [threshold |-> 0, locked |-> body.locked]]

\* compute_lock_hash(): the hash of a body by an encoder.
Hash(enc, body) == [encoder |-> enc, of |-> body]

\* A faulty column that keeps every decimal.
ColumnOfAll(threshold) == threshold

\* What the column keeps of a threshold, which has any number of decimals.
ColumnOf(threshold) == Quantum * ((2 * threshold + Quantum) \div (2 * Quantum))

\* What create() stores and returns.
NewPayload(threshold) ==
    [body |-> [threshold |-> threshold, locked |-> TRUE],
     lock_hash |-> Hash(encoder, [threshold |-> threshold, locked |-> TRUE])]

\* create(): the row is flushed, and what it describes is returned to the caller.
Create(s, i, threshold) ==
    /\ registered[i] = None
    /\ inserted' = [inserted EXCEPT ![s][i] =
                       [primary_threshold |-> ColumnOf(threshold), locked |-> TRUE,
                        payload |-> NewPayload(threshold)]]
    /\ registered' = [registered EXCEPT ![i] = threshold]
    /\ hashedWith' = [hashedWith EXCEPT ![i] = encoder]
    /\ UNCHANGED <<postgres, encoder, row, held, result, edited, edits>>

\* The transaction of the session ends, in either way.
Commit(s) ==
    /\ \E i \in Ids : inserted[s][i] # None
    /\ row' = [i \in Ids |-> IF inserted[s][i] # None THEN inserted[s][i] ELSE row[i]]
    /\ inserted' = [inserted EXCEPT ![s] = [i \in Ids |-> None]]
    /\ UNCHANGED <<postgres, encoder, held, result, registered, hashedWith, edited, edits>>

Rollback(s) ==
    /\ \E i \in Ids : inserted[s][i] # None
    /\ inserted' = [inserted EXCEPT ![s] = [i \in Ids |-> None]]
    /\ UNCHANGED <<postgres, encoder, row, held, result, registered, hashedWith, edited, edits>>

\* The row a session sees: its own before it commits, and what is committed.
Seen(s, i) == IF inserted[s][i] # None THEN inserted[s][i] ELSE row[i]

\* A faulty get() that builds its answer from the columns.
FromColumns(r) ==
    [body |-> [threshold |-> r.primary_threshold, locked |-> r.locked],
     lock_hash |-> r.payload.lock_hash]

\* get() builds its answer from the payload alone.
FromRow(r) == r.payload

\* get() and ensure_locked_and_exists(); both raise where there is no row, the latter also
\* where the payload is not locked, and then nothing changes.
Fetch(s, i) ==
    /\ Seen(s, i) # None
    /\ held' = [held EXCEPT ![s] = [id |-> i, payload |-> FromRow(Seen(s, i))]]
    /\ UNCHANGED <<postgres, encoder, row, inserted, result, registered, hashedWith, edited, edits>>

\* verify_hash(): the encoder of today, the hash of the payload.
HashValid(payload) == Hash(encoder, payload.body) = payload.lock_hash

\* analyze(): the threshold is compared whether or not the hash is valid.
Analyze(s, observed) ==
    /\ held[s] # None
    /\ LET body == held[s].payload.body
       IN  result' = [result EXCEPT ![s] =
                         [id |-> held[s].id, threshold |-> body.threshold,
                          met |-> observed >= body.threshold,
                          hash_valid |-> HashValid(held[s].payload), encoder |-> encoder]]
    /\ UNCHANGED <<postgres, encoder, row, inserted, held, registered, hashedWith, edited, edits>>

-------------------------------------------------------------------------------
\* A faulty trigger that asks for the new row to be locked.
UpdateAllowedUnlocking(old, new) == ~(postgres /\ new.locked)

\* prereg_reject_update(), on Postgres.
UpdateAllowed(old, new) == ~(postgres /\ old.locked)

\* An UPDATE by hand of some columns or of the payload, which leaves lock_hash alone.
Update(i, column, locked, body) ==
    /\ row[i] # None /\ edits < MaxEdits
    /\ LET new == [primary_threshold |-> column, locked |-> locked,
                   payload |-> [body |-> body, lock_hash |-> row[i].payload.lock_hash]]
       IN  /\ new # row[i]
           /\ UpdateAllowed(row[i], new)
           /\ row' = [row EXCEPT ![i] = new]
    /\ edited' = IF body # row[i].payload.body THEN edited \cup {i} ELSE edited
    /\ edits' = edits + 1
    /\ UNCHANGED <<postgres, encoder, inserted, held, result, registered, hashedWith>>

\* A DELETE by hand, which nothing forbids.
Delete(i) ==
    /\ row[i] # None
    /\ row' = [row EXCEPT ![i] = None]
    /\ UNCHANGED <<postgres, encoder, inserted, held, result, registered, hashedWith, edited, edits>>

\* Another canonical.py is installed.
Install(enc) ==
    /\ edits < MaxEdits
    /\ enc # encoder /\ encoder' = enc
    /\ edits' = edits + 1
    /\ UNCHANGED <<postgres, row, inserted, held, result, registered, hashedWith, edited>>

Use(s) ==
    \/ \E i \in Ids, threshold \in Thresholds : Create(s, i, threshold)
    \/ \E i \in Ids : Fetch(s, i)
    \/ \E observed \in Observations : Analyze(s, observed)
    \/ Commit(s) \/ Rollback(s)

ByHand(i) ==
    \/ \E column, threshold \in Thresholds, locked, sealed \in BOOLEAN :
           Update(i, ColumnOf(column), locked, [threshold |-> threshold, locked |-> sealed])
    \/ Delete(i)

Next ==
    \/ \E s \in Sessions : Use(s)
    \/ \E i \in Ids : ByHand(i)
    \/ \E enc \in Encoders : Install(enc)

Spec == Init /\ [][Next]_vars

-------------------------------------------------------------------------------
TypeOK ==
    /\ postgres \in BOOLEAN /\ encoder \in Encoders
    /\ row \in [Ids -> Rows \cup {None}]
    /\ inserted \in [Sessions -> [Ids -> Rows \cup {None}]]
    /\ held \in [Sessions -> [id : Ids, payload : Payloads] \cup {None}]
    /\ result \in [Sessions -> Results \cup {None}]
    /\ registered \in [Ids -> Thresholds \cup {None}]
    /\ hashedWith \in [Ids -> Encoders \cup {None}]
    /\ edited \subseteq Ids
    /\ edits \in Nat

\* On Postgres a row says in its columns and in its payload what create() was called
\* with for as long as it exists, whatever statements are tried on it and in whatever
\* order (register.py:61-79, and the trigger at 0001_initial.py:211-220).
RowsAsRegistered ==
    \A i \in Ids : postgres /\ row[i] # None =>
        row[i] = [primary_threshold |-> ColumnOf(registered[i]), locked |-> TRUE,
                  payload |-> [body |-> [threshold |-> registered[i], locked |-> TRUE],
                               lock_hash |-> Hash(hashedWith[i],
                                                  [threshold |-> registered[i], locked |-> TRUE])]]

\* An analysis with a valid hash has compared with the threshold that was registered,
\* without the trigger too, and however long the analyst kept what it had read
\* (analyze.py:21-35: a change of the payload that leaves its hash is detected).
ValidMeansRegistered ==
    \A s \in Sessions : result[s] # None /\ result[s].hash_valid =>
        result[s].threshold = registered[result[s].id]

\* An alarm is never false: the payload was changed by hand, or canonical.py was.
\* Rounding by the column and the way through JSON do not raise it
\* (register.py:44-48: "This guarantees verify_hash() sees the same bytes").
AlarmExplained ==
    \A s \in Sessions : result[s] # None /\ ~result[s].hash_valid =>
        \/ result[s].id \in edited
        \/ result[s].encoder # hashedWith[result[s].id]
===============================================================================
