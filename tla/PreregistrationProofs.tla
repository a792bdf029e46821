------------------------- MODULE PreregistrationProofs -------------------------
(***************************************************************************)
(* Theorems of Preregistration, for any number of preregistrations,        *)
(* sessions, encoders and changes by hand.  The invariant follows a        *)
(* payload from the transaction that created it to the analyst who holds   *)
(* it: wherever it is, it carries the hash it was registered with.         *)
(***************************************************************************)
EXTENDS Preregistration, TLAPS

LEMMA ColumnTyped ==
    ASSUME NEW t \in Thresholds
    PROVE  ColumnOf(t) \in {n \in Nat : n % Quantum = 0}
<1> DEFINE k == (2 * t + Quantum) \div (2 * Quantum)
<1>1. t \in Nat /\ Quantum \in Nat \ {0}
    BY PreregistrationAssumption
<1>2. 2 * t + Quantum \in Nat /\ 2 * Quantum \in Nat \ {0}
    BY <1>1
<1>3. k \in Nat
    BY <1>2
<1>4. ColumnOf(t) = Quantum * k
    BY DEF ColumnOf
<1> HIDE DEF k
<1>5. Quantum * k \in Nat /\ (Quantum * k) % Quantum = 0
    BY <1>1, <1>3
<1>6. QED BY <1>4, <1>5

LEMMA HashTyped ==
    ASSUME NEW enc \in Encoders, NEW body \in Bodies PROVE Hash(enc, body) \in Hashes
BY DEF Hash, Hashes

\* Two hashes are equal if the encoders and what they are taken of are.
LEMMA HashInjective ==
    ASSUME NEW e, NEW b, NEW f, NEW c, Hash(e, b) = Hash(f, c)
    PROVE  e = f /\ b = c
<1>1. Hash(e, b).encoder = Hash(f, c).encoder /\ Hash(e, b).of = Hash(f, c).of
    OBVIOUS
<1>2. QED BY <1>1 DEF Hash

LEMMA NewPayloadTyped ==
    ASSUME TypeOK, NEW t \in Thresholds PROVE NewPayload(t) \in Payloads
<1>1. [threshold |-> t, locked |-> TRUE] \in Bodies
    BY DEF Bodies
<1>2. QED BY <1>1, HashTyped DEF NewPayload, Payloads, TypeOK

LEMMA SeenTyped ==
    ASSUME TypeOK, NEW s \in Sessions, NEW i \in Ids, Seen(s, i) # None
    PROVE  Seen(s, i) \in Rows /\ Seen(s, i).payload \in Payloads
<1>1. Seen(s, i) \in Rows
    BY DEF TypeOK, Seen
<1>2. QED BY <1>1 DEF Rows

-------------------------------------------------------------------------------
LEMMA TypeStep == TypeOK /\ [Next]_vars => TypeOK'
<1> SUFFICES ASSUME TypeOK, [Next]_vars PROVE TypeOK'
    OBVIOUS
<1> USE DEF TypeOK
<1>1. ASSUME NEW s \in Sessions, NEW i \in Ids, NEW t \in Thresholds, Create(s, i, t)
      PROVE  TypeOK'
    <2> DEFINE r == [primary_threshold |-> ColumnOf(t), locked |-> TRUE,
                     payload |-> NewPayload(t)]
    <2>1. r \in Rows
        BY ColumnTyped, NewPayloadTyped DEF Rows
    <2>2. inserted' = [inserted EXCEPT ![s][i] = r]
        BY <1>1 DEF Create
    <2> HIDE DEF r
    <2>3. inserted' \in [Sessions -> [Ids -> Rows \cup {None}]]
        BY <2>1, <2>2
    <2>4. QED BY <1>1, <2>3 DEF Create
<1>2. ASSUME NEW s \in Sessions, Commit(s) PROVE TypeOK'
    BY <1>2 DEF Commit
<1>3. ASSUME NEW s \in Sessions, Rollback(s) PROVE TypeOK'
    BY <1>3 DEF Rollback
<1>4. ASSUME NEW s \in Sessions, NEW i \in Ids, Fetch(s, i) PROVE TypeOK'
    <2>1. [id |-> i, payload |-> FromRow(Seen(s, i))] \in [id : Ids, payload : Payloads]
        BY <1>4, SeenTyped DEF Fetch, FromRow
    <2>2. QED BY <1>4, <2>1 DEF Fetch
<1>5. ASSUME NEW s \in Sessions, NEW observed \in Observations, Analyze(s, observed)
      PROVE  TypeOK'
    <2> DEFINE body == held[s].payload.body
               verdict == [id |-> held[s].id, threshold |-> body.threshold,
                           met |-> observed >= body.threshold,
                           hash_valid |-> HashValid(held[s].payload), encoder |-> encoder]
    <2>1. held[s].id \in Ids /\ body.threshold \in Thresholds
        BY <1>5 DEF Analyze, Payloads, Bodies
    <2>2. (observed >= body.threshold) \in BOOLEAN
        BY <2>1, PreregistrationAssumption
    <2>3. HashValid(held[s].payload) \in BOOLEAN
        BY Zenon DEF HashValid
    <2>4. verdict \in Results
        BY <2>1, <2>2, <2>3 DEF Results
    <2>5. result' = [result EXCEPT ![s] = verdict]
        BY <1>5 DEF Analyze
    <2> HIDE DEF verdict
    <2>6. QED BY <1>5, <2>4, <2>5 DEF Analyze
<1>6. ASSUME NEW i \in Ids, NEW c \in Thresholds, NEW t \in Thresholds,
             NEW locked \in BOOLEAN, NEW sealed \in BOOLEAN,
             Update(i, ColumnOf(c), locked, [threshold |-> t, locked |-> sealed])
      PROVE  TypeOK'
    <2> DEFINE body == [threshold |-> t, locked |-> sealed]
               new == [primary_threshold |-> ColumnOf(c), locked |-> locked,
                       payload |-> [body |-> body, lock_hash |-> row[i].payload.lock_hash]]
    <2>1. body \in Bodies
        BY DEF Bodies
    <2>2. row[i] \in Rows
        BY <1>6 DEF Update
    <2>3. row[i].payload.lock_hash \in Hashes
        BY <2>2 DEF Rows, Payloads
    <2>4. new \in Rows
        BY <2>1, <2>3, ColumnTyped DEF Rows, Payloads
    <2>5. row' = [row EXCEPT ![i] = new]
        BY <1>6 DEF Update
    <2> HIDE DEF new, body
    <2>6. QED BY <1>6, <2>4, <2>5 DEF Update
<1>7. ASSUME NEW i \in Ids, Delete(i) PROVE TypeOK'
    BY <1>7 DEF Delete
<1>8. ASSUME NEW enc \in Encoders, Install(enc) PROVE TypeOK'
    BY <1>8 DEF Install
<1>9. CASE UNCHANGED vars
    BY <1>9 DEF vars
<1> HIDE DEF TypeOK
<1>10. ASSUME NEW s \in Sessions, Use(s) PROVE TypeOK'
    BY <1>1, <1>2, <1>3, <1>4, <1>5, <1>10 DEF Use
<1>11. ASSUME NEW i \in Ids, ByHand(i) PROVE TypeOK'
    BY <1>6, <1>7, <1>11 DEF ByHand
<1>12. QED BY <1>8, <1>9, <1>10, <1>11 DEF Next

\* Rows, payloads and results are what their columns can hold, for any threshold, its
\* rounding by the column included (Preregistration.TypeOK).
THEOREM TypeCorrect == Spec => []TypeOK
<1>1. Init => TypeOK
    BY PreregistrationAssumption DEF Init, TypeOK
<1>2. QED BY <1>1, TypeStep, PTL DEF Spec

-------------------------------------------------------------------------------
(***************************************************************************)
(* What a payload says of its preregistration, wherever it is.             *)
(***************************************************************************)

Original(i) == [threshold |-> registered[i], locked |-> TRUE]
Seal(i) == Hash(hashedWith[i], Original(i))

RowOf(i) == [primary_threshold |-> ColumnOf(registered[i]), locked |-> TRUE,
             payload |-> [body |-> Original(i), lock_hash |-> Seal(i)]]

\* It carries the hash it was registered with, and any other body is known as edited.
Sealed(i, payload) ==
    /\ registered[i] # None
    /\ payload.lock_hash = Seal(i)
    /\ payload.body = Original(i) \/ i \in edited

RowsAre == \A i \in Ids : postgres /\ row[i] # None => row[i] = RowOf(i)
RowsSealed == \A i \in Ids : row[i] # None => Sealed(i, row[i].payload)
InsertedAsRegistered ==
    \A s \in Sessions, i \in Ids :
        inserted[s][i] # None => registered[i] # None /\ inserted[s][i] = RowOf(i)
HeldSealed == \A s \in Sessions : held[s] # None => Sealed(held[s].id, held[s].payload)
ResultRegistered == \A s \in Sessions : result[s] # None => registered[result[s].id] # None

Inv ==
    /\ RowsSealed /\ InsertedAsRegistered /\ HeldSealed /\ ResultRegistered
    /\ RowsAre /\ ValidMeansRegistered /\ AlarmExplained

LEMMA RowsAreAsRegistered == RowsAsRegistered <=> RowsAre
BY DEF RowsAsRegistered, RowsAre, RowOf, Seal, Original

LEMMA RowOfFields ==
    ASSUME NEW i \in Ids
    PROVE  /\ RowOf(i).locked = TRUE
           /\ RowOf(i).payload.body = Original(i) /\ RowOf(i).payload.lock_hash = Seal(i)
BY DEF RowOf

LEMMA InvInit == Init => Inv
BY DEF Init, Inv, RowsSealed, InsertedAsRegistered, HeldSealed, ResultRegistered, RowsAre,
       ValidMeansRegistered, AlarmExplained

LEMMA CreateStep ==
    ASSUME TypeOK, Inv, NEW s \in Sessions, NEW i \in Ids, NEW t \in Thresholds, Create(s, i, t)
    PROVE  Inv'
<1>1. /\ registered[i] = None
      /\ registered' = [registered EXCEPT ![i] = t]
      /\ hashedWith' = [hashedWith EXCEPT ![i] = encoder]
      /\ UNCHANGED <<postgres, encoder, row, held, result, edited>>
    BY DEF Create
<1>2. /\ registered'[i] = t /\ hashedWith'[i] = encoder /\ t # None
      /\ \A j \in Ids : j # i => registered'[j] = registered[j] /\ hashedWith'[j] = hashedWith[j]
    BY <1>1, NoneAssumption DEF TypeOK
<1>3. \A j \in Ids : registered[j] # None => j # i
    BY <1>1
<1>4. RowsSealed' /\ RowsAre'
    <2>1. SUFFICES ASSUME NEW j \in Ids, row[j] # None
                   PROVE  Sealed(j, row[j].payload)' /\ (postgres => row[j] = RowOf(j)')
        BY <1>1 DEF RowsSealed, RowsAre
    <2>2. Sealed(j, row[j].payload) /\ (postgres => row[j] = RowOf(j))
        BY <2>1 DEF Inv, RowsSealed, RowsAre
    <2>3. registered'[j] = registered[j] /\ hashedWith'[j] = hashedWith[j]
        BY <1>2, <1>3, <2>2 DEF Sealed
    <2>4. Original(j)' = Original(j) /\ Seal(j)' = Seal(j)
        BY <2>3 DEF Seal, Original
    <2>5. RowOf(j)' = RowOf(j)
        BY <2>3, <2>4 DEF RowOf
    <2>6. QED BY <1>1, <2>2, <2>3, <2>4, <2>5 DEF Sealed
<1>5. InsertedAsRegistered'
    <2>1. inserted'[s][i] = [primary_threshold |-> ColumnOf(t), locked |-> TRUE,
                             payload |-> NewPayload(t)]
        BY DEF Create, TypeOK
    <2>2. inserted'[s][i] = RowOf(i)'
        BY <1>2, <2>1 DEF NewPayload, RowOf, Seal, Original
    <2>3. \A u \in Sessions, j \in Ids : u # s \/ j # i => inserted'[u][j] = inserted[u][j]
        BY DEF Create, TypeOK
    <2>4. \A u \in Sessions : inserted[u][i] = None
        BY <1>1 DEF Inv, InsertedAsRegistered
    <2>5. SUFFICES ASSUME NEW u \in Sessions, NEW j \in Ids, inserted'[u][j] # None
                   PROVE  registered'[j] # None /\ inserted'[u][j] = RowOf(j)'
        BY DEF InsertedAsRegistered
    <2>6. CASE j = i
        BY <1>2, <2>2, <2>3, <2>4, <2>5, <2>6
    <2>7. CASE j # i
        BY <1>2, <2>3, <2>5, <2>7 DEF Inv, InsertedAsRegistered, RowOf, Seal, Original
    <2>8. QED BY <2>6, <2>7
<1>6. HeldSealed'
    <2>1. \A u \in Sessions : held[u] # None => held[u].id \in Ids
        BY DEF TypeOK
    <2>2. SUFFICES ASSUME NEW u \in Sessions, held[u] # None
                   PROVE  Sealed(held[u].id, held[u].payload)'
        BY <1>1 DEF HeldSealed
    <2>3. Sealed(held[u].id, held[u].payload)
        BY <2>2 DEF Inv, HeldSealed
    <2>4. held[u].id \in Ids /\ held[u].id # i
        BY <1>3, <2>1, <2>2, <2>3 DEF Sealed
    <2>5. QED BY <1>1, <1>2, <2>3, <2>4 DEF Sealed, Seal, Original
<1>7. ResultRegistered' /\ ValidMeansRegistered' /\ AlarmExplained'
    <2>1. \A u \in Sessions : result[u] # None => result[u].id \in Ids
        BY DEF TypeOK, Results
    <2>2. QED BY <1>1, <1>2, <1>3, <2>1
              DEF Inv, ResultRegistered, ValidMeansRegistered, AlarmExplained
<1>8. QED BY <1>4, <1>5, <1>6, <1>7 DEF Inv

LEMMA EndStep ==
    ASSUME TypeOK, Inv, NEW s \in Sessions, Commit(s) \/ Rollback(s)
    PROVE  Inv'
<1>1. UNCHANGED <<postgres, encoder, held, result, registered, hashedWith, edited>>
    BY DEF Commit, Rollback
<1>2. inserted' = [inserted EXCEPT ![s] = [i \in Ids |-> None]]
    BY DEF Commit, Rollback
<1>3. \A i \in Ids : row'[i] = row[i] \/ (row'[i] = inserted[s][i] /\ inserted[s][i] # None)
    BY DEF Commit, Rollback, TypeOK
<1>4. InsertedAsRegistered'
    BY <1>1, <1>2 DEF Inv, InsertedAsRegistered, TypeOK, RowOf, Seal, Original
<1>5. RowsSealed' /\ RowsAre'
    <2>1. SUFFICES ASSUME NEW i \in Ids, row'[i] # None
                   PROVE  /\ Sealed(i, row'[i].payload)
                          /\ postgres => row'[i] = RowOf(i)
        BY <1>1 DEF RowsSealed, RowsAre, Sealed, Seal, Original, RowOf
    <2>2. CASE row'[i] = row[i]
        BY <2>1, <2>2 DEF Inv, RowsSealed, RowsAre
    <2>3. CASE row'[i] = inserted[s][i] /\ inserted[s][i] # None
        <3>1. registered[i] # None /\ row'[i] = RowOf(i)
            BY <2>3 DEF Inv, InsertedAsRegistered
        <3>2. QED BY <3>1, RowOfFields DEF Sealed
    <2>4. QED BY <1>3, <2>2, <2>3
<1>6. HeldSealed' /\ ResultRegistered' /\ ValidMeansRegistered' /\ AlarmExplained'
    BY <1>1 DEF Inv, HeldSealed, ResultRegistered, ValidMeansRegistered, AlarmExplained,
                Sealed, Seal, Original
<1>7. QED BY <1>4, <1>5, <1>6 DEF Inv

LEMMA FetchStep ==
    ASSUME TypeOK, Inv, NEW s \in Sessions, NEW i \in Ids, Fetch(s, i)
    PROVE  Inv'
<1>1. UNCHANGED <<postgres, encoder, row, inserted, result, registered, hashedWith, edited>>
    BY DEF Fetch
<1>2. Sealed(i, Seen(s, i).payload)
    <2>1. CASE inserted[s][i] # None
        BY <2>1, RowOfFields DEF Inv, InsertedAsRegistered, Seen, Sealed
    <2>2. CASE inserted[s][i] = None
        BY <2>2 DEF Fetch, Seen, Inv, RowsSealed
    <2>3. QED BY <2>1, <2>2
<1>3. HeldSealed'
    <2>1. held'[s] = [id |-> i, payload |-> Seen(s, i).payload]
        BY DEF Fetch, FromRow, TypeOK
    <2>2. \A u \in Sessions : u # s => held'[u] = held[u]
        BY DEF Fetch, TypeOK
    <2>3. held'[s].id = i /\ held'[s].payload = Seen(s, i).payload
        BY <2>1
    <2>4. QED BY <1>1, <1>2, <2>2, <2>3 DEF Inv, HeldSealed, Sealed, Seal, Original
<1>4. /\ RowsSealed' /\ RowsAre' /\ InsertedAsRegistered' /\ ResultRegistered'
      /\ ValidMeansRegistered' /\ AlarmExplained'
    BY <1>1 DEF Inv, RowsSealed, RowsAre, InsertedAsRegistered, ResultRegistered,
                ValidMeansRegistered, AlarmExplained, Sealed, Seal, Original, RowOf
<1>5. QED BY <1>3, <1>4 DEF Inv

LEMMA AnalyzeStep ==
    ASSUME TypeOK, Inv, NEW s \in Sessions, NEW observed \in Observations, Analyze(s, observed)
    PROVE  Inv'
<1> DEFINE i == held[s].id
           payload == held[s].payload
<1>1. UNCHANGED <<postgres, encoder, row, inserted, held, registered, hashedWith, edited>>
    BY DEF Analyze
<1>2. i \in Ids /\ Sealed(i, payload)
    BY DEF Analyze, TypeOK, Inv, HeldSealed
<1>3. /\ result'[s].id = i
      /\ result'[s].threshold = payload.body.threshold
      /\ result'[s].hash_valid = HashValid(payload)
      /\ result'[s].encoder = encoder
    BY DEF Analyze, TypeOK
<1>4. \A u \in Sessions : u # s => result'[u] = result[u]
    BY DEF Analyze, TypeOK
<1>5. HashValid(payload) => payload.body = Original(i)
    BY <1>2, HashInjective DEF HashValid, Sealed, Seal
<1>6. ~HashValid(payload) => i \in edited \/ encoder # hashedWith[i]
    BY <1>2 DEF HashValid, Sealed, Seal
<1>7. registered[i] # None
    BY <1>2 DEF Sealed
<1> HIDE DEF i, payload
<1>8. ResultRegistered'
    BY <1>1, <1>3, <1>4, <1>7 DEF Inv, ResultRegistered
<1>9. ValidMeansRegistered'
    BY <1>1, <1>3, <1>4, <1>5 DEF Inv, ValidMeansRegistered, Original
<1>10. AlarmExplained'
    BY <1>1, <1>3, <1>4, <1>6 DEF Inv, AlarmExplained
<1>11. RowsSealed' /\ RowsAre' /\ InsertedAsRegistered' /\ HeldSealed'
    BY <1>1 DEF Inv, RowsSealed, RowsAre, InsertedAsRegistered, HeldSealed,
                Sealed, Seal, Original, RowOf
<1>12. QED BY <1>8, <1>9, <1>10, <1>11 DEF Inv

LEMMA UpdateStep ==
    ASSUME TypeOK, Inv, NEW i \in Ids, NEW column, NEW locked, NEW body,
           Update(i, column, locked, body)
    PROVE  Inv'
<1> DEFINE new == [primary_threshold |-> column, locked |-> locked,
                   payload |-> [body |-> body, lock_hash |-> row[i].payload.lock_hash]]
<1>1. /\ row[i] # None /\ UpdateAllowed(row[i], new) /\ row' = [row EXCEPT ![i] = new]
      /\ edited' = IF body # row[i].payload.body THEN edited \cup {i} ELSE edited
      /\ UNCHANGED <<postgres, encoder, inserted, held, result, registered, hashedWith>>
    BY DEF Update
<1>2. edited \subseteq edited'
    BY <1>1
<1>3. ~postgres
    BY <1>1, RowOfFields DEF UpdateAllowed, Inv, RowsAre
<1>4. RowsSealed'
    <2>1. /\ row'[i].payload.lock_hash = row[i].payload.lock_hash
          /\ row'[i].payload.body = body
          /\ \A j \in Ids : j # i => row'[j] = row[j]
        BY <1>1 DEF TypeOK
    <2>2. Sealed(i, row[i].payload)
        BY <1>1 DEF Inv, RowsSealed
    <2>3. Sealed(i, row[i].payload) => body = Original(i) \/ i \in edited'
        BY <1>1 DEF Sealed
    <2>4. QED BY <1>1, <1>2, <2>1, <2>2, <2>3 DEF Inv, RowsSealed, Sealed, Seal, Original
<1>5. /\ RowsAre' /\ InsertedAsRegistered' /\ HeldSealed' /\ ResultRegistered'
      /\ ValidMeansRegistered' /\ AlarmExplained'
    BY <1>1, <1>2, <1>3
       DEF Inv, RowsAre, InsertedAsRegistered, HeldSealed, ResultRegistered,
           ValidMeansRegistered, AlarmExplained, Sealed, Seal, Original, RowOf
<1>6. QED BY <1>4, <1>5 DEF Inv

LEMMA InvStep == TypeOK /\ Inv /\ [Next]_vars => Inv'
<1> SUFFICES ASSUME TypeOK, Inv, [Next]_vars PROVE Inv'
    OBVIOUS
<1>1. ASSUME NEW i \in Ids, Delete(i) PROVE Inv'
    BY <1>1 DEF Delete, TypeOK, Inv, RowsSealed, RowsAre, InsertedAsRegistered, HeldSealed,
                ResultRegistered, ValidMeansRegistered, AlarmExplained,
                Sealed, Seal, Original, RowOf
<1>2. ASSUME NEW enc \in Encoders, Install(enc) PROVE Inv'
    BY <1>2 DEF Install, Inv, RowsSealed, RowsAre, InsertedAsRegistered, HeldSealed,
                ResultRegistered, ValidMeansRegistered, AlarmExplained,
                Sealed, Seal, Original, RowOf
<1>3. CASE UNCHANGED vars
    BY <1>3 DEF vars, Inv, RowsSealed, RowsAre, InsertedAsRegistered, HeldSealed,
                ResultRegistered, ValidMeansRegistered, AlarmExplained,
                Sealed, Seal, Original, RowOf
<1>4. QED BY <1>1, <1>2, <1>3, CreateStep, EndStep, FetchStep, AnalyzeStep, UpdateStep
          DEF Next, Use, ByHand

LEMMA AlwaysInv == Spec => []Inv
<1>1. QED BY InvInit, InvStep, TypeCorrect, PTL DEF Spec

\* On Postgres every row that exists is the one create() registered, under any statements
\* in any order (Preregistration.RowsAsRegistered).
THEOREM RowsStayAsRegistered == Spec => []RowsAsRegistered
<1>1. Inv => RowsAsRegistered
    BY RowsAreAsRegistered DEF Inv
<1>2. QED BY <1>1, AlwaysInv, PTL

\* A valid hash means the registered threshold, with or without the trigger, for any number
\* of changes that leave the hash (Preregistration.ValidMeansRegistered).
THEOREM ValidHashMeansRegistered == Spec => []ValidMeansRegistered
<1>1. Inv => ValidMeansRegistered
    BY DEF Inv
<1>2. QED BY <1>1, AlwaysInv, PTL

\* An invalid hash means that the payload or the encoder was changed
\* (Preregistration.AlarmExplained).
THEOREM AlarmsAreExplained == Spec => []AlarmExplained
<1>1. Inv => AlarmExplained
    BY DEF Inv
<1>2. QED BY <1>1, AlwaysInv, PTL
===============================================================================
