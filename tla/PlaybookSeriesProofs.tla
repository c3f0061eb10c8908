------------------------- MODULE PlaybookSeriesProofs -------------------------
(***************************************************************************)
(* Proofs about PlaybookSeries, for any series, files, bodies and bounds.  *)
(*                                                                         *)
(* ChosenRuns is not inductive: it speaks of the newest active row, and a  *)
(* step that makes that row inactive exposes another. ForceInv says of     *)
(* every active row that it is forced or the chosen one.                   *)
(***************************************************************************)
EXTENDS PlaybookSeries, WellFoundedInduction, TLAPS

\* An active row either came into its series as such or is what was last put in force.
ForceInv ==
    \A i \in DOMAIN row : row[i].active /\ i \notin forced => chosen[row[i].series] = i

\* The seeder has no row in hand while auditd serves, so a request cannot delete it.
ServingInv == phase = "serving" => created = NoId

Inv == TypeOK /\ ForceInv /\ ServingInv

-----------------------------------------------------------------------------
(* The store. *)

\* Insert adds one row under a new id and leaves the others.
LEMMA InsertTypes ==
    ASSUME TypeOK, NEW r \in Rows, Insert(r)
    PROVE  /\ made + 1 \in Ids /\ made + 1 \notin DOMAIN row
           /\ made' = made + 1 /\ made' \in 0..MaxRows
           /\ DOMAIN row' = DOMAIN row \cup {made + 1} /\ DOMAIN row' \subseteq 1..made'
           /\ row'[made + 1] = r
           /\ \A i \in DOMAIN row : row'[i] = row[i]
           /\ row' \in [DOMAIN row' -> Rows]
<1>1. made \in 0..MaxRows /\ DOMAIN row \subseteq 1..made /\ made < MaxRows /\ made' = made + 1
  BY DEF TypeOK, Insert
<1>2. made + 1 \in Ids /\ made + 1 \notin DOMAIN row /\ made' \in 0..MaxRows
  BY <1>1, ConstantsAssumption DEF Ids
<1>3. /\ DOMAIN row' = DOMAIN row \cup {made + 1}
      /\ \A i \in DOMAIN row' : row'[i] = IF i = made + 1 THEN r ELSE row[i]
  BY DEF Insert
<1>4. DOMAIN row' \subseteq 1..made'
  BY <1>1, <1>3, ConstantsAssumption
<1>5. row' = [i \in DOMAIN row' |-> row'[i]]
  BY DEF Insert
<1>6. \A i \in DOMAIN row' : row'[i] \in Rows
  BY <1>3 DEF TypeOK
<1> QED
  BY <1>1, <1>2, <1>3, <1>4, <1>5, <1>6

\* Activation keeps the rows' types and their series, and leaves the other series alone.
LEMMA ActivateTypes ==
    ASSUME TypeOK, NEW i \in DOMAIN row, NEW s, s = row[i].series,
           NEW v \in Versions, ActivateAlone(i, s, v)
    PROVE  /\ DOMAIN row' = DOMAIN row /\ row' \in [DOMAIN row' -> Rows]
           /\ row'[i].active /\ row'[i].series = s
           /\ \A j \in DOMAIN row : row'[j].series = row[j].series
           /\ \A j \in DOMAIN row : j # i /\ row[j].series = s => ~row'[j].active
           /\ \A j \in DOMAIN row : j # i /\ row[j].series # s => row'[j] = row[j]
           /\ chosen' \in [Series -> {NoId} \cup Ids] /\ chosen'[s] = i
           /\ \A t \in Series : t # s => chosen'[t] = chosen[t]
           /\ forced' \subseteq Ids
<1>1. row \in [DOMAIN row -> Rows] /\ row[i] \in Rows /\ s \in Series
  BY DEF TypeOK, Rows
<1>2. /\ DOMAIN row' = DOMAIN row
      /\ row' = [j \in DOMAIN row' |-> row'[j]]
      /\ \A j \in DOMAIN row : row'[j] =
            IF j = i THEN [row[i] EXCEPT !.active = TRUE, !.version = v]
            ELSE IF row[j].series = s THEN [row[j] EXCEPT !.active = FALSE] ELSE row[j]
  BY DEF ActivateAlone
<1>3. row'[i] \in Rows /\ row'[i].active /\ row'[i].series = s
  <2>1. row'[i] = [row[i] EXCEPT !.active = TRUE, !.version = v]
    BY <1>2
  <2> QED
    BY <2>1, <1>1 DEF Rows
<1>4. ASSUME NEW j \in DOMAIN row, j # i, row[j].series = s
      PROVE  row'[j] \in Rows /\ ~row'[j].active /\ row'[j].series = s
  <2>1. row'[j] = [row[j] EXCEPT !.active = FALSE] /\ row[j] \in Rows
    BY <1>1, <1>2, <1>4
  <2> QED
    BY <2>1, <1>4 DEF Rows
<1>5. \A j \in DOMAIN row : j # i /\ row[j].series # s => row'[j] = row[j]
  BY <1>2
<1>6. \A j \in DOMAIN row : row'[j] \in Rows /\ row'[j].series = row[j].series
  BY <1>1, <1>3, <1>4, <1>5
<1>7. row' \in [DOMAIN row' -> Rows]
  BY <1>2, <1>6
<1>8. /\ chosen' \in [Series -> {NoId} \cup Ids] /\ chosen'[s] = i
      /\ \A t \in Series : t # s => chosen'[t] = chosen[t]
  <2>1. chosen \in [Series -> {NoId} \cup Ids] /\ i \in Ids
    BY ConstantsAssumption DEF TypeOK, Ids
  <2> QED
    BY <2>1, <1>1 DEF ActivateAlone
<1>9. forced' \subseteq Ids
  BY DEF ActivateAlone, TypeOK
<1> QED
  BY <1>2, <1>3, <1>4, <1>5, <1>6, <1>7, <1>8, <1>9

\* After an activation every active row is forced or chosen.
LEMMA ActivateForce ==
    ASSUME Inv, NEW i \in DOMAIN row, NEW s, s = row[i].series,
           NEW v \in Versions, ActivateAlone(i, s, v)
    PROVE  ForceInv'
<1>1. TypeOK /\ ForceInv
  BY DEF Inv
<1>2. s \in Series /\ \A j \in DOMAIN row : row[j].series \in Series
  BY <1>1 DEF TypeOK, Rows
<1> SUFFICES ASSUME NEW j \in DOMAIN row', row'[j].active, j \notin forced'
             PROVE  chosen'[row'[j].series] = j
  BY DEF ForceInv
<1>3. CASE j = i
  BY <1>1, <1>3, ActivateTypes
<1>4. CASE j # i
  <2>1. j \in DOMAIN row /\ row[j].series # s /\ row'[j] = row[j]
    BY <1>1, <1>4, ActivateTypes
  <2>2. j \notin forced
    BY <2>1, <1>4 DEF ActivateAlone, RowsOf
  <2>3. chosen'[row[j].series] = chosen[row[j].series]
    BY <2>1, <1>1, <1>2, ActivateTypes
  <2> QED
    BY <1>1, <2>1, <2>2, <2>3 DEF ForceInv
<1> QED
  BY <1>3, <1>4
-----------------------------------------------------------------------------
(* Requests. *)

\* A row added to series s keeps ForceInv when, if active, it is forced or becomes the
\* chosen one of a series that had no active row.
LEMMA InsertForce ==
    ASSUME Inv, NEW r \in Rows, Insert(r),
           forced \subseteq forced', chosen' \in [Series -> {NoId} \cup Ids],
           \A t \in Series : t # r.series => chosen'[t] = chosen[t],
           \/ chosen' = chosen /\ (r.active => made + 1 \in forced')
           \/ ActiveOf(r.series) = {} /\ chosen'[r.series] = made + 1
    PROVE  ForceInv'
<1>1. TypeOK /\ ForceInv
  BY DEF Inv
<1>2. \A j \in DOMAIN row : row[j].series \in Series
  BY <1>1 DEF TypeOK, Rows
<1> SUFFICES ASSUME NEW j \in DOMAIN row', row'[j].active, j \notin forced'
             PROVE  chosen'[row'[j].series] = j
  BY DEF ForceInv
<1>3. CASE j = made + 1
  BY <1>1, <1>3, InsertTypes
<1>4. CASE j # made + 1
  <2>1. j \in DOMAIN row /\ row'[j] = row[j]
    BY <1>1, <1>4, InsertTypes
  <2>2. chosen[row[j].series] = j
    BY <1>1, <2>1 DEF ForceInv
  <2>3. ActiveOf(r.series) = {} => row[j].series # r.series
    BY <2>1 DEF ActiveOf, RowsOf
  <2> QED
    BY <1>2, <2>1, <2>2, <2>3
<1> QED
  BY <1>3, <1>4

\* POST of a playbook.
LEMMA CreateStep == ASSUME Inv, Create PROVE Inv'
<1>1. TypeOK
  BY DEF Inv
<1> PICK s \in Series, v \in Versions, body \in Bodies :
      LET isActive == body.is_active \/ (body.newSeries /\ body.source \notin Drafts)
      IN  /\ Insert([series |-> s, version |-> v, active |-> isActive,
                     system |-> body.is_system, source |-> body.source])
          /\ forced' = IF isActive /\ ActiveOf(s) # {} THEN forced \cup {made + 1} ELSE forced
          /\ chosen' = IF isActive /\ ActiveOf(s) = {} THEN [chosen EXCEPT ![s] = made + 1] ELSE chosen
  BY Zenon DEF Create
<1> DEFINE isActive == body.is_active \/ (body.newSeries /\ body.source \notin Drafts)
           r == [series |-> s, version |-> v, active |-> isActive,
                 system |-> body.is_system, source |-> body.source]
<1>2. r \in Rows /\ r.series = s /\ r.active = isActive
  BY ConstantsAssumption DEF Rows, CreateRequests
<1>3. Insert(r)
  OBVIOUS
<1> HIDE DEF r
<1>4. /\ made + 1 \in Ids /\ made' \in 0..MaxRows
      /\ DOMAIN row \subseteq DOMAIN row' /\ DOMAIN row' \subseteq 1..made'
      /\ row' \in [DOMAIN row' -> Rows]
  BY <1>1, <1>2, <1>3, InsertTypes
<1>5. /\ forced \subseteq forced' /\ forced' \subseteq Ids
      /\ chosen' \in [Series -> {NoId} \cup Ids]
      /\ \A t \in Series : t # s => chosen'[t] = chosen[t]
  BY <1>1, <1>4 DEF TypeOK
<1>6. \/ chosen' = chosen /\ (isActive => made + 1 \in forced')
      \/ ActiveOf(s) = {} /\ chosen'[s] = made + 1
  BY <1>1 DEF TypeOK
<1>7. ForceInv'
  BY <1>2, <1>3, <1>5, <1>6, InsertForce
<1>8. TypeOK'
  BY <1>1, <1>4, <1>5 DEF TypeOK, Create, seeder
<1> QED
  BY <1>7, <1>8 DEF Inv, ServingInv, Create, seeder

\* A draft from a trace.
LEMMA FromTraceStep == ASSUME Inv, FromTrace PROVE Inv'
<1>1. TypeOK
  BY DEF Inv
<1> PICK s \in Series, v \in Versions :
      Insert([series |-> s, version |-> v, active |-> FALSE, system |-> FALSE, source |-> "generated"])
  BY DEF FromTrace
<1> DEFINE r == [series |-> s, version |-> v, active |-> FALSE, system |-> FALSE, source |-> "generated"]
<1>2. r \in Rows /\ ~r.active
  BY DEF Rows, Sources
<1>3. Insert(r)
  OBVIOUS
<1> HIDE DEF r
<1>4. /\ made' \in 0..MaxRows
      /\ DOMAIN row \subseteq DOMAIN row' /\ DOMAIN row' \subseteq 1..made'
      /\ row' \in [DOMAIN row' -> Rows]
  BY <1>1, <1>2, <1>3, InsertTypes
<1>5. forced' = forced /\ chosen' = chosen
  BY DEF FromTrace
<1>6. ForceInv'
  BY <1>1, <1>2, <1>3, <1>5, InsertForce DEF TypeOK
<1>7. TypeOK'
  BY <1>1, <1>4, <1>5 DEF TypeOK, FromTrace, seeder
<1> QED
  BY <1>6, <1>7 DEF Inv, ServingInv, FromTrace, seeder

\* PUT of a playbook: an active row that changes its series becomes forced.
LEMMA UpdateStep == ASSUME Inv, Update PROVE Inv'
<1>1. TypeOK /\ ForceInv
  BY DEF Inv
<1> PICK i \in DOMAIN row, s \in Series, v \in Versions :
      /\ row' = [row EXCEPT ![i].series = s, ![i].version = v]
      /\ forced' = IF row[i].active /\ row[i].series # s THEN forced \cup {i} ELSE forced
  BY DEF Update
<1>2. row \in [DOMAIN row -> Rows] /\ row[i] \in Rows /\ i \in Ids
  BY <1>1, ConstantsAssumption DEF TypeOK, Ids
<1>3. /\ DOMAIN row' = DOMAIN row
      /\ row'[i] = [row[i] EXCEPT !.series = s, !.version = v]
      /\ \A j \in DOMAIN row : j # i => row'[j] = row[j]
      /\ row' = [j \in DOMAIN row' |-> row'[j]]
  BY <1>2
<1>4. row'[i] \in Rows /\ row'[i].active = row[i].active /\ row'[i].series = s
  BY <1>2, <1>3 DEF Rows
<1>5. row' \in [DOMAIN row' -> Rows]
  BY <1>2, <1>3, <1>4
<1>6. forced' \subseteq Ids /\ chosen' = chosen
  BY <1>1, <1>2 DEF TypeOK, Update
<1>7. TypeOK'
  BY <1>1, <1>3, <1>5, <1>6, ConstantsAssumption DEF TypeOK, Update, seeder
<1>8. ForceInv'
  BY <1>1, <1>3, <1>4, <1>6 DEF ForceInv
<1> QED
  BY <1>7, <1>8 DEF Inv, ServingInv, Update, seeder

\* DELETE of a playbook.
LEMMA DeleteStep == ASSUME Inv, Delete PROVE Inv'
<1>1. TypeOK /\ ForceInv /\ ServingInv
  BY DEF Inv
<1> PICK i \in DOMAIN row :
      row' = [j \in DOMAIN row \ {i} |-> row[j]] /\ forced' = forced \ {i}
  BY DEF Delete
<1>2. /\ DOMAIN row' = DOMAIN row \ {i} /\ row' \in [DOMAIN row' -> Rows]
      /\ \A j \in DOMAIN row' : row'[j] = row[j]
  BY <1>1 DEF TypeOK
<1>3. TypeOK'
  <2>1. created' = NoId
    BY <1>1 DEF ServingInv, Delete, seeder
  <2> QED
    BY <1>1, <1>2, <2>1 DEF TypeOK, Delete, seeder
<1>4. ForceInv'
  BY <1>1, <1>2 DEF ForceInv, Delete
<1>5. ServingInv'
  BY <1>1 DEF ServingInv, Delete, seeder
<1> QED
  BY <1>3, <1>4, <1>5 DEF Inv

\* What every activation leaves of the types.
LEMMA ActivateStepTypes ==
    ASSUME TypeOK, NEW i \in DOMAIN row, NEW v \in Versions,
           ActivateAlone(i, row[i].series, v), UNCHANGED <<made, updates, file, restarts>>,
           phase' \in {"seeding", "serving"}, todo' \subseteq Shipped,
           created' \in {NoId} \cup DOMAIN row
    PROVE  TypeOK'
BY ActivateTypes DEF TypeOK

\* Activation by a caller.
LEMMA ActivateStep == ASSUME Inv, Activate PROVE Inv'
<1>1. TypeOK /\ ServingInv
  BY DEF Inv
<1> PICK i \in DOMAIN row :
      LET s == row[i].series
          before == IF ActiveOf(s) = {} THEN {Blank} ELSE {row[j].version : j \in ActiveOf(s)}
      IN  \E v \in IF row[i].version = Blank THEN UNION {nextVersion(b) : b \in before}
                    ELSE {row[i].version} :
             ActivateAlone(i, s, v)
  BY Zenon DEF Activate
<1> PICK v : /\ v \in IF row[i].version = Blank THEN UNION {nextVersion(b) :
                         b \in IF ActiveOf(row[i].series) = {} THEN {Blank}
                               ELSE {row[j].version : j \in ActiveOf(row[i].series)}}
                      ELSE {row[i].version}
             /\ ActivateAlone(i, row[i].series, v)
  BY Zenon
<1>2. v \in Versions
  <2>1. row[i].version \in Versions
    BY <1>1 DEF TypeOK, Rows
  <2>2. \A b : nextVersion(b) \subseteq Versions
    BY ConstantsAssumption DEF nextVersion, Versions, Blank
  <2> QED
    BY <2>1, <2>2
<1>3. UNCHANGED <<made, updates, phase, file, todo, created, restarts>>
  BY DEF Activate, seeder
<1>4. TypeOK'
  BY <1>1, <1>2, <1>3, ActivateStepTypes DEF TypeOK
<1>5. ForceInv'
  BY <1>2, ActivateForce
<1> QED
  BY <1>1, <1>3, <1>4, <1>5 DEF Inv, ServingInv

-----------------------------------------------------------------------------
(* The seeder. *)

\* Newest finds a row: ids are bounded.
LEMMA NewestExists ==
    ASSUME NEW n \in Nat, NEW I, I \subseteq 1..n, I # {}
    PROVE  Newest(I) \in I
<1> DEFINE T == {k \in Nat : n - k \in I}
           R == OpToRel(<, Nat)
<1>1. T \subseteq Nat
  OBVIOUS
<1>2. T # {}
  <2>1. PICK i \in I : TRUE
    OBVIOUS
  <2>2. n - i \in Nat /\ n - (n - i) = i
    OBVIOUS
  <2> QED
    BY <2>1, <2>2
<1>3. IsWellFoundedOn(R, Nat)
  BY NatLessThanWellFounded
<1>4. PICK k \in T : \A l \in T : ~(<<l, k>> \in R)
  <2> HIDE DEF T, R
  <2> QED
    BY <1>1, <1>2, <1>3, WFMin
<1>5. \A l \in T : k <= l
  <2> SUFFICES ASSUME NEW l \in T, l < k PROVE FALSE
    OBVIOUS
  <2>1. <<l, k>> \in R
    BY DEF OpToRel
  <2> QED
    BY <2>1, <1>4
<1>6. \A j \in I : j <= n - k
  <2> SUFFICES ASSUME NEW j \in I PROVE j <= n - k
    OBVIOUS
  <2>1. n - j \in T
    <3>1. n - j \in Nat /\ n - (n - j) = j
      OBVIOUS
    <3> QED
      BY <3>1
  <2>2. j \in Nat /\ k \in Nat
    OBVIOUS
  <2>3. k <= n - j
    <3> HIDE DEF T
    <3> QED
      BY <2>1, <1>5
  <2> QED
    BY <2>2, <2>3
<1> QED
  BY <1>6 DEF Newest

\* The file's version is in the table: nothing, or its row is activated.
LEMMA SeedExistingStep ==
    ASSUME Inv, NEW s \in todo, phase = "seeding", SeedExisting(s),
           UNCHANGED <<made, created, phase, file, restarts, updates>>
    PROVE  Inv'
<1>1. TypeOK /\ ForceInv /\ todo' \subseteq Shipped
  BY DEF Inv, TypeOK, SeedExisting
<1>2. CASE ActiveOf(s) # {}
  <2>1. UNCHANGED <<row, chosen, forced>>
    BY <1>2 DEF SeedExisting
  <2> QED
    BY <1>1, <2>1 DEF Inv, TypeOK, ForceInv, ServingInv
<1>3. CASE ActiveOf(s) = {}
  <2> DEFINE i == Newest(SameVersion(s))
  <2>1. SameVersion(s) # {} /\ ActivateAlone(i, s, row[i].version)
    BY <1>3 DEF SeedExisting
  <2>2. made \in Nat /\ SameVersion(s) \subseteq 1..made
    BY <1>1, ConstantsAssumption DEF TypeOK, SameVersion, RowsOf
  <2>3. i \in SameVersion(s)
    BY <2>1, <2>2, NewestExists
  <2>4. i \in DOMAIN row /\ s = row[i].series
    BY <2>3 DEF SameVersion, RowsOf
  <2>5. row[i].version \in Versions
    BY <2>4, <1>1 DEF TypeOK, Rows
  <2> HIDE DEF i
  <2>6. TypeOK'
    BY <1>1, <2>1, <2>4, <2>5, ActivateStepTypes DEF TypeOK
  <2>7. ForceInv'
    BY <2>1, <2>4, <2>5, ActivateForce
  <2> QED
    BY <2>6, <2>7 DEF Inv, ServingInv
<1> QED
  BY <1>2, <1>3

\* The file's version is new: it is inserted, as the first row or as a forced one.
LEMMA SeedNewStep ==
    ASSUME Inv, NEW s \in todo, phase = "seeding", SeedNew(s),
           UNCHANGED <<phase, file, restarts, updates>>
    PROVE  Inv'
<1>1. TypeOK
  BY DEF Inv
<1> DEFINE r == [series |-> s, version |-> file[s], active |-> TRUE, system |-> TRUE, source |-> "system"]
<1>2. r \in Rows /\ r.series = s /\ r.active /\ s \in Series
  BY <1>1, ConstantsAssumption DEF TypeOK, Rows, Sources, Versions
<1>3. Insert(r)
  BY DEF SeedNew
<1> HIDE DEF r
<1>4. /\ made + 1 \in Ids /\ made' \in 0..MaxRows
      /\ DOMAIN row' = DOMAIN row \cup {made + 1} /\ DOMAIN row' \subseteq 1..made'
      /\ row' \in [DOMAIN row' -> Rows]
  BY <1>1, <1>2, <1>3, InsertTypes
<1>5. /\ forced \subseteq forced' /\ forced' \subseteq Ids
      /\ chosen' \in [Series -> {NoId} \cup Ids]
      /\ \A t \in Series : t # s => chosen'[t] = chosen[t]
      /\ todo' \subseteq Shipped /\ created' \in {NoId} \cup DOMAIN row'
  BY <1>1, <1>2, <1>4 DEF TypeOK, SeedNew
<1>6. \/ chosen' = chosen /\ made + 1 \in forced'
      \/ ActiveOf(s) = {} /\ chosen'[s] = made + 1
  BY <1>1, <1>2 DEF TypeOK, SeedNew, ActiveOf
<1>7. ForceInv'
  BY <1>2, <1>3, <1>5, <1>6, InsertForce
<1>8. TypeOK'
  BY <1>1, <1>4, <1>5 DEF TypeOK
<1> QED
  BY <1>7, <1>8 DEF Inv, ServingInv

\* The seeder looks at a file.
LEMMA SeedFileStep == ASSUME Inv, SeedFile PROVE Inv'
BY SeedExistingStep, SeedNewStep DEF SeedFile

\* The second transaction of the seeder.
LEMMA SeedActivateStep == ASSUME Inv, SeedActivate PROVE Inv'
<1>1. TypeOK
  BY DEF Inv
<1>2. created \in DOMAIN row /\ ActivateAlone(created, row[created].series, row[created].version)
  BY <1>1 DEF TypeOK, SeedActivate
<1>3. row[created].version \in Versions
  BY <1>1, <1>2 DEF TypeOK, Rows
<1>4. ForceInv'
  BY <1>2, <1>3, ActivateForce
<1>5. TypeOK'
  <2>1. /\ UNCHANGED <<made, updates, file, restarts>> /\ phase' \in {"seeding", "serving"}
        /\ todo' \subseteq Shipped /\ created' \in {NoId} \cup DOMAIN row
    BY <1>1 DEF TypeOK, SeedActivate
  <2> QED
    BY <1>1, <1>2, <1>3, <2>1, ActivateStepTypes
<1> QED
  BY <1>4, <1>5 DEF Inv, ServingInv, SeedActivate

\* auditd begins to serve.
LEMMA ServeStep == ASSUME Inv, Serve PROVE Inv'
BY DEF Inv, TypeOK, ForceInv, ServingInv, Serve

\* auditd starts again, at any point, perhaps as another release.
LEMMA RestartStep == ASSUME Inv, Restart PROVE Inv'
BY ConstantsAssumption DEF Inv, TypeOK, ForceInv, ServingInv, Restart

-----------------------------------------------------------------------------
(* The theorems. *)

\* An empty table satisfies the invariant.
LEMMA InitInv == Init => Inv
BY ConstantsAssumption DEF Init, Inv, TypeOK, ForceInv, ServingInv, Ids, NoId

\* Every step keeps the invariant.
LEMMA NextInv == Inv /\ [Next]_vars => Inv'
<1> SUFFICES ASSUME Inv, [Next]_vars PROVE Inv'
  OBVIOUS
<1>1. CASE UNCHANGED vars
  BY <1>1 DEF vars, Inv, TypeOK, ForceInv, ServingInv
<1> QED
  BY <1>1, CreateStep, FromTraceStep, UpdateStep, DeleteStep, ActivateStep, SeedFileStep,
     SeedActivateStep, ServeStep, RestartStep DEF Next

\* The invariant holds in every reachable state.
LEMMA InvAlways == Spec => []Inv
BY InitInv, NextInv, PTL DEF Spec

\* Every variable keeps its type; in particular the row the seeder has in hand exists
\* when it activates it, although requests delete rows.
THEOREM SeriesTypes == Spec => []TypeOK
<1>1. Inv => TypeOK
  BY DEF Inv
<1> QED
  BY <1>1, InvAlways, PTL

\* What runs is what was last put in force, for any number of series, rows and restarts.
THEOREM ChosenAlwaysRuns == Spec => []ChosenRuns
<1>1. Inv => ChosenRuns
  <2> SUFFICES ASSUME Inv, NEW s \in Series, ActiveOf(s) # {}, ActiveOf(s) \cap forced = {}
               PROVE  Running(s) = chosen[s]
    BY DEF ChosenRuns
  <2>1. \A i \in ActiveOf(s) : i = chosen[s]
    BY DEF Inv, ForceInv, ActiveOf, RowsOf
  <2>2. made \in Nat /\ ActiveOf(s) \subseteq 1..made
    BY ConstantsAssumption DEF Inv, TypeOK, ActiveOf, RowsOf
  <2>3. Newest(ActiveOf(s)) \in ActiveOf(s)
    BY <2>2, NewestExists
  <2> QED
    BY <2>1, <2>3 DEF Running
<1> QED
  BY <1>1, InvAlways, PTL
-----------------------------------------------------------------------------
(* A seeded series can run. *)

\* An activation gives its series an active row and takes none from the others.
LEMMA ActivateRunnable ==
    ASSUME TypeOK, NEW i \in DOMAIN row, NEW v \in Versions, ActivateAlone(i, row[i].series, v)
    PROVE  \A s \in Series : s = row[i].series \/ ActiveOf(s) # {} => (ActiveOf(s) # {})'
<1> SUFFICES ASSUME NEW s \in Series, s = row[i].series \/ ActiveOf(s) # {}
             PROVE  \E j \in DOMAIN row' : row'[j].series = s /\ row'[j].active
  BY DEF ActiveOf, RowsOf
<1>1. CASE s = row[i].series
  BY <1>1, ActivateTypes
<1>2. CASE s # row[i].series
  <2>1. PICK j \in DOMAIN row : row[j].series = s /\ row[j].active
    BY <1>2 DEF ActiveOf, RowsOf
  <2>2. j \in DOMAIN row' /\ row'[j] = row[j]
    BY <1>2, <2>1, ActivateTypes
  <2> QED
    BY <2>1, <2>2
<1> QED
  BY <1>1, <1>2

\* An active row added to a series leaves every series that had one with an active row.
LEMMA InsertRunnable ==
    ASSUME TypeOK, NEW r \in Rows, r.active, Insert(r)
    PROVE  \A s \in Series : s = r.series \/ ActiveOf(s) # {} => (ActiveOf(s) # {})'
<1> SUFFICES ASSUME NEW s \in Series, s = r.series \/ ActiveOf(s) # {}
             PROVE  \E j \in DOMAIN row' : row'[j].series = s /\ row'[j].active
  BY DEF ActiveOf, RowsOf
<1>1. CASE s = r.series
  BY <1>1, InsertTypes
<1>2. CASE s # r.series
  <2>1. PICK j \in DOMAIN row : row[j].series = s /\ row[j].active
    BY <1>2 DEF ActiveOf, RowsOf
  <2>2. j \in DOMAIN row' /\ row'[j] = row[j]
    BY <2>1, InsertTypes
  <2> QED
    BY <2>1, <2>2
<1> QED
  BY <1>1, <1>2

\* The series of a file the seeder has just handled has an active row.
LEMMA SeedFileRunnable == ASSUME Inv, SeededRunnable, SeedFile PROVE SeededRunnable'
<1>1. TypeOK /\ (\A s \in Shipped \ todo : ActiveOf(s) # {}) /\ Shipped \subseteq Series
  BY ConstantsAssumption DEF Inv, SeededRunnable, SeedFile
<1>2. PICK s \in todo : SeedExisting(s) \/ SeedNew(s)
  BY DEF SeedFile
<1>3. s \in Series
  BY <1>1 DEF TypeOK
<1>4. CASE SeedExisting(s) /\ ActiveOf(s) # {}
  <2>1. row' = row /\ todo' = todo \ {s}
    BY <1>4 DEF SeedExisting
  <2> QED
    BY <1>1, <1>4, <2>1 DEF SeededRunnable, ActiveOf, RowsOf
<1>5. CASE SeedExisting(s) /\ ActiveOf(s) = {}
  <2> DEFINE i == Newest(SameVersion(s))
  <2>1. SameVersion(s) # {} /\ ActivateAlone(i, s, row[i].version) /\ todo' = todo \ {s}
    BY <1>5 DEF SeedExisting
  <2>2. made \in Nat /\ SameVersion(s) \subseteq 1..made
    BY <1>1, ConstantsAssumption DEF TypeOK, SameVersion, RowsOf
  <2>3. i \in DOMAIN row /\ s = row[i].series
    <3>1. i \in SameVersion(s)
      BY <2>1, <2>2, NewestExists
    <3> QED
      BY <3>1 DEF SameVersion, RowsOf
  <2>4. row[i].version \in Versions
    BY <2>3, <1>1 DEF TypeOK, Rows
  <2> HIDE DEF i
  <2>5. \A t \in Series : t = s \/ ActiveOf(t) # {} => (ActiveOf(t) # {})'
    BY <1>1, <2>1, <2>3, <2>4, ActivateRunnable
  <2> QED
    BY <1>1, <2>1, <2>5 DEF SeededRunnable
<1>6. CASE SeedNew(s)
  <2> DEFINE r == [series |-> s, version |-> file[s], active |-> TRUE, system |-> TRUE, source |-> "system"]
  <2>1. r \in Rows /\ r.series = s /\ r.active
    BY <1>1, <1>3 DEF TypeOK, Rows, Sources, Versions
  <2>2. Insert(r) /\ todo \ {s} \subseteq todo'
    BY <1>6 DEF SeedNew
  <2> HIDE DEF r
  <2>3. \A t \in Series : t = s \/ ActiveOf(t) # {} => (ActiveOf(t) # {})'
    BY <1>1, <2>1, <2>2, InsertRunnable
  <2> QED
    BY <1>1, <2>2, <2>3 DEF SeededRunnable
<1> QED
  BY <1>2, <1>4, <1>5, <1>6

\* So has the series whose new version it activates.
LEMMA SeedActivateRunnable == ASSUME Inv, SeededRunnable, SeedActivate PROVE SeededRunnable'
<1>1. TypeOK /\ (\A s \in Shipped \ todo : ActiveOf(s) # {}) /\ Shipped \subseteq Series
  BY ConstantsAssumption DEF Inv, SeededRunnable, SeedActivate
<1>2. created \in DOMAIN row /\ ActivateAlone(created, row[created].series, row[created].version)
  BY <1>1 DEF TypeOK, SeedActivate
<1>3. row[created].version \in Versions
  BY <1>1, <1>2 DEF TypeOK, Rows
<1>4. \A t \in Series : t = row[created].series \/ ActiveOf(t) # {} => (ActiveOf(t) # {})'
  BY <1>1, <1>2, <1>3, ActivateRunnable
<1>5. todo' = todo \ {row[created].series}
  BY DEF SeedActivate
<1> QED
  BY <1>1, <1>4, <1>5 DEF SeededRunnable

\* Every step keeps SeededRunnable: requests run in another phase, a restart begins anew.
LEMMA NextRunnable == Inv /\ SeededRunnable /\ [Next]_vars => SeededRunnable'
<1> SUFFICES ASSUME Inv, SeededRunnable, [Next]_vars PROVE SeededRunnable'
  OBVIOUS
<1>1. CASE UNCHANGED vars
  BY <1>1 DEF vars, SeededRunnable, ActiveOf, RowsOf
<1>2. CASE Create \/ FromTrace \/ Update \/ Delete \/ Activate \/ Serve
  <2>1. phase' = "serving"
    BY <1>2 DEF Create, FromTrace, Update, Delete, Activate, Serve, seeder
  <2> QED
    BY <2>1 DEF SeededRunnable
<1>3. CASE Restart
  BY <1>3 DEF Restart, SeededRunnable
<1> QED
  BY <1>1, <1>2, <1>3, SeedFileRunnable, SeedActivateRunnable DEF Next

\* Once the seeder has been through a file, its series has an active version.
THEOREM SeededAlwaysRunnable == Spec => []SeededRunnable
<1>1. Init => SeededRunnable
  BY DEF Init, SeededRunnable
<1> QED
  BY <1>1, NextRunnable, InvAlways, PTL DEF Spec
=============================================================================
