---------------------------- MODULE PlaybookSeries ----------------------------
(***************************************************************************)
(* The playbooks table: versions of playbook series, of which the active   *)
(* one is what a run of the series executes (internal/audit/               *)
(* playbook_store.go, cmd/auditd/playbook_handlers.go), the seeder that    *)
(* installs the shipped playbooks when auditd starts (playbooks/seed.go),  *)
(* and the drafts the gateway has a model write (cmd/gateway/              *)
(* playbook_from_trace.go, playbook_import.go).                            *)
(*                                                                         *)
(* auditd seeds before it serves. A request is one step: the only other    *)
(* statement of Update and Delete reads is_system, which no step changes.  *)
(* The fields a version carries besides these are left out.                *)
(***************************************************************************)
EXTENDS Integers, FiniteSets

CONSTANTS
    Series,      \* series ids
    Shipped,     \* the series the binary has a file for
    Bodies,      \* what POST requests say of a playbook
    MaxRows,     \* bound: rows ever created
    MaxVersion,  \* bound: versions are 1..MaxVersion, in the order nextVersion gives
    MaxUpdates,  \* bound: PUT requests
    MaxRestarts  \* bound: restarts of auditd

Sources == {"manual", "imported", "generated", "system"}
Drafts == {"imported", "generated"}

\* The body of a POST: newSeries when it names no series.
CreateRequests == [newSeries : BOOLEAN, is_active : BOOLEAN, is_system : BOOLEAN, source : Sources]

ASSUME ConstantsAssumption ==
    /\ Bodies \subseteq CreateRequests
    /\ Shipped \subseteq Series /\ IsFiniteSet(Series)
    /\ MaxRows \in Nat /\ MaxVersion \in Nat \ {0} /\ MaxRestarts \in Nat /\ MaxUpdates \in Nat

Ids == 1..MaxRows            \* playbook_id, in the order of created_at
NoId == 0
Blank == 0                   \* no version given
Versions == 0..MaxVersion

Rows == [series : Series, version : Versions, active : BOOLEAN,
         system : BOOLEAN, source : Sources]

VARIABLES
    row,       \* playbooks: a function whose domain are the rows there are
    made,      \* rows created so far
    phase,     \* auditd: "seeding" or "serving"
    file,      \* version of each shipped playbook in the running binary
    todo,      \* files the seeder has not looked at
    created,   \* the row the seeder created and still has to activate
    restarts,
    updates,
    chosen,    \* the version last put in force in each series
    forced     \* rows that came into their series as active, or were left so

vars == <<row, made, phase, file, todo, created, restarts, updates, chosen, forced>>
seeder == <<phase, file, todo, created, restarts>>

Init ==
    /\ row = [i \in {} |-> NoId]
    /\ made = 0 /\ phase = "seeding" /\ todo = Shipped /\ created = NoId /\ restarts = 0 /\ updates = 0
    /\ file \in [Shipped -> Versions \ {Blank}]
    /\ chosen = [s \in Series |-> NoId] /\ forced = {}

RowsOf(s) == {i \in DOMAIN row : row[i].series = s}
ActiveOf(s) == {i \in RowsOf(s) : row[i].active}
Newest(I) == CHOOSE i \in I : \A j \in I : j <= i

\* fetchPlaybookBySeriesID: what a run of s executes, the first of List's active rows.
Running(s) == Newest(ActiveOf(s))

-----------------------------------------------------------------------------
(* The store. *)

Insert(r) ==
    /\ made < MaxRows /\ made' = made + 1
    /\ row' = [i \in DOMAIN row \cup {made + 1} |-> IF i = made + 1 THEN r ELSE row[i]]

\* Mutant: the versions that were active before stay so.
ActivateToo(i, s, version) ==
    /\ row' = [row EXCEPT ![i].active = TRUE, ![i].version = version]
    /\ chosen' = [chosen EXCEPT ![s] = i]
    /\ forced' = forced \ (RowsOf(s) \cup {i})

\* The two updates of Activate and ActivateSystem, one transaction.
ActivateAlone(i, s, version) ==
    /\ row' = [j \in DOMAIN row |->
                IF j = i THEN [row[i] EXCEPT !.active = TRUE, !.version = version]
                ELSE IF row[j].series = s THEN [row[j] EXCEPT !.active = FALSE] ELSE row[j]]
    /\ chosen' = [chosen EXCEPT ![s] = i]
    /\ forced' = forced \ (RowsOf(s) \cup {i})

\* Versions in the order of nextVersion; a version it cannot read stays blank.
nextVersion(v) == {Blank} \cup {w \in Versions : w = v + 1}

-----------------------------------------------------------------------------
(* Requests. *)

\* handleCreate and Create: is_active is the caller's, but the first version of a new
\* series is active unless it is a draft.
Create ==
    /\ phase = "serving"
    /\ \E s \in Series, v \in Versions, body \in Bodies :
         LET i == made + 1
             isActive == body.is_active \/ (body.newSeries /\ body.source \notin Drafts)
         IN  /\ body.newSeries => RowsOf(s) = {} /\ s \notin Shipped
             /\ Insert([series |-> s, version |-> v, active |-> isActive,
                        system |-> body.is_system, source |-> body.source])
             /\ forced' = IF isActive /\ ActiveOf(s) # {} THEN forced \cup {i} ELSE forced
             /\ chosen' = IF isActive /\ ActiveOf(s) = {} THEN [chosen EXCEPT ![s] = i] ELSE chosen
    /\ UNCHANGED updates /\ UNCHANGED seeder

\* handlePlaybookFromTrace and persistPlaybookDraft: the series and the version are the
\* caller's, or else what the model wrote, or else a new series.
FromTrace ==
    /\ phase = "serving"
    /\ \E s \in Series, v \in Versions :
         Insert([series |-> s, version |-> v, active |-> FALSE, system |-> FALSE,
                 source |-> "generated"])
    /\ UNCHANGED <<updates, chosen, forced>> /\ UNCHANGED seeder

\* handleUpdate and Update: the body's series and version replace the row's.
Update ==
    /\ phase = "serving"
    /\ \E i \in DOMAIN row, s \in Series, v \in Versions :
         /\ ~row[i].system
         /\ row' = [row EXCEPT ![i].series = s, ![i].version = v]
         /\ forced' = IF row[i].active /\ row[i].series # s THEN forced \cup {i} ELSE forced
    /\ updates < MaxUpdates /\ updates' = updates + 1
    /\ UNCHANGED <<made, chosen>> /\ UNCHANGED seeder

\* handleDelete and Delete.
Delete ==
    /\ phase = "serving"
    /\ \E i \in DOMAIN row :
         /\ ~row[i].system
         /\ row' = [j \in DOMAIN row \ {i} |-> row[j]]
         /\ forced' = forced \ {i}
    /\ UNCHANGED <<made, updates, chosen>> /\ UNCHANGED seeder

\* handleActivate and Activate: a blank version becomes the one after an active row's.
Activate ==
    /\ phase = "serving"
    /\ \E i \in DOMAIN row :
         LET s == row[i].series
             before == IF ActiveOf(s) = {} THEN {Blank} ELSE {row[j].version : j \in ActiveOf(s)}
         IN  /\ ~row[i].system
             /\ \E v \in IF row[i].version = Blank THEN UNION {nextVersion(b) : b \in before}
                         ELSE {row[i].version} :
                  ActivateAlone(i, s, v)
    /\ UNCHANGED <<made, updates>> /\ UNCHANGED seeder

-----------------------------------------------------------------------------
(* SeedSystemPlaybooks. *)

\* The row the loop over the existing versions stops at.
SameVersion(s) == {i \in RowsOf(s) : row[i].version = file[s]}

\* Mutant: a version that is already there is left as it is.
SkipSeeded(s) ==
    /\ SameVersion(s) # {}
    /\ todo' = todo \ {s}
    /\ UNCHANGED <<row, chosen, forced>>

SeedExisting(s) ==
    LET i == Newest(SameVersion(s))
    IN  /\ SameVersion(s) # {}
        /\ todo' = todo \ {s}
        /\ IF ActiveOf(s) # {} THEN UNCHANGED <<row, chosen, forced>>
           ELSE ActivateAlone(i, s, row[i].version)

\* A version the table does not have is created active, and the others are
\* deactivated by a second transaction.
SeedNew(s) ==
    /\ SameVersion(s) = {}
    /\ Insert([series |-> s, version |-> file[s], active |-> TRUE, system |-> TRUE,
               source |-> "system"])
    /\ IF RowsOf(s) = {}
       THEN /\ chosen' = [chosen EXCEPT ![s] = made + 1]
            /\ todo' = todo \ {s} /\ UNCHANGED <<created, forced>>
       ELSE created' = made + 1 /\ forced' = forced \cup {made + 1} /\ UNCHANGED <<todo, chosen>>

SeedFile ==
    /\ phase = "seeding" /\ created = NoId
    /\ \E s \in todo :
         \/ SeedExisting(s) /\ UNCHANGED <<made, created>>
         \/ SeedNew(s)
    /\ UNCHANGED <<phase, file, restarts, updates>>

SeedActivate ==
    /\ phase = "seeding" /\ created # NoId
    /\ ActivateAlone(created, row[created].series, row[created].version)
    /\ todo' = todo \ {row[created].series} /\ created' = NoId
    /\ UNCHANGED <<made, phase, file, restarts, updates>>

\* The seeder is through, or a failed statement ends it: auditd serves either way.
Serve ==
    /\ phase = "seeding" /\ phase' = "serving"
    /\ created' = NoId
    /\ UNCHANGED <<row, made, file, todo, restarts, updates, chosen, forced>>

\* auditd stops, or dies at any point, and starts again, perhaps as another release.
Restart ==
    /\ restarts < MaxRestarts /\ restarts' = restarts + 1
    /\ phase' = "seeding" /\ todo' = Shipped /\ created' = NoId
    /\ file' \in [Shipped -> Versions \ {Blank}]
    /\ UNCHANGED <<row, made, updates, chosen, forced>>

Next ==
    \/ Create \/ FromTrace \/ Update \/ Delete \/ Activate
    \/ SeedFile \/ SeedActivate \/ Serve \/ Restart

Spec == Init /\ [][Next]_vars

-----------------------------------------------------------------------------
(* Properties. *)

\* Type invariant.
TypeOK ==
    /\ DOMAIN row \subseteq 1..made /\ made \in 0..MaxRows
    /\ row \in [DOMAIN row -> Rows]
    /\ phase \in {"seeding", "serving"} /\ file \in [Shipped -> Versions \ {Blank}]
    /\ todo \subseteq Shipped /\ created \in {NoId} \cup DOMAIN row
    /\ restarts \in 0..MaxRestarts /\ updates \in 0..MaxUpdates
    /\ chosen \in [Series -> {NoId} \cup Ids]
    /\ forced \subseteq Ids

\* A run of a series executes the version that was last put in force in it, by a caller,
\* by the seeder or as its first version; unless a version was added to the series as
\* active (by a caller, or by a seeder that did not get to deactivate the others) and
\* none has been activated since (Activate, ActivateSystem, fetchPlaybookBySeriesID).
ChosenRuns ==
    \A s \in Series : ActiveOf(s) # {} /\ ActiveOf(s) \cap forced = {} => Running(s) = chosen[s]

\* Once the seeder has been through a file, the series has an active version, whatever
\* callers activated, deleted or moved before this start (SeedSystemPlaybooks).
SeededRunnable ==
    phase = "seeding" => \A s \in Shipped \ todo : ActiveOf(s) # {}
=============================================================================
