------------------------------- MODULE Rollback -------------------------------
(***************************************************************************)
(* Rollback records of auditd: initiating a rollback of a tool execution   *)
(* or of a fleet job, cancelling it, and the RollbackExecutor              *)
(* (cmd/auditd/rollback_handlers.go, cmd/auditd/rollback_executor.go,      *)
(* internal/audit/rollback.go, internal/audit/rollback_store.go).          *)
(*                                                                         *)
(* Every handler is a sequence of single SQL statements with no            *)
(* transaction around them; a step of this specification is one statement. *)
(* Any of them may fail, and auditd may stop between any two.  Requests    *)
(* that are refused (404, 409, 422) and dry runs change nothing.           *)
(*                                                                         *)
(* No main function constructs the executor yet: its caller, modelled from *)
(* Execute's contract, loads a record and passes it in.                    *)
(***************************************************************************)
EXTENDS Integers, FiniteSets

CONSTANTS
    Events,            \* tool_execution events
    Jobs,              \* fleet jobs
    Records,           \* rollback_id and fleet_rollback_id values
    ToolEvents,        \* the tools and pre-states an event may have
    Calls,             \* goroutines of auditd serving a request
    None,
    GatewayConfigured, \* the executor was given a gateway URL
    MaxApplied,        \* bound: inverse operations applied per record
    MaxRestarts        \* bound: restarts of auditd

Originals == Events \cup Jobs

-----------------------------------------------------------------------------
(* DeriveRollbackPlan: what can be undone, from the tool and the pre-state   *)
(* captured before it ran.                                                   *)

\* "none": nothing captured; "malformed": not the JSON the tool writes; "zero":
\* PreviousReplicas or RowCount is 0; "unusable": rows or keys are missing;
\* "unknown": an operation other than insert, update and delete.
PreStates == {"none", "malformed", "zero", "unusable", "unknown", "captured"}

deriveScaleRollback(pre) ==
    CASE pre \in {"none", "zero"} -> "no"
      [] pre = "malformed" -> "error"
      [] OTHER -> "yes"

deriveDMLRollback(pre) ==
    CASE pre \in {"none", "unknown"} -> "no"
      [] pre \in {"malformed", "unusable"} -> "error"
      [] OTHER -> "yes"

\* Tool executions: the three exec_* tools are one, as are those without an inverse.
AllToolEvents ==
    [tool : {"scale_deployment"}, pre : PreStates \ {"unusable", "unknown"}]
    \cup [tool : {"exec_dml"}, pre : PreStates]
    \cup [tool : {"delete_pod", "other"}, pre : {"none"}]

ASSUME ConstantsAssumption ==
    /\ None \notin Events \cup Jobs \cup Records
    /\ Events \cap Jobs = {}
    /\ GatewayConfigured \in BOOLEAN
    /\ ToolEvents \subseteq AllToolEvents
    /\ MaxApplied \in Nat /\ MaxRestarts \in Nat

DeriveRollbackPlan(ev) ==
    CASE ev.tool = "scale_deployment" -> deriveScaleRollback(ev.pre)
      [] ev.tool = "exec_dml" -> deriveDMLRollback(ev.pre)
      [] ev.tool = "delete_pod" -> "partial"
      [] OTHER -> "no"

-----------------------------------------------------------------------------
Statuses == {"pending_approval", "executing", "success", "failed", "cancelled"}
Terminal == {"success", "failed", "cancelled"}

\* A row of rollback_records, or of fleet_rollback_records for a job.  known is
\* not a column: the records of the same original that the duplicate check of
\* this one could see.
Rows == [original : Originals, status : Statuses, approval : BOOLEAN,
         known : SUBSET Records]
NoRow == [original |-> None, status |-> "cancelled", approval |-> FALSE, known |-> {}]

\* A goroutine: what it does next, for which original or record.
PCs == {"idle", "insert", "fleet", "approve", "link", "initiated",
        "cancel", "start", "dispatch", "persist", "executed"}
CallStates == [pc : PCs, original : Originals \cup {None}, rec : Records \cup {None},
               known : SUBSET Records, outcome : {"success", "failed"}]
Idle == [pc |-> "idle", original |-> None, rec |-> None, known |-> {}, outcome |-> "failed"]

VARIABLES
    executed,  \* the tool and the pre-state of each event
    row,       \* the two tables, by id
    approvals, \* records for which an approval request was stored
    applied,   \* inverse operations the gateway carried out, by record
    call,      \* the goroutines
    revived,   \* history: records taken out of "failed" or "cancelled"
    orphaned,  \* history: records whose executor was lost before its result was stored
    shared,    \* history: records loaded for an executor while another was at work on them
    restarts

vars == <<executed, row, approvals, applied, call, revived, orphaned, shared, restarts>>

Init ==
    /\ executed \in [Events -> ToolEvents]
    /\ row = [r \in Records |-> NoRow]
    /\ approvals = {}
    /\ applied = [r \in Records |-> 0]
    /\ call = [c \in Calls |-> Idle]
    /\ revived = {} /\ orphaned = {} /\ shared = {} /\ restarts = 0

Stored(r) == row[r] # NoRow
Of(o) == {r \in Records : Stored(r) /\ row[r].original = o}

Closed == {"failed", "cancelled"}

\* Mutant: only records that still wait for approval are found.
GetPendingByEventID(o) == {r \in Of(o) : row[r].status = "pending_approval"}

\* Both lookups: status NOT IN ('failed', 'cancelled').
GetRollbackByEventID(o) == {r \in Of(o) : row[r].status \notin Closed}
GetFleetRollbackByJobID(o) == {r \in Of(o) : row[r].status \notin Closed}

Step(c, new) == call' = [call EXCEPT ![c] = new]
Finish(c) == Step(c, Idle)

-----------------------------------------------------------------------------
(* handleInitiateRollback *)

\* The checks up to the duplicate check; a plan that is "no" or an error, and
\* an active rollback, end the request.
InitiateCheck(c, o) ==
    /\ call[c] = Idle
    /\ DeriveRollbackPlan(executed[o]) \in {"yes", "partial"}
    /\ GetRollbackByEventID(o) = {}
    /\ Step(c, [Idle EXCEPT !.pc = "insert", !.original = o, !.known = Of(o)])
    /\ UNCHANGED <<executed, row, approvals, applied, revived, orphaned, shared, restarts>>

\* Mutant: the approval is requested before the record is stored.
ApprovalFirst(c, r) ==
    /\ call[c].pc = "insert" /\ ~Stored(r)
    /\ approvals' = approvals \cup {r}
    /\ Finish(c)
    /\ UNCHANGED <<executed, row, applied, revived, orphaned, shared, restarts>>

NewRow(c) == [original |-> call[c].original, status |-> "pending_approval",
              approval |-> FALSE, known |-> call[c].known]

\* CreateRollback.
InitiateInsert(c, r) ==
    /\ call[c].pc = "insert" /\ ~Stored(r)
    /\ row' = [row EXCEPT ![r] = NewRow(c)]
    /\ Step(c, [call[c] EXCEPT !.pc = "approve", !.rec = r, !.known = {}])
    /\ UNCHANGED <<executed, approvals, applied, revived, orphaned, shared, restarts>>

\* CreateRollback or CreateFleetRollback fails: the request ends.
InitiateInsertFailed(c) ==
    /\ call[c].pc \in {"insert", "fleet"}
    /\ Finish(c)
    /\ UNCHANGED <<executed, row, approvals, applied, revived, orphaned, shared, restarts>>

\* approvalStore.CreateRequest; when it fails the rollback goes on without.
InitiateApproval(c) ==
    /\ call[c].pc = "approve"
    /\ \/ /\ approvals' = approvals \cup {call[c].rec}
          /\ Step(c, [call[c] EXCEPT !.pc = "link"])
       \/ /\ Step(c, [call[c] EXCEPT !.pc = "initiated"])
          /\ UNCHANGED approvals
    /\ UNCHANGED <<executed, row, applied, revived, orphaned, shared, restarts>>

\* SetRollbackApprovalID; a failure is only logged.
InitiateLink(c) ==
    /\ call[c].pc = "link"
    /\ \/ row' = [row EXCEPT ![call[c].rec].approval = TRUE]
       \/ UNCHANGED row
    /\ Step(c, [call[c] EXCEPT !.pc = "initiated"])
    /\ UNCHANGED <<executed, approvals, applied, revived, orphaned, shared, restarts>>

\* The rollback_initiated event, stored or not (a failure is only logged), and
\* the answer: 201.
InitiateEmit(c) ==
    /\ call[c].pc = "initiated"
    /\ Finish(c)
    /\ UNCHANGED <<executed, row, approvals, applied, revived, orphaned, shared, restarts>>

-----------------------------------------------------------------------------
(* handleInitiateFleetRollback: no plan, no approval and no audit event. *)

InitiateFleetCheck(c, j) ==
    /\ call[c] = Idle
    /\ GetFleetRollbackByJobID(j) = {}
    /\ Step(c, [Idle EXCEPT !.pc = "fleet", !.original = j, !.known = Of(j)])
    /\ UNCHANGED <<executed, row, approvals, applied, revived, orphaned, shared, restarts>>

\* CreateFleetRollback.
InitiateFleetInsert(c, r) ==
    /\ call[c].pc = "fleet" /\ ~Stored(r)
    /\ row' = [row EXCEPT ![r] = NewRow(c)]
    /\ Finish(c)
    /\ UNCHANGED <<executed, approvals, applied, revived, orphaned, shared, restarts>>

-----------------------------------------------------------------------------
(* UpdateRollbackStatus: WHERE rollback_id = ?, whatever the status was. *)
UpdateRollbackStatus(r, s) ==
    /\ row' = [row EXCEPT ![r].status = s]
    /\ revived' = IF row[r].status \in Closed /\ s \notin Closed
                  THEN revived \cup {r} ELSE revived

(* handleCancelRollback *)

\* GetRollback; a terminal or executing record is refused.
CancelRead(c, r) ==
    /\ call[c] = Idle
    /\ Stored(r) /\ row[r].original \in Events
    /\ row[r].status \notin Terminal \cup {"executing"}
    /\ Step(c, [Idle EXCEPT !.pc = "cancel", !.rec = r])
    /\ UNCHANGED <<executed, row, approvals, applied, revived, orphaned, shared, restarts>>

CancelUpdate(c) ==
    /\ call[c].pc = "cancel"
    /\ \/ UpdateRollbackStatus(call[c].rec, "cancelled")
       \/ UNCHANGED <<row, revived>>
    /\ Finish(c)
    /\ UNCHANGED <<executed, approvals, applied, orphaned, shared, restarts>>

-----------------------------------------------------------------------------
(* RollbackExecutor.Execute *)

Executing(r) == \E c \in Calls : call[c].rec = r /\ call[c].pc \in {"start", "dispatch", "persist"}

\* Mutant of ExecuteLoad: a rollback that failed is tried again.
ExecuteLoadAgain(c, r) ==
    /\ call[c] = Idle
    /\ Stored(r) /\ row[r].original \in Events
    /\ row[r].status \notin Terminal \ {"failed"}
    /\ DeriveRollbackPlan(executed[row[r].original]) = "yes"
    /\ Step(c, [Idle EXCEPT !.pc = "start", !.rec = r])
    /\ shared' = IF Executing(r) THEN shared \cup {r} ELSE shared
    /\ UNCHANGED <<executed, row, approvals, applied, revived, orphaned, restarts>>

\* The caller loads a record; Execute looks at this copy only.  Terminal
\* records are a no-op, and a plan other than "yes" is an error.
ExecuteLoad(c, r) ==
    /\ call[c] = Idle
    /\ Stored(r) /\ row[r].original \in Events
    /\ row[r].status \notin Terminal
    /\ DeriveRollbackPlan(executed[row[r].original]) = "yes"
    /\ Step(c, [Idle EXCEPT !.pc = "start", !.rec = r])
    /\ shared' = IF Executing(r) THEN shared \cup {r} ELSE shared
    /\ UNCHANGED <<executed, row, approvals, applied, revived, orphaned, restarts>>

\* The transition to executing; Execute returns when it fails.
ExecuteStart(c) ==
    /\ call[c].pc = "start"
    /\ \/ /\ UpdateRollbackStatus(call[c].rec, "executing")
          /\ Step(c, [call[c] EXCEPT !.pc = "dispatch"])
       \/ /\ Finish(c)
          /\ UNCHANGED <<row, revived>>
    /\ UNCHANGED <<executed, approvals, applied, orphaned, shared, restarts>>

\* dispatchInverseOp: skipped without a gateway; an answer below 300 is a success.
\* The gateway has no route for the inverse of an exec_* tool
\* (/api/v1/database/exec_sql), which always fails.  scale_deployment is answered
\* 200 also when kubectl failed, whose "ERROR:" the gateway's isToolError does not
\* know; an error may come before or after the operation was carried out.
Dispatch(c) ==
    /\ call[c].pc = "dispatch"
    /\ LET r == call[c].rec IN
       \E did \in BOOLEAN, outcome \in {"success", "failed"} :
         /\ ~GatewayConfigured => outcome = "success" /\ ~did
         /\ GatewayConfigured /\ executed[row[r].original].tool = "exec_dml" => outcome = "failed" /\ ~did
         /\ did => applied[r] < MaxApplied
         /\ applied' = [applied EXCEPT ![r] = IF did THEN @ + 1 ELSE @]
         /\ Step(c, [call[c] EXCEPT !.pc = "persist", !.outcome = outcome])
    /\ UNCHANGED <<executed, row, approvals, revived, orphaned, shared, restarts>>

\* Mutant: a failed dispatch returns before the result is stored.
PersistSkippedOnError(c) ==
    /\ call[c].pc = "persist"
    /\ IF call[c].outcome = "success" THEN UpdateRollbackStatus(call[c].rec, "success")
                                      ELSE UNCHANGED <<row, revived>>
    /\ Step(c, [call[c] EXCEPT !.pc = "executed"])
    /\ UNCHANGED <<executed, approvals, applied, orphaned, shared, restarts>>

\* The result is stored; a failure is only logged.
ExecutePersist(c) ==
    /\ call[c].pc = "persist"
    /\ LET r == call[c].rec IN
       \/ UpdateRollbackStatus(r, call[c].outcome) /\ UNCHANGED orphaned
       \/ orphaned' = orphaned \cup {r} /\ UNCHANGED <<row, revived>>
    /\ Step(c, [call[c] EXCEPT !.pc = "executed"])
    /\ UNCHANGED <<executed, approvals, applied, shared, restarts>>

\* The rollback_executed event and, on success, rollback_verified, of which nothing
\* was verified ("best-effort no-op"); a failure to store either is only logged.
ExecuteEmit(c) ==
    /\ call[c].pc = "executed"
    /\ Finish(c)
    /\ UNCHANGED <<executed, row, approvals, applied, revived, orphaned, shared, restarts>>

-----------------------------------------------------------------------------
\* auditd stops and starts again: the tables stay, the goroutines go, and
\* nothing takes up what they were doing.
Restart ==
    /\ restarts < MaxRestarts /\ restarts' = restarts + 1
    /\ orphaned' = orphaned \cup
         {call[c].rec : c \in {d \in Calls : call[d].pc \in {"dispatch", "persist"}}}
    /\ call' = [c \in Calls |-> Idle]
    /\ UNCHANGED <<executed, row, approvals, applied, revived, shared>>

Initiate(c) ==
    \/ \E o \in Events : InitiateCheck(c, o)
    \/ \E j \in Jobs : InitiateFleetCheck(c, j)
    \/ \E r \in Records : InitiateInsert(c, r) \/ InitiateFleetInsert(c, r)
    \/ InitiateInsertFailed(c) \/ InitiateApproval(c) \/ InitiateLink(c) \/ InitiateEmit(c)
Cancel(c) == CancelUpdate(c) \/ \E r \in Records : CancelRead(c, r)
Execute(c) ==
    \/ \E r \in Records : ExecuteLoad(c, r)
    \/ ExecuteStart(c) \/ Dispatch(c) \/ ExecutePersist(c) \/ ExecuteEmit(c)

Next == Restart \/ \E c \in Calls : Initiate(c) \/ Cancel(c) \/ Execute(c)

Spec == Init /\ [][Next]_vars
-----------------------------------------------------------------------------
(* Properties. *)

\* Every variable keeps its type: a record's status is one of RollbackRecord's
\* five, whoever wrote it last.
TypeOK ==
    /\ executed \in [Events -> ToolEvents]
    /\ row \in [Records -> Rows \cup {NoRow}]
    /\ approvals \subseteq Records
    /\ applied \in [Records -> 0..MaxApplied]
    /\ call \in [Calls -> CallStates]
    /\ revived \subseteq Records /\ orphaned \subseteq Records
    /\ shared \subseteq Records
    /\ restarts \in 0..MaxRestarts

\* Two active rollbacks of one original are possible only when neither
\* duplicate check could see the other record, or when a stale writer took one
\* of them out of "failed" or "cancelled": requests that follow one another
\* never produce a duplicate (handleInitiateRollback's 409).
DuplicatesExplained ==
    \A r, s \in Records :
        /\ r # s /\ Stored(r) /\ Stored(s) /\ row[r].original = row[s].original
        /\ row[r].status \notin Closed /\ row[s].status \notin Closed
        => \/ r \notin row[s].known /\ s \notin row[r].known
           \/ r \in revived \/ s \in revived

\* Whoever looks at the approval queue finds the rollback behind every entry,
\* and an approval_id never points to an approval that was not stored
\* (handleInitiateRollback's order: record, approval, link).
ApprovalsBelong ==
    /\ \A r \in approvals : Stored(r) /\ row[r].original \in Events
    /\ \A r \in Records : row[r].approval => r \in approvals

\* A record stays in "executing", where it can neither be cancelled nor
\* initiated again, only while an executor works on it or because one was lost
\* before it stored its result (Execute's executing -> success | failed).
ExecutingExplained ==
    \A r \in Records : row[r].status = "executing" =>
        \/ r \in orphaned
        \/ \E c \in Calls : call[c].rec = r /\ call[c].pc \in {"dispatch", "persist"}

\* The inverse operation of a record is carried out at most once, though its answer
\* may be lost, a cancellation may overwrite the status at any time and the executor
\* looks at the caller's copy only: twice needs two executors at work on the record at
\* the same time, or one that was lost or could not store its result ("This method is
\* idempotent: calling Execute on an already-terminal record is a no-op").
InverseOnce ==
    \A r \in Records : applied[r] > 1 => r \in orphaned \cup shared
=============================================================================
