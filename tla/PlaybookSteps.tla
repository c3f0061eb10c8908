---------------------------- MODULE PlaybookSteps ----------------------------
(***************************************************************************)
(* One agent_approve run: a planner proposes one tool call at a time, the  *)
(* operator approves or denies it with POST .../proceed, the gateway       *)
(* executes it and asks for the next (cmd/gateway/playbooks.go from line   *)
(* 2541, step_proposer.go), over the playbook_run_steps table              *)
(* (internal/audit/playbook_run_step_store.go, cmd/auditd/                 *)
(* playbook_run_step_handlers.go). Each proposal also has an approval      *)
(* request, which the decision hub lists and resolves.                     *)
(*                                                                         *)
(* A proposal is its serial number; the row a proposal is stored in has    *)
(* the index that the history it was made from gives it.                   *)
(***************************************************************************)
EXTENDS Integers, FiniteSets

CONSTANTS
    ProceedHandlers, \* proceed requests served at a time
    MaxProposals,    \* bound: proposals the planner makes
    MaxProceeds      \* bound: proceed requests in all

ASSUME StepAssumption == MaxProposals \in Nat \ {0} /\ MaxProceeds \in Nat

Proposals == 1..MaxProposals
Indexes == 1..MaxProposals
NoStep == 0
Statuses == {"absent", "proposed", "executing", "succeeded", "failed", "denied"}

\* A step row: its status, and the proposal whose tool and arguments it holds.
StepRows == [status : Statuses, proposal : {NoStep} \cup Proposals]
NoStepRow == [status |-> "absent", proposal |-> NoStep]

\* A handler: "create" is about to store proposal next at index, "approval" to ask for
\* its approval; "fetched" read the pending row at index and got the operator's
\* resolution; "tool" calls the tool of proposal; "record" stores the result;
\* "history" reads the steps and asks the planner.
StepHandlerStates ==
    [pc : {"idle", "propose", "create", "approval", "fetched", "tool", "record", "history"},
     index : {NoStep} \cup Indexes, proposal : {NoStep} \cup Proposals,
     resolution : {"", "approved", "denied"}, status : {"", "succeeded", "failed"},
     meant : {NoStep} \cup Proposals,  \* the proposal the operator was last shown
     named : BOOLEAN]                \* the operator named its index
IdleProceed == [pc |-> "idle", index |-> NoStep, proposal |-> NoStep, resolution |-> "", status |-> "",
                meant |-> NoStep, named |-> FALSE]

VARIABLES
    runOutcome,      \* playbook_runs: outcome of the run
    step,            \* playbook_run_steps
    hd,              \* the handlers
    outcomeWrites,   \* outcomes being written in the background
    idWrites,        \* createStepApproval's background writes: the index of each
    hub,             \* the approval request of each proposal
    made,            \* proposals made
    requests,        \* proceed requests so far
    shown,           \* the proposal and index in the last response
    executed,        \* number of executions of each proposal
    refused,         \* proposals an operator denied
    disturbed,       \* proposals two handlers held at once, one of whose status writes was
                     \* lost, or whose row the background write found past "proposed"
    misplaced        \* a proposal was shown that is not the one stored under its index

stepVars == <<runOutcome, step, hd, outcomeWrites, idWrites, hub, made, requests, shown, executed, refused,
              disturbed, misplaced>>

\* handlePlaybookRun and handleProceedEscalation start the run and propose.
StepInit ==
    /\ runOutcome = "unknown"
    /\ step = [i \in Indexes |-> NoStepRow]
    /\ \E t \in ProceedHandlers :
         hd = [u \in ProceedHandlers |-> IF u = t THEN [IdleProceed EXCEPT !.pc = "propose"] ELSE IdleProceed]
    /\ outcomeWrites = {} /\ idWrites = {}
    /\ hub = [p \in Proposals |-> "none"]
    /\ made = 0 /\ requests = 0 /\ shown = [proposal |-> NoStep, index |-> NoStep]
    /\ executed = [p \in Proposals |-> 0] /\ refused = {}
    /\ disturbed = {} /\ misplaced = FALSE

Steps == {i \in Indexes : step[i].status # "absent"}

\* NextStepIndex would take the maximum; the proposer counts the history it was given.
NextIndex(past) == Cardinality(past) + 1

\* The rows GetPendingStep looks at. (Nothing writes the status "approved".)
PendingSteps == {i \in Indexes : step[i].status \in {"proposed", "executing"}}
IsFirst(i) == i \in PendingSteps /\ \A j \in PendingSteps : i <= j

-----------------------------------------------------------------------------
(* Proposing: handlePlaybookRunApprove, and the end of handlePlaybookRunProceed. *)

\* proposeNextStep with the given history: an error, "complete", or one more step.
\* A first proposal that fails leaves the run as it is.
Propose(t, past) ==
    \/ /\ outcomeWrites' = IF made = 0 THEN outcomeWrites ELSE outcomeWrites \cup {"abandoned"}
       /\ hd' = [hd EXCEPT ![t] = IdleProceed] /\ UNCHANGED made
    \/ /\ outcomeWrites' = outcomeWrites \cup {"resolved"}
       /\ hd' = [hd EXCEPT ![t] = IdleProceed] /\ UNCHANGED made
    \/ /\ made < MaxProposals /\ made' = made + 1
       /\ NextIndex(past) \in Indexes
       /\ hd' = [hd EXCEPT ![t] = [IdleProceed EXCEPT !.pc = "create", !.index = NextIndex(past),
                                                      !.proposal = made + 1]]
       /\ UNCHANGED outcomeWrites

ProposeFirst(t) ==
    /\ hd[t].pc = "propose" /\ Propose(t, {})
    /\ UNCHANGED <<runOutcome, step, idWrites, hub, requests, shown, executed, refused, disturbed, misplaced>>

\* fetchRunSteps: an empty history when it fails.
Replan(t) ==
    /\ hd[t].pc = "history"
    /\ Propose(t, Steps) \/ Propose(t, {})
    /\ UNCHANGED <<runOutcome, step, idWrites, hub, requests, shown, executed, refused, disturbed, misplaced>>

\* createRunStep: no row when the index is taken or the call fails; the handler goes on.
createRunStep(t) ==
    LET i == hd[t].index
    IN  /\ hd[t].pc = "create"
        /\ \/ /\ step[i].status = "absent"
              /\ step' = [step EXCEPT ![i] = [status |-> "proposed", proposal |-> hd[t].proposal]]
              /\ UNCHANGED misplaced
           \/ UNCHANGED step /\ misplaced' = TRUE
        /\ hd' = [hd EXCEPT ![t].pc = "approval"]
        /\ UNCHANGED <<runOutcome, outcomeWrites, idWrites, hub, made, requests, shown, executed, refused, disturbed>>

\* createStepApproval: the request is created, and its id is written to the row in the
\* background together with the status "proposed"; or neither. Then the response.
createStepApproval(t) ==
    /\ hd[t].pc = "approval"
    /\ \/ /\ hub' = [hub EXCEPT ![hd[t].proposal] = "pending"]
          /\ idWrites' = idWrites \cup {hd[t].index}
       \/ UNCHANGED <<hub, idWrites>>
    /\ shown' = [proposal |-> hd[t].proposal, index |-> hd[t].index]
    /\ hd' = [hd EXCEPT ![t] = IdleProceed]
    /\ UNCHANGED <<runOutcome, step, outcomeWrites, made, requests, executed, refused, disturbed, misplaced>>

-----------------------------------------------------------------------------
(* POST .../proceed. *)

\* Mutant: the index in the request is not compared.
AnyIndex(i, named) == IsFirst(i)

Matches(i, named) == IsFirst(i) /\ (named => i = shown.index)

\* The pending step is read. The operator may name the index of the step meant; a
\* request without one takes whatever is pending.
fetchPendingStep(t) ==
    /\ hd[t].pc = "idle" /\ shown.proposal # NoStep
    /\ requests < MaxProceeds /\ requests' = requests + 1
    /\ \E i \in Indexes, resolution \in {"approved", "denied"}, named \in BOOLEAN :
         /\ Matches(i, named)
         /\ hd' = [hd EXCEPT ![t] = [IdleProceed EXCEPT
                !.pc = "fetched", !.index = i, !.proposal = step[i].proposal,
                !.resolution = resolution, !.meant = shown.proposal, !.named = named]]
    /\ UNCHANGED <<runOutcome, step, outcomeWrites, idWrites, hub, made, shown, executed, refused,
                   disturbed, misplaced>>

StepHolders(p) == {t \in ProceedHandlers : hd[t].proposal = p /\ hd[t].pc \in {"fetched", "tool", "record"}}

\* updateRunStep, whose failure is only logged.
updateRunStep(t, status) ==
    LET p == hd[t].proposal
    IN  \E lost \in BOOLEAN :
          /\ step' = IF lost THEN step ELSE [step EXCEPT ![hd[t].index].status = status]
          /\ disturbed' = IF lost \/ StepHolders(p) # {t} THEN disturbed \cup {p} ELSE disturbed

\* Mutant: a denial does not close the step.
DenyRunOnly(t) ==
    /\ hd[t].pc = "fetched" /\ hd[t].resolution = "denied"
    /\ outcomeWrites' = outcomeWrites \cup {"abandoned"}
    /\ refused' = refused \cup {hd[t].proposal}
    /\ hd' = [hd EXCEPT ![t] = IdleProceed]
    /\ UNCHANGED <<runOutcome, step, idWrites, hub, made, requests, shown, executed, disturbed, misplaced>>

Deny(t) ==
    /\ hd[t].pc = "fetched" /\ hd[t].resolution = "denied"
    /\ updateRunStep(t, "denied")
    /\ outcomeWrites' = outcomeWrites \cup {"abandoned"}
    /\ refused' = refused \cup {hd[t].proposal}
    /\ hd' = [hd EXCEPT ![t] = IdleProceed]
    /\ UNCHANGED <<runOutcome, idWrites, hub, made, requests, shown, executed, misplaced>>

MarkExecuting(t) ==
    /\ hd[t].pc = "fetched" /\ hd[t].resolution = "approved"
    /\ updateRunStep(t, "executing")
    /\ hd' = [hd EXCEPT ![t].pc = "tool"]
    /\ UNCHANGED <<runOutcome, outcomeWrites, idWrites, hub, made, requests, shown, executed, refused, misplaced>>

\* callToolForStep: an error only when the call itself could not be made or read; what
\* the tool answers is taken for its result.
callToolForStep(t) ==
    /\ hd[t].pc = "tool"
    /\ executed' = [executed EXCEPT ![hd[t].proposal] = @ + 1]
    /\ \E s \in {"succeeded", "failed"} : hd' = [hd EXCEPT ![t].pc = "record", ![t].status = s]
    /\ UNCHANGED <<runOutcome, step, outcomeWrites, idWrites, hub, made, requests, shown, refused,
                   disturbed, misplaced>>

RecordResult(t) ==
    /\ hd[t].pc = "record"
    /\ updateRunStep(t, hd[t].status)
    /\ outcomeWrites' = IF hd[t].status = "failed" THEN outcomeWrites \cup {"abandoned"} ELSE outcomeWrites
    /\ hd' = [hd EXCEPT ![t] = IF hd[t].status = "failed" THEN IdleProceed ELSE [IdleProceed EXCEPT !.pc = "history"]]
    /\ UNCHANGED <<runOutcome, idWrites, hub, made, requests, shown, executed, refused, misplaced>>

-----------------------------------------------------------------------------
(* Background writes and the decision hub. *)

LandIdWrite ==
    /\ \E i \in idWrites :
         /\ idWrites' = idWrites \ {i}
         /\ step' = IF step[i].status = "absent" THEN step ELSE [step EXCEPT ![i].status = "proposed"]
         /\ disturbed' = IF step[i].status \in {"absent", "proposed"}
                            /\ StepHolders(step[i].proposal) = {}
                         THEN disturbed ELSE disturbed \cup {step[i].proposal}
    /\ UNCHANGED <<runOutcome, hd, outcomeWrites, hub, made, requests, shown, executed, refused, misplaced>>

LandOutcome ==
    /\ \E o \in outcomeWrites : outcomeWrites' = outcomeWrites \ {o} /\ runOutcome' = o
    /\ UNCHANGED <<step, hd, idWrites, hub, made, requests, shown, executed, refused, disturbed, misplaced>>

\* resolveAuditdApproval: the request in the approval store, and nothing else.
resolveAuditdApproval ==
    /\ \E p \in Proposals, s \in {"approved", "denied"} :
         hub[p] = "pending" /\ hub' = [hub EXCEPT ![p] = s]
    /\ UNCHANGED <<runOutcome, step, hd, outcomeWrites, idWrites, made, requests, shown, executed, refused,
                   disturbed, misplaced>>

StepNext ==
    \/ \E t \in ProceedHandlers :
         \/ ProposeFirst(t) \/ Replan(t) \/ createRunStep(t) \/ createStepApproval(t)
         \/ fetchPendingStep(t) \/ Deny(t) \/ MarkExecuting(t) \/ callToolForStep(t) \/ RecordResult(t)
    \/ LandIdWrite \/ LandOutcome \/ resolveAuditdApproval

StepSpec == StepInit /\ [][StepNext]_stepVars

-----------------------------------------------------------------------------
(* Properties. *)

\* Type invariant.
StepTypeOK ==
    /\ runOutcome \in {"unknown", "resolved", "abandoned"}
    /\ step \in [Indexes -> StepRows]
    /\ hd \in [ProceedHandlers -> StepHandlerStates]
    /\ outcomeWrites \subseteq {"resolved", "abandoned"} /\ idWrites \subseteq Indexes
    /\ hub \in [Proposals -> {"none", "pending", "approved", "denied"}]
    /\ made \in 0..MaxProposals /\ requests \in 0..MaxProceeds
    /\ shown \in [proposal : {NoStep} \cup Proposals, index : {NoStep} \cup Indexes]
    /\ executed \in [Proposals -> Nat]
    /\ refused \subseteq Proposals /\ disturbed \subseteq Proposals /\ misplaced \in BOOLEAN

\* A step is executed at most once, and not at all when the operator denied it, unless
\* two requests worked on it at once, the write of its status was lost, or the late
\* write of its approval id put it back to "proposed" (handlePlaybookRunProceed,
\* GetPendingStep, createStepApproval).
StepRunsOnce ==
    \A p \in Proposals \ disturbed : executed[p] <= 1 /\ (p \in refused => executed[p] = 0)

\* A request that names the index it was shown runs the proposal it was shown, unless
\* some proposal was shown that could not be stored. Lost or late status writes do not
\* matter to it, since no row changes its proposal. (A request without an index runs
\* whatever is pending: a repeated one the next step, unseen.)
ApprovedIsRun ==
    \A t \in ProceedHandlers : hd[t].pc = "tool" /\ hd[t].named => hd[t].proposal = hd[t].meant \/ misplaced
=============================================================================
