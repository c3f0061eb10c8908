----------------------------- MODULE PlaybookRuns -----------------------------
(***************************************************************************)
(* Agent-mode playbook runs and their gates: the gateway runs a triage     *)
(* playbook with an agent, follows the agent's TRANSITION_TO/ESCALATE_TO   *)
(* signals into further playbooks as far as the approval mode allows, or   *)
(* stops at a gate that an operator resolves, directly or in the decision  *)
(* hub (cmd/gateway: playbooks.go, decisions.go), with the playbook_runs   *)
(* and run_feedback tables auditd keeps (cmd/auditd/playbook_run_handlers, *)
(* internal/audit/playbook_run_store, run_feedback_store) and the approval *)
(* session a run may name (internal/audit/approval_session_store).         *)
(*                                                                         *)
(* Each gateway request is a handler (a goroutine); its calls to auditd    *)
(* and to the agent are steps of their own, any of which may fail, and     *)
(* the writes it starts in the background land in any order or not at all. *)
(***************************************************************************)
EXTENDS Integers, FiniteSets

CONSTANTS
    Series,        \* the playbook series that have an active version
    Playbook,      \* the active version of each series
    Answers,       \* what an agent may answer to a playbook's prompt
    Requests,      \* run requests operators make
    RunIds,        \* bound: playbook_runs rows, a set of naturals above 0
    Handlers,      \* requests the gateway serves at a time
    MaxStarts,     \* bound: a run is only requested among the first MaxStarts requests
    MaxRequests,   \* bound: requests served in all
    MaxChainDepth  \* 5 in the code

Modes == {"", "manual", "review", "session", "auto", "force"}
None == "none"
Terminal == "requires_operator_approval"   \* the key of terminalEscalations
Targets == Series \cup {Terminal, "unknown_series"}

Playbooks == [approval_mode : Modes, execution_mode : {"agent", "agent_approve"},
              transitions_to : SUBSET Targets, escalates_to : SUBSET Targets]

\* An agent's answer, as parseAgentEscalation, findingsRecommendMonitor and
\* parseDiagnosticReport read it: the two signals, what the findings recommend, and
\* whether there is a report whose primary hypothesis is missing or below 50%. An
\* answer other than 200 carries none of these.
AgentAnswers == [trans : Targets \cup {None}, esc : Targets \cup {None},
                 findings : {None, "act", "monitor"}, low : BOOLEAN]
Silent == [trans |-> None, esc |-> None, findings |-> None, low |-> FALSE]

RunRequests == [series : Series, mode : Modes, gate : BOOLEAN, rem : Targets \cup {None}]

ASSUME ConstantsAssumption ==
    /\ Playbook \in [Series -> Playbooks]
    /\ Answers \subseteq AgentAnswers
    /\ Requests \subseteq RunRequests
    /\ RunIds \subseteq Nat \ {0} /\ IsFiniteSet(RunIds)
    /\ MaxChainDepth \in Nat \ {0} /\ MaxStarts \in Nat /\ MaxRequests \in Nat
    /\ None \notin Targets

Outcomes == {"absent", "unknown", "resolved", "escalated", "transitioned",
             "escalated+resolved", "gate_pending", "abandoned"}
Rows == [outcome : Outcomes, esc : Targets \cup {None}, trans : Targets \cup {None}]
NoRow == [outcome |-> "absent", esc |-> None, trans |-> None]
NoRun == 0

\* A background PATCH of a run; an at-gate verdict on a triage.
Patches == [run : RunIds, row : Rows]
Verdicts == {None, "correct", "wrong"}

\* A handler. A run handler is at "start" (about to record the run of series), "agent"
\* (prompting the agent) or "route" (the loop of handlePlaybookRunAsAgent with ans at
\* hand); a gate handler is first at "checked" (the gate was pending when it read it).
HandlerStates ==
    [pc : {"idle", "start", "agent", "route", "checked"},
     series : Series \cup {None}, \* the playbook being run
     mode : Modes, restricted : BOOLEAN,
     gate : BOOLEAN, rem : Targets \cup {None},
     first : Series \cup {None},  \* the playbook the chain started with
     depth : 0..MaxChainDepth, primary : RunIds \cup {NoRun}, prev : RunIds \cup {NoRun},
     ans : AgentAnswers, final : Rows,
     from : RunIds \cup {NoRun},  \* the run whose gate is resolved
     resolution : {None, "approved", "denied"}, verdict : {None, "correct", "wrong"}]
Idle == [pc |-> "idle", series |-> None, mode |-> "", restricted |-> FALSE,
         gate |-> FALSE, rem |-> None, first |-> None, depth |-> 0, primary |-> NoRun,
         prev |-> NoRun, ans |-> Silent, final |-> NoRow, from |-> NoRun,
         resolution |-> None, verdict |-> None]

VARIABLES
    crystalBall, \* the gateway runs in crystal-ball mode
    row,         \* playbook_runs
    h,           \* the handlers
    served,      \* requests so far
    patches,     \* recordPlaybookRunComplete calls under way in the background
    feedback,    \* run_feedback: the triage verdict given at the gate
    session,     \* the approval session is valid and covers escalations
    notified,    \* gates announced: the run and the length of the chain
    approved,    \* runs whose gate a handler approved
    remedied,    \* number of remediations started from each run's gate
    denied,      \* runs whose gate a handler denied
    raced        \* runs whose gate two handlers held at once, or whose PATCH was lost

vars == <<crystalBall, row, h, served, patches, feedback, session,
          notified, approved, remedied, denied, raced>>
history == <<notified, approved, remedied, denied, raced>>

Init ==
    /\ crystalBall \in BOOLEAN
    /\ row = [r \in RunIds |-> NoRow]
    /\ h = [t \in Handlers |-> Idle] /\ served = 0
    /\ patches = {}
    /\ feedback = [r \in RunIds |-> None]
    /\ session \in BOOLEAN
    /\ notified = {} /\ approved = {} /\ denied = {} /\ raced = {}
    /\ remedied = [r \in RunIds |-> 0]

-----------------------------------------------------------------------------
(* Approval modes. *)

approvalModeRank == [m \in Modes |->
    CASE m \in {"", "manual"} -> 0 [] m = "review" -> 1 [] m = "session" -> 2
      [] m = "auto" -> 3 [] m = "force" -> 4]

\* restricted: the database is known, restricts overrides, and the caller has none of
\* the roles.
enforceApprovalOverride(requested, playbookMode, restricted) ==
    IF restricted /\ approvalModeRank[requested] > approvalModeRank[playbookMode]
    THEN playbookMode ELSE requested

\* The request's mode, or the playbook's, clamped.
EffectiveMode(requested, pb, restricted) ==
    enforceApprovalOverride(IF requested = "" THEN pb.approval_mode ELSE requested,
                            pb.approval_mode, restricted)

canAutoChain(mode, pb) ==
    \/ mode = "force"
    \/ /\ pb.approval_mode \notin {"", "manual"}
       /\ mode = "auto" \/ (mode = "session" /\ session)

-----------------------------------------------------------------------------
(* Starting a run and asking the agent. *)

\* handlePlaybookRun, up to the run's record.
handlePlaybookRun(t) ==
    /\ h[t].pc = "idle" /\ served < MaxStarts /\ served' = served + 1
    /\ \E q \in Requests, restricted \in BOOLEAN :
         /\ Playbook[q.series].execution_mode = "agent"
         /\ h' = [h EXCEPT ![t] = [Idle EXCEPT
                !.pc = "start", !.series = q.series, !.first = q.series,
                !.mode = EffectiveMode(q.mode, Playbook[q.series], restricted),
                !.restricted = restricted, !.gate = q.gate, !.rem = q.rem]]
    /\ UNCHANGED <<crystalBall, row, patches, feedback, session, history>>

\* recordPlaybookRunStart: NoRun when the record could not be written. The remediation
\* of a gate with execution mode agent_approve goes on step by step (PlaybookSteps).
recordPlaybookRunStart(t) ==
    /\ h[t].pc = "start"
    /\ \E r \in {NoRun} \cup {r \in RunIds : row[r].outcome = "absent"} :
         /\ \A s \in RunIds : row[s].outcome = "absent" => r <= s
         /\ row' = IF r = NoRun THEN row ELSE [row EXCEPT ![r].outcome = "unknown"]
         /\ h' = [h EXCEPT ![t] =
                IF Playbook[h[t].series].execution_mode = "agent_approve" /\ h[t].depth = 0
                THEN Idle
                ELSE [h[t] EXCEPT !.pc = "agent", !.prev = r, !.depth = @ + 1, !.ans = Silent,
                                  !.primary = IF h[t].depth = 0 THEN r ELSE @]]
    /\ remedied' = IF h[t].from # NoRun /\ h[t].depth = 0
                   THEN [remedied EXCEPT ![h[t].from] = @ + 1] ELSE remedied
    /\ UNCHANGED <<crystalBall, served, patches, feedback, session,
                   notified, approved, denied, raced>>

\* isAllowedNextPlaybook: an empty allow-list allows everything.
isAllowedNextPlaybook(target, allowed) ==
    target \in {None, Terminal} \/ allowed = {} \/ target \in allowed

\* The answer after the targets the playbook does not declare were coerced, and only
\* one signal is left: a transition wins.
Coerced(a, pb) ==
    LET t1 == isAllowedNextPlaybook(a.trans, pb.transitions_to)
        trans == IF t1 THEN a.trans ELSE None
        esc1 == IF t1 THEN a.esc ELSE Terminal
        esc == IF isAllowedNextPlaybook(esc1, pb.escalates_to) THEN esc1 ELSE Terminal
    IN  [a EXCEPT !.trans = trans, !.esc = IF trans # None THEN None ELSE esc]

Outcome(a) ==
    IF a.trans # None THEN "transitioned"
    ELSE IF a.esc # None THEN "escalated"
    ELSE IF a.findings # None THEN "resolved" ELSE "unknown"

Patch(r, outcome, esc, trans) ==
    IF r = NoRun THEN {} ELSE {[run |-> r, row |-> [outcome |-> outcome, esc |-> esc, trans |-> trans]]}

\* runAgentPlaybook; for a chained run also the rest of chainEscalation, which
\* completes that run in the background, and what the loop keeps of it.
runAgentPlaybook(t) ==
    /\ h[t].pc = "agent"
    /\ \E a0 \in Answers \cup {Silent} :
         LET a == Coerced(a0, Playbook[h[t].series])
             chained == h[t].depth > 1
             kept == a.findings # None \/ ~chained
         IN /\ h' = [h EXCEPT ![t] = [h[t] EXCEPT
                   !.pc = "route", !.ans = a,
                   !.final = [outcome |-> IF chained THEN "escalated+resolved" ELSE Outcome(a),
                              esc |-> IF kept THEN a.esc ELSE h[t].final.esc,
                              trans |-> IF kept THEN a.trans ELSE h[t].final.trans]]]
            /\ patches' = patches \cup (IF chained THEN Patch(h[t].prev, Outcome(a), a.esc, a.trans) ELSE {})
    /\ UNCHANGED <<crystalBall, served, row, feedback, session, history>>

-----------------------------------------------------------------------------
(* handlePlaybookRunAsAgent, with the primary's or a chained run's answer. *)

Signal(t) == IF h[t].ans.esc # None THEN h[t].ans.esc ELSE h[t].ans.trans
IsTerminal(t) == h[t].ans.esc = Terminal
Monitor(t) == h[t].ans.findings = "monitor"

\* The loop looks at the answer's signal.
Looping(t) == h[t].pc = "route" /\ ~crystalBall /\ Signal(t) # None /\ h[t].depth < MaxChainDepth

\* Mutant: only gate_escalation stops the chain.
AskedForGate(t) == h[t].gate

\* lowConfidenceForceGate makes the gate of a run that did not ask for one.
Gated(t) == h[t].gate \/ h[t].ans.low

\* The response is sent and the primary run completed in the background.
Finish(t, final) ==
    /\ patches' = patches \cup Patch(h[t].primary, final.outcome, final.esc, final.trans)
    /\ h' = [h EXCEPT ![t] = Idle]

\* The loop's break without a signal that remediation follows, then the fallback gate.
FallbackGate(t) ==
    h[t].gate /\ h[t].rem # None /\ Signal(t) = None /\ ~Monitor(t)

EndChain(t) ==
    /\ h[t].pc = "route"
    /\ \/ crystalBall /\ Finish(t, [outcome |-> Outcome(h[t].ans), esc |-> None, trans |-> None])
          /\ UNCHANGED notified
       \/ /\ ~crystalBall /\ ~Looping(t)
          /\ Finish(t, IF FallbackGate(t)
                       THEN [h[t].final EXCEPT !.outcome = "gate_pending", !.trans = h[t].rem]
                       ELSE h[t].final)
          /\ notified' = notified \cup
                IF FallbackGate(t) /\ h[t].prev # NoRun
                THEN {[run |-> h[t].prev, depth |-> h[t].depth]} ELSE {}
    /\ UNCHANGED <<crystalBall, served, row, feedback, session, approved,
                   remedied, denied, raced>>

\* A terminal token goes back to the operator as suggested_next; a triage that only
\* recommends monitoring resolves the run.
StopChain(t) ==
    /\ Looping(t)
    /\ \/ IsTerminal(t) /\ Finish(t, h[t].final)
       \/ ~IsTerminal(t) /\ Monitor(t)
          /\ Finish(t, [outcome |-> "resolved", esc |-> None, trans |-> None])
    /\ UNCHANGED <<crystalBall, served, row, feedback, session, history>>

\* Mutant: the run is completed with the outcome of the agent's signal.
SignalRow(t) == [outcome |-> Outcome(h[t].ans), esc |-> h[t].ans.esc, trans |-> h[t].ans.trans]

GateRow(t) == [outcome |-> "gate_pending", esc |-> h[t].ans.esc, trans |-> h[t].ans.trans]

\* The gate is recorded on the primary run and announced under the id of the last one.
PauseAtGate(t) ==
    /\ Looping(t) /\ ~IsTerminal(t) /\ ~Monitor(t) /\ Gated(t)
    /\ Finish(t, GateRow(t))
    /\ notified' = IF h[t].prev = NoRun THEN notified
                   ELSE notified \cup {[run |-> h[t].prev, depth |-> h[t].depth]}
    /\ UNCHANGED <<crystalBall, served, row, feedback, session, approved,
                   remedied, denied, raced>>

\* The next playbook is fetched, which may fail, and run when the mode allows it;
\* otherwise it is returned as suggested_next.
Chain(t) ==
    /\ Looping(t) /\ ~IsTerminal(t) /\ ~Monitor(t) /\ ~Gated(t)
    /\ \/ /\ Signal(t) \in Series /\ canAutoChain(h[t].mode, Playbook[Signal(t)])
          /\ h' = [h EXCEPT ![t].pc = "start", ![t].series = Signal(t)]
          /\ UNCHANGED patches
       \/ Finish(t, h[t].final)
    /\ UNCHANGED <<crystalBall, served, row, feedback, session, history>>

-----------------------------------------------------------------------------
(* Resolving a gate: handleProceedEscalation, called directly or by the hub. *)

\* The playbook an approval runs.
NextSeries(x) == IF x.trans # None THEN x.trans ELSE x.esc

\* Mutant: any run that names a next playbook can be resolved.
HasTarget(r) == row[r].outcome # "absent" /\ NextSeries(row[r]) # None

IsPending(r) == row[r].outcome = "gate_pending"

\* The run is read and checked; for an approval the remediation playbook is fetched,
\* and a 404 leaves no trace.
checkGate(t) ==
    /\ h[t].pc = "idle" /\ served < MaxRequests /\ served' = served + 1
    /\ \E r \in RunIds :
         /\ IsPending(r)
         /\ \/ h' = [h EXCEPT ![t] = [Idle EXCEPT !.pc = "checked", !.from = r,
                                                  !.resolution = "denied"]]
            \/ \E m \in {""} \cup {q.mode : q \in Requests}, restricted \in BOOLEAN,
                  verdict \in Verdicts :
                 LET next == NextSeries(row[r]) IN
                 /\ next \in Series
                 /\ h' = [h EXCEPT ![t] = [Idle EXCEPT
                       !.pc = "checked", !.from = r, !.resolution = "approved",
                       !.verdict = verdict, !.final = row[r], !.series = next, !.first = next,
                       !.mode = EffectiveMode(m, Playbook[next], restricted),
                       !.restricted = restricted]]
    /\ UNCHANGED <<crystalBall, row, patches, feedback, session, history>>

Holders(r) == {t \in Handlers : h[t].pc = "checked" /\ h[t].from = r}

\* The verdict on the triage that goes with a resolution: an approval's, if the operator
\* gave one (postAtGateFeedback); a denial says that it was wrong (submitDenialFeedback).
AtGateVerdict(t) == IF h[t].resolution = "approved" THEN h[t].verdict ELSE "wrong"

\* RunFeedbackStore.Submit overwrites the verdict of the same run; a failure is only
\* logged. Only another verdict could tell how long the call takes.
SubmitFeedback(r, verdict) ==
    \/ /\ verdict # None
       /\ feedback' = [feedback EXCEPT ![r] = verdict]
    \/ UNCHANGED feedback

\* The operator's decision goes into the audit trail.
recordGateAcknowledged(t) ==
    /\ approved' = IF h[t].resolution = "approved" THEN approved \cup {h[t].from} ELSE approved
    /\ denied' = IF h[t].resolution = "approved" THEN denied ELSE denied \cup {h[t].from}

\* The acknowledgement is recorded and the run completed, or that PATCH is lost; then
\* a denial is over and an approval goes on to the remediation run.
resolveGate(t) ==
    LET r == h[t].from
        approve == h[t].resolution = "approved"
        closed == IF approve
                  THEN [h[t].final EXCEPT !.outcome = IF h[t].final.trans # None THEN "transitioned" ELSE "escalated"]
                  ELSE [NoRow EXCEPT !.outcome = "abandoned"]
    IN  /\ h[t].pc = "checked"
        /\ \E lost \in BOOLEAN :
             /\ row' = IF lost THEN row ELSE [row EXCEPT ![r] = closed]
             /\ raced' = IF lost \/ Holders(r) # {t} THEN raced \cup {r} ELSE raced
        /\ recordGateAcknowledged(t)
        /\ SubmitFeedback(r, AtGateVerdict(t))
        /\ h' = [h EXCEPT ![t] = IF approve
                    THEN [@ EXCEPT !.pc = "start", !.final = NoRow, !.verdict = None, !.resolution = None]
                    ELSE Idle]
        /\ UNCHANGED <<crystalBall, served, patches, session, notified, remedied>>

-----------------------------------------------------------------------------
(* Background writes and the session. A write that is lost, with the gateway or *)
(* without, is one that never lands. *)

\* handleUpdate and PlaybookRunStore.Update write whatever they are given.
LandPatch ==
    /\ \E p \in patches :
         /\ patches' = patches \ {p}
         /\ row' = [row EXCEPT ![p.run] = p.row]
    /\ UNCHANGED <<crystalBall, served, h, feedback, session, history>>

\* Revoked, or past its expiry.
EndSession ==
    /\ session /\ session' = FALSE
    /\ UNCHANGED <<crystalBall, served, row, h, patches, feedback, history>>

HandlerStep(t) ==
    \/ recordPlaybookRunStart(t) \/ runAgentPlaybook(t)
    \/ EndChain(t) \/ StopChain(t) \/ PauseAtGate(t) \/ Chain(t) \/ resolveGate(t)

Next ==
    \/ \E t \in Handlers : handlePlaybookRun(t) \/ checkGate(t) \/ HandlerStep(t)
    \/ LandPatch \/ EndSession

Spec == Init /\ [][Next]_vars

-----------------------------------------------------------------------------
(* Properties. *)

\* Type invariant; a chain has at most MaxChainDepth playbooks, whatever the agents
\* answer and however the playbooks lead back to each other.
TypeOK ==
    /\ crystalBall \in BOOLEAN /\ session \in BOOLEAN
    /\ row \in [RunIds -> Rows]
    /\ h \in [Handlers -> HandlerStates]
    /\ patches \subseteq Patches
    /\ feedback \in [RunIds -> Verdicts]
    /\ notified \subseteq [run : RunIds, depth : 1..MaxChainDepth]
    /\ approved \subseteq RunIds
    /\ remedied \in [RunIds -> Nat]
    /\ denied \subseteq RunIds /\ raced \subseteq RunIds

\* A playbook beyond the one the operator ran, or approved at a gate, is only run when
\* the answer before it was not of low confidence and no gate was asked for; a manual
\* playbook only in force mode; and a caller without the override roles never chains
\* in a mode above the first playbook's (handlePlaybookRunAsAgent, canAutoChain,
\* enforceApprovalOverride).
ChainAuthorised ==
    \A t \in Handlers : h[t].pc = "start" /\ h[t].depth > 0 =>
        /\ ~h[t].gate /\ ~h[t].ans.low /\ h[t].ans.findings # "monitor"
        /\ Playbook[h[t].series].approval_mode \in {"", "manual"} => h[t].mode = "force"
        /\ h[t].restricted =>
             approvalModeRank[h[t].mode] <= approvalModeRank[Playbook[h[t].first].approval_mode]

\* A gate starts at most one remediation, and none when the run is recorded as denied,
\* whose verdict is then not "correct" either; unless two operators resolved it at the
\* same time or the PATCH that closes it was lost (handleProceedEscalation reads the
\* run, and writes it later without looking again).
GateRunsOnce ==
    \A r \in RunIds \ raced :
        /\ remedied[r] <= 1
        /\ row[r].outcome = "abandoned" => remedied[r] = 0 /\ feedback[r] # "correct"
        /\ remedied[r] = 1 => r \notin denied

\* A gate announced for the run that asked for it is recorded as pending, and then closed
\* as an operator decided and as nothing else, whatever handlers and PATCHes overtake each
\* other. It is announced first and recorded in the background (playbooks.go:862-865, 1772),
\* so there is a third case: the run is still "unknown" and the PATCH to gate_pending, and
\* no other write, is what may yet change it. Until that PATCH lands nobody can resolve the
\* gate (409, playbooks.go:1076), and if it is lost nobody ever can. A gate announced for a
\* chained run is not covered: it is recorded on the first run of the chain
\* (NotifyPending gets prev.runID, recordPlaybookRunComplete runID).
AnnouncedGateStands ==
    \A n \in notified : n.depth = 1 =>
        LET outcome == row[n.run].outcome
            toCome == {p.row.outcome : p \in {q \in patches : q.run = n.run}}
        IN \/ outcome = "unknown" /\ toCome = {"gate_pending"}
           \/ outcome = "gate_pending" /\ toCome = {}
           \/ outcome \in {"escalated", "transitioned"} /\ toCome = {} /\ n.run \in approved
           \/ outcome = "abandoned" /\ toCome = {} /\ n.run \in denied
=============================================================================
