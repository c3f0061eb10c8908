---------------------------- MODULE PolicyEnforcer ----------------------------
(***************************************************************************)
(* Tool calls of an agent under its policy enforcer: the checks before and *)
(* after the command (agentutil/agentutil.go, with auditd's side of a      *)
(* remote check in cmd/auditd/governance_handlers.go), the approval        *)
(* look-ups (internal/audit/approval_client.go), and the trace id that the *)
(* requests of one agent process share (internal/audit/trace.go,           *)
(* trace_middleware.go), for the tools of agents/database and agents/k8s.  *)
(*                                                                         *)
(* A request makes one tool call. A call of the same tool in a later       *)
(* request is the retry that ApprovalPendingError asks for.                *)
(***************************************************************************)
EXTENDS Policy, FiniteSets

CONSTANTS
    Requests,     \* A2A requests to the agent; a request is also its trace id
    NoTrace,      \* the empty trace id
    Configs,      \* configurations an agent may run with
    Calls,        \* tool calls a request may make
    Amounts,      \* rows, sessions or pods a command may affect
    Ages,         \* ages of a session's open write transaction, 0 without one
    MaxApprovals, \* bound: approval requests created
    LastHour      \* bound: hours the run spans

ConfigDefs == [file : Seq(PolicyDefs), mode : {"off", "local", "remote"},
               default : {"allow", "deny"}, dryRun : BOOLEAN, readOnly : BOOLEAN,
               requirePurpose : BOOLEAN, approvals : BOOLEAN, infra : BOOLEAN]

\* A tool call: the tool and its class of action, the resource, the caller's identities
\* and declared purpose (explicit, or a default), and approval_mode=auto. The tools with
\* a measured effect belong to one agent each.
CallDefs ==
    {c \in [tool : STRING, action : Actions, type : Types, name : STRING, tags : SUBSET STRING,
            sensitivity : SUBSET STRING, who : SUBSET STRING, purpose : STRING,
            explicit : BOOLEAN, auto : BOOLEAN] :
        /\ c.tool = "scale_deployment" => c.type = "kubernetes"
        /\ c.tool \in {"cancel_query", "terminate_connection", "terminate_idle_connections"}
             => c.type = "database"}

ASSUME ConstantsAssumption ==
    /\ NoTrace \notin Requests
    /\ Configs \subseteq ConfigDefs
    /\ Calls \subseteq CallDefs
    /\ Amounts \subseteq Nat /\ Ages \subseteq Nat
    /\ MaxApprovals \in Nat /\ LastHour \in Nat \ {0}

Results == {"none", "ok", "refused", "pending", "error", "denied_after"}
Points == {"idle", "check", "find", "find_pending", "by_trace", "create", "age",
           "plan", "run", "post", "measure", "end", "left"}

VARIABLES
    cfg,       \* the agent's configuration, its policies in evaluation order
    hour,      \* the time
    store,     \* CurrentTraceStore.traceID
    task,      \* what each request is doing
    approvals, \* approval_requests, in order of creation
    seen,      \* history: trace ids the events of a request were recorded under
    met        \* history: requests that were in the agent together with another

vars == <<cfg, hour, store, task, approvals, seen, met>>

NewTask(call) ==
    [pc |-> "check", call |-> call, trace |-> NoTrace, nested |-> FALSE,
     age |-> 0, amount |-> 0, at |-> 0, ran |-> FALSE, result |-> "none"]
Idle(call) == [NewTask(call) EXCEPT !.pc = "idle"]

Init ==
    /\ \E c \in Configs : \E f \in Load(c.file) : cfg = [c EXCEPT !.file = f]
    /\ hour = 1
    /\ store = NoTrace
    /\ \E call \in [Requests -> Calls] : task = [r \in Requests |-> Idle(call[r])]
    /\ approvals = <<>>
    /\ seen = [r \in Requests |-> {}]
    /\ met = {}

-----------------------------------------------------------------------------
(* The tools. *)

\* cancel_query and terminate_connection first inspect the session.
Inspects(call) == call.tool \in {"cancel_query", "terminate_connection"}

\* Tools whose effect psql reports in a result row and not in a command tag:
\* a second result check follows the one in runPsqlAs.
Remeasured(call) ==
    \/ Inspects(call)
    \/ call.tool = "terminate_idle_connections" /\ call.action # "read"

Key(call) == <<call.type, call.name>>

ActionOf(t) == IF t.nested THEN "read" ELSE t.call.action

\* The name runPsqlAs puts in the context; the k8s agent does not put one.
ToolName(t) ==
    IF t.call.type = "kubernetes" THEN ""
    ELSE IF t.nested THEN "get_session_info" ELSE t.call.tool

\* No caller fills in the resource's namespace.
Asked(t, tool, sensitivity, h) ==
    [who |-> t.call.who,
     resource |-> [type |-> t.call.type, name |-> t.call.name, namespace |-> "",
                   tags |-> t.call.tags, sensitivity |-> sensitivity, tool |-> tool],
     action |-> ActionOf(t), purpose |-> t.call.purpose, hour |-> h,
     rows |-> 0, pods |-> 0, age |-> 0]

\* The request of CheckTool.
ToolRequest(t, h) == Asked(t, ToolName(t), t.call.sensitivity, h)

\* The request of CheckResult and of CheckDatabaseSessionAge: without the tool
\* and the sensitivity. auditd adds the sensitivity its infra config has.
ResultRequest(t, h) ==
    Asked(t, "", IF cfg.mode = "remote" /\ cfg.infra THEN t.call.sensitivity ELSE {}, h)

Decide(q) == Explain(cfg.file, cfg.default, cfg.dryRun, q)

-----------------------------------------------------------------------------
Go(r, t) == task' = [task EXCEPT ![r] = t]
To(t, pc) == [t EXCEPT !.pc = pc]
End(t, result) == [t EXCEPT !.pc = "end", !.result = result]
Active(r) == task[r].pc \notin {"idle", "left"}

\* An event of r is recorded under the trace id in the store.
Records(r) == seen' = [seen EXCEPT ![r] = @ \cup {store}]

\* Mutant: the middleware does not put the request's trace id in the store.
ArriveUnset(r) ==
    /\ task[r].pc = "idle"
    /\ Go(r, [task[r] EXCEPT !.pc = "check", !.nested = Inspects(task[r].call)])
    /\ UNCHANGED <<cfg, hour, store, approvals, seen, met>>

\* TraceMiddleware before the handler.
Arrive(r) ==
    /\ task[r].pc = "idle"
    /\ store' = r
    /\ Go(r, [task[r] EXCEPT !.pc = "check", !.nested = Inspects(task[r].call)])
    /\ LET others == {s \in Requests \ {r} : Active(s)}
       IN  met' = IF others = {} THEN met ELSE met \cup others \cup {r}
    /\ UNCHANGED <<cfg, hour, approvals, seen>>

\* The deferred Clear.
Leave(r) ==
    /\ task[r].pc = "end"
    /\ store' = NoTrace
    /\ Go(r, To(task[r], "left"))
    /\ UNCHANGED <<cfg, hour, approvals, seen, met>>

-----------------------------------------------------------------------------
(* CheckTool. *)

\* The call may go on: scale_deployment to its planned size, others to run.
Passed(t) ==
    To(t, IF t.call.tool = "scale_deployment" THEN "plan" ELSE "run")

ReadOnlyRefuses(t) == cfg.readOnly /\ ActionOf(t) \in {"write", "destructive"}

hasSensitiveSensitivity(s) == s \cap {"pii", "critical"} # {}
PurposeMissing(t) ==
    cfg.requirePurpose /\ hasSensitiveSensitivity(t.call.sensitivity) /\ ~t.call.explicit

\* A remote check gets an answer when auditd is reached in time and the
\* agent's request carries a trace id.
Answered == store # NoTrace

\* A call that needs approval looks for one, if an approval client is set.
NeedsOne(t) == IF cfg.approvals THEN To(t, "find") ELSE End(t, "refused")

\* Mutant: approval_mode=auto also overrides a denial.
AutoBeatsDeny(t, d) ==
    IF t.call.auto THEN Passed(t)
    ELSE IF NeedsApproval(d) THEN NeedsOne(t)
    ELSE IF IsDenied(d) THEN End(t, "refused") ELSE Passed(t)

\* The local path asks for the approval first and for a denial second: the
\* denial of a rule with require_approval is put to an approver.
LocalDecision(t, d) ==
    IF NeedsApproval(d) THEN IF t.call.auto THEN Passed(t) ELSE NeedsOne(t)
    ELSE IF IsDenied(d) THEN End(t, "refused") ELSE Passed(t)

\* The remote path only looks at the effect.
handleRemoteResponse(t, d) ==
    IF IsDenied(d) THEN End(t, "refused")
    ELSE IF d.effect = "require_approval" THEN NeedsOne(t)
    ELSE Passed(t)

CheckTool(r) ==
    LET t == [task[r] EXCEPT !.trace = store, !.at = hour]
        d == Decide(ToolRequest(t, hour))
    IN  /\ t.pc = "check"
        /\ \/ (ReadOnlyRefuses(t) \/ PurposeMissing(t)) /\ Go(r, End(t, "refused"))
           \/ /\ ~ReadOnlyRefuses(t) /\ ~PurposeMissing(t)
              /\ \/ cfg.mode = "off" /\ Go(r, Passed(t))
                 \/ cfg.mode = "local" /\ Go(r, LocalDecision(t, d))
                 \/ cfg.mode = "remote" /\ Answered /\ Go(r, handleRemoteResponse(t, d))
                 \/ cfg.mode = "remote" /\ Go(r, End(t, "refused"))
        /\ Records(r)
        /\ UNCHANGED <<cfg, hour, store, approvals, met>>

-----------------------------------------------------------------------------
(* requestApproval. Each look-up is a request of its own and may fail.     *)

\* Mutant: an approval for any resource is taken.
GrantedForAny(a, key) == a.status = "approved" /\ a.valid

Granted(a, key) == a.status = "approved" /\ a.valid /\ a.key = key

Held(P(_)) == \E i \in 1..Len(approvals) : P(approvals[i])

\* FindApprovalByTool, the list of approved requests.
FindApproved(r) ==
    LET t == task[r]
        found == Held(LAMBDA a : Granted(a, Key(t.call)))
    IN  /\ t.pc = "find"
        /\ \/ Go(r, IF found THEN Passed(t) ELSE To(t, "find_pending"))
           \/ Go(r, To(t, "by_trace"))
        /\ UNCHANGED <<cfg, hour, store, approvals, seen, met>>

\* FindApprovalByTool, the list of pending requests.
FindPending(r) ==
    LET t == task[r]
        found == Held(LAMBDA a : a.status = "pending" /\ a.key = Key(t.call))
    IN  /\ t.pc = "find_pending"
        /\ \/ Go(r, IF found THEN End(t, "pending") ELSE To(t, "by_trace"))
           \/ Go(r, To(t, "by_trace"))
        /\ UNCHANGED <<cfg, hour, store, approvals, seen, met>>

\* CheckExistingApproval, under the trace id read at the check.
CheckExistingApproval(r) ==
    LET t == task[r]
        found == /\ t.trace # NoTrace
                 /\ Held(LAMBDA a : Granted(a, Key(t.call)) /\ a.trace = t.trace)
    IN  /\ t.pc = "by_trace"
        /\ \/ found /\ Go(r, Passed(t))
           \/ Go(r, To(t, "create"))
        /\ UNCHANGED <<cfg, hour, store, approvals, seen, met>>

CreateApproval(r) ==
    LET t == task[r]
    IN  /\ t.pc = "create"
        /\ \/ /\ Len(approvals) < MaxApprovals
              /\ approvals' = Append(approvals,
                     [key |-> Key(t.call), action |-> ActionOf(t), trace |-> t.trace,
                      status |-> "pending", valid |-> TRUE])
              /\ Go(r, End(t, "pending"))
           \/ UNCHANGED approvals /\ Go(r, End(t, "refused"))
        /\ UNCHANGED <<cfg, hour, store, seen, met>>

\* An approver, the requester, or the expiration worker.
Resolve(i) ==
    /\ approvals[i].status = "pending"
    /\ \E s \in {"approved", "denied", "expired", "cancelled"} : approvals' = [approvals EXCEPT ![i].status = s]
    /\ UNCHANGED <<cfg, hour, store, task, seen, met>>

\* approval_valid_until passes.
Lapse(i) ==
    /\ approvals[i].status = "approved" /\ approvals[i].valid
    /\ approvals' = [approvals EXCEPT ![i].valid = FALSE]
    /\ UNCHANGED <<cfg, hour, store, task, seen, met>>

-----------------------------------------------------------------------------
(* The command and the checks around it.                                   *)

\* CheckResult and CheckDatabaseSessionAge: any effect but deny is a pass, and
\* a remote check that gets no answer is a failure. A local denial is recorded.
MayPass(q) == CASE cfg.mode = "off" -> TRUE
                [] cfg.mode = "local" -> Decide(q).effect # "deny"
                [] OTHER -> Answered /\ Decide(q).effect # "deny"
MayFail(q) == CASE cfg.mode = "off" -> FALSE
                [] cfg.mode = "local" -> Decide(q).effect = "deny"
                [] OTHER -> TRUE

CheckResult(r, rows, pods, onPass, onFail) ==
    LET t == task[r]
        q == [ResultRequest(t, hour) EXCEPT !.rows = rows, !.pods = pods]
        exempt == t.call.action = "read" /\ rows = 0 /\ pods = 0
    IN  \/ (exempt \/ MayPass(q)) /\ Go(r, onPass) /\ UNCHANGED seen
        \/ ~exempt /\ MayFail(q) /\ Go(r, onFail) /\ Records(r)

\* scale_deployment knows the size before it runs.
CheckPlanned(r) ==
    /\ task[r].pc = "plan"
    /\ \E n \in Amounts :
         CheckResult(r, 0, n, [To(task[r], "run") EXCEPT !.amount = n], End(task[r], "refused"))
    /\ UNCHANGED <<cfg, hour, store, approvals, met>>

\* What a command may come to affect: the planned size, the one session, any
\* number of idle sessions unless they are only listed (dry_run).
Affected(t) == CASE t.call.tool = "scale_deployment" -> {t.amount}
                 [] Inspects(t.call) -> {0, 1}
                 [] t.call.tool = "terminate_idle_connections" /\ t.call.action # "read" -> Amounts
                 [] OTHER -> {0}

\* inspectConnection's query, the command itself, and RecordToolCall. A command
\* that fails may have been carried out.
Run(r) ==
    LET t == task[r]
    IN  /\ t.pc = "run"
        /\ IF t.nested
           THEN \/ \E age \in Ages : Go(r, [t EXCEPT !.pc = "age", !.age = age, !.nested = FALSE])
                \/ Go(r, End(t, "error"))
           ELSE \/ \E n \in Affected(t) : Go(r, [t EXCEPT !.pc = "post", !.ran = TRUE, !.amount = n])
                \/ Go(r, [End(t, "error") EXCEPT !.ran = TRUE])
        /\ Records(r)
        /\ UNCHANGED <<cfg, hour, store, approvals, met>>

\* CheckDatabaseSessionAge, before the policy check of the command itself.
CheckAge(r) ==
    LET t == task[r]
        q == [ResultRequest(t, hour) EXCEPT !.age = t.age]
    IN  /\ t.pc = "age"
        /\ \/ (t.age = 0 \/ MayPass(q)) /\ Go(r, To(t, "check")) /\ UNCHANGED seen
           \/ t.age # 0 /\ MayFail(q) /\ Go(r, End(t, "refused")) /\ Records(r)
        /\ UNCHANGED <<cfg, hour, store, approvals, met>>

\* The check after the command. kubectl prints one line that counts for each of
\* the k8s tools, or none in a version that words it differently; no statement
\* of the database tools leaves a row count in its command tag.
CheckAfter(r) ==
    LET t == task[r]
        next == IF Remeasured(t.call) THEN To(t, "measure") ELSE End(t, "ok")
    IN  /\ t.pc = "post"
        /\ \E pods \in IF t.call.type = "kubernetes" THEN {0, 1} ELSE {0} :
             CheckResult(r, 0, pods, next, End(t, "denied_after"))
        /\ UNCHANGED <<cfg, hour, store, approvals, met>>

\* The second check, with the number of sessions; without a session the two
\* single-session tools return before it.
CheckMeasured(r) ==
    LET t == task[r]
    IN  /\ t.pc = "measure"
        /\ \/ CheckResult(r, t.amount, 0, End(t, "ok"), End(t, "denied_after"))
           \/ /\ Inspects(t.call) /\ t.amount = 0
              /\ Go(r, End(t, "ok")) /\ UNCHANGED seen
        /\ UNCHANGED <<cfg, hour, store, approvals, met>>

Tick ==
    /\ hour < LastHour
    /\ hour' = hour + 1
    /\ UNCHANGED <<cfg, store, task, approvals, seen, met>>

Next ==
    \/ \E r \in Requests :
         \/ Arrive(r) \/ CheckTool(r)
         \/ FindApproved(r) \/ FindPending(r) \/ CheckExistingApproval(r) \/ CreateApproval(r)
         \/ CheckPlanned(r) \/ Run(r) \/ CheckAge(r) \/ CheckAfter(r) \/ CheckMeasured(r)
         \/ Leave(r)
    \/ \E i \in 1..Len(approvals) : Resolve(i) \/ Lapse(i)
    \/ Tick

Spec == Init /\ [][Next]_vars

-----------------------------------------------------------------------------
(* Properties. *)

\* Every variable has its type, and a call has a result exactly when it is over.
TaskStates ==
    [pc : Points, call : Calls, trace : Requests \cup {NoTrace}, nested : BOOLEAN,
     age : Nat, amount : Nat, at : Nat, ran : BOOLEAN, result : Results]
ApprovalStates ==
    [key : {Key(c) : c \in Calls}, action : Actions, trace : Requests \cup {NoTrace},
     status : {"pending", "approved", "denied", "expired", "cancelled"}, valid : BOOLEAN]
TypeOK ==
    /\ cfg \in ConfigDefs
    /\ hour \in 1..LastHour
    /\ store \in Requests \cup {NoTrace}
    /\ task \in [Requests -> TaskStates]
    /\ \A r \in Requests : (task[r].result = "none") = (task[r].pc \notin {"end", "left"})
    /\ approvals \in Seq(ApprovalStates) /\ Len(approvals) <= MaxApprovals
    /\ seen \in [Requests -> SUBSET (Requests \cup {NoTrace})]
    /\ met \subseteq Requests

\* What the policies say of the command of task t, at the hour it was checked.
Verdict(t) == Decide(ToolRequest(t, t.at))

\* CheckTool: no mutation runs in readonly-governed mode, no command runs on
\* sensitive data without a declared purpose when one is required, and a command
\* the policies deny does not run. The one way past a denial is the local
\* path's: it asks for the approval first, when the denying rule has
\* require_approval.
DenialHolds ==
    \A r \in Requests : task[r].ran =>
        /\ cfg.readOnly => task[r].call.action = "read"
        /\ ~PurposeMissing(task[r])
        /\ (cfg.mode # "off" /\ IsDenied(Verdict(task[r]))) =>
              cfg.mode = "local" /\ Verdict(task[r]).approval

\* requestApproval, over all its look-ups and requests: a command that needs an
\* approval runs only after someone approved a request for its own resource, or
\* pre-authorised by approval_mode, which only the local path knows; a remote
\* dry run asks for none.
ApprovalHolds ==
    \A r \in Requests :
        (task[r].ran /\ cfg.mode # "off" /\ NeedsApproval(Verdict(task[r]))) =>
            \/ Held(LAMBDA a : a.status = "approved" /\ a.key = Key(task[r].call))
            \/ cfg.mode = "local" /\ task[r].call.auto
            \/ cfg.mode = "remote" /\ cfg.dryRun

\* A call over a limit (rows, pods, transaction age) of the rule that decides it
\* never ends in "ok", whatever the path to it, as long as the same rule decides
\* the checks that know the measure: those are made without the tool's name and
\* the resource's sensitivity, and a schedule may change in between.
LimitsHold ==
    \A r \in Requests :
        LET t == task[r]
            m == Deciding(cfg.file, ToolRequest(t, t.at))
            rule == cfg.file[m[1]].rules[m[2]]
            measured == IF t.call.type = "database" THEN "maxRows" ELSE "maxPods"
        IN  (/\ t.ran /\ t.result = "ok" /\ hour = 1
             /\ cfg.mode # "off" /\ ~cfg.dryRun /\ m # <<0, 0>>
             /\ m = Deciding(cfg.file, ResultRequest(t, t.at))) =>
              /\ rule[measured] = 0 \/ t.amount <= rule[measured]
              /\ rule.maxAge = 0 \/ t.age <= rule.maxAge

\* CurrentTraceStore: the events of a request that had the agent to itself are
\* recorded under its own trace id.
TraceKept ==
    \A r \in Requests \ met : seen[r] \subseteq {r}
=============================================================================
