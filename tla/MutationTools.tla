---------------------------- MODULE MutationTools ----------------------------
(***************************************************************************)
(* The tools that change something, as they run inside the agents          *)
(* (agents/database/tools.go, agents/k8s/tools.go, agents/sysadmin/        *)
(* tools.go): look at the target, ask the policy, execute, record, check   *)
(* what was done against the policy, and poll until the effect shows       *)
(* (agentutil/retryutil). Tools run at the same time as each other and as  *)
(* the systems they act on, which are reduced to one database session (a   *)
(* process id that a new session can take over), one setting, one pod name *)
(* and one deployment. The policy's answers are arbitrary here;            *)
(* PolicyEnforcer has them.                                                *)
(***************************************************************************)
EXTENDS Integers, FiniteSets

CONSTANTS
    ToolCalls,    \* tool calls
    MaxXactAge,   \* max_xact_age_secs, where the policy has it
    MaxReplicas,  \* bound: replicas of the deployment
    MaxChanges    \* bound: changes the outside world makes, which are also its clock

ASSUME ToolAssumption == MaxXactAge \in Nat \ {0} /\ MaxReplicas \in Nat \ {0} /\ MaxChanges \in Nat

Tools == {"cancel_query", "terminate_connection", "reset_pg_setting", "delete_pod",
          "restart_deployment", "scale_deployment", "restart_service"}
OnSession == {"cancel_query", "terminate_connection"}
Kubernetes == {"delete_pod", "restart_deployment", "scale_deployment"}

Replicas == 0..MaxReplicas

\* verifyRetryConfig and verifyTerminateConfig.
Attempts(tool) == IF tool = "terminate_connection" THEN 2 ELSE 3

\* What a session is doing: which session it is (a later one may have the same process
\* id), whether its transaction has only read (no backend_xid) or has written, and when
\* that began (xact_start).
Work == [id : Nat, tx : {"none", "reads", "writes"}, began : Nat]
Sessions == [state : {"active", "idle", "gone"}, work : Work]

\* found: what inspectConnection reported, and seen: when; pre: PreviousReplicas
\* of the scale's pre-state; replaced: what the command overwrote; on: the pod it
\* deleted; tries: checks made so far; blind: the polling ended with success because the
\* check's command had failed; verify: VerifyStatus, "none" for the empty string; answer:
\* the result is the tool's output, a failure told in it, or an error.
ToolCallStates ==
    [pc : {"idle", "look", "policy", "execute", "second", "post", "verify", "done"}, tool : Tools,
     want : Replicas, found : Work, seen : Nat, pre : {-1} \cup Replicas, replaced : {-1} \cup Replicas, on : Nat,
     tries : 0..3, blind : BOOLEAN,
     verify : {"none", "ok", "warning", "failed", "escalation_required"},
     answer : {"none", "output", "failure", "error"}]

NoWork(id) == [id |-> id, tx |-> "none", began |-> 0]
IdleCall == [pc |-> "idle", tool |-> "restart_service", want |-> 0, found |-> NoWork(1), seen |-> 0,
             pre |-> -1, replaced |-> -1, on |-> 0, tries |-> 0, blind |-> FALSE,
             verify |-> "none", answer |-> "none"]

VARIABLES
    ageLimit,     \* the policy has max_xact_age_secs
    session, setting, pod, deployment,
    calls,        \* the calls
    signalled,    \* sessions that were sent a signal: who sent it, to which session
    touched,      \* calls during which another call changed the deployment
    changes       \* changes of the outside world so far

toolVars == <<ageLimit, session, setting, pod, deployment, calls, signalled, touched, changes>>
world == <<session, setting, pod, deployment>>

ToolInit ==
    /\ ageLimit \in BOOLEAN
    /\ session \in [state : {"active"}, work : [id : {1}, tx : {"none", "reads"}, began : {0}]]
    /\ setting = "changed"
    /\ pod = [id |-> 1, state |-> "running"]
    /\ deployment \in [replicas : {0, MaxReplicas}, restarted : {FALSE}]
    /\ calls = [t \in ToolCalls |-> IdleCall]
    /\ signalled = {} /\ touched = {} /\ changes = 0

Reply(t, answer) == calls' = [calls EXCEPT ![t].pc = "done", ![t].answer = answer]
Goto(t, pc) == calls' = [calls EXCEPT ![t].pc = pc]

\* How a tool reports an error that keeps it from going on: the database tools always
\* with errorResult, the Kubernetes tools a command's as output and a denial as error.
CommandError(t) == Reply(t, IF calls[t].tool \in Kubernetes THEN "failure" ELSE "error")
Denied(t) == Reply(t, "error")

Start(t) ==
    /\ calls[t].pc = "idle"
    /\ \E tool \in Tools, want \in Replicas :
           /\ tool # "scale_deployment" => want = 0
           /\ calls' = [calls EXCEPT ![t].tool = tool, ![t].want = want,
                                     ![t].pc = IF tool \in OnSession THEN "look" ELSE "policy"]
    /\ UNCHANGED <<ageLimit, world, signalled, touched, changes>>

-----------------------------------------------------------------------------
\* Before the command.

\* A transaction that has written and has been open for longer than the limit.
TooOld(w) == ageLimit /\ w.tx = "writes" /\ changes - w.began > MaxXactAge

\* Mutant of inspectConnection: the age is not looked at.
inspectOnly(t) ==
    /\ calls[t].pc = "look" /\ calls[t].tool \in OnSession
    /\ IF session.state = "gone" THEN CommandError(t)
       ELSE calls' = [calls EXCEPT ![t].pc = "policy", ![t].found = session.work, ![t].seen = changes]
    /\ UNCHANGED <<ageLimit, world, signalled, touched, changes>>

\* inspectConnection and CheckDatabaseSessionAge.
inspectConnection(t) ==
    /\ calls[t].pc = "look" /\ calls[t].tool \in OnSession
    /\ \/ CommandError(t)
       \/ session.state = "gone" /\ CommandError(t)
       \/ session.state # "gone" /\ TooOld(session.work) /\ Denied(t)
       \/ /\ session.state # "gone" /\ ~TooOld(session.work)
          /\ calls' = [calls EXCEPT ![t].pc = "policy", ![t].found = session.work, ![t].seen = changes]
    /\ UNCHANGED <<ageLimit, world, signalled, touched, changes>>

\* The policy check, which may take as long as an approval takes.
checkPolicy(t) ==
    /\ calls[t].pc = "policy"
    /\ \/ Denied(t)
       \/ Goto(t, IF calls[t].tool = "scale_deployment" THEN "look" ELSE "execute")
    /\ UNCHANGED <<ageLimit, world, signalled, touched, changes>>

\* Mutant of readPreState: the count asked for is kept instead of the one in place.
keepWanted(t) ==
    /\ calls[t].pc = "look" /\ calls[t].tool = "scale_deployment"
    /\ touched' = touched \ {t}
    /\ calls' = [calls EXCEPT ![t].pc = "execute", ![t].pre = calls[t].want]
    /\ UNCHANGED <<ageLimit, world, signalled, changes>>

\* scaleDeploymentImpl: a read that fails, or a count of 0, gives no pre-state.
readPreState(t) ==
    /\ calls[t].pc = "look" /\ calls[t].tool = "scale_deployment"
    /\ touched' = touched \ {t}
    /\ \/ calls' = [calls EXCEPT ![t].pc = "execute"]
       \/ deployment.replicas > 0 /\ calls' = [calls EXCEPT ![t].pc = "execute", ![t].pre = deployment.replicas]
    /\ UNCHANGED <<ageLimit, world, signalled, changes>>

-----------------------------------------------------------------------------
\* The command. It works, it fails, or it works and its answer is lost.

\* A command that ran: go on if it was answered, else report an error.
Outcome(t, pc, works, lost) ==
    LET answered == works /\ ~lost
    IN  calls' = [calls EXCEPT
            ![t].pc = IF answered THEN pc ELSE "done",
            ![t].answer = IF answered THEN "none" ELSE IF calls[t].tool \in Kubernetes THEN "failure" ELSE "error",
            ![t].replaced = IF calls[t].tool = "scale_deployment" THEN deployment.replicas ELSE -1,
            ![t].on = IF calls[t].tool = "delete_pod" THEN pod.id ELSE 0]

\* pg_cancel_backend, pg_terminate_backend: no row for a process that is not there;
\* false without the privilege, which the tool tells unless the post-check denies.
signalSession(t) ==
    /\ calls[t].pc = "execute" /\ calls[t].tool \in OnSession
    /\ \/ CommandError(t) /\ UNCHANGED signalled
       \/ session.state = "gone" /\ Reply(t, "output") /\ UNCHANGED signalled
       \/ /\ session.state # "gone" /\ UNCHANGED signalled
          /\ Denied(t) \/ Reply(t, "failure")
       \/ /\ session.state # "gone"
          /\ signalled' = signalled \cup {[call |-> t, to |-> session.work]}
          /\ \E lost \in BOOLEAN : Outcome(t, "post", TRUE, lost)
    /\ UNCHANGED <<ageLimit, world, touched, changes>>

\* resetPgSettingImpl: two commands, each with its own policy check. What the second one,
\* SELECT pg_reload_conf(), returns is not looked at: it also answers when nothing is loaded.
resetSetting(t) ==
    /\ calls[t].tool = "reset_pg_setting"
    /\ \/ /\ calls[t].pc = "execute"
          /\ \E works, lost \in BOOLEAN :
                 /\ setting' = IF works /\ setting = "changed" THEN "reset" ELSE setting
                 /\ Outcome(t, "second", works, lost)
       \/ /\ calls[t].pc = "second"
          /\ \/ Denied(t) /\ UNCHANGED setting
             \/ \E works, lost, loads \in BOOLEAN :
                    /\ setting' = IF works /\ loads /\ setting = "reset" THEN "loaded" ELSE setting
                    /\ IF works /\ ~lost THEN Reply(t, "output") ELSE CommandError(t)
    /\ UNCHANGED <<ageLimit, session, pod, deployment, signalled, touched, changes>>

Others(t) == {u \in ToolCalls \ {t} : calls[u].pc \in {"look", "execute"} /\ calls[u].tool = "scale_deployment"}

\* kubectl delete pod, rollout restart, scale.
runKubectl(t) ==
    /\ calls[t].pc = "execute" /\ calls[t].tool \in Kubernetes
    /\ \E works, lost \in BOOLEAN :
           /\ Outcome(t, "post", works, lost)
           /\ pod' = IF works /\ calls[t].tool = "delete_pod" /\ pod.state = "running"
                     THEN [pod EXCEPT !.state = "terminating"] ELSE pod
           /\ deployment' =
                  CASE works /\ calls[t].tool = "scale_deployment" -> [deployment EXCEPT !.replicas = calls[t].want]
                    [] works /\ calls[t].tool = "restart_deployment" -> [deployment EXCEPT !.restarted = TRUE]
                    [] OTHER -> deployment
           /\ touched' = IF works /\ calls[t].tool = "scale_deployment" THEN touched \cup Others(t) ELSE touched
    /\ UNCHANGED <<ageLimit, session, setting, signalled, changes>>

\* restartContainerImpl, restartServiceImpl: one command, its error is the result's.
restartService(t) ==
    /\ calls[t].pc = "execute" /\ calls[t].tool = "restart_service"
    /\ \/ Reply(t, "output")
       \/ CommandError(t)
    /\ UNCHANGED <<ageLimit, world, signalled, touched, changes>>

\* The policy is asked again with what the command reports: what it denies is done.
checkResult(t) ==
    /\ calls[t].pc = "post"
    /\ \/ Denied(t)
       \/ Goto(t, "verify")
    /\ UNCHANGED <<ageLimit, world, signalled, touched, changes>>

-----------------------------------------------------------------------------
\* WaitUntilResolved with the check of each tool.

\* Mutant of Visible: a pod that is being deleted, a session that is not active, will do.
VisibleSoon(t) ==
    CASE calls[t].tool \in OnSession -> session.state # "active"
      [] calls[t].tool = "delete_pod" -> pod.state # "running"
      [] calls[t].tool = "restart_deployment" -> deployment.restarted
      [] calls[t].tool = "scale_deployment" -> deployment.replicas = calls[t].want

\* What the check sees when its command works.
Visible(t) ==
    CASE calls[t].tool = "cancel_query" -> session.state # "active"
      [] calls[t].tool = "terminate_connection" -> session.state = "gone"
      [] calls[t].tool = "delete_pod" -> pod.state = "gone"
      [] calls[t].tool = "restart_deployment" -> deployment.restarted
      [] calls[t].tool = "scale_deployment" -> deployment.replicas = calls[t].want

\* Tools whose check takes a command that fails for the effect it looks for.
FailureIsEffect(tool) == tool \in OnSession \cup {"delete_pod"}

\* VerifyStatus when the attempts are used up.
Unverified(tool) ==
    CASE tool = "terminate_connection" -> "escalation_required"
      [] tool = "scale_deployment" -> "failed"
      [] OTHER -> "warning"

Resolved(t, blind) ==
    calls' = [calls EXCEPT ![t].pc = "done", ![t].tries = 0, ![t].blind = blind, ![t].verify = "ok",
                           ![t].answer = "output"]
Unresolved(t) ==
    calls' = [calls EXCEPT ![t].pc = "done", ![t].tries = 0, ![t].verify = Unverified(calls[t].tool),
                           ![t].answer = "failure"]
TryAgain(t) ==
    IF calls[t].tries + 1 < Attempts(calls[t].tool) THEN calls' = [calls EXCEPT ![t].tries = @ + 1] ELSE Unresolved(t)

checkEffect(t) ==
    /\ calls[t].pc = "verify"
    /\ \/ Unresolved(t) /\ UNCHANGED <<deployment, touched>>  \* the caller is gone
       \/ /\ UNCHANGED <<deployment, touched>>                \* the command fails
          /\ CASE FailureIsEffect(calls[t].tool) -> Resolved(t, TRUE)
               [] calls[t].tool = "scale_deployment" -> Unresolved(t)
               [] OTHER -> TryAgain(t)
       \/ Visible(t) /\ Resolved(t, FALSE) /\ UNCHANGED <<deployment, touched>>
       \/ /\ ~Visible(t) /\ TryAgain(t)
          /\ \/ UNCHANGED <<deployment, touched>>
             \/ /\ calls[t].tool = "scale_deployment"             \* the command is repeated
                /\ deployment' = [deployment EXCEPT !.replicas = calls[t].want]
                /\ touched' = touched \cup Others(t)
    /\ UNCHANGED <<ageLimit, session, setting, pod, signalled, changes>>

-----------------------------------------------------------------------------
\* The outside world: sessions obey signals sooner or later or never, work, begin and end
\* transactions, end and are replaced; pods end and come back under their name; and time
\* passes, with every change and without.

\* What a session that does w can do next: begin a transaction, write in it, end it.
NextWork(w) ==
    IF w.tx = "none" THEN {[w EXCEPT !.tx = tx, !.began = changes + 1] : tx \in {"reads", "writes"}}
    ELSE {[w EXCEPT !.tx = "writes"], NoWork(w.id)}

SessionChanges(s) ==
    {[s EXCEPT !.state = IF @ = "active" THEN "idle" ELSE "active"], [state |-> "gone", work |-> NoWork(s.work.id)]}
    \cup {[s EXCEPT !.work = w] : w \in NextWork(s.work)}

Environment ==
    /\ changes < MaxChanges /\ changes' = changes + 1
    /\ \/ /\ session.state # "gone" /\ session' \in SessionChanges(session)
          /\ UNCHANGED pod
       \/ /\ session.state = "gone" /\ session' = [state |-> "active", work |-> NoWork(session.work.id + 1)]
          /\ UNCHANGED pod
       \/ /\ pod.state = "terminating" /\ pod' = [pod EXCEPT !.state = "gone"]
          /\ UNCHANGED session
       \/ /\ pod.state = "gone" /\ pod' = [id |-> pod.id + 1, state |-> "running"]
          /\ UNCHANGED session
       \/ UNCHANGED <<session, pod>>
    /\ UNCHANGED <<ageLimit, setting, deployment, calls, signalled, touched>>

ToolStep(t) ==
    \/ Start(t) \/ inspectConnection(t) \/ checkPolicy(t) \/ readPreState(t)
    \/ signalSession(t) \/ resetSetting(t) \/ runKubectl(t) \/ restartService(t)
    \/ checkResult(t) \/ checkEffect(t)

Done == (\A t \in ToolCalls : calls[t].pc = "done") /\ UNCHANGED toolVars

ToolNext == (\E t \in ToolCalls : ToolStep(t)) \/ Environment \/ Done

ToolSpec == ToolInit /\ [][ToolNext]_toolVars

-----------------------------------------------------------------------------
\* Type invariant.
ToolTypeOK ==
    /\ session \in Sessions /\ setting \in {"changed", "reset", "loaded"}
    /\ calls \in [ToolCalls -> ToolCallStates]
    /\ deployment.replicas \in Replicas
    /\ touched \subseteq ToolCalls /\ changes \in 0..MaxChanges

\* A verified effect lasts: once terminate_connection has answered with VerifyStatus "ok"
\* no session it signalled is ever there again, once delete_pod has, the pod it deleted is
\* not, and once restart_deployment has, the deployment was restarted, although the process
\* id and the pod's name may be in use by others and the checks see only those
\* (WaitUntilResolved); and once reset_pg_setting has answered, the setting is reset in the
\* configuration. Excepted is a check whose own command failed, which the tools take for
\* the effect (checkEffect). That the setting is loaded, or that a cancelled session or a
\* deployment stays as it was verified, is not promised.
VerifiedLasts ==
    \A t \in ToolCalls :
        /\ calls[t].verify = "ok" /\ ~calls[t].blind =>
               /\ calls[t].tool = "terminate_connection" =>
                      \A s \in signalled : s.call = t => session.work.id # s.to.id \/ session.state = "gone"
               /\ calls[t].tool = "delete_pod" => pod.id # calls[t].on \/ pod.state = "gone"
               /\ calls[t].tool = "restart_deployment" => deployment.restarted
        /\ calls[t].tool = "reset_pg_setting" /\ calls[t].answer = "output" => setting # "changed"

\* The age limit bounds what a signal can undo: where the policy limits the age of
\* transactions, a session that is cancelled or terminated in a transaction that has
\* written is in one that was within the limit when the call inspected the process id, so
\* it is over the limit by no more than the policy check and the approval took. This
\* covers a transaction, or another session under the process id, begun after the
\* inspection (inspectConnection, CheckDatabaseSessionAge). Excepted is the transaction
\* that had only read when it was inspected and has written since: it passes at any age.
AgeBounded ==
    \A s \in signalled :
        LET c == calls[s.call]
            HadOnlyRead == c.found.tx = "reads" /\ c.found.id = s.to.id /\ c.found.began = s.to.began
        IN  ageLimit /\ s.to.tx = "writes" /\ ~HadOnlyRead => c.seen - s.to.began <= MaxXactAge

\* The pre-state a rollback is planned from is what the scale replaced, unless another
\* scale, or the repeated command of one that is being verified, came between reading
\* and scaling (scaleDeploymentImpl).
PreStateExact ==
    \A t \in ToolCalls \ touched :
        calls[t].pre # -1 /\ calls[t].replaced # -1 => calls[t].pre = calls[t].replaced
=============================================================================
