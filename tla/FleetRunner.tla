----------------------------- MODULE FleetRunner -----------------------------
(***************************************************************************)
(* A fleet-runner process rolling a change out: preflight, job record,     *)
(* approval gate, canary servers one by one, wave gate, waves of servers   *)
(* in parallel with a circuit breaker, and the final job status            *)
(* (cmd/fleet-runner: main.go, submit.go, approve.go, stages.go,           *)
(* runner.go; internal/fleet), with the fleet tables auditd keeps for it   *)
(* (cmd/auditd/fleet_handlers.go, internal/audit/fleet_store.go).          *)
(*                                                                         *)
(* A server is its position in the list resolveTargets returns; the list   *)
(* is in Go map order, so any server can have any position.                *)
(***************************************************************************)
EXTENDS Integers, Sequences, FiniteSets

CONSTANTS
    N,          \* servers resolved from the targets
    Strategies, \* strategies a job file may have, before Defaults
    StepLists,  \* change.steps a job file may have
    MaxPolls    \* bound: polls of an approval before its deadline

ActionClasses == {"read", "write", "escalation", "destructive", "unknown"}
StepDefs == [class : ActionClasses, on_failure : {"stop", "continue"}]
StrategyDefs == [canary_count : Int, wave_size : Int, failure_threshold : Int,
                 wave_gate : BOOLEAN, count_partial_as_success : BOOLEAN]

ASSUME ConstantsAssumption ==
    /\ N \in Nat \ {0}
    /\ Strategies \subseteq StrategyDefs
    /\ StepLists \subseteq Seq(StepDefs) \ {<<>>}
    /\ MaxPolls \in Nat

Servers == 1..N
Min(a, b) == IF a <= b THEN a ELSE b

-----------------------------------------------------------------------------
(* Strategy and stages. *)

\* failure_threshold is in percent.
Defaults(st) ==
    [st EXCEPT !.canary_count = IF @ <= 0 THEN 1 ELSE @,
               !.failure_threshold = IF @ <= 0 THEN 50 ELSE @]

RiskLevel == [read |-> 0, write |-> 1, escalation |-> 2, destructive |-> 3, unknown |-> -1]

\* The class of highest risk, and "read" when no step has a higher one.
jobActionClass(steps) ==
    CHOOSE c \in {"read"} \cup {steps[k].class : k \in 1..Len(steps)} :
        /\ RiskLevel[c] >= 0
        /\ \A k \in 1..Len(steps) : RiskLevel[steps[k].class] <= RiskLevel[c]
IsApprovalRequired(class) == class \in {"write", "destructive", "escalation"}

\* The canaries are servers 1..CanaryCount.
CanaryCount(st) == Min(st.canary_count, N)

\* chunk: consecutive pieces of n, the last one shorter when n does not divide the
\* length; one piece when n is out of range.
chunk(s, n) ==
    IF n <= 0 \/ n >= Len(s) THEN <<s>>
    ELSE [k \in 1..((Len(s) - 1) \div n + 1) |-> SubSeq(s, (k - 1) * n + 1, Min(k * n, Len(s)))]

\* The waves runStages runs.
Waves(st) ==
    LET c == CanaryCount(st)
    IN  chunk([i \in 1..(N - c) |-> c + i], IF st.wave_size <= 0 THEN N - c ELSE st.wave_size)

\* buildStageAssignments: the stage stored for server i, 0 for the canary stage.
buildStageAssignments(st, i) ==
    LET c == CanaryCount(st)
        size == IF st.wave_size > 0 THEN st.wave_size ELSE IF N > c THEN N - c ELSE 1
    IN  IF i <= c THEN 0 ELSE (i - 1 - c) \div size + 1

-----------------------------------------------------------------------------
Gates == {"job", "wave"}
ApprovalStatuses == {"none", "pending", "approved", "denied", "expired", "cancelled"}
Resolved == {"approved", "denied", "expired", "cancelled"}
Phases == {"preflight", "submit", "job", "canary", "wave", "waves", "finalize", "done", "exited"}

\* What a tool call comes back with: 200, or another status or no answer.
callGatewayTool == {"ok", "error"}

\* A server as executeSteps knows it: the stage it runs in (-1 before it
\* starts), the outcome of each step so far, and whether it is through.
NotStarted == [stage |-> -1, results |-> <<>>, done |-> FALSE]
ServerStates == [stage : -1..N, results : Seq(callGatewayTool), done : BOOLEAN]

RowStatuses == {"none", "pending", "running", "success", "partial", "failed"}

VARIABLES
    cfg,      \* [strategy, steps, audit]: the job file and whether auditd's URL is set
    phase,    \* where main and runStages are; a gate's name while it is decided
    asked,    \* the runner holds an approval id it polls, or gave up on
    polls,    \* polls so far
    gate,     \* the approval request of each gate, as auditd stores it
    jobID,    \* main has a job id
    current,  \* the canary server, or the wave, being run
    server,   \* the servers
    ok,       \* runStages returned no error
    job,      \* fleet_jobs: status of the job
    rows,     \* fleet_job_servers: status of each server
    stages    \* fleet_job_servers: stage stored for each server, -1 without a row

vars == <<cfg, phase, asked, polls, gate, jobID, current, server, ok, job, rows, stages>>
records == <<job, rows, stages>>

Init ==
    /\ \E st \in Strategies, steps \in StepLists, audit \in BOOLEAN :
         cfg = [strategy |-> Defaults(st), steps |-> steps, audit |-> audit]
    /\ phase = "preflight" /\ asked = FALSE /\ polls = 0
    /\ gate = [g \in Gates |-> "none"]
    /\ jobID = FALSE /\ current = 1 /\ ok = TRUE
    /\ server = [i \in Servers |-> NotStarted]
    /\ job = "none"
    /\ rows = [i \in Servers |-> "none"]
    /\ stages = [i \in Servers |-> -1]

Goto(p) == phase' = p /\ asked' = FALSE /\ polls' = 0
Fail == phase' = "finalize" /\ ok' = FALSE /\ UNCHANGED <<asked, polls>>

-----------------------------------------------------------------------------
(* Before the rollout. *)

\* runPreflight: main exits when any server is unreachable.
Preflight ==
    /\ phase = "preflight"
    /\ Goto("submit") \/ Goto("exited")
    /\ UNCHANGED <<cfg, gate, jobID, current, server, ok, records>>

\* submitJob: the rollout goes on without a job id when it fails, and without a
\* row for a server that could not be registered.
Submit ==
    /\ phase = "submit" /\ Goto("job")
    /\ \/ /\ jobID' = TRUE /\ job' = "running"
          /\ \E registered \in SUBSET Servers :
               /\ ~cfg.audit => registered = {}
               /\ rows' = [i \in Servers |-> IF i \in registered THEN "pending" ELSE "none"]
               /\ stages' = [i \in Servers |->
                     IF i \in registered THEN buildStageAssignments(cfg.strategy, i) ELSE -1]
       \/ UNCHANGED <<jobID, records>>
    /\ UNCHANGED <<cfg, gate, current, server, ok>>

-----------------------------------------------------------------------------
(* The two gates of runStages. *)

Required(g) ==
    /\ cfg.audit
    /\ IF g = "job" THEN IsApprovalRequired(jobActionClass(cfg.steps)) ELSE cfg.strategy.wave_gate
Opens == [job |-> "canary", wave |-> "waves"]
GateOpened(g) == Goto(Opens[g]) /\ current' = 1 /\ UNCHANGED ok

PassGate(g) ==
    /\ phase = g /\ ~Required(g)
    /\ GateOpened(g)
    /\ UNCHANGED <<cfg, gate, jobID, server, records>>

\* auditd stores the request of a job it is named.
handleCreateJobApproval(g) == jobID /\ gate' = [gate EXCEPT ![g] = "pending"]

\* Without a job id the URL names no job; the answer may be lost after the
\* request was stored.
RequestApproval(g) ==
    /\ phase = g /\ Required(g) /\ ~asked
    /\ \/ /\ handleCreateJobApproval(g)
          /\ \/ asked' = TRUE /\ UNCHANGED <<phase, polls, ok>>
             \/ Fail
       \/ Fail /\ UNCHANGED gate
    /\ UNCHANGED <<cfg, jobID, current, server, records>>

requestFleetJobApproval == RequestApproval("job")
requestWaveGateApproval == RequestApproval("wave")

\* Mutant: an approval that is not resolved in time lets the job proceed.
TimeoutProceeds(g) ==
    /\ phase = g /\ asked
    /\ IF gate[g] \in {"approved", "pending"} THEN GateOpened(g)
       ELSE Fail /\ UNCHANGED current
    /\ UNCHANGED <<cfg, gate, jobID, server, records>>

\* Mutant: the deadline is not looked at.
PollForever(g) ==
    /\ phase = g /\ asked
    /\ \/ gate[g] = "approved" /\ GateOpened(g)
       \/ gate[g] \in Resolved \ {"approved"} /\ Fail /\ UNCHANGED current
       \/ gate[g] = "pending" /\ UNCHANGED <<phase, asked, polls, ok, current>>
    /\ UNCHANGED <<cfg, gate, jobID, server, records>>

\* waitForFleetApproval, one poll: an approval opens the gate and any other
\* decision ends the job; a pending one, or an answer that does not arrive, is
\* polled again until the deadline has passed.
Poll(g) ==
    /\ phase = g /\ asked
    /\ \/ gate[g] = "approved" /\ GateOpened(g)
       \/ gate[g] \in Resolved \ {"approved"} /\ Fail /\ UNCHANGED current
       \/ polls < MaxPolls /\ polls' = polls + 1 /\ UNCHANGED <<phase, asked, ok, current>>
       \/ Fail /\ UNCHANGED current
    /\ UNCHANGED <<cfg, gate, jobID, server, records>>

\* The approver, the requester or auditd's expiration worker resolves a request.
Resolve(g) ==
    /\ gate[g] = "pending"
    /\ \E s \in Resolved : gate' = [gate EXCEPT ![g] = s]
    /\ UNCHANGED <<cfg, phase, asked, polls, jobID, current, server, ok, records>>

-----------------------------------------------------------------------------
(* executeSteps. *)

\* patchServerStatus: an UPDATE, which reaches auditd or not and changes nothing
\* without a row.
Patch(i, status) ==
    \/ cfg.audit /\ rows[i] # "none" /\ rows' = [rows EXCEPT ![i] = status]
    \/ UNCHANGED rows

Started(i) == server[i].stage # -1
Errors(i) == {k \in 1..Len(server[i].results) : server[i].results[k] = "error"}
Stopped(i) == \E k \in Errors(i) : cfg.steps[k].on_failure = "stop"

\* The servers runStages may start now: one canary, or the servers of a wave.
Startable(i) ==
    \/ phase = "canary" /\ i = current
    \/ phase = "waves" /\ \E k \in 1..Len(Waves(cfg.strategy)[current]) :
                              Waves(cfg.strategy)[current][k] = i

StartServer(i) ==
    /\ Startable(i) /\ ~Started(i)
    /\ server' = [server EXCEPT ![i].stage = IF phase = "canary" THEN 0 ELSE current]
    /\ Patch(i, "running")
    /\ UNCHANGED <<cfg, phase, asked, polls, gate, jobID, current, ok, job, stages>>

\* callGatewayTool for the next step; an error on a "stop" step ends the server.
CallTool(i) ==
    /\ phase \in {"canary", "waves"} /\ Started(i) /\ ~server[i].done
    /\ Len(server[i].results) < Len(cfg.steps)
    /\ \E r \in callGatewayTool :
         LET stop == r = "error" /\ cfg.steps[Len(server[i].results) + 1].on_failure = "stop"
         IN  /\ server' = [server EXCEPT ![i] = [server[i] EXCEPT !.results = Append(@, r), !.done = stop]]
             /\ IF stop THEN Patch(i, "failed") ELSE UNCHANGED rows
    /\ UNCHANGED <<cfg, phase, asked, polls, gate, jobID, current, ok, job, stages>>

\* Mutant: the errors of "continue" steps are forgotten.
FinishAsSuccess(i) ==
    /\ phase \in {"canary", "waves"} /\ Started(i) /\ ~server[i].done
    /\ Len(server[i].results) = Len(cfg.steps)
    /\ server' = [server EXCEPT ![i].done = TRUE]
    /\ Patch(i, "success")
    /\ UNCHANGED <<cfg, phase, asked, polls, gate, jobID, current, ok, job, stages>>

\* All steps were called.
FinishServer(i) ==
    /\ phase \in {"canary", "waves"} /\ Started(i) /\ ~server[i].done
    /\ Len(server[i].results) = Len(cfg.steps)
    /\ server' = [server EXCEPT ![i].done = TRUE]
    /\ Patch(i, IF Errors(i) = {} THEN "success" ELSE "partial")
    /\ UNCHANGED <<cfg, phase, asked, polls, gate, jobID, current, ok, job, stages>>

isServerFailure(i) ==
    \/ Stopped(i)
    \/ ~cfg.strategy.count_partial_as_success /\ Errors(i) # {}

-----------------------------------------------------------------------------
(* runStages between servers. *)

\* Mutant: only a server that was stopped counts.
CanaryStoppedOnly ==
    /\ phase = "canary" /\ server[current].done
    /\ \/ /\ Stopped(current) /\ Fail /\ UNCHANGED current
       \/ /\ ~Stopped(current)
          /\ current' = current + 1 /\ UNCHANGED ok
          /\ IF current < CanaryCount(cfg.strategy) THEN UNCHANGED <<phase, asked, polls>>
             ELSE IF CanaryCount(cfg.strategy) < N THEN Goto("wave") ELSE Goto("finalize")
    /\ UNCHANGED <<cfg, gate, jobID, server, records>>

\* A failed canary aborts the job; after the last one come the wave gate and the
\* waves, if any server is left.
CanaryDone ==
    /\ phase = "canary" /\ server[current].done
    /\ \/ /\ isServerFailure(current) /\ Fail /\ UNCHANGED current
       \/ /\ ~isServerFailure(current)
          /\ current' = current + 1 /\ UNCHANGED ok
          /\ IF current < CanaryCount(cfg.strategy) THEN UNCHANGED <<phase, asked, polls>>
             ELSE IF CanaryCount(cfg.strategy) < N THEN Goto("wave") ELSE Goto("finalize")
    /\ UNCHANGED <<cfg, gate, jobID, server, records>>

Wave(k) == {Waves(cfg.strategy)[k][j] : j \in 1..Len(Waves(cfg.strategy)[k])}
Failures(k) == Cardinality({i \in Wave(k) : isServerFailure(i)})

\* Mutant: the rate is taken over the fleet instead of the wave.
TrippedOverFleet(k) == Failures(k) * 100 > cfg.strategy.failure_threshold * N

\* The circuit breaker: failureRate > FailureThreshold.
Tripped(k) == Failures(k) * 100 > cfg.strategy.failure_threshold * Cardinality(Wave(k))

\* wg.Wait returns when every server of the wave is through.
WaveDone ==
    /\ phase = "waves" /\ \A i \in Wave(current) : server[i].done
    /\ \/ /\ Tripped(current) /\ Fail /\ UNCHANGED current
       \/ /\ ~Tripped(current) /\ UNCHANGED ok
          /\ IF current < Len(Waves(cfg.strategy))
             THEN current' = current + 1 /\ UNCHANGED <<phase, asked, polls>>
             ELSE Goto("finalize") /\ UNCHANGED current
    /\ UNCHANGED <<cfg, gate, jobID, server, records>>

\* finalizeJob, when there is a job; the PATCH may not arrive.
Finalize ==
    /\ phase = "finalize" /\ phase' = "done"
    /\ \/ jobID /\ cfg.audit /\ job' = IF ok THEN "completed" ELSE "failed"
       \/ UNCHANGED job
    /\ UNCHANGED <<cfg, asked, polls, gate, jobID, current, server, ok, rows, stages>>

\* The process is killed: nothing takes the job up again.
Killed ==
    /\ phase \notin {"done", "exited"} /\ Goto("exited")
    /\ UNCHANGED <<cfg, gate, jobID, current, server, ok, records>>

-----------------------------------------------------------------------------
Runner ==
    \/ Preflight \/ Submit \/ CanaryDone \/ WaveDone \/ Finalize
    \/ \E g \in Gates : PassGate(g) \/ Poll(g)
    \/ requestFleetJobApproval \/ requestWaveGateApproval
    \/ \E i \in Servers : StartServer(i) \/ CallTool(i) \/ FinishServer(i)

Next == Runner \/ Killed \/ \E g \in Gates : Resolve(g)

\* The runner's goroutines run; nobody has to resolve an approval.
Spec == Init /\ [][Next]_vars /\ WF_vars(Runner)
-----------------------------------------------------------------------------
(* Properties. *)

\* Every variable keeps its type: no index runs past the servers or the waves
\* (runStages' slices).
TypeOK ==
    /\ cfg \in [strategy : {Defaults(st) : st \in Strategies}, steps : StepLists, audit : BOOLEAN]
    /\ phase \in Phases /\ asked \in BOOLEAN /\ polls \in 0..MaxPolls
    /\ gate \in [Gates -> ApprovalStatuses]
    /\ jobID \in BOOLEAN /\ ok \in BOOLEAN
    /\ current \in 1..N + 1
    /\ phase = "canary" => current \in Servers
    /\ server \in [Servers -> ServerStates]
    /\ job \in {"none", "running", "completed", "failed"}
    /\ rows \in [Servers -> RowStatuses]
    /\ stages \in [Servers -> -1..N]

\* With auditd, no step of a job that changes something is run on a server before
\* the job's approval, and on no server outside the canary stage before the wave
\* gate's, whatever polls are lost, time out or race the decision (runStages' gates).
\* The connections are checked before, on every server (preflight.go:32).
GatesHold ==
    \A i \in Servers : Started(i) /\ cfg.audit =>
        /\ (\E k \in 1..Len(cfg.steps) : cfg.steps[k].class \in {"write", "destructive", "escalation"})
             => gate["job"] = "approved"
        /\ cfg.strategy.wave_gate /\ server[i].stage # 0 => gate["wave"] = "approved"

\* A server outside the canary stage is touched only after every canary went
\* through all its steps without an error that counts (runStages' canary phase).
CanariesShield ==
    \A i, j \in Servers :
        /\ server[i].stage > 0
        /\ j <= cfg.strategy.canary_count
        => /\ server[j].stage = 0 /\ server[j].done
           /\ Len(server[j].results) = Len(cfg.steps)
           /\ ~cfg.strategy.count_partial_as_success =>
                \A k \in 1..Len(cfg.steps) : server[j].results[k] = "ok"

\* A wave is started only when in every earlier wave all servers are through and
\* the share that failed is within the threshold: one wave at most goes over it
\* (runStages' wg.Wait and circuit breaker).
BreakerHolds ==
    \A i \in Servers : \A w \in 1..(server[i].stage - 1) :
        LET earlier == {j \in Servers : server[j].stage = w}
            failed == {j \in earlier : isServerFailure(j)}
        IN  /\ earlier # {} /\ \A j \in earlier : server[j].done
            /\ Cardinality(failed) * 100 <= cfg.strategy.failure_threshold * Cardinality(earlier)

\* What auditd shows never claims more than happened: "success" means every step
\* succeeded, "partial" that all were called and one failed, "failed" that a step
\* that stops did, a completed job that every server is through and no canary
\* failed, and the stage stored with a server is the one it was run in, which
\* the code computes twice (executeSteps, finalizeJob, buildStageAssignments).
RecordsHonest ==
    /\ \A i \in Servers :
         /\ rows[i] \in {"success", "partial"} => Len(server[i].results) = Len(cfg.steps)
         /\ rows[i] = "success" => Errors(i) = {}
         /\ rows[i] = "partial" => Errors(i) # {} /\ ~Stopped(i)
         /\ rows[i] = "failed" => Stopped(i)
         /\ Started(i) /\ stages[i] # -1 => server[i].stage = stages[i]
    /\ job = "completed" => \A i \in Servers : server[i].done /\ (server[i].stage = 0 => ~isServerFailure(i))

\* Unless it is killed, the runner ends: approvals that nobody resolves, lost
\* answers and failing servers do not keep it (waitForFleetApproval's deadline,
\* the tool calls' timeouts). This includes approval_timeout_seconds 0, the default,
\* for which the code waits 30 minutes (approve.go:133-135); docs/FLEET.md:116 and :249
\* say that it waits indefinitely, which is not what the code does.
RunnerEnds == <>(phase \in {"done", "exited"})
=============================================================================
