# helpdesk: TLA+ verification

helpdesk lets language-model agents diagnose and change databases, clusters and
hosts. What keeps that acceptable is ordinary code around the agents: a policy
check before each tool call, an approval service for humans, an audit log that
cannot be rewritten unnoticed, gates in playbook runs, rollbacks, a staged rollout
for changes to many servers, and programs that watch the trail. This project models
that code, checks the models with TLC and proves every safety property that the runs
check for every size with TLAPS.

Commands, in this directory (TLC with the community modules on its path):

    tlc -workers 2 -config ApprovalStore.cfg MCApprovalStore
    tlapm ApprovalStoreProofs.tla

`PROJECT.json` lists every run, the mutant that shows each property can fail,
the source lines behind every definition, the hazards and the theorems.

## 1. Inventory

| Component | Where | State it keeps | Operations | Hard behaviour |
|---|---|---|---|---|
| approval service | `internal/audit/approval_store.go`, `cmd/auditd/approval_*.go` | `approval_requests`, `waiters` map, `callbackURLs` map | create, approve, deny, cancel, long poll, expiry every minute, callback | resolvers racing each other and the worker; waiters registering while they are notified; restart loses waiters and callbacks |
| approval client | `internal/audit/approval_client.go` | deadline of a call | `WaitForApproval`, look-ups by trace and tool | chunks of polling against a late decision |
| audit log | `internal/audit/store.go`, `hash.go` | `audit_events`, `lastHash`, listeners | `Record`, verify, query, notify listeners | several processes on one table, lost acknowledgements, restart, notification order |
| journeys, outcomes | `internal/audit/store.go` | derived | group by trace, rank outcomes | partial traces, claims nobody verified |
| auditor, secbot | `cmd/auditor`, `cmd/secbot` | place in the trail, detector windows, cooldown | poll or read the socket, rules, alerts, incidents | late and long events, bursts, POSTs that time out |
| incident agent | `agents/incident` | `incidents.json` | collect a bundle, append it to the index, report | calls at once, dying while the file is truncated |
| rollbacks | `cmd/auditd/rollback_*.go`, `internal/audit/rollback*.go` | `rollback_records`, `fleet_rollback_records` | initiate, cancel, execute, fleet initiate | check-then-insert, blind UPDATE, half-done execution |
| fleet runner | `cmd/fleet-runner`, `internal/fleet` | one job in memory, rows in auditd | preflight, submit, two gates, canaries, waves, finalize | lost status updates, approval deadline, being killed, threshold edges |
| fleet tables | `internal/audit/fleet_store.go`, `cmd/auditd/fleet_handlers.go` | jobs, servers, steps | create, patch, request approval | updates without rows |
| policy enforcer | `agentutil/agentutil.go`, `internal/audit/trace*.go` | the agent's current trace id; uses approvals | `CheckTool`, remote check, approval look-ups, blast radius and session age | stale approvals, an unreachable policy service, overlapping requests |
| policy engine | `internal/policy` | rules | evaluate, explain | precedence and defaults |
| mutation tools | `agents/{database,k8s,sysadmin}/tools.go`, `agentutil/retryutil` | captured pre-state | inspect, check, execute, check again, verify | the target changes between inspection and act; retries |
| authorization, identity | `internal/authz`, `internal/identity` | route tables, roles | `Authorize`, resolve | fail-closed default, three providers |
| gateway, agent servers | `cmd/gateway/gateway.go`, `agentutil/serve` | the agent's current trace id | direct tools, queries, jobs, proxied reads, verification of claims | agents that vanish, callers that disconnect, requests served together |
| playbook runs and gates | `cmd/gateway/playbooks.go`, `internal/audit/playbook_run_store.go` | `playbook_runs`, feedback, approval sessions | run, follow signals, gate, resolve | chains, gates resolved twice, PATCHes in the background |
| step-by-step runs | `cmd/gateway/playbooks.go`, `step_proposer.go`, `internal/audit/playbook_run_step_store.go` | `playbook_run_steps` | propose, proceed, execute, record | repeated requests, a late write that reopens a step |
| playbook series | `internal/audit/playbook_store.go`, `playbooks/seed.go` | `playbooks` | create, update, delete, activate, seed, draft | activation in two statements, restarts as another release |
| decision queue | `cmd/gateway/decisions.go`, `internal/decisions` | none of its own | list, resolve, notify | entries decided elsewhere |
| planner, drift | `cmd/gateway/planner.go`, `cmd/fleet-runner/schemadrift.go`, `replan.go` | plan snapshot | drift check, replan | a schema that changes after planning |
| reporters, clients, stores of single rows, configuration, fault harness | see `PROJECT.json` | – | read and print, or one statement | none that a state machine would show |

How they interact. Agents and the gateway send events to auditd (or, without
auditd, open the audit table themselves). An agent's enforcer creates an
approval in auditd and asks for it again on a later turn; the fleet runner
creates one per gate and polls it; a rollback creates one and links it to its
record; so does each proposed step of a playbook run. People resolve approvals
through auditd's API or the gateway's decision queue, which also resolves the
gates of playbook runs; the expiration worker resolves the rest. The gateway
passes tool calls and prompts to the agents, checks an agent's claims against the
tool events in auditd, and keeps runs, steps and playbooks there with PATCHes it
does not wait for. auditd pushes each event over a Unix socket, or is polled; secbot
asks the incident agent, through the gateway, for a bundle. The fleet runner calls
tools through the gateway and reports to auditd. The rollback executor calls the
inverse tool through the gateway.

What makes each correct is stated as properties in section 3.

## 2. Modules

| Module | Models | Step |
|---|---|---|
| `ApprovalDecision` | what the approval service promises: one decision per request, four eyes, true answers | a decision |
| `ApprovalStore` | table, waiters, handlers, worker, callback, polling client, restart | one SQL statement or one critical section of `waiterMu` |
| `AuditChain` | `Record`, restart, fan-out, the auditor's check, chain verification | lock and link; INSERT; send |
| `Rollback` | handlers, executor, `DeriveRollbackPlan` | one SQL statement or one call to the gateway |
| `FleetRunner` | the runner from preflight to the final status and its records in auditd | one call to auditd or the gateway |
| `Policy` | the policy engine as operators: order of policies, matching, conditions, dry run | – |
| `PolicyEnforcer` | tool calls of an agent: every check before and after the command, approval look-ups, the shared trace id | one check, one request to auditd, or one command |
| `PlaybookRuns` | runs in agent mode, chains, gates and their resolution | one call to auditd or to the agent |
| `PlaybookSteps` | one run in agent_approve mode | one call to auditd, the planner or a tool |
| `PlaybookSeries` | versions, activation, seeding, drafts | one request; one statement of the seeder |
| `Access` | identity providers, authorizer, route tables, as operators | – |
| `Journeys` | the outcome auditd gives a trace, as operators | – |
| `Gateway` | requests from authorization to answer and record, the agent's side of them; uses `Access` and `Journeys` | one call, or the handler up to its next call |
| `MutationTools` | the tools that change something, beside the systems they change | one command, policy check or poll |
| `Detectors` | the rules of the auditor and secbot, as operators over their state | – |
| `Incidents` | the incident agent and its index file | one file operation |
| `Watchers` | the auditor or secbot on the trail; composes `Detectors` and `Incidents` | one fetch, read, event or POST |
| `ApprovalStoreProofs`, `FleetRunnerProofs`, `PolicyEnforcerProofs`, `PlaybookSeriesProofs`, `GatewayProofs` | theorems about the module they are named after | |
| `AuditTrailProofs` | theorems about `Watchers` with `Incidents`, and about `AuditChain` | |
| `PlaybookRunsProofs` | theorems about `PlaybookRuns`, and about `PlaybookSteps` | |
| `RollbackProofs` | theorems about `Rollback`, and about `MutationTools` | |
| `MC*` | instances for TLC | |

`AuditChain`, `PlaybookSteps` and `MutationTools` are extended by a proof module
together with another component, so their specifications have names of their own:
`ChainSpec`, `StepSpec`, `ToolSpec` and so on. The same holds of the agent's part in
`Incidents`, which `Watchers` extends.

### ApprovalStore
`row` is the table; an absent row has status `absent`. `task[t]` is a handler's
goroutine or the worker: `pc` says which statement comes next, `ids` what it
still has to notify, `cur` and `chans` the request being notified and the
channels `notifyWaiters` took. `client[c]` is a `WaitForApproval` call together
with the server side of its current poll; `chan[c]` is the channel of capacity
one. The check before an UPDATE (`handleApprove`) and the UPDATE (`Resolve`) are
two steps, so are "already resolved?" (`WaitCheck`) and registering
(`WaitRegister`), and taking channels (`NotifyTake`) and writing to them
(`NotifyDeliver`). Every statement may fail (`ResolveRefused`, `ExpireFailed`,
`NotifyFetchFailed`). `Crash` keeps the table and loses the rest.

Expiry follows the three places that create requests: a tool approval always has
a window, a fleet approval may have one, a rollback approval never has.

### AuditChain
A hash is the sequence of event ids hashed so far: SHA-256 taken as injective.
A row records, beside its columns, which process wrote it and whether that
process learned of it (`by`, `acked`), so that a property can tell a break the
process caused from one it could not avoid. `Restart` reads the newest row, as
`NewStore` does. `sending` is the set of notification goroutines; they run in
any order. The auditor's connection is accepted and lost.

### Rollback
`known` (in a row and in a goroutine) is the set of records of the same original
that the duplicate check could see; `revived`, `orphaned` and `shared` (records that two
executors had at once) are histories. They state exactly which races the code leaves open.
`Dispatch` takes the gateway's answer and the inverse apart: it may be carried out and
its answer lost, and a command that failed may be answered 200 (section 4). What can be undone is decided by
tool and captured pre-state; the text of the inverse SQL is abstracted to
whether it can be derived. Nothing in the repository constructs the executor;
its caller is modelled from the contract of `Execute`: it loads a record and
passes it in.

### FleetRunner
Servers are positions in the resolved list; the list is in Go map order, so this
loses nothing. `phase` is the place in `main` and `runStages` (a gate's name while
that gate is decided). Every message to auditd may be lost, and a server may have
no row. `Killed` may happen anywhere; nothing resumes a job. The percentage of
the circuit breaker is compared with integers.

### Policy and PolicyEnforcer
A glob or exact name is the set of names it matches, a schedule the hours it is
active in, a principal the set of its identities. `Load` returns every order that
sorts by priority, since `sort.Slice` is not stable. A configuration is chosen in
`Init`: local engine, remote check or none; default effect; dry run; read-only
mode; purpose required; approval client or not; whether auditd has the infra
config. A request makes one tool call; another request that makes the same call
is the retry `ApprovalPendingError` asks for. `cancel_query` and
`terminate_connection` first run `get_session_info` (`nested`) through the same
checks. Every look-up and every remote check may fail. `Arrive` and `Leave` are the
two ends of the trace middleware. The row estimate of `runPsqlAs` is left out: it
applies to statements that begin with DELETE or UPDATE, and no tool of the agent
issues one. The verification after the command is in `MutationTools`. The trace id is read once per check, where the code reads it once for
the event and once for the request.

### PlaybookRuns
`h[t]` is one HTTP request of the gateway: `start` before the run's row is
created, `agent` while the agent is prompted, `route` in the loop of
`handlePlaybookRunAsAgent` with the coerced answer `ans`. An agent's answer is
reduced to its two signals, what its findings recommend and whether its confidence
is low. `recordPlaybookRunComplete` in the background is an element of `patches`
that lands at any time or never, which is also what a gateway that dies leaves
behind. `checkGate` and `resolveGate` are the two halves of
`handleProceedEscalation`, called directly or by the hub. `notified`, `approved`,
`remedied`, `denied` and `raced` are histories. A remediation by steps goes on in
`PlaybookSteps`.

### PlaybookSteps
A proposal is a serial number; the row it is stored in has the index that the
history given to the planner yields (`len(history)+1`), so an empty history after
a failed fetch leads to a taken index. `idWrites` are the background writes of
`createStepApproval`, which set the status back to `proposed` together with the
approval id. `hub` is the approval request of each proposal. `meant` and `named`
record what the operator had been shown and whether the request named it.

### PlaybookSeries
Versions are ordered numbers with one for "blank"; `row`'s domain are the rows
there are. `Create`, `Update`, `Delete`, `Activate` are requests, each one
transaction; the seeder's INSERT and activation are two steps with a crash or error
between them. `chosen` is the row last put in force, `forced` the rows that came
into a series as active beside others.

### Gateway, Access, Journeys
A request is its own trace id (callers that reuse one are left out). `req[r].pc` is
the gateway's side, `req[r].agent` the agent's, which goes on when the gateway has given
up. `current` is the agent's `CurrentTraceStore`: set on arrival, cleared at the
end of an A2A request and read when a tool event is recorded. A tool call is the class
of its tool, the policy's decision and how its command ended (`ToolCalls`): among the
ends are a command that took no effect, a verification that failed and a result denied
for its size. `Trail` is what a call leaves under the id the store holds: policy
decisions, the tool event, a failed verification; each row may be lost. How a call
becomes an answer differs by agent (`ToolReplies`) and so does what the gateway makes of it. A credential is what the headers carry and whether it verifies.
`JourneyOf` is a function of the set of a trace's events, since every rule of
`QueryJourneys` counts, ors or takes a maximum.

### MutationTools
The systems acted on are one session, one setting, one pod name and one deployment;
`Environment` changes them at any time. A session under the process id is known by which
one it is, what its transaction has done and when it began; `changes`, which counts the
changes, is also the clock transactions age by. The policy's answer is arbitrary.
`reset_pg_setting` goes on whatever `pg_reload_conf()` returned. `signalled`, `touched`,
`replaced` and `seen` (when a call inspected the session) are histories. One pod name and one
process id suffice: the hazards are about a name that changes hands.

### Watchers, Detectors, Incidents
An event's id is its place in the log; its timestamp is when its work began.
Seconds, minutes, the cooldown and the thresholds are fields of `Rules`, so that a
few ticks reach them. `excused` and `again` are histories that say which events a
watcher has no way to see, or will see twice. In `Incidents` the index is read,
truncated and written in three steps; the read and the write may fail, and the agent
may die between them. `raced` are the bundles whose appends overlapped, `harmed` those that
were listed when something happened to the file. Another caller of the incident agent looks like
a bundle whose POST timed out.

## 3. Runs

| Run | Instance | Shows |
|---|---|---|
| `approval_safety` | 1 request, 2 people, 2 handlers, worker, 1 client, 1 restart, clock to 2 | `ApproverEntitled`, `ExpiryExact`, `AnswersAgree`, `NoStrayWaiter`, `ResolutionIsFinal`; implements `ApprovalDecision` |
| `approval_liveness` | 1 handler, 2 polls | `EventuallyResolved`, `WaitReturns` |
| `audit_chain` | 2 processes, 3 recorders, 4 events, 0 or 1 legacy row, 2 lost acknowledgements, 2 restarts | `BreaksExplained` |
| `rollback` | 1 event, 1 job, 2 records, 2 goroutines, 1 restart | `DuplicatesExplained`, `ApprovalsBelong`, `ExecutingExplained`, `InverseOnce` |
| `fleet_runner` | 4 servers, 4 strategies, 2 step lists | `GatesHold`, `CanariesShield`, `BreakerHolds`, `RecordsHonest`, `RunnerEnds` |
| `policy_enforcer` | 2 requests, 5 calls, 8 configurations, 2 policy files, 2 approvals, 2 hours | `DenialHolds`, `ApprovalHolds`, `LimitsHold`, `TraceKept` |
| `playbook_runs` | 3 playbooks, 5 answers, 2 handlers, 1 run and 2 resolutions, 2 rows, chains of 3 | `ChainAuthorised`, `GateRunsOnce`, `AnnouncedGateStands` |
| `playbook_steps` | 3 proposals, 3 proceed requests, 2 at a time | `StepRunsOnce`, `ApprovedIsRun` |
| `playbook_series` | 2 series (1 shipped), 3 rows, 2 versions, 3 bodies, 1 update, 1 restart | `ChosenRuns`, `SeededRunnable` |
| `gateway` | 2 requests of 5 kinds, 4 callers, 2 deployments, 5 tool results, 1 model tool each | `FabricationSeen`, `AnswersHonest`, `NothingUnseen`, `JourneysTell` |
| `tools` | 2 calls of 7 tools, 3 changes of the world, 2 replicas, age limit 1 | `VerifiedLasts`, `AgeBounded`, `PreStateExact` |
| `watchers` | 2 programs, socket or polling, 2 to 4 events of 2 kinds, 2 bundles | `WatchedOnce`, `AnomaliesExplained`, `CooldownKept`, `IndexKeeps` |

Each module that is a state machine has a type invariant (`TypeOK`, `ChainTypeOK`,
`StepTypeOK`, `ToolTypeOK`). It holds on
every instance above, it is proved in the proof modules, and the runs leave
it out.

Why the bounds are enough. No step relates two approval requests except the
worker's, which treats each by itself, so one request shared by two handlers,
the worker and a client shows every race over a row; the theorems cover any
number. A clock of two ticks is the shortest in which a request becomes overdue
and the worker's "now" differs from the clock. Two recorders in one process and
a third in another give both kinds of fork; four events let a fork be extended on
both branches. Two rollback records and two goroutines give every pair of racing
handlers. Four servers are the least that give a canary, a full wave and a
shorter last wave; the strategies include more canaries than servers, a
threshold that one failure of one server exceeds, and a rate exactly at the
threshold (one of two at 50 %). Two agent requests are enough to overlap and to
retry, two approvals to take one for another; limits are 1, so
that a count of idle sessions, a planned size and an age fall below or above them
and a single session exactly on them. A gate has two resolvers at most in a race,
and a chain of three returns to the playbook it started with; a run without a row
behaves as one whose row could not be created, so two rows and chains of three go
together. Three proposals are the least in which a repeated request reaches a next
step that was not seen and a step is proposed under a taken index; three proceed
requests allow a race and its successor. Three rows are a shipped version, a
newer one and a version of a caller's. Two gateway requests overlap in the agent in every
order. The five tool results are one of each class and of each way to differ: a command
that fails, one that is held, one that works, one denied after it was done, one whose
effect is not confirmed; the theorems cover every tool call and any number of them in a
query. Three changes of the world let a session end, be replaced and begin a
transaction, and with an age limit of 1 a transaction be within it, on it and over it; the
theorems cover any limit. Polling limits, buffers and remembered ids are 1 and 2, so that three
events pass each.

The properties name their exceptions, and each is a fact about the code.

- `DenialHolds`: the local path asks for approval before it looks at a denial
  (`agentutil.go:505`), so a limit or purpose that denies under a rule with
  `require_approval` is put to an approver, or passes under `approval_mode: auto`;
  the remote path refuses.
- `ApprovalHolds`: an approval is looked up by resource, so one given for a write serves
  a destructive call on the same database, and a dry run still asks for approval
  locally but not remotely.
- `LimitsHold`: the checks that know the measure leave out the tool's name and
  (locally, or without auditd's infra config) the sensitivity, so the limit of a
  rule scoped by either is not enforced, and a call such a rule allowed may be
  reported as denied after it ran.
- `TraceKept`, `FabricationSeen`, `NothingUnseen`, `JourneysTell`: only for requests that
  had the agent to themselves, and whose records reached auditd.
- `AnswersHonest`: 200 does not say that there was an effect. A cancellation or termination
  that took none, a verification that failed and a kubectl command that failed are
  answered 200 with the failure in the output. What was done and then denied for its size
  is answered 422 by the database tools and 403 by the Kubernetes tools.
- `JourneysTell`: "approved" means that an approval was asked for; a failure that is only in
  a tool's output counts as a success.
- `InverseOnce`: not for a record that two executors had at once, or whose executor was lost
  or could not store its result. It does not say that a stored success was applied: a
  failed kubectl command is stored as one.
- `GateRunsOnce`: not for a gate that two requests held at once or whose PATCH was
  lost. `AnnouncedGateStands`: the run of an announced gate still has the outcome "unknown"
  while the PATCH in the background has not landed, and for ever if it is lost; nobody can
  resolve the gate then. Not for the gate of a chained run, which is announced under one
  id and recorded under another.
- `StepRunsOnce`: not for a step that two requests held at once, whose status write was
  lost or that the late write of the approval id reopened. `ApprovedIsRun`: not once a
  proposal that was shown could not be stored.
- `ChosenRuns`: not for a series into which a version was put as active.
- `VerifiedLasts`: not when the check's own command failed, which three tools take for
  the effect; and a setting that was reset is not promised to be loaded.
  `AgeBounded`: not for a transaction that had only read when it was inspected, which
  passes at any age and may write during the approval. `PreStateExact`: not when another scale came in between.
- `WatchedOnce`: an event recorded late, crowded out by newer ones, or recorded while
  the watcher was away is missed; one in the last second when the ids were dropped is
  analysed twice. `IndexKeeps`: not for a bundle whose
  append overlapped with another's, nor for what was listed when a call could not read the
  file, a write failed, two calls wrote at once or the agent died before it wrote.

Deadlock is checked in `gateway` and `tools`, whose ends are a step of their own
(`Done`). In the others requests are bounded, so behaviours end: all requests
resolved and all clients answered, all events recorded, all records settled, the
runner done. A refused request is not a step.

### Fairness
`ApprovalStore`: a goroutine that can run is scheduled (weak fairness of
`HandlerStep`, of the worker's notification and of a client's steps; a client's
poll has a timeout on both sides, so `WaitTimeout` stays possible); the ticker
fires (weak fairness of `ExpireSelect`); and the worker's UPDATE does not fail
for ever (strong fairness of `ExpireUpdate`, which `ExpireFailed` disables each
time it happens). No fairness is assumed of people: nobody has to approve.
`FleetRunner`: weak fairness of the runner's own steps; each call it makes has a
timeout. Nobody has to resolve its approvals and it may be killed.

## 4. Where the code and its documents disagree

Met while modelling; each is a behaviour of the modules, and where a property had
to make an exception of it, section 3 names it. No run is kept for them.

1. **Lost wake-up** (`approval_store.go:467`; comment at `:456`). A waiter reads the
   row, the request is resolved and its waiters are taken, then the waiter registers.
   It blocks on a decided request until its poll ends. `WaitReturns` and
   `AnswersAgree` hold nevertheless: the cost is time, not a wrong answer.
2. **False chain alarm** (`store.go:1136`). One goroutine per event writes to the
   socket; two that swap make the auditor report tampering of an intact chain, and a
   timestamp anomaly (`AnomaliesExplained` says when).
3. **Legacy rows** (`store.go:186`). After a table whose newest row has no hash the
   chain restarts from the genesis hash; the verifier expects the computed hash,
   as `hash_test.go:272` says.
4. **Duplicate rollback** (`rollback_handlers.go:128`). Check and INSERT are two
   statements; `docs/ROLLBACK.md:639` promises one active rollback per event.
   `DuplicatesExplained` states what does hold.
5. **Approval left behind** (`approve.go:168`). A runner that gives up does not cancel
   its request, which `docs/FLEET.md:249` says happens.
6. **Policies by namespace never match** (`agentutil.go:443`, `engine.go:212`). No caller
   fills in the namespace a policy is matched against, so the example policy that
   makes `kube-system` read-only (`policies.example.yaml:98`) is skipped.
7. **A step denied in the decision queue is not denied** (`decisions.go`). Resolving the
   approval of a step changes the approval request only; the step stays pending and
   `proceed` runs it. `docs/DECISIONS.md:309` calls the hub and the endpoints
   interchangeable, and `docs/CUSTOMER_RIGHTS.md:96` lets individual steps be denied.
8. **What the seeder puts in force** (`playbooks/seed.go`). A new version of a series is
   inserted as active and the others are deactivated, where the comment at `:46`
   has it inserted inactive for review. A draft with the version of a shipped file,
   in a series without an active version, is activated at the next start, where
   `docs/VAULT.md:177` has a human activate it.
9. **Denied database calls are 422** (`gateway.go:1851`). The agent reports a denial
   as text, so the gateway answers 422 where `docs/API.md:54` has 403.
10. **Verified by a failing check** (`agents/database/tools.go`, `agents/k8s/tools.go`). A
    verification whose own command fails counts as the effect for three tools;
    `docs/AIGOVERNANCE.md:136` has each tool re-read the target to confirm the change.
11. **secbot and the auditor differ.** secbot reports a destructive event the policy
    allowed, and the announcement of a tool call, as unauthorized; the auditor does
    not. secbot takes any answer 200 for an incident that was created.
12. **Expiry sends no callback** (`approval_handlers.go:450`), although
    `docs/API.md:1062` promises a POST when resolved.
13. **An approval timeout of 0** (`approve.go:133`). The runner waits 30 minutes and then
    aborts. `docs/FLEET.md:116` and `:249` say that 0, the default, waits indefinitely, and
    the comment at `internal/fleet/schema.go:86` that it uses auditd's default. `RunnerEnds`
    holds for what the code does and would not hold for what the document says.
14. **A quorum of one** (`internal/policy/engine.go:297`). `approval_quorum` is copied into the
    decision and read by nothing that grants an approval; the first approver decides, where
    `policies.example.yaml:78` ("Requires 2 DBAs to approve") and
    `docs/AIGOVERNANCE.md:350` ask for two.
15. **A failed inverse stored as a success** (`rollback_executor.go:135`). A kubectl command
    that fails puts its error into the output (`agents/k8s/tools.go:1090`), `isToolError`
    (`gateway.go:2054`) does not match it, and the executor takes any status below 300 for a
    success; it then records `rollback_verified` with "verified_ok" (`:95`) although
    nothing is verified.
16. **DML cannot be rolled back** (`internal/audit/rollback.go:206`, `:240`). The inverse is a call of
    `exec_sql`, for which the gateway has no route and the agent no tool, so its execution
    always fails; `docs/ROLLBACK.md:66-68` calls these operations reversible. And
    only "no" is refused (`rollback_handlers.go:107`), so that a "partial" plan is accepted
    where `docs/ROLLBACK.md:77` has 422.
17. **The incident index forgets** (`agents/incident/tools.go:637`, `:658`). Any error of the read
    starts from an empty list, and a write that fails has truncated the file; both are at
    most logged (`:461`), and everything listed is gone from the "append-only log".
18. **A gate that is announced but not recorded** (`playbooks.go:862`, `:1772`). The gate is
    answered and announced before the PATCH that records it; while that is late the
    operator's decision is refused with 409 (`:1076`), and if it is lost for ever.
    `docs/PLAYBOOKS.md:370` has the run recorded with `gate_pending`.
19. **The result of the reload is ignored** (`agents/database/tools.go:1637`). The boolean of
    `pg_reload_conf()` is not looked at and the setting not read again; the case is known
    to `playbooks/bgwriter-remediate.yaml:57` and `:70`.
20. **Age limit and reads.** A transaction that has only read passes the age limit at any
    age; if it writes during the approval, the signal undoes it
    (`agents/database/tools.go`, `CheckDatabaseSessionAge`).
21. **Failures only in the output** (`agents/database/tools.go:1263-1288`, `:1391-1434`). A
    cancellation or termination that failed, found no backend or was not verified is
    returned as output without the marker of a failure: the gateway answers 200, and the
    journey is a success unless a verification was recorded.
22. **Journeys** (`store.go:886`, `:921`). "approved" is set when an approval was required and the
    trace has a success, not when it "was granted" (`docs/JOURNEYS.md:298`). "verified" has
    the priority 0, not 0.5 (`:301`, and the comment at `store.go:1000`).

## 5. Proofs

Each proof module shows `Init => Inv`, `Inv /\ [Next]_vars => Inv'` with one lemma
per action, and derives the properties. All hold for every value of the constants
that satisfies the module's named assumption. `Inv` was first checked by TLC on
the instance of the run. Where many actions disturb little, frame lemmas
(`StepInv`, `QuietInv`, `ControlInv`...) say once what a step of one request,
server or handler may leave as it was; for this the parts of `Inv` are operators of
the state they depend on.

**ApprovalStoreProofs** (`ConstantsAssumption`: roles are functions of people, the
worker is no handler, windows are positive). The properties are not inductive: an
UPDATE runs on facts established by an earlier step. `TaskInv` carries them: an
approver that was vetted stays entitled, because a row's requester and kind never
change once it exists; whoever notifies does so of resolved requests only, which
makes the re-read in `notifyWaiters` a final status; what the worker selected is
overdue or resolved meanwhile. `ClientInv` says a call asks about one existing
request. `Untouched` says nobody resolved an absent row, which the refinement
needs. Results: `TypeCorrect`, `ApproversEntitled`, `ExpiryIsExact`,
`AnswersAreTrue`, `WaitersAreWaiting`, `ResolutionsAreFinal` (an action property)
and `StoreImplementsDecision`: every step is a step of `ApprovalDecision` or
invisible to it.

**AuditTrailProofs**, the watchers (`RulesAssumption`: the limits are positive, the
detectors' times are natural numbers, and the skew the auditor tolerates is at least
the second to which a poll rounds its `since`; the code has 5 seconds and one).
`FeedInv` follows an event through a feed. For a poller: everything it has read lies
behind it (the id is remembered, or the timestamp is before the second it will ask for)
or may come again, and everything behind it was read, is in the batch, or is
excused. The step that needs an argument is a fetch: the query returns the newest
events that fit in the limit, so what it leaves out must be older than what it
returns. Batches are in the order of the timestamps, less the one second that is
read again; with the bound on the skew that makes a timestamp anomaly impossible for a
poller (`alarms = {}`), and for the socket each one is an event that was overtaken.
`CooldownInv`: the cooldown runs from the last answer, no POST is under way before it is
over, and every POST that was answered ended before the last answer. `IndexInv`: of
the bundles that are listed and neither raced nor harmed (`Safe`), an append in progress
has read all, the file lists all unless it is being written, and there are none while
two calls write. Results: `FeedInvariance`, `Watched`, `Anomalies`,
`Cooldown`, `IndexInvariance`, `Index`, `WatchTypes`.

The operators behind this choose from finite sets of any size: the newest events, a
sequence in order of the timestamps. That they exist is an induction over finite
sets. The induction theorems of the library cannot be used, but a minimal
counterexample can: strict inclusion of finite subsets is well-founded
(`FS_StrictSubsetOrderingWellFounded`, `WFMin`), so a set of finite sets that is not
empty has a minimal element (`Minimal`). From it follow `Greatest`, `SortedExists`,
`ChronologicalSorts` and `NewestIs`.

**AuditTrailProofs**, the chain (`ChainAssumption`: every recorder has a process, `Nobody` is
neither an event nor a recorder).
`LockInv`: a recorder past `Link` holds its process's mutex, so
the hash it took is still current at the INSERT. `HashInv`: `lastHash` is the
genesis hash or that of a row, and that of the newest row when its process wrote
and knows it. `AppendKeepsChain` then gives both chain properties. Results:
`ChainInvariance`, `BreaksAreExplained`, `LogIsATree`, `ChainTypes`.

**RollbackProofs**. `KnownInv`: what a record's duplicate check saw is closed or was
revived; `DuplicatesExplained` follows. `CallInv`: what each goroutine relies on
between two statements (its record exists and is an event's, the approval it
links is stored). `OnceInv`: a record that never had two executors and lost none has at
most one; once its inverse was carried out, that one is about to store the result, or
the record is terminal and nobody works on it, which is what a cancellation in between
must not undo. Results: `RollbackTypes`, `DuplicatesAreExplained`,
`ApprovalsHaveRecords`, `ExecutionsAreExplained`, `InversesOnce`.

**RollbackProofs**, the tools (`ToolAssumption`: the bounds and the age limit are
natural numbers, with at least one replica). `ToolCallOK` says what
a call may rely on although the world changes: a setting that was reset stays so, a
restart's mark in the deployment stays some call's, and what a scale captured is the
number of replicas still there until it acts, and the number it replaced afterwards,
unless another scale acted during the call (`touched`). `TargetOK` relates a call to the
session and the pod that now have the name it uses. `Inspected`: until the call acts, a
transaction under the process id is the one it inspected or was begun since; from it and
the check at the inspection follows `Bounded` for what the signal reaches. `SignalOK` keeps
that a session that was signalled and verified as gone does not come back, because
sessions and pods are numbered as they come.
Results: `ToolTypeCorrect`, `Verified`, `AgeLimit`, `PreState`.

**PlaybookSeriesProofs**. `ForceInv`: an active row is the one last put in force in its
series, or came into it as active (`forced`); `ChosenRuns` speaks of the newest
active row only, and a step that makes it inactive exposes another. `ServingInv`: the
seeder has no row in hand while requests may delete rows, without which the types
are not inductive. That `Newest` finds a row is proved with the well-foundedness of
the naturals. Results: `SeriesTypes`, `ChosenAlwaysRuns`, `SeededAlwaysRunnable`.

**FleetRunnerProofs** (`ConstantsAssumption`: at least one server, strategies with
integer fields, steps with a class). The code computes the stage of a server twice, by
cutting the list into waves (`chunk`) and by a division
(`buildStageAssignments`); `WavesAre` proves that they agree for every number of
servers and wave size, and every property about waves rests on it. The
invariant says which servers have started in each phase (`Shielded`: outside the
canaries only after the canaries passed; in wave w only after the waves before it
passed) and that a server's row never runs ahead of its results. A gate is
remembered as approved from the poll that read it on. Results: `TypeCorrect`,
`Gated`, `Shields`, `Breaker`, `Honest`.

**PolicyEnforcerProofs** (`ConstantsAssumption`: policy files, calls and
configurations are of their types). `Cleared`: from the check on, a command was not
denied, and from the plan on it is authorised by an approval that is still
`approved` (nothing leaves that status), by `approval_mode` or by a remote dry
run. `Measured`: the age and the amount a task knows are those a check passed in
the first hour. What `explainEvaluate` returns is proved from the deciding rule being
the first that matches (`FirstMatch`, by well-foundedness of the positions).
`TraceInv`: the store holds the id of a request that is alone. Results: `TypeCorrect`,
`Denials`, `Approvals`, `Limits`, `Traces`.

**PlaybookRunsProofs** (`ConstantsAssumption`: playbooks, answers and requests are of
their types, run ids are positive). Nothing locks a row of `playbook_runs`; `RunsOK` says
what stands in for a lock: a run has at most one writer, the handler that started
it, then the PATCH it left in the background, then handlers that resolve the gate.
`GateOK` follows a gate that was not raced for through its holder and the handler that
starts the remediation; `AnnouncedOK` says that the PATCH of an announced gate is
under way or has landed, and the gate was then closed only as an operator decided; with
`RunsOK` no other write of that run is to come. Results: `TypeCorrect`, `Authorisation`, `RunsOnce`,
`AnnouncedStands`.

**PlaybookRunsProofs**, the steps (`StepAssumption`: the bounds are natural
numbers, with at least one proposal).
`StoreOK`: a proposal is made once and stored in one row for good, since an INSERT
under a taken index fails; so a row's index identifies what was shown. `ProposalOK`: for
a proposal that was not disturbed, the status of its row and the handlers that have it
in hand count its executions: none while it is proposed, one holder that has run the
tool or has not while it is executing, no holder once it has ended. `ShownOK`: while
nothing shown was misplaced, a handler that was given an index works on the
proposal the operator saw there. Results: `StepTypeCorrect`, `OneExecution`,
`ShownIsRun`.

**GatewayProofs** (`ConstantsAssumption`: credentials and deployments are of their
types, `None` is no request). `TraceOK` is the heart: a request served alone has its
own id in the agent's one store for as long as it is served, nobody else records
under it, so the rows of its trace are exactly what the calls made for it leave
(`TrailIs`, `TrailTells`). `ReplyOK` and `CodeOK` say what an answer tells of the tools that ran,
also when the gateway has given up on an agent that goes on; `RecOK` which records a
request that is over has. `JourneyIs` shows that the outcome `QueryJourneys` arrives at,
by its table of priorities and the change to "approved" at the end, is the worst of what the rows
say (`Rank`). Results: `TypeCorrect`, `Fabrication`, `HonestAnswers`, `Seen`,
`JourneysHonest`.

Proving found places where a model was not what it should be: a dry run of
`terminate_idle_connections` had been given an effect (`Affected`), a request could
have been named like the empty trace id, and the gateway's `Done` was a step to
anywhere when there are no requests. It also showed that `ApprovedIsRun` needs no
exception for lost and late writes of a status, so that it is now stated without, and
that `AnomaliesExplained` depends on the skew being no less than the rounding of a poll.

Only model-checked: liveness (`EventuallyResolved`, `WaitReturns`, `RunnerEnds`), which
needs fairness and `ENABLED`, beyond the prover. Every invariant of the runs, the action
property `ResolutionIsFinal` and the refinement `ImplementsDecision` are proved.

## 6. Plan

To model: the drift check, the replan decision and the reverse job as operators;
an abstract specification of a run's life that `PlaybookRuns` implements.

## 7. Not modelled

- Text: log lines, e-mail and HTML of notifications, the inverse SQL, prompts.
- What a language model decides. Agents appear only through the calls they make; the
  orchestrator, the research agent and the fleet planner are their prompts.
- The unauthenticated mode of the approval API, in which `approved_by` comes from
  the request body and neither role nor four-eyes checks apply.
- The content of a hash: that `ComputeEventHash` leaves some fields of an event
  out means a change of those fields goes unnoticed; the chain's structure, which
  is modelled, does not depend on it.
- Timestamps below a second, as compared by SQLite as strings.
- A fleet rollback's record after it is created: nothing in the code changes it.
- In the gateway: webhooks, uploads, the registration of ephemeral databases, and
  feedback given after an incident. In the watchers: metrics, notifiers and the
  periodic verification of the chain, which only report.
- The fault-injection harness under `testing/`, report programs and command-line
  front ends: they change no shared state.
- Branches of modelled functions: a run of a playbook as a fleet job
  (`playbooks.go:394-433`); the gateway's own route by which a caller writes a run's outcome
  (`gateway.go:386`), which would make every property of gates one about callers; the
  proxied approve and deny (`gateway.go:1060`, `:1065`), which act in `ApprovalStore`; the
  dry run of a fleet job (`stages.go:23`), which calls nothing; the comparison of an
  event's own hash (`hash.go:82-84`); the re-read after a resolution that fails
  (`approval_handlers.go:253-258`), which only leaves a waiter to its timeout.
- Timing: the agent's `Clear` is taken at the end of its work, where the middleware's
  deferred one (`trace_middleware.go:57`) may come earlier when the connection is lost; a
  bundle that the agent begins only after secbot's POST timed out (`secbot/main.go:317`);
  the delay of an event on its way to auditd (`remote_store.go:24`, up to 10 s).
- Other actors: autoscalers and operators that change a deployment's replicas; an
  operator who names an older step than the last one shown.
- The check a read-only agent makes itself (`agentutil.go:345`): `runModelTool` lets such
  an agent call any tool, which allows more than the code does.
