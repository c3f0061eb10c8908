------------------------------- MODULE Gateway -------------------------------
(***************************************************************************)
(* The gateway between callers, one agent and the audit trail              *)
(* (cmd/gateway/gateway.go): direct tool calls, natural-language requests  *)
(* with the check of the agent's claims against the trail, fleet jobs and  *)
(* proxied reads; the agent's side of both protocols                       *)
(* (agentutil/serve/serve.go, internal/audit/trace_middleware.go) with the *)
(* trace id it keeps for the tools of all its requests (internal/audit/    *)
(* trace.go, tool_audit.go).                                               *)
(*                                                                         *)
(* A request is also its own trace id. The trail is reduced to what is     *)
(* read back: what a tool call leaves, by trace, and the gateway's records.*)
(***************************************************************************)
EXTENDS Access, Journeys, Integers, FiniteSets

CONSTANTS
    Requests,     \* requests served by the gateway
    Callers,      \* credentials they come with
    Configs,      \* the deployments: the agent (database or Kubernetes), the identity
                  \* provider, the gateway's key for the agent, the operating mode
    Results,      \* what can become of a tool call
    MaxTools      \* bound: tools the agent's model calls for one request

None == "none"
Kinds == {"db", "k8s", "query", "job", "agents"}
Classes == {"read", "write", "destructive"}
Direct == {"db", "k8s"}

\* A tool call: the class of its tool, the decision of the policy, and how its command
\* ended, None if it was not run. "require_approval" with an end was approved beforehand,
\* without one it is held. A command may fail; or answer, and the tool does not find its
\* effect: either it says so in its output only ("undone": CANCELLATION FAILED,
\* TERMINATION FAILED, No backend found, database/tools.go:1260-1288, 1371-1396) or it
\* records the verification as well; or it was done and then denied for its size.
Verifications == {"verified_warning", "verified_failed", "escalation_required"}
Unconfirmed == {"undone"} \cup Verifications
Ends == {None, "ok", "failed", "denied after"} \cup Unconfirmed
ToolCalls ==
    {x \in [class : Classes, policy : {"allow", "denied", "require_approval"}, end : Ends] :
        /\ x.policy = "denied" => x.end = None
        /\ x.policy = "allow" => x.end # None}

ASSUME ConstantsAssumption ==
    /\ Callers \subseteq Credentials
    /\ Configs \subseteq [agent : Direct, provider : {"none", "static", "jwt"}, key : Credentials,
                          mode : {"fix", "readonly-governed"}]
    /\ Results \subseteq ToolCalls
    /\ MaxTools \in Nat
    /\ None \notin Requests

\* What the agent answers: "ok"; a failure written into the output, with the database
\* agent's marker or without; an error (422), one whose text says "policy denied"; a
\* refusal before the tool (401, 403, 404); for a query, a task that completed or failed.
Errors == {"error", "denied", "refused"}
Replies == {None, "ok", "marked", "unmarked", "completed", "failed"} \cup Errors

\* class is the class of the tool a direct call names, or of a query's first line.
RequestStates ==
    [pc : {"new", "handler", "call", "reply", "done"}, kind : Kinds \cup {None},
     class : Classes, hold : BOOLEAN, code : {None, "200", "201", "400", "401", "403", "404", "422", "502", "503"},
     flagged : BOOLEAN, agent : {None, "arrived", "serving", "ended"}, reply : Replies]

NewRequest == [pc |-> "new", kind |-> None, class |-> "read", hold |-> FALSE, code |-> None,
               flagged |-> FALSE, agent |-> None, reply |-> None]

VARIABLES
    config,    \* the deployment
    req,       \* the requests
    current,   \* the agent's CurrentTraceStore
    events,    \* what tool calls left in the trail
    records,   \* the gateway's records in the trail
    ran,       \* the tool calls of each request, and what became of them
    unheard,   \* requests for which a call to auditd failed or was cut off with the caller
    shared     \* requests the agent served while it served another

vars == <<config, req, current, events, records, ran, unheard, shared>>

Init ==
    /\ config \in Configs
    /\ req = [r \in Requests |-> NewRequest]
    /\ current = None /\ events = {} /\ records = {}
    /\ ran = [r \in Requests |-> {}]
    /\ unheard = {} /\ shared = {}

\* recordAudit: RecordRequest under the request's own context, so it also fails when the
\* caller has gone; an error is only logged.
recordAudit(r, status, code) ==
    \/ /\ records' = records \cup {[request |-> r, status |-> status, code |-> code]}
       /\ UNCHANGED unheard
    \/ records' = records /\ unheard' = unheard \cup {r}

Answer(r, code) == req' = [req EXCEPT ![r].pc = "done", ![r].code = code]

\* Mutant of RecordAndAnswer: a tool's failure is answered without a record.
AnswerFailureOnly(r, status, code) ==
    /\ IF code = "422" THEN UNCHANGED <<records, unheard>> ELSE recordAudit(r, status, code)
    /\ Answer(r, code)

\* writeError or writeJSON after a record, and without one.
RecordAndAnswer(r, status, code) == recordAudit(r, status, code) /\ Answer(r, code)

AnswerOnly(r, code) == Answer(r, code) /\ UNCHANGED <<records, unheard>>

\* RegisterRoutes: the wrapper resolves and authorizes every request.
auth(r) ==
    \E kind \in Kinds, class \in Classes, hold \in BOOLEAN, c \in Callers :
        LET new == [req EXCEPT ![r].kind = kind, ![r].class = class, ![r].hold = hold]
            refusal == Authorize(config.provider, kind, Resolve(config.provider, c))
        IN /\ req[r].pc = "new"
           /\ kind \in Direct => kind = config.agent
           /\ hold => kind = "query" /\ class = "destructive"
           /\ class # "read" => kind \in {"query", "db", "k8s"}
           /\ IF refusal = ""
              THEN req' = [new EXCEPT ![r].pc = "handler"] /\ UNCHANGED <<records, unheard>>
              ELSE /\ req' = [new EXCEPT ![r].pc = "done", ![r].code = refusal]
                   /\ recordAudit(r, "denied", refusal)
           /\ UNCHANGED <<config, current, events, ran, shared>>

-----------------------------------------------------------------------------
\* Handlers, up to the call they make.

checkOperatingMode(r) ==
    config.mode = "readonly-governed" => req[r].class = "read"

Call(r) == req' = [req EXCEPT ![r].pc = "call", ![r].agent = "arrived"] /\ UNCHANGED <<records, unheard>>

\* handleDBTool and handleK8sTool, then dispatchDirectTool up to client.Do. An unknown
\* tool or a body that is not JSON is 400; an agent that was not discovered is 502.
handleTool(r) ==
    /\ req[r].pc = "handler" /\ req[r].kind \in Direct
    /\ \/ ~checkOperatingMode(r) /\ RecordAndAnswer(r, "denied", "403")
       \/ checkOperatingMode(r) /\ AnswerOnly(r, "400")
       \/ checkOperatingMode(r) /\ RecordAndAnswer(r, "error", "502")
       \/ checkOperatingMode(r) /\ Call(r)
    /\ UNCHANGED <<config, current, events, ran, shared>>

\* handleQuery (also handleCreateIncident, handleListIncidents, handleResearch), then
\* proxyToAgentWithTool up to SendMessage. Routing that fails is 503.
handleQuery(r) ==
    /\ req[r].pc = "handler" /\ req[r].kind = "query"
    /\ \/ \E code \in {"400", "503"} : AnswerOnly(r, code)
       \/ RecordAndAnswer(r, "error", "502")
       \/ Call(r)
    /\ UNCHANGED <<config, current, events, ran, shared>>

Job == [class |-> "write", policy |-> "allow", end |-> "ok"]

\* handleFleetCreateJob: auditd creates the job; its answer may be lost.
handleFleetCreateJob(r) ==
    /\ req[r].pc = "handler" /\ req[r].kind = "job"
    /\ \/ \E code \in {"400", "503"} : AnswerOnly(r, code) /\ UNCHANGED ran
       \/ AnswerOnly(r, "502") /\ UNCHANGED ran
       \/ ran' = [ran EXCEPT ![r] = {Job}] /\ AnswerOnly(r, "502")
       \/ ran' = [ran EXCEPT ![r] = {Job}] /\ RecordAndAnswer(r, "success", "201")
    /\ UNCHANGED <<config, current, events, shared>>

\* proxyFleetRequest, proxyGovernanceRequest and the handlers that read gateway state.
proxyRequest(r) ==
    /\ req[r].pc = "handler" /\ req[r].kind = "agents"
    /\ \E code \in {"200", "404", "502", "503"} : AnswerOnly(r, code)
    /\ UNCHANGED <<config, current, events, ran, shared>>

-----------------------------------------------------------------------------
\* The agent.

Served == {r \in Requests : req[r].agent = "serving"}

\* The trace id is set on arrival for the whole process.
Begin(r) ==
    /\ current' = r
    /\ shared' = IF Served = {} THEN shared ELSE shared \cup Served \cup {r}
    /\ req' = [req EXCEPT ![r].agent = "serving"]

\* The gateway gets the answer if it still waits for it.
Reply(r, reply) ==
    req' = [req EXCEPT ![r].agent = "ended",
                       ![r].pc = IF @ = "call" THEN "reply" ELSE @,
                       ![r].reply = IF req[r].pc = "call" THEN reply ELSE @]

\* The agent authorizes the gateway's key.
AgentRefusal == Authorize(config.provider, "tool", Resolve(config.provider, config.key))

\* POST /tool/{name}: service accounts only; the registry may not have the tool.
serveDirectTool(r) ==
    /\ req[r].agent = "arrived" /\ req[r].kind \in Direct
    /\ \/ AgentRefusal = "" /\ Begin(r)
       \/ Reply(r, "refused") /\ UNCHANGED <<current, shared>>
    /\ UNCHANGED <<config, events, records, ran, unheard>>

\* TraceMiddlewareWithAudit. (The anchor event it records is not read back here.)
serveA2A(r) ==
    /\ req[r].agent = "arrived" /\ req[r].kind = "query"
    /\ Begin(r)
    /\ UNCHANGED <<config, events, records, ran, unheard>>

\* The rows a tool call leaves: RecordPolicyDecision before the command and, if its result
\* is denied, after it; RecordToolCall, whose status is that of the command;
\* RecordToolVerification. (An allowed call's decision and tool_invoked have no status that
\* is ranked, and are left out.)
Trail(trace, x) ==
    LET row(type, status) == [trace |-> trace, type |-> type, class |-> x.class, status |-> status]
    IN (IF x.policy = "allow" THEN {} ELSE {row("policy_decision", x.policy)})
       \cup (IF x.end = None THEN {}
             ELSE {row("tool_execution", IF x.end = "failed" THEN "error" ELSE "success")})
       \cup (IF x.end \in Verifications THEN {row("verification_outcome", x.end)} ELSE {})
       \cup (IF x.end = "denied after" THEN {row("policy_decision", "denied")} ELSE {})

\* They go under whatever id the store holds. Each may be lost, a decision also because
\* the check of the policy itself failed. (Other requests may come between the rows of
\* one call; they are served together then.)
RecordToolCall(r, x) ==
    \E kept \in SUBSET Trail(current, x) :
        /\ events' = events \cup kept
        /\ unheard' = IF kept = Trail(current, x) THEN unheard ELSE unheard \cup {r}

Ran(r, x) == ran' = [ran EXCEPT ![r] = @ \cup {x}]

\* How the tools of the two agents report the end of a call. The database tools turn
\* every error, a denial or a missing approval too, into output with the marker; the
\* Kubernetes tools return them as errors that say "policy denied", and report a kubectl
\* command that failed as output. Neither marks an effect that was not found.
ToolReplies(kind, end) ==
    CASE end = "ok" -> {"ok"}
      [] end \in {None, "denied after"} -> IF kind = "db" THEN {"marked"} ELSE {"denied"}
      [] end = "failed" -> IF kind = "db" THEN {"marked"} ELSE {"error", "unmarked"}
      [] OTHER -> {"unmarked"}

\* A direct call runs its tool and answers. (A blast radius measured only afterwards
\* denies what has been done.) The store keeps the id.
runDirectTool(r) ==
    /\ req[r].agent = "serving" /\ req[r].kind \in Direct
    /\ \E x \in Results :
           /\ x.class = req[r].class
           /\ \E reply \in ToolReplies(req[r].kind, x.end) : Reply(r, reply)
           /\ RecordToolCall(r, x) /\ Ran(r, x)
    /\ UNCHANGED <<config, current, records, shared>>

\* The agent's model calls a tool of its choice.
runModelTool(r) ==
    /\ req[r].agent = "serving" /\ req[r].kind = "query"
    /\ Cardinality(ran[r]) < MaxTools
    /\ \E x \in Results : RecordToolCall(r, x) /\ Ran(r, x)
    /\ UNCHANGED <<config, req, current, records, shared>>

\* The model answers, whatever it ran; the middleware clears the store.
endA2A(r) ==
    /\ req[r].agent = "serving" /\ req[r].kind = "query"
    /\ \E reply \in {"completed", "failed"} : Reply(r, reply)
    /\ current' = None
    /\ UNCHANGED <<config, events, records, ran, unheard, shared>>

-----------------------------------------------------------------------------
\* The answer.

\* client.Do or SendMessage fails: a timeout, a lost connection, the caller gone. The
\* agent may go on, or never have got the request.
GiveUp(r) ==
    /\ req[r].pc = "call"
    /\ recordAudit(r, "error", "502")
    /\ req' = [req EXCEPT ![r].pc = "done", ![r].code = "502",
                          ![r].agent = IF @ = "arrived" THEN None ELSE @]
    /\ UNCHANGED <<config, current, events, ran, shared>>

\* Mutant of isToolError: the output of a tool is never looked at.
OutputTrusted(reply) == FALSE

isPolicyDenial(reply) == reply = "denied"

isToolError(reply) == reply = "marked"

\* dispatchDirectTool, from the agent's response.
answerDirect(r) ==
    LET reply == req[r].reply
    IN /\ req[r].pc = "reply" /\ req[r].kind \in Direct
       /\ CASE reply \in Errors /\ isPolicyDenial(reply) -> RecordAndAnswer(r, "denied", "403")
            [] reply = "error" -> RecordAndAnswer(r, "error", "422")
            [] reply = "refused" -> RecordAndAnswer(r, "error", IF AgentRefusal = "" THEN "404" ELSE AgentRefusal)
            [] isToolError(reply) -> RecordAndAnswer(r, "error", "422")
            [] OTHER -> RecordAndAnswer(r, "success", "200")
       /\ UNCHANGED <<config, current, events, ran, shared>>

\* buildDelegationVerification: does the trail have a tool of the class asked for?
Mismatch(class, found) ==
    \/ class = "destructive" /\ ~\E e \in found : e.class = "destructive"
    \/ class = "write" /\ ~\E e \in found : e.class \in {"write", "destructive"}

\* Mutant of Fetched: the trail is not filtered by trace.
FetchedAll(r) == {e \in events : e.type = "tool_execution"}

\* fetchToolExecutionEvents: by trace; nothing when both attempts fail.
Fetched(r) == {e \in events : e.trace = r /\ e.type = "tool_execution"}

\* proxyToAgentWithTool, from the agent's response: the claim is checked, the check
\* recorded, then the request. A query under manual approval is
\* expected to propose a destructive action and not to perform it.
answerQuery(r) ==
    /\ req[r].pc = "reply" /\ req[r].kind = "query"
    /\ \/ req[r].reply = "failed" /\ RecordAndAnswer(r, "error", "502")
       \/ /\ req[r].reply = "completed"
          /\ \E reached, kept, heard \in BOOLEAN :
                 LET flagged == Mismatch(req[r].class, IF reached THEN Fetched(r) ELSE {}) /\ ~req[r].hold
                     verification == [request |-> r, status |-> VerificationStatus(flagged), code |-> None]
                     success == [request |-> r, status |-> "success", code |-> "200"]
                 IN /\ req' = [req EXCEPT ![r].pc = "done", ![r].code = "200", ![r].flagged = flagged]
                    /\ records' = records \cup (IF kept THEN {verification} ELSE {})
                                          \cup (IF heard THEN {success} ELSE {})
                    /\ unheard' = IF reached /\ kept /\ heard THEN unheard ELSE unheard \cup {r}
    /\ UNCHANGED <<config, current, events, ran, shared>>

Step(r) ==
    \/ auth(r) \/ handleTool(r) \/ handleQuery(r) \/ handleFleetCreateJob(r)
    \/ proxyRequest(r)
    \/ serveDirectTool(r) \/ serveA2A(r) \/ runDirectTool(r) \/ runModelTool(r) \/ endA2A(r)
    \/ GiveUp(r) \/ answerDirect(r) \/ answerQuery(r)

Done == UNCHANGED vars /\ \A r \in Requests : req[r].pc = "done" /\ req[r].agent \in {None, "ended"}

Next == (\E r \in Requests : Step(r)) \/ Done

Spec == Init /\ [][Next]_vars

-----------------------------------------------------------------------------
\* What tool calls may leave in the trail.
Events == UNION {Trail(t, x) : t \in Requests \cup {None}, x \in ToolCalls}

\* Type invariant.
TypeOK ==
    /\ config \in Configs /\ req \in [Requests -> RequestStates]
    /\ current \in Requests \cup {None}
    /\ events \subseteq Events
    /\ ran \in [Requests -> SUBSET ToolCalls]
    /\ \A m \in records : m.request \in Requests
    /\ unheard \subseteq Requests /\ shared \subseteq Requests

\* Requests nobody else's service or failing call to auditd has touched.
Undisturbed == {r \in Requests \ (shared \cup unheard) : req[r].pc = "done"}

\* What a query of a class must have run to be believed.
Satisfies(class) == IF class = "write" THEN {"write", "destructive"} ELSE {class}

\* Fabrication is seen, and only fabrication: a completed query for a write or
\* destructive action carries X-Audit-Mismatch exactly if the agent ran no tool of that
\* kind for it (proxyToAgentWithTool, BuildDelegationVerification), however the requests
\* of the agent follow each other. Excepted are requests the agent served at the same
\* time as another, those for which auditd failed, and actions held for approval. A tool
\* that ran and failed counts as run.
FabricationSeen ==
    \A r \in Undisturbed :
        req[r].kind = "query" /\ req[r].code = "200" /\ req[r].class # "read" /\ ~req[r].hold
            => (req[r].flagged <=>
                    ~\E x \in ran[r] : x.end # None /\ x.class \in Satisfies(req[r].class))

\* A direct call's status says what happened to it (dispatchDirectTool, isToolError,
\* isPolicyDenial): 422 never hides a tool that worked, after 400, 401, 403 or 404 nothing
\* was done, and 200 is given only for a command that ran, a database command only if it
\* did not fail. 200 does not say more: a cancellation or termination that took no effect,
\* a verification that failed, and a kubectl command that failed are answered 200, with the
\* failure in the output. What was done and then denied for its size is answered 422 by
\* the database tools and 403 by the Kubernetes tools. A job is answered 201 only if it
\* exists.
AnswersHonest ==
    \A r \in Requests :
        LET ends == {x.end : x \in ran[r]}
            done == {"ok"} \cup Unconfirmed
        IN req[r].pc = "done" =>
               /\ req[r].kind \in Direct /\ req[r].code = "200" => ends # {}
               /\ req[r].kind = "db" /\ req[r].code = "200" => ends \subseteq done
               /\ req[r].kind = "k8s" /\ req[r].code = "200" => ends \subseteq done \cup {"failed"}
               /\ req[r].code = "422" => ends \subseteq {None, "failed", "denied after"}
               /\ req[r].code \in {"400", "401", "403", "404"} => ends \subseteq {None, "denied after"}
               /\ req[r].code = "201" => ends = {"ok"}

\* Nothing is done unseen: when a request is over and a tool was called for it, the trail
\* has the gateway's record of it and, under its trace, all that the call leaves: the
\* tool event, a denial or an approval asked for, a failed verification (recordAudit,
\* RecordToolCall, RecordPolicyDecision, RecordToolVerification). Excepted are requests
\* whose caller disconnected or for which auditd failed, tools of requests served
\* together, and a job whose creation the gateway never heard of.
NothingUnseen ==
    \A r \in Requests \ unheard :
        req[r].pc = "done" /\ ran[r] # {} =>
            /\ \/ \E m \in records : m.request = r /\ m.code = req[r].code
               \/ req[r].kind = "job" /\ req[r].code = "502"
            /\ req[r].kind # "job" /\ r \notin shared =>
                   \A x \in ran[r] : Trail(r, x) \subseteq events

\* The trail's rows for a request. (Of the approvals that events carry here, auto_approved
\* is the only one, which journeys do not look for.)
RowsOf(r) ==
    {[type |-> IF m.code = None THEN "delegation_verification" ELSE "gateway_request",
      tool |-> req[r].kind \in Direct, status |-> m.status, approval |-> None] :
         m \in {m \in records : m.request = r}}
    \cup {[type |-> e.type, tool |-> e.type # "policy_decision", status |-> e.status, approval |-> None] :
         e \in {e \in events : e.trace = r}}

\* What happened to a query and its tools, in the words of docs/JOURNEYS.md 5.6, and the
\* rank that page gives each.
Happened(r) ==
    LET ends == {x.end : x \in ran[r]}
        policies == {x.policy : x \in ran[r]}
    IN {IF req[r].code = "200" THEN "success" ELSE "error"}
       \cup (IF req[r].flagged THEN {"unverified_claim"} ELSE {})
       \cup (IF "failed" \in ends THEN {"error"} ELSE {})
       \cup (IF "denied" \in policies \/ "denied after" \in ends THEN {"denied"} ELSE {})
       \cup (ends \cap Verifications)
       \cup (IF "require_approval" \in policies THEN {"approved"} ELSE {})

Rank == [unverified_claim |-> 9, error |-> 8, denied |-> 7, escalation_required |-> 6,
         verified_failed |-> 5, verified_warning |-> 4, approved |-> 3, success |-> 1]

\* A journey tells the worst that happened: a query that was passed to the agent is listed
\* when it is over, with a mismatch exactly if its answer was flagged, and its outcome is
\* the worst of what happened to it and its tools (QueryJourneys, outcomePriority),
\* with the exceptions of FabricationSeen. Two things are not told. "approved" says that an
\* approval was asked for, not that it was given (store.go:886-889, 921; JOURNEYS.md:298
\* says "was granted"): a held call of a query answered 200 shows it too. And what a tool
\* says in its output only, that it cancelled or terminated nothing, counts as a success.
JourneysTell ==
    \A r \in Undisturbed :
        LET journey == JourneyOf(RowsOf(r))
        IN req[r].kind = "query" /\ req[r].agent # None =>
               /\ journey.listed
               /\ journey.mismatch <=> req[r].flagged
               /\ journey.outcome \in Happened(r)
               /\ \A s \in Happened(r) : Rank[s] <= Rank[journey.outcome]
=============================================================================
