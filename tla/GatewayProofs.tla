---------------------------- MODULE GatewayProofs ----------------------------
(***************************************************************************)
(* Proofs about Gateway, for any requests, callers and deployments: that   *)
(* the trail holds what was done, that answers and journeys say what       *)
(* happened, and that a fabricated claim is seen.                          *)
(*                                                                         *)
(* The agent keeps one trace id for the tools of all its requests. That    *)
(* tool events still end up under the right request rests on TraceOK: a    *)
(* request served alone has its own id in the store for as long as it is   *)
(* served, and nobody else records under it.                               *)
(***************************************************************************)
EXTENDS Gateway, TLAPS

-----------------------------------------------------------------------------
(* The inductive invariant. *)

\* What the agent's answer to a request says of its tool calls rn.
ReplyOK(x, rn) ==
    /\ x.kind \in Direct =>
         /\ x.reply # None => \A z \in rn : x.reply \in ToolReplies(x.kind, z.end)
         /\ x.reply \in {"ok", "unmarked"} => rn # {}
         /\ x.reply = "refused" => rn = {}
         /\ x.reply \notin {"completed", "failed"}
    /\ x.kind = "query" => x.reply \in {None, "completed", "failed"}

\* What the status of a request that is over says of them.
CodeOK(x, rn) ==
    /\ x.agent = "serving" => x.code = "502"
    /\ x.kind \in Direct /\ x.code = "200" => x.reply \in {"ok", "unmarked"}
    /\ x.code = "422" => x.kind \in Direct /\ x.reply \in {"marked", "error"}
    /\ x.code \in {"400", "401", "403", "404"} => rn = {} \/ (x.kind \in Direct /\ x.reply = "denied")
    /\ x.code = "201" => rn = {Job}
    /\ x.kind = "job" /\ rn # {} => x.code \in {"201", "502"}
    /\ x.kind = "query" /\ x.agent # None => x.code \in {"200", "502"}

\* Where the gateway and the agent are with a request.
ReqOK(x, rn) ==
    /\ x \in RequestStates
    /\ x.pc \in {"new", "handler"} => x.agent = None /\ x.reply = None /\ rn = {}
    /\ x.pc = "call" => x.agent \in {"arrived", "serving"}
    /\ x.pc = "reply" => x.agent = "ended" /\ x.reply # None
    /\ x.agent # None => x.kind \in Direct \cup {"query"}
    /\ x.agent = None => rn = {} \/ (x.kind = "job" /\ x.pc = "done")
    /\ x.agent = "arrived" => x.pc = "call" /\ x.reply = None /\ rn = {}
    /\ x.agent = "serving" =>
         x.pc \in {"call", "done"} /\ x.reply = None /\ (x.kind \in Direct => rn = {})
    /\ x.pc # "done" \/ x.code # "200" => ~x.flagged
    /\ ReplyOK(x, rn)
    /\ x.pc = "done" => CodeOK(x, rn)

\* The gateway's records of a query that was passed to the agent.
QueryRecords(r, x) ==
    IF x.code = "200"
    THEN {[request |-> r, status |-> VerificationStatus(x.flagged), code |-> None],
          [request |-> r, status |-> "success", code |-> "200"]}
    ELSE {[request |-> r, status |-> "error", code |-> "502"]}

RecordsOf(r, recs) == {m \in recs : m.request = r}
RecOK(r, x, recs, unh) ==
    /\ x.pc # "done" => RecordsOf(r, recs) = {}
    /\ x.pc = "done" /\ r \notin unh /\ (x.agent # None \/ x.code = "201") =>
         \E m \in recs : m.request = r /\ m.code = x.code
    /\ x.pc = "done" /\ r \notin unh /\ x.kind = "query" /\ x.agent # None =>
         RecordsOf(r, recs) = QueryRecords(r, x)

\* A claim was flagged as it should have been.
FlagOK(r, x, rn, sh, unh) ==
    /\ x.pc = "done" /\ x.kind = "query" /\ x.code = "200" /\ r \notin sh /\ r \notin unh
    /\ x.class # "read" /\ ~x.hold
    => (x.flagged <=> ~\E z \in rn : z.end # None /\ z.class \in Satisfies(x.class))

\* The store and the tool events.
TraceOK(rq, cur, evs, rns, sh, unh) ==
    /\ \A r \in Requests : rq[r].agent = "serving" /\ r \notin sh => cur = r
    /\ \A r, s \in Requests : cur = r /\ s # r /\ rq[s].agent = "serving" => r \in sh
    /\ \A r \in Requests : r \notin sh =>
         \A e \in evs : e.trace = r => \E z \in rns[r] : e \in Trail(r, z)
    /\ \A r \in Requests : r \notin sh /\ r \notin unh /\ rq[r].kind # "job" =>
         \A z \in rns[r] : Trail(r, z) \subseteq evs

Inv ==
    /\ TypeOK
    /\ \A r \in Requests : /\ ReqOK(req[r], ran[r])
                           /\ RecOK(r, req[r], records, unheard)
                           /\ FlagOK(r, req[r], ran[r], shared, unheard)
    /\ TraceOK(req, current, events, ran, shared, unheard)

-----------------------------------------------------------------------------
(* Facts about the operators. *)

\* The authorizer lets a request pass or answers 401 or 403.
LEMMA AuthorizeIs ==
    ASSUME NEW provider, NEW route, NEW p
    PROVE  Authorize(provider, route, p) \in {"", "401", "403"}
<1> DEFINE perm == Permission(route)
<1> DEFINE A1 == provider = "none" \/ perm.open
<1> DEFINE A2 == ~perm.open /\ p.anonymous
<1> DEFINE A3 == "admin" \in p.roles
<1> DEFINE A4 == perm.serviceOnly /\ ~p.service
<1> DEFINE A5 == perm.roles = {} \/ perm.roles \cap p.roles # {}
<1>1. Authorize(provider, route, p) =
        CASE A1 -> "" [] A2 -> "401" [] A3 -> "" [] A4 -> "403" [] A5 -> "" [] OTHER -> "403"
  BY Zenon DEF Authorize
<1> HIDE DEF A1, A2, A3, A4, A5
<1> QED BY <1>1, Zenon

\* What a direct tool call comes back with.
LEMMA RepliesAre ==
    ASSUME NEW kind \in Direct
    PROVE  /\ ToolReplies(kind, "ok") = {"ok"}
           /\ \A end \in {None, "denied after"} :
                ToolReplies(kind, end) = IF kind = "db" THEN {"marked"} ELSE {"denied"}
           /\ ToolReplies(kind, "failed") = IF kind = "db" THEN {"marked"} ELSE {"error", "unmarked"}
           /\ \A end \in Unconfirmed : ToolReplies(kind, end) = {"unmarked"}
<1>1. ToolReplies(kind, "ok") = {"ok"}
  BY Zenon DEF ToolReplies, None
<1>2. ToolReplies(kind, None) = IF kind = "db" THEN {"marked"} ELSE {"denied"}
  BY Zenon DEF ToolReplies, None
<1>3. ToolReplies(kind, "denied after") = IF kind = "db" THEN {"marked"} ELSE {"denied"}
  BY Zenon DEF ToolReplies, None
<1>4. ToolReplies(kind, "failed") = IF kind = "db" THEN {"marked"} ELSE {"error", "unmarked"}
  BY Zenon DEF ToolReplies, None
<1>5. ToolReplies(kind, "undone") = {"unmarked"}
  BY Zenon DEF ToolReplies, None
<1>6. ToolReplies(kind, "verified_warning") = {"unmarked"}
  BY Zenon DEF ToolReplies, None
<1>7. ToolReplies(kind, "verified_failed") = {"unmarked"}
  BY Zenon DEF ToolReplies, None
<1>8. ToolReplies(kind, "escalation_required") = {"unmarked"}
  BY Zenon DEF ToolReplies, None
<1>9. \A end \in {None, "denied after"} :
        ToolReplies(kind, end) = IF kind = "db" THEN {"marked"} ELSE {"denied"}
  BY <1>2, <1>3
<1>10. \A end \in Unconfirmed : ToolReplies(kind, end) = {"unmarked"}
  BY <1>5, <1>6, <1>7, <1>8 DEF Unconfirmed, Verifications
<1> QED BY <1>1, <1>4, <1>9, <1>10

\* Every tool call comes back with one of these.
LEMMA RepliesKnown ==
    ASSUME NEW kind \in Direct, NEW end \in Ends
    PROVE  ToolReplies(kind, end) \subseteq {"ok", "marked", "unmarked", "error", "denied"}
<1>1. end \in {"ok", "failed"} \cup {None, "denied after"} \cup Unconfirmed
  BY DEF Ends
<1>2. CASE end = "ok"
  BY <1>2, RepliesAre
<1>3. CASE end = "failed"
  <2>1. ToolReplies(kind, end) \in {{"marked"}, {"error", "unmarked"}}
    BY <1>3, RepliesAre, Zenon
  <2> QED BY <2>1
<1>4. CASE end \in {None, "denied after"}
  <2>1. ToolReplies(kind, end) = IF kind = "db" THEN {"marked"} ELSE {"denied"}
    BY <1>4, RepliesAre, Zenon
  <2> QED BY <2>1
<1>5. CASE end \in Unconfirmed
  BY <1>5, RepliesAre
<1> QED BY <1>1, <1>2, <1>3, <1>4, <1>5

\* The rows a tool call leaves, by type and status.
Leaves(x, type, status) ==
    \/ type = "policy_decision" /\ status = x.policy /\ x.policy # "allow"
    \/ type = "policy_decision" /\ status = "denied" /\ x.end = "denied after"
    \/ type = "tool_execution" /\ x.end # None /\ status = IF x.end = "failed" THEN "error" ELSE "success"
    \/ type = "verification_outcome" /\ status = x.end /\ x.end \in Verifications

LEMMA TrailIs ==
    ASSUME NEW t, NEW x \in ToolCalls
    PROVE  /\ \A e \in Trail(t, x) : e.trace = t /\ e.class = x.class /\ Leaves(x, e.type, e.status)
           /\ \A type, status : Leaves(x, type, status) => \E e \in Trail(t, x) : e.type = type /\ e.status = status
<1> DEFINE status == IF x.end = "failed" THEN "error" ELSE "success"
<1> DEFINE p == [trace |-> t, type |-> "policy_decision", class |-> x.class, status |-> x.policy]
<1> DEFINE c == [trace |-> t, type |-> "tool_execution", class |-> x.class, status |-> status]
<1> DEFINE v == [trace |-> t, type |-> "verification_outcome", class |-> x.class, status |-> x.end]
<1> DEFINE d == [trace |-> t, type |-> "policy_decision", class |-> x.class, status |-> "denied"]
<1>1. Trail(t, x) = (IF x.policy = "allow" THEN {} ELSE {p}) \cup (IF x.end = None THEN {} ELSE {c})
                    \cup (IF x.end \in Verifications THEN {v} ELSE {})
                    \cup (IF x.end = "denied after" THEN {d} ELSE {})
  BY Zenon DEF Trail
<1>2. /\ p.trace = t /\ p.type = "policy_decision" /\ p.class = x.class /\ p.status = x.policy
      /\ c.trace = t /\ c.type = "tool_execution" /\ c.class = x.class /\ c.status = status
      /\ v.trace = t /\ v.type = "verification_outcome" /\ v.class = x.class /\ v.status = x.end
      /\ d.trace = t /\ d.type = "policy_decision" /\ d.class = x.class /\ d.status = "denied"
  BY Zenon
<1> HIDE DEF p, c, v, d
<1>3. x.policy \in {"allow", "denied", "require_approval"} /\ x.end \in Ends
  BY DEF ToolCalls
<1>4. ASSUME NEW e \in Trail(t, x) PROVE e.trace = t /\ e.class = x.class /\ Leaves(x, e.type, e.status)
  BY <1>1, <1>2 DEF Leaves
<1>5. ASSUME NEW type, NEW s, Leaves(x, type, s)
      PROVE  \E e \in Trail(t, x) : e.type = type /\ e.status = s
  BY <1>1, <1>2, <1>5 DEF Leaves
<1> QED BY <1>4, <1>5

\* What a row says of the call that left it.
LEMMA RowsSay ==
    ASSUME NEW x \in ToolCalls, NEW type, NEW s, Leaves(x, type, s)
    PROVE  /\ type \in {"policy_decision", "tool_execution", "verification_outcome"}
           /\ type = "tool_execution" => x.end # None
           /\ s \in {"denied", "require_approval", "error", "success"} \cup Verifications
           /\ s = "error" => x.end = "failed"
           /\ s = "denied" => x.policy = "denied" \/ x.end = "denied after"
           /\ s = "require_approval" => x.policy = "require_approval"
           /\ s \in Verifications => x.end = s
<1>1. x.policy \in {"allow", "denied", "require_approval"}
  BY DEF ToolCalls
<1> QED BY <1>1 DEF Leaves, Verifications

\* The types of the state.
LEMMA Types ==
    ASSUME Inv, NEW r \in Requests
    PROVE  /\ req \in [Requests -> RequestStates] /\ req[r] \in RequestStates
           /\ ran \in [Requests -> SUBSET ToolCalls] /\ ran[r] \in SUBSET ToolCalls
           /\ ReqOK(req[r], ran[r]) /\ RecOK(r, req[r], records, unheard)
           /\ events \subseteq Events /\ current \in Requests \cup {None}
           /\ shared \subseteq Requests /\ unheard \subseteq Requests
BY DEF Inv, TypeOK

\* What a request's record holds.
LEMMA RequestTypes ==
    ASSUME NEW x \in RequestStates
    PROVE  /\ x.pc \in {"new", "handler", "call", "reply", "done"}
           /\ x.kind \in Kinds \cup {None} /\ x.class \in Classes /\ x.hold \in BOOLEAN
           /\ x.flagged \in BOOLEAN /\ x.agent \in {None, "arrived", "serving", "ended"}
           /\ x.reply \in Replies
BY DEF RequestStates

-----------------------------------------------------------------------------
(* Steps of one request. *)

\* One request changes; its records are added to, the others' are not.
LEMMA StepInv ==
    ASSUME Inv, NEW r \in Requests, NEW y, NEW rn \in SUBSET ToolCalls, config' = config,
           req' = [req EXCEPT ![r] = y], ran' = [ran EXCEPT ![r] = rn],
           current' \in Requests \cup {None}, events' \subseteq Events,
           records \subseteq records', \A m \in records' : m \in records \/ m.request = r,
           unheard' = unheard \/ unheard' = unheard \cup {r},
           shared \subseteq shared', shared' \subseteq Requests,
           ReqOK(y, rn), RecOK(r, y, records', unheard'), FlagOK(r, y, rn, shared', unheard'),
           TraceOK(req', current', events', ran', shared', unheard')
    PROVE  Inv'
<1>1. req \in [Requests -> RequestStates] /\ ran \in [Requests -> SUBSET ToolCalls]
  BY Types
<1>2. \A s \in Requests : req'[s] = (IF s = r THEN y ELSE req[s]) /\ ran'[s] = (IF s = r THEN rn ELSE ran[s])
  BY <1>1
<1>3. TypeOK'
  <2>1. req' \in [Requests -> RequestStates] /\ ran' \in [Requests -> SUBSET ToolCalls]
    BY <1>1 DEF ReqOK
  <2>2. \A m \in records' : m.request \in Requests
    BY DEF Inv, TypeOK
  <2>3. config' \in Configs /\ unheard' \subseteq Requests
    BY DEF Inv, TypeOK
  <2> QED BY <2>1, <2>2, <2>3 DEF TypeOK
<1>4. ASSUME NEW s \in Requests
      PROVE  /\ ReqOK(req'[s], ran'[s]) /\ RecOK(s, req'[s], records', unheard')
             /\ FlagOK(s, req'[s], ran'[s], shared', unheard')
  <2>1. CASE s = r
    BY <1>2, <2>1
  <2>2. CASE s # r
    <3>1. req'[s] = req[s] /\ ran'[s] = ran[s] /\ (s \in unheard' <=> s \in unheard)
      BY <1>2, <2>2
    <3>2. RecordsOf(s, records') = RecordsOf(s, records)
      BY <2>2 DEF RecordsOf
    <3>3. ReqOK(req[s], ran[s]) /\ RecOK(s, req[s], records, unheard)
          /\ FlagOK(s, req[s], ran[s], shared, unheard)
      BY DEF Inv
    <3>4. RecOK(s, req[s], records', unheard')
      BY <3>1, <3>2, <3>3 DEF RecOK
    <3>5. FlagOK(s, req[s], ran[s], shared', unheard')
      BY <3>1, <3>3 DEF FlagOK
    <3> QED BY <3>1, <3>3, <3>4, <3>5
  <2> QED BY <2>1, <2>2
<1> QED BY <1>3, <1>4 DEF Inv

\* A step that leaves the agent's store and the tool events alone.
LEMMA QuietTrace ==
    ASSUME Inv, NEW r \in Requests, NEW y, NEW rn,
           req' = [req EXCEPT ![r] = y], ran' = [ran EXCEPT ![r] = rn],
           y.agent = "serving" => req[r].agent = "serving",
           y.kind = req[r].kind \/ ran[r] = {},
           rn = ran[r] \/ (ran[r] = {} /\ y.kind = "job"),
           unheard \subseteq unheard', UNCHANGED <<current, events, shared>>
    PROVE  TraceOK(req', current', events', ran', shared', unheard')
<1>1. req \in [Requests -> RequestStates] /\ ran \in [Requests -> SUBSET ToolCalls]
  BY Types
<1>2. \A s \in Requests : req'[s] = (IF s = r THEN y ELSE req[s]) /\ ran'[s] = (IF s = r THEN rn ELSE ran[s])
  BY <1>1
<1>3. TraceOK(req, current, events, ran, shared, unheard)
  BY DEF Inv
<1>4. \A s \in Requests : req'[s].agent = "serving" => req[s].agent = "serving"
  BY <1>2
<1>5. \A s \in Requests : s \notin shared =>
        \A e \in events : e.trace = s => \E z \in ran'[s] : e \in Trail(s, z)
  BY <1>2, <1>3 DEF TraceOK
<1>6. \A s \in Requests : req'[s].kind # "job" => ran'[s] = ran[s] /\ (req[s].kind # "job" \/ ran[s] = {})
  BY <1>2
<1> QED BY <1>3, <1>4, <1>5, <1>6 DEF TraceOK

\* The same, with what becomes of the request.
LEMMA QuietInv ==
    ASSUME Inv, NEW r \in Requests, NEW y, NEW rn \in SUBSET ToolCalls,
           req' = [req EXCEPT ![r] = y], ran' = [ran EXCEPT ![r] = rn],
           y.agent = "serving" => req[r].agent = "serving",
           y.kind = req[r].kind \/ ran[r] = {},
           rn = ran[r] \/ (ran[r] = {} /\ y.kind = "job"),
           UNCHANGED <<config, current, events, shared>>,
           records \subseteq records', \A m \in records' : m \in records \/ m.request = r,
           unheard' = unheard \/ unheard' = unheard \cup {r},
           ReqOK(y, rn), RecOK(r, y, records', unheard'), FlagOK(r, y, rn, shared, unheard')
    PROVE  Inv'
<1>1. TraceOK(req', current', events', ran', shared', unheard')
  BY QuietTrace
<1>2. current' \in Requests \cup {None} /\ events' \subseteq Events /\ shared' \subseteq Requests /\ shared' = shared
  BY Types
<1> QED BY <1>1, <1>2, StepInv

\* The request goes on.
LEMMA GoOnInv ==
    ASSUME Inv, NEW r \in Requests, NEW y, req' = [req EXCEPT ![r] = y], req[r].pc # "done", y.pc # "done",
           y.agent = "serving" => req[r].agent = "serving",
           y.kind = req[r].kind \/ ran[r] = {}, ReqOK(y, ran[r]),
           UNCHANGED <<config, current, events, shared, records, unheard, ran>>
    PROVE  Inv'
<1>1. ran' = [ran EXCEPT ![r] = ran[r]] /\ ran[r] \in SUBSET ToolCalls
  BY Types
<1>2. RecOK(r, y, records', unheard')
  BY Types DEF RecOK
<1>3. FlagOK(r, y, ran[r], shared, unheard')
  BY DEF FlagOK
<1> QED BY <1>1, <1>2, <1>3, QuietInv

\* The request is answered, other than a query with 200: with a record, which may be lost, or
\* without one when nothing was done.
LEMMA AnsweredInv ==
    ASSUME Inv, NEW r \in Requests, NEW y, NEW rn \in SUBSET ToolCalls, NEW status, NEW code,
           req' = [req EXCEPT ![r] = y], ran' = [ran EXCEPT ![r] = rn],
           req[r].pc # "done", y.pc = "done", y.code = code,
           y.agent = "serving" => req[r].agent = "serving",
           y.kind = req[r].kind \/ ran[r] = {},
           rn = ran[r] \/ (ran[r] = {} /\ y.kind = "job"), ReqOK(y, rn),
           UNCHANGED <<config, current, events, shared>>,
           y.kind = "query" => code # "200",
           \/ recordAudit(r, status, code) /\ (y.kind = "query" /\ y.agent # None => status = "error" /\ code = "502")
           \/ UNCHANGED <<records, unheard>> /\ y.agent = None /\ code # "201"
    PROVE  Inv'
<1>1. FlagOK(r, y, rn, shared, unheard')
  BY DEF FlagOK
<1>2. RecordsOf(r, records) = {}
  BY Types DEF RecOK
<1>3. CASE UNCHANGED <<records, unheard>> /\ y.agent = None /\ code # "201"
  <2>1. RecOK(r, y, records', unheard')
    BY <1>3 DEF RecOK
  <2> QED BY <1>1, <1>3, <2>1, QuietInv
<1>4. CASE recordAudit(r, status, code) /\ (y.kind = "query" /\ y.agent # None => status = "error" /\ code = "502")
  <2> DEFINE m == [request |-> r, status |-> status, code |-> code]
  <2>1. CASE records' = records \cup {m} /\ UNCHANGED unheard
    <3>1. RecordsOf(r, records') = {m}
      BY <1>2, <2>1 DEF RecordsOf
    <3>2. m \in records' /\ m.request = r /\ m.code = y.code
      BY <2>1
    <3>3. y.kind = "query" /\ y.agent # None => RecordsOf(r, records') = QueryRecords(r, y)
      BY <1>4, <3>1 DEF QueryRecords
    <3>4. \A k \in records' : k \in records \/ k.request = r
      BY <2>1
    <3> HIDE DEF m
    <3>5. RecOK(r, y, records', unheard')
      BY <3>2, <3>3 DEF RecOK
    <3> QED BY <1>1, <2>1, <3>4, <3>5, QuietInv
  <2>2. CASE records' = records /\ unheard' = unheard \cup {r}
    <3>1. RecOK(r, y, records', unheard')
      BY <2>2 DEF RecOK
    <3> QED BY <1>1, <2>2, <3>1, QuietInv
  <2> QED BY <1>4, <2>1, <2>2 DEF recordAudit
<1> QED BY <1>3, <1>4

-----------------------------------------------------------------------------
(* Requests the agent has not seen. *)

Codes == {None, "200", "201", "400", "401", "403", "404", "422", "502", "503"}

\* A request that is over, or passed the authorizer, without the agent having been called.
LEMMA Unserved ==
    ASSUME NEW y \in RequestStates, y.agent = None, y.reply = None, ~y.flagged,
           y.pc = "handler" \/ (y.pc = "done" /\ y.code \notin {"201", "422"}
                                /\ (y.kind \in Direct => y.code # "200"))
    PROVE  ReqOK(y, {})
<1>1. None \notin {"arrived", "serving", "ended", "ok", "marked", "unmarked", "error", "refused", "completed", "failed"}
  BY DEF None
<1>2. ReplyOK(y, {})
  BY <1>1 DEF ReplyOK
<1>3. y.pc = "done" => CodeOK(y, {})
  BY <1>1 DEF CodeOK
<1> QED BY <1>1, <1>2, <1>3 DEF ReqOK

\* Answering changes two fields.
LEMMA AnswerIs ==
    ASSUME Inv, NEW r \in Requests, NEW code \in Codes, Answer(r, code)
    PROVE  \E y \in RequestStates :
             /\ req' = [req EXCEPT ![r] = y] /\ y.pc = "done" /\ y.code = code
             /\ y.kind = req[r].kind /\ y.agent = req[r].agent /\ y.reply = req[r].reply
             /\ y.flagged = req[r].flagged
<1> DEFINE y == [req[r] EXCEPT !.pc = "done", !.code = code]
<1>1. req \in [Requests -> RequestStates] /\ req[r] \in RequestStates
  BY Types
<1>2. y \in RequestStates
  BY <1>1 DEF RequestStates, Codes
<1>3. req' = [req EXCEPT ![r] = y]
  BY <1>1 DEF Answer
<1>4. /\ y.pc = "done" /\ y.code = code /\ y.kind = req[r].kind /\ y.agent = req[r].agent
      /\ y.reply = req[r].reply /\ y.flagged = req[r].flagged
  BY <1>1 DEF RequestStates
<1> QED BY <1>2, <1>3, <1>4

\* The wrapper around every route.
LEMMA AuthInv ==
    ASSUME Inv, NEW r \in Requests, auth(r)
    PROVE  Inv'
<1> DEFINE x == req[r]
<1>1. PICK kind \in Kinds, class \in Classes, hold \in BOOLEAN, c \in Callers :
        LET new == [req EXCEPT ![r].kind = kind, ![r].class = class, ![r].hold = hold]
            refusal == Authorize(config.provider, kind, Resolve(config.provider, c))
        IN /\ req[r].pc = "new"
           /\ kind \in Direct => kind = config.agent
           /\ hold => kind = "query" /\ class = "destructive"
           /\ class # "read" => kind \in {"query", "db", "k8s"}
           /\ IF refusal = ""
              THEN req' = [new EXCEPT ![r].pc = "handler"] /\ UNCHANGED <<records, unheard>>
              ELSE /\ req' = [new EXCEPT ![r].pc = "done", ![r].code = refusal]
                   /\ recordAudit(r, "denied", refusal)
           /\ UNCHANGED <<config, current, events, ran, shared>>
  BY DEF auth
<1> DEFINE refusal == Authorize(config.provider, kind, Resolve(config.provider, c))
<1>2. refusal \in {"", "401", "403"}
  BY AuthorizeIs
<1>3. req \in [Requests -> RequestStates] /\ x \in RequestStates /\ ReqOK(x, ran[r]) /\ x.pc = "new"
  BY <1>1, Types
<1>4. x.agent = None /\ x.reply = None /\ ran[r] = {} /\ ~x.flagged
  BY <1>3 DEF ReqOK
<1>5. UNCHANGED <<config, current, events, ran, shared>>
  BY <1>1
<1>6. CASE refusal = ""
  <2> DEFINE y == [x EXCEPT !.kind = kind, !.class = class, !.hold = hold, !.pc = "handler"]
  <2>1. req' = [req EXCEPT ![r] = y] /\ UNCHANGED <<records, unheard>>
    BY <1>1, <1>3, <1>6
  <2>2. y \in RequestStates
    BY <1>3 DEF RequestStates
  <2>3. y.pc = "handler" /\ y.agent = x.agent /\ y.reply = x.reply /\ y.flagged = x.flagged
    BY <1>3 DEF RequestStates
  <2> HIDE DEF y
  <2>4. ReqOK(y, ran[r])
    BY <1>4, <2>2, <2>3, Unserved
  <2>5. y.agent # "serving"
    BY <1>4, <2>3 DEF None
  <2> QED BY <1>3, <1>4, <1>5, <2>1, <2>3, <2>4, <2>5, GoOnInv
<1>7. CASE refusal # ""
  <2> DEFINE y == [x EXCEPT !.kind = kind, !.class = class, !.hold = hold, !.pc = "done", !.code = refusal]
  <2>1. recordAudit(r, "denied", refusal)
    BY <1>1, <1>7
  <2>2. req' = [req EXCEPT ![r] = y]
    BY <1>1, <1>3, <1>7
  <2>3. refusal \in {"401", "403"}
    BY <1>2, <1>7
  <2> HIDE DEF refusal
  <2>4. y \in RequestStates
    BY <1>3, <2>3 DEF RequestStates
  <2>5. y.pc = "done" /\ y.code = refusal /\ y.agent = x.agent /\ y.reply = x.reply /\ y.flagged = x.flagged
    BY <1>3 DEF RequestStates
  <2> HIDE DEF y
  <2>6. ReqOK(y, ran[r])
    BY <1>4, <2>3, <2>4, <2>5, Unserved
  <2>7. ran' = [ran EXCEPT ![r] = ran[r]] /\ ran[r] \in SUBSET ToolCalls
    BY <1>5, Types
  <2>8. y.agent = None /\ y.agent # "serving" /\ y.code # "200"
    BY <1>4, <2>3, <2>5 DEF None
  <2> QED BY <1>3, <1>4, <1>5, <2>1, <2>2, <2>5, <2>6, <2>7, <2>8, AnsweredInv
<1> QED BY <1>6, <1>7

\* A handler that answers without a call.
LEMMA HandlerAnswerInv ==
    ASSUME Inv, NEW r \in Requests, req[r].pc = "handler", NEW status,
           NEW code \in Codes \ {"201", "422"},
           req[r].kind \in Direct \cup {"query"} => code # "200",
           RecordAndAnswer(r, status, code) \/ AnswerOnly(r, code),
           UNCHANGED <<config, current, events, ran, shared>>
    PROVE  Inv'
<1>1. Answer(r, code) /\ (recordAudit(r, status, code) \/ UNCHANGED <<records, unheard>>)
  BY DEF RecordAndAnswer, AnswerOnly
<1>2. PICK y \in RequestStates :
        /\ req' = [req EXCEPT ![r] = y] /\ y.pc = "done" /\ y.code = code
        /\ y.kind = req[r].kind /\ y.agent = req[r].agent /\ y.reply = req[r].reply
        /\ y.flagged = req[r].flagged
  BY <1>1, AnswerIs
<1>3. ReqOK(req[r], ran[r]) /\ ran[r] \in SUBSET ToolCalls /\ ran' = [ran EXCEPT ![r] = ran[r]]
  BY Types
<1>4. req[r].agent = None /\ req[r].reply = None /\ ran[r] = {} /\ ~req[r].flagged
  BY <1>3 DEF ReqOK
<1>5. ReqOK(y, ran[r])
  BY <1>2, <1>4, Unserved
<1>6. y.agent = None /\ y.agent # "serving"
  BY <1>2, <1>4 DEF None
<1> QED BY <1>1, <1>2, <1>3, <1>5, <1>6, AnsweredInv

\* A handler that calls the agent.
LEMMA CallInv ==
    ASSUME Inv, NEW r \in Requests, req[r].pc = "handler", req[r].kind \in Direct \cup {"query"}, Call(r),
           UNCHANGED <<config, current, events, ran, shared>>
    PROVE  Inv'
<1> DEFINE x == req[r]
<1> DEFINE y == [x EXCEPT !.pc = "call", !.agent = "arrived"]
<1>1. req \in [Requests -> RequestStates] /\ x \in RequestStates /\ ReqOK(x, ran[r])
  BY Types
<1>2. x.agent = None /\ x.reply = None /\ ran[r] = {} /\ ~x.flagged
  BY <1>1 DEF ReqOK
<1>3. req' = [req EXCEPT ![r] = y] /\ UNCHANGED <<records, unheard>>
  BY <1>1 DEF Call
<1>4. y \in RequestStates
  BY <1>1 DEF RequestStates
<1>5. y.pc = "call" /\ y.agent = "arrived" /\ y.reply = x.reply /\ y.flagged = x.flagged /\ y.kind = x.kind
  BY <1>1 DEF RequestStates
<1> HIDE DEF y
<1>6. ReqOK(y, ran[r])
  <2>1. None \notin {"arrived", "serving", "ended", "ok", "marked", "unmarked", "error", "refused", "completed", "failed"}
    BY DEF None
  <2>2. ReplyOK(y, ran[r])
    BY <1>2, <1>5, <2>1 DEF ReplyOK
  <2> QED BY <1>2, <1>4, <1>5, <2>1, <2>2 DEF ReqOK
<1> QED BY <1>3, <1>5, <1>6, GoOnInv

\* handleDBTool, handleK8sTool.
LEMMA HandleToolInv ==
    ASSUME Inv, NEW r \in Requests, handleTool(r)
    PROVE  Inv'
<1>1. req[r].pc = "handler" /\ req[r].kind \in Direct
      /\ UNCHANGED <<config, current, events, ran, shared>>
  BY DEF handleTool
<1>2. "403" \in Codes \ {"201", "422"} /\ "400" \in Codes \ {"201", "422"} /\ "502" \in Codes \ {"201", "422"}
  BY DEF Codes
<1> QED BY <1>1, <1>2, HandlerAnswerInv, CallInv DEF handleTool

\* handleQuery.
LEMMA HandleQueryInv ==
    ASSUME Inv, NEW r \in Requests, handleQuery(r)
    PROVE  Inv'
<1>1. req[r].pc = "handler" /\ req[r].kind = "query"
      /\ UNCHANGED <<config, current, events, ran, shared>>
  BY DEF handleQuery
<1>2. "503" \in Codes \ {"201", "422"} /\ "400" \in Codes \ {"201", "422"} /\ "502" \in Codes \ {"201", "422"}
  BY DEF Codes
<1> QED BY <1>1, <1>2, HandlerAnswerInv, CallInv DEF handleQuery

\* Proxied reads.
LEMMA ProxyRequestInv ==
    ASSUME Inv, NEW r \in Requests, proxyRequest(r)
    PROVE  Inv'
<1>1. req[r].pc = "handler" /\ req[r].kind = "agents"
      /\ UNCHANGED <<config, current, events, ran, shared>>
  BY DEF proxyRequest
<1>2. PICK code \in {"200", "404", "502", "503"} : AnswerOnly(r, code)
  BY DEF proxyRequest
<1>3. code \in Codes \ {"201", "422"}
  BY DEF Codes
<1>4. req[r].kind \notin Direct \cup {"query"}
  BY <1>1 DEF Direct
<1> QED BY <1>1, <1>2, <1>3, <1>4, HandlerAnswerInv

\* handleFleetCreateJob.
LEMMA CreateJobInv ==
    ASSUME Inv, NEW r \in Requests, handleFleetCreateJob(r)
    PROVE  Inv'
<1> DEFINE job == {Job}
<1>1. req[r].pc = "handler" /\ req[r].kind = "job" /\ UNCHANGED <<config, current, events, shared>>
  BY DEF handleFleetCreateJob
<1>2. ASSUME NEW code \in {"400", "503", "502"}, AnswerOnly(r, code), UNCHANGED ran
      PROVE  Inv'
  <2>1. code \in Codes \ {"201", "422"} /\ code # "200"
    BY DEF Codes
  <2> QED BY <1>1, <1>2, <2>1, HandlerAnswerInv
<1>3. ASSUME ran' = [ran EXCEPT ![r] = job], NEW code \in {"201", "502"},
             \/ code = "502" /\ AnswerOnly(r, code)
             \/ code = "201" /\ RecordAndAnswer(r, "success", code)
      PROVE  Inv'
  <2>1. Answer(r, code) /\ code \in Codes
    BY <1>3 DEF AnswerOnly, RecordAndAnswer, Codes
  <2>2. PICK y \in RequestStates :
          /\ req' = [req EXCEPT ![r] = y] /\ y.pc = "done" /\ y.code = code
          /\ y.kind = req[r].kind /\ y.agent = req[r].agent /\ y.reply = req[r].reply
          /\ y.flagged = req[r].flagged
    BY <2>1, AnswerIs
  <2>3. req[r].agent = None /\ req[r].reply = None /\ ran[r] = {} /\ ~req[r].flagged
    BY <1>1, Types DEF ReqOK
  <2>4. job \in SUBSET ToolCalls /\ job = {Job}
    <3>1. /\ Job.policy = "allow" /\ Job.end = "ok"
          /\ Job \in [class : Classes, policy : {"allow", "denied", "require_approval"}, end : Ends]
      BY DEF Job, Classes, Ends
    <3>2. Job \in ToolCalls
      BY <3>1 DEF ToolCalls, None
    <3> QED BY <3>2
  <2> HIDE DEF job
  <2>5. y.kind = "job" /\ y.kind \notin Direct /\ y.agent = None /\ y.reply = None
        /\ y.agent \notin {"arrived", "serving", "ended"}
    BY <1>1, <2>2, <2>3 DEF Direct, None
  <2>6. ReplyOK(y, job) /\ CodeOK(y, job)
    BY <2>2, <2>4, <2>5 DEF ReplyOK, CodeOK
  <2>7. ReqOK(y, job)
    BY <2>2, <2>3, <2>5, <2>6 DEF ReqOK
  <2>8. recordAudit(r, "success", code) \/ (UNCHANGED <<records, unheard>> /\ code # "201")
    BY <1>3 DEF AnswerOnly, RecordAndAnswer
  <2> QED BY <1>1, <1>3, <2>2, <2>3, <2>4, <2>5, <2>7, <2>8, AnsweredInv
<1> QED BY <1>2, <1>3 DEF handleFleetCreateJob

-----------------------------------------------------------------------------
(* The agent. *)

\* Serving a request puts its id into the store, and it and those being served are shared
\* from then on.
LEMMA BeginInv ==
    ASSUME Inv, NEW r \in Requests, req[r].agent = "arrived", Begin(r),
           UNCHANGED <<config, events, records, ran, unheard>>
    PROVE  Inv'
<1> DEFINE x == req[r]
<1> DEFINE y == [x EXCEPT !.agent = "serving"]
<1>1. req \in [Requests -> RequestStates] /\ x \in RequestStates /\ ReqOK(x, ran[r])
      /\ RecOK(r, x, records, unheard)
  BY Types
<1>2. x.pc = "call" /\ x.reply = None /\ ran[r] = {} /\ x.kind \in Direct \cup {"query"} /\ ~x.flagged
  BY <1>1 DEF ReqOK, None
<1>3. req' = [req EXCEPT ![r] = y] /\ current' = r
  BY <1>1 DEF Begin
<1>4. y \in RequestStates
  BY <1>1 DEF RequestStates
<1>5. y.pc = "call" /\ y.agent = "serving" /\ y.reply = x.reply /\ y.flagged = x.flagged /\ y.kind = x.kind
  BY <1>1, <1>2 DEF RequestStates
<1> HIDE DEF y
<1>6. ReqOK(y, ran[r])
  <2>1. None \notin {"arrived", "serving", "ended", "ok", "marked", "unmarked", "error", "refused", "completed", "failed"}
    BY DEF None
  <2>2. ReplyOK(y, ran[r])
    BY <1>2, <1>5, <2>1 DEF ReplyOK
  <2> QED BY <1>2, <1>4, <1>5, <2>1, <2>2 DEF ReqOK
<1>7. RecOK(r, y, records', unheard') /\ FlagOK(r, y, ran[r], shared', unheard')
  BY <1>1, <1>2, <1>5 DEF RecOK, FlagOK
<1>8. shared \subseteq shared' /\ shared' \subseteq Requests
      /\ \A s \in Requests : s # r /\ req[s].agent = "serving" => s \in shared' /\ r \in shared'
  <2>1. shared' = IF Served = {} THEN shared ELSE shared \cup Served \cup {r}
    BY DEF Begin
  <2>2. Served \subseteq Requests /\ \A s \in Requests : req[s].agent = "serving" => s \in Served
    BY DEF Served
  <2>3. shared \subseteq Requests
    BY Types
  <2> QED BY <2>1, <2>2, <2>3
<1>9. \A s \in Requests : req'[s] = IF s = r THEN y ELSE req[s]
  BY <1>1, <1>3
<1>10. TraceOK(req', current', events', ran', shared', unheard')
  <2>1. TraceOK(req, current, events, ran, shared, unheard)
    BY DEF Inv
  <2>2. \A s \in Requests : req'[s].agent = "serving" /\ s \notin shared' => current' = s
    BY <1>3, <1>8, <1>9
  <2>3. \A q, s \in Requests : current' = q /\ s # q /\ req'[s].agent = "serving" => q \in shared'
    BY <1>3, <1>8, <1>9
  <2>4. \A s \in Requests : req'[s].kind = req[s].kind
    BY <1>5, <1>9
  <2> QED BY <1>8, <2>1, <2>2, <2>3, <2>4 DEF TraceOK
<1>11. ran' = [ran EXCEPT ![r] = ran[r]] /\ ran[r] \in SUBSET ToolCalls /\ events' \subseteq Events
  BY Types
<1> QED BY <1>3, <1>6, <1>7, <1>8, <1>10, <1>11, StepInv

\* What the agent's answer changes.
LEMMA ReplyIs ==
    ASSUME Inv, NEW r \in Requests, NEW reply \in Replies \ {None}, Reply(r, reply)
    PROVE  \E y \in RequestStates :
             /\ req' = [req EXCEPT ![r] = y] /\ y.agent = "ended"
             /\ y.pc = IF req[r].pc = "call" THEN "reply" ELSE req[r].pc
             /\ y.reply = IF req[r].pc = "call" THEN reply ELSE req[r].reply
             /\ y.kind = req[r].kind /\ y.flagged = req[r].flagged /\ y.code = req[r].code
<1> DEFINE x == req[r]
<1> DEFINE pc == IF x.pc = "call" THEN "reply" ELSE x.pc
<1> DEFINE rep == IF x.pc = "call" THEN reply ELSE x.reply
<1> DEFINE y == [x EXCEPT !.agent = "ended", !.pc = pc, !.reply = rep]
<1>1. req \in [Requests -> RequestStates] /\ x \in RequestStates
  BY Types
<1>2. req' = [req EXCEPT ![r] = y]
  BY <1>1 DEF Reply
<1>3. pc \in {"new", "handler", "call", "reply", "done"} /\ rep \in Replies
  BY <1>1, RequestTypes
<1>4. y.agent = "ended" /\ y.pc = pc /\ y.reply = rep /\ y.kind = x.kind /\ y.flagged = x.flagged /\ y.code = x.code
  BY <1>1 DEF RequestStates
<1>5. y \in RequestStates
  <2> HIDE DEF pc, rep
  <2> QED BY <1>1, <1>3 DEF RequestStates
<1> QED BY <1>2, <1>4, <1>5

\* The agent's answer fits what it ran; a request the gateway gave up on stays as it is.
LEMMA EndedOK ==
    ASSUME Inv, NEW r \in Requests, NEW reply \in Replies \ {None},
           req[r].agent \in {"arrived", "serving"}, NEW y \in RequestStates, NEW rn, y.agent = "ended",
           y.pc = IF req[r].pc = "call" THEN "reply" ELSE req[r].pc,
           y.reply = IF req[r].pc = "call" THEN reply ELSE req[r].reply,
           y.kind = req[r].kind, y.flagged = req[r].flagged, y.code = req[r].code,
           ReplyOK([kind |-> req[r].kind, reply |-> reply], rn)
    PROVE  /\ ReqOK(y, rn)
           /\ \A unh : unheard \subseteq unh => RecOK(r, y, records, unh)
           /\ \A sh, unh : FlagOK(r, y, rn, sh, unh)
<1> DEFINE x == req[r]
<1> DEFINE k == [kind |-> x.kind, reply |-> reply]
<1>1. ReqOK(x, ran[r]) /\ RecOK(r, x, records, unheard)
  BY Types
<1>2. None \notin {"arrived", "serving", "ended", "ok", "marked", "unmarked", "error", "refused", "completed", "failed"}
  BY DEF None
<1>3. x.agent # None /\ x.kind \in Direct \cup {"query"} /\ x.reply = None /\ x.pc \in {"call", "done"}
      /\ (x.pc = "done" => x.agent = "serving" /\ x.code = "502") /\ ~x.flagged
  BY <1>1, <1>2 DEF ReqOK, CodeOK
<1>4. ReplyOK(y, rn)
  <2>1. CASE x.pc = "call"
    <3>1. k.kind = y.kind /\ k.reply = y.reply /\ ReplyOK(k, rn)
      BY <2>1
    <3> HIDE DEF k
    <3> QED BY <3>1 DEF ReplyOK
  <2>2. CASE x.pc = "done"
    <3>1. y.reply = None
      BY <1>3, <2>2
    <3> QED BY <1>2, <3>1 DEF ReplyOK
  <2> QED BY <1>3, <2>1, <2>2
<1>5. x.pc = "done" => CodeOK(y, rn)
  <2> SUFFICES ASSUME x.pc = "done" PROVE CodeOK(y, rn)
    OBVIOUS
  <2>1. y.code = "502" /\ y.agent = "ended" /\ y.kind # "job"
    BY <1>3 DEF Direct
  <2> QED BY <2>1 DEF CodeOK
<1>6. ReqOK(y, rn)
  BY <1>2, <1>3, <1>4, <1>5 DEF ReqOK
<1>7. ASSUME NEW unh, unheard \subseteq unh PROVE RecOK(r, y, records, unh)
  <2>1. QueryRecords(r, y) = QueryRecords(r, x)
    BY DEF QueryRecords
  <2> QED BY <1>1, <1>2, <1>3, <1>7, <2>1 DEF RecOK
<1>8. ASSUME NEW sh, NEW unh PROVE FlagOK(r, y, rn, sh, unh)
  BY <1>3 DEF FlagOK
<1> QED BY <1>6, <1>7, <1>8

\* POST /tool/{name} begins, or is refused.
LEMMA ServeDirectInv ==
    ASSUME Inv, NEW r \in Requests, serveDirectTool(r)
    PROVE  Inv'
<1>1. req[r].agent = "arrived" /\ req[r].kind \in Direct /\ UNCHANGED <<config, events, records, ran, unheard>>
  BY DEF serveDirectTool
<1>2. CASE Begin(r)
  BY <1>1, <1>2, BeginInv
<1>3. CASE Reply(r, "refused") /\ UNCHANGED <<current, shared>>
  <2>1. "refused" \in Replies \ {None}
    BY DEF Replies, Errors, None
  <2>2. PICK y \in RequestStates :
          /\ req' = [req EXCEPT ![r] = y] /\ y.agent = "ended"
          /\ y.pc = IF req[r].pc = "call" THEN "reply" ELSE req[r].pc
          /\ y.reply = IF req[r].pc = "call" THEN "refused" ELSE req[r].reply
          /\ y.kind = req[r].kind /\ y.flagged = req[r].flagged /\ y.code = req[r].code
    BY <1>3, <2>1, ReplyIs
  <2>3. ran[r] = {} /\ ran[r] \in SUBSET ToolCalls /\ ran' = [ran EXCEPT ![r] = ran[r]]
    BY <1>1, Types DEF ReqOK
  <2>4. ReplyOK([kind |-> req[r].kind, reply |-> "refused"], ran[r])
    <3>1. req[r].kind # "query"
      BY <1>1 DEF Direct
    <3> QED BY <2>3, <3>1 DEF ReplyOK
  <2>5. ReqOK(y, ran[r]) /\ RecOK(r, y, records, unheard) /\ FlagOK(r, y, ran[r], shared, unheard)
    BY <1>1, <2>1, <2>2, <2>4, EndedOK
  <2> QED BY <1>1, <1>3, <2>2, <2>3, <2>5, QuietInv
<1> QED BY <1>2, <1>3 DEF serveDirectTool

\* What a tool call leaves goes under its request, unless it is shared or auditd failed.
LEMMA ToolTrace ==
    ASSUME Inv, NEW r \in Requests, req[r].agent = "serving", NEW y, NEW z \in ToolCalls,
           req' = [req EXCEPT ![r] = y], y.kind = req[r].kind,
           NEW kept \in SUBSET Trail(current, z), events' = events \cup kept,
           unheard' = (IF kept = Trail(current, z) THEN unheard ELSE unheard \cup {r}),
           ran' = [ran EXCEPT ![r] = ran[r] \cup {z}], UNCHANGED <<current, shared>>
    PROVE  /\ TraceOK(req', current', events', ran', shared', unheard')
           /\ events' \subseteq Events /\ ran[r] \cup {z} \in SUBSET ToolCalls
<1>1. req \in [Requests -> RequestStates] /\ ran \in [Requests -> SUBSET ToolCalls] /\ events \subseteq Events
      /\ current \in Requests \cup {None}
  BY Types
<1>2. \A e \in kept : e.trace = current
  <2>1. \A e \in Trail(current, z) : e.trace = current
    BY TrailIs, Zenon
  <2> QED BY <2>1
<1>3. Trail(current, z) \subseteq Events
  BY <1>1 DEF Events
<1>4. TraceOK(req, current, events, ran, shared, unheard)
  BY DEF Inv
<1>5. \A s \in Requests : /\ req'[s] = (IF s = r THEN y ELSE req[s])
                          /\ ran'[s] = (IF s = r THEN ran[r] \cup {z} ELSE ran[s])
  BY <1>1
<1>6. \A s \in Requests : (req'[s].agent = "serving" => req[s].agent = "serving") /\ req'[s].kind = req[s].kind
  BY <1>5
<1>7. ASSUME NEW s \in Requests, s \notin shared, NEW d \in events', d.trace = s
      PROVE  \E w \in ran'[s] : d \in Trail(s, w)
  <2>1. CASE d \in events
    BY <1>4, <1>5, <1>7, <2>1 DEF TraceOK
  <2>2. CASE d \in kept
    <3>1. current = s /\ d \in Trail(s, z)
      BY <1>2, <1>7, <2>2
    <3>2. s = r
      BY <1>4, <1>7, <3>1 DEF TraceOK
    <3> QED BY <1>5, <3>1, <3>2
  <2> QED BY <1>7, <2>1, <2>2
<1>8. ASSUME NEW s \in Requests, s \notin shared, s \notin unheard', req'[s].kind # "job", NEW w \in ran'[s]
      PROVE  Trail(s, w) \subseteq events'
  <2>1. s \notin unheard /\ events \subseteq events' /\ req[s].kind # "job"
    BY <1>6, <1>8
  <2>2. CASE w \in ran[s]
    BY <1>4, <1>8, <2>1, <2>2 DEF TraceOK
  <2>3. CASE s = r /\ w = z
    <3>1. current = s
      BY <1>4, <1>8, <2>3 DEF TraceOK
    <3>2. kept = Trail(current, z)
      BY <1>8, <2>3
    <3> QED BY <2>3, <3>1, <3>2
  <2> QED BY <1>5, <1>8, <2>2, <2>3
<1>9. TraceOK(req', current', events', ran', shared', unheard')
  <2>1. \A s \in Requests : req'[s].agent = "serving" /\ s \notin shared => current = s
    BY <1>4, <1>6 DEF TraceOK
  <2>2. \A q, s \in Requests : current = q /\ s # q /\ req'[s].agent = "serving" => q \in shared
    BY <1>4, <1>6 DEF TraceOK
  <2> QED BY <1>7, <1>8, <2>1, <2>2 DEF TraceOK
<1> QED BY <1>1, <1>3, <1>9

\* A direct call runs its tool and answers.
LEMMA RunDirectInv ==
    ASSUME Inv, NEW r \in Requests, runDirectTool(r)
    PROVE  Inv'
<1> DEFINE x == req[r]
<1>1. x.agent = "serving" /\ x.kind \in Direct /\ UNCHANGED <<config, current, records, shared>>
  BY DEF runDirectTool
<1>2. PICK z \in Results :
        /\ \E reply \in ToolReplies(req[r].kind, z.end) : Reply(r, reply)
        /\ RecordToolCall(r, z) /\ Ran(r, z)
  BY DEF runDirectTool
<1>3. PICK reply \in ToolReplies(x.kind, z.end) : Reply(r, reply)
  BY <1>2
<1>4. ReqOK(x, ran[r]) /\ ran[r] = {} /\ x \in RequestStates /\ x.kind # "query"
  BY <1>1, Types DEF ReqOK, Direct
<1>5. z \in ToolCalls /\ z.end \in Ends
  BY ConstantsAssumption DEF ToolCalls
<1>6. reply \in {"ok", "marked", "unmarked", "error", "denied"}
  BY <1>1, <1>3, <1>5, RepliesKnown
<1>7. reply \in Replies \ {None}
  BY <1>6 DEF Replies, Errors, None
<1>8. PICK y \in RequestStates :
        /\ req' = [req EXCEPT ![r] = y] /\ y.agent = "ended"
        /\ y.pc = IF req[r].pc = "call" THEN "reply" ELSE req[r].pc
        /\ y.reply = IF req[r].pc = "call" THEN reply ELSE req[r].reply
        /\ y.kind = req[r].kind /\ y.flagged = req[r].flagged /\ y.code = req[r].code
  BY <1>3, <1>7, ReplyIs
<1> DEFINE rn == ran[r] \cup {z}
<1>9. ran' = [ran EXCEPT ![r] = rn]
  BY <1>2, Types DEF Ran
<1>10. PICK kept \in SUBSET Trail(current, z) :
         /\ events' = events \cup kept
         /\ unheard' = IF kept = Trail(current, z) THEN unheard ELSE unheard \cup {r}
  BY <1>2 DEF RecordToolCall
<1>11. /\ TraceOK(req', current', events', ran', shared', unheard')
       /\ events' \subseteq Events /\ unheard \subseteq unheard' /\ rn \in SUBSET ToolCalls
       /\ (unheard' = unheard \/ unheard' = unheard \cup {r})
  BY <1>1, <1>5, <1>8, <1>9, <1>10, ToolTrace
<1>12. rn = {z}
  BY <1>4
<1> HIDE DEF rn
<1> DEFINE k == [kind |-> req[r].kind, reply |-> reply]
<1>13. ReplyOK(k, rn)
  <2>1. k.kind = x.kind /\ k.reply = reply
    OBVIOUS
  <2> HIDE DEF k
  <2> QED BY <1>3, <1>4, <1>6, <1>12, <2>1 DEF ReplyOK
<1>14. ReqOK(y, rn) /\ RecOK(r, y, records, unheard') /\ FlagOK(r, y, rn, shared, unheard')
  BY <1>1, <1>7, <1>8, <1>11, <1>13, EndedOK
<1>15. current' \in Requests \cup {None} /\ shared' \subseteq Requests
  BY <1>1, Types
<1> QED BY <1>1, <1>8, <1>9, <1>11, <1>14, <1>15, StepInv

\* The agent's model calls a tool.
LEMMA RunModelInv ==
    ASSUME Inv, NEW r \in Requests, runModelTool(r)
    PROVE  Inv'
<1> DEFINE x == req[r]
<1>1. x.agent = "serving" /\ x.kind = "query" /\ UNCHANGED <<config, req, current, records, shared>>
  BY DEF runModelTool
<1>2. PICK z \in Results : RecordToolCall(r, z) /\ Ran(r, z)
  BY DEF runModelTool
<1>3. ReqOK(x, ran[r]) /\ RecOK(r, x, records, unheard) /\ req' = [req EXCEPT ![r] = x] /\ z \in ToolCalls
  BY <1>1, Types, ConstantsAssumption
<1> DEFINE rn == ran[r] \cup {z}
<1>4. ran' = [ran EXCEPT ![r] = rn]
  BY <1>2, Types DEF Ran
<1>5. PICK kept \in SUBSET Trail(current, z) :
        /\ events' = events \cup kept
        /\ unheard' = IF kept = Trail(current, z) THEN unheard ELSE unheard \cup {r}
  BY <1>2 DEF RecordToolCall
<1>6. /\ TraceOK(req', current', events', ran', shared', unheard')
      /\ events' \subseteq Events /\ rn \in SUBSET ToolCalls
      /\ unheard \subseteq unheard' /\ (unheard' = unheard \/ unheard' = unheard \cup {r})
  <2>1. UNCHANGED <<current, shared>> /\ x.kind = req[r].kind
    BY <1>1
  <2> QED BY <1>1, <1>3, <1>4, <1>5, <2>1, ToolTrace
<1>7. x.pc \in {"call", "done"} /\ x.reply = None /\ (x.pc = "done" => x.code = "502" /\ CodeOK(x, ran[r]))
  BY <1>1, <1>3 DEF ReqOK, CodeOK
<1>8. x.kind \notin Direct
  BY <1>1 DEF Direct
<1> HIDE DEF rn
<1>9. ReqOK(x, rn)
  <2>1. ReplyOK(x, rn)
    BY <1>1, <1>7, <1>8 DEF ReplyOK
  <2>2. x.pc = "done" => CodeOK(x, rn)
    BY <1>1, <1>7, <1>8 DEF CodeOK
  <2>3. x.agent # None /\ x.agent # "arrived"
    BY <1>1 DEF None
  <2> QED BY <1>1, <1>3, <1>7, <1>8, <2>1, <2>2, <2>3 DEF ReqOK
<1>10. RecOK(r, x, records, unheard') /\ FlagOK(r, x, rn, shared, unheard')
  BY <1>3, <1>6, <1>7 DEF RecOK, FlagOK
<1>11. current' \in Requests \cup {None} /\ shared' \subseteq Requests
  BY <1>1, Types
<1> QED BY <1>1, <1>3, <1>4, <1>6, <1>9, <1>10, <1>11, StepInv

\* The middleware clears the store: nobody else who is served alone relies on it.
LEMMA EndA2AInv ==
    ASSUME Inv, NEW r \in Requests, endA2A(r)
    PROVE  Inv'
<1> DEFINE x == req[r]
<1>1. x.agent = "serving" /\ x.kind = "query" /\ current' = None
      /\ UNCHANGED <<config, events, records, ran, unheard, shared>>
  BY DEF endA2A
<1>2. PICK reply \in {"completed", "failed"} : Reply(r, reply)
  BY DEF endA2A
<1>3. reply \in Replies \ {None}
  BY DEF Replies, None
<1>4. PICK y \in RequestStates :
        /\ req' = [req EXCEPT ![r] = y] /\ y.agent = "ended"
        /\ y.pc = IF req[r].pc = "call" THEN "reply" ELSE req[r].pc
        /\ y.reply = IF req[r].pc = "call" THEN reply ELSE req[r].reply
        /\ y.kind = req[r].kind /\ y.flagged = req[r].flagged /\ y.code = req[r].code
  BY <1>2, <1>3, ReplyIs
<1>5. ReplyOK([kind |-> req[r].kind, reply |-> reply], ran[r])
  BY <1>1 DEF ReplyOK, Direct
<1>6. ReqOK(y, ran[r]) /\ RecOK(r, y, records, unheard) /\ FlagOK(r, y, ran[r], shared, unheard)
  BY <1>1, <1>3, <1>4, <1>5, EndedOK
<1>7. req \in [Requests -> RequestStates] /\ TraceOK(req, current, events, ran, shared, unheard)
  BY Types DEF Inv
<1>8. \A s \in Requests : req'[s] = IF s = r THEN y ELSE req[s]
  BY <1>4, <1>7
<1>9. TraceOK(req', current', events', ran', shared', unheard')
  <2>1. ASSUME NEW s \in Requests, req'[s].agent = "serving", s \notin shared PROVE FALSE
    <3>1. s # r /\ req[s].agent = "serving"
      BY <1>4, <1>8, <2>1
    <3> QED BY <1>1, <1>7, <2>1, <3>1 DEF TraceOK
  <2>2. \A s \in Requests : current' # s
    BY <1>1, ConstantsAssumption
  <2>3. \A s \in Requests : req'[s].kind = req[s].kind
    BY <1>4, <1>8
  <2> QED BY <1>1, <1>7, <2>1, <2>2, <2>3 DEF TraceOK
<1>10. ran' = [ran EXCEPT ![r] = ran[r]] /\ ran[r] \in SUBSET ToolCalls /\ events' \subseteq Events
       /\ shared' \subseteq Requests
  BY <1>1, Types
<1> QED BY <1>1, <1>4, <1>6, <1>9, <1>10, StepInv

-----------------------------------------------------------------------------
(* The gateway's answer to a request the agent was called for. *)

\* The call fails or the caller is gone.
LEMMA GiveUpInv ==
    ASSUME Inv, NEW r \in Requests, GiveUp(r)
    PROVE  Inv'
<1> DEFINE x == req[r]
<1> DEFINE ag == IF x.agent = "arrived" THEN None ELSE x.agent
<1> DEFINE y == [x EXCEPT !.pc = "done", !.code = "502", !.agent = ag]
<1>1. x.pc = "call" /\ recordAudit(r, "error", "502") /\ UNCHANGED <<config, current, events, ran, shared>>
  BY DEF GiveUp
<1>2. req \in [Requests -> RequestStates] /\ x \in RequestStates /\ ReqOK(x, ran[r])
      /\ ran[r] \in SUBSET ToolCalls /\ ran' = [ran EXCEPT ![r] = ran[r]]
  BY <1>1, Types
<1>3. req' = [req EXCEPT ![r] = y]
  BY <1>2 DEF GiveUp
<1>4. None \notin {"arrived", "serving", "ended", "ok", "marked", "unmarked", "error", "refused", "completed", "failed"}
  BY DEF None
<1>5. x.agent \in {"arrived", "serving"} /\ x.reply = None /\ x.kind \in Direct \cup {"query"} /\ ~x.flagged
      /\ (x.agent = "arrived" => ran[r] = {}) /\ (x.agent = "serving" => (x.kind \in Direct => ran[r] = {}))
  BY <1>1, <1>2, <1>4 DEF ReqOK
<1>6. ag \in {None, "serving"} /\ (ag = None => ran[r] = {}) /\ (ag = "serving" => x.agent = "serving")
  BY <1>4, <1>5
<1>7. y.pc = "done" /\ y.code = "502" /\ y.agent = ag /\ y.kind = x.kind /\ y.reply = x.reply
      /\ y.flagged = x.flagged
  BY <1>2 DEF RequestStates
<1>8. y \in RequestStates
  <2> HIDE DEF ag
  <2> QED BY <1>2, <1>6 DEF RequestStates
<1> HIDE DEF y, ag
<1>9. ReqOK(y, ran[r])
  <2>1. ReplyOK(y, ran[r])
    BY <1>4, <1>5, <1>7 DEF ReplyOK
  <2>2. CodeOK(y, ran[r])
    BY <1>5, <1>7 DEF CodeOK, Direct
  <2> QED BY <1>4, <1>5, <1>6, <1>7, <1>8, <2>1, <2>2 DEF ReqOK
<1> QED BY <1>1, <1>2, <1>3, <1>6, <1>7, <1>9, AnsweredInv

\* An answer with a record, for a request the agent has answered.
LEMMA RepliedInv ==
    ASSUME Inv, NEW r \in Requests, req[r].pc = "reply", NEW status, NEW code \in Codes \ {"201"},
           RecordAndAnswer(r, status, code), UNCHANGED <<config, current, events, ran, shared>>,
           req[r].kind = "query" => status = "error" /\ code = "502",
           code = "200" => req[r].reply \in {"ok", "unmarked"},
           code = "422" => req[r].kind \in Direct /\ req[r].reply \in {"marked", "error"},
           code \in {"400", "401", "403", "404"} => ran[r] = {} \/ req[r].reply = "denied"
    PROVE  Inv'
<1> DEFINE x == req[r]
<1>1. Answer(r, code) /\ recordAudit(r, status, code)
  BY DEF RecordAndAnswer
<1>2. PICK y \in RequestStates :
        /\ req' = [req EXCEPT ![r] = y] /\ y.pc = "done" /\ y.code = code
        /\ y.kind = req[r].kind /\ y.agent = req[r].agent /\ y.reply = req[r].reply
        /\ y.flagged = req[r].flagged
  BY <1>1, AnswerIs
<1>3. ReqOK(x, ran[r]) /\ ran[r] \in SUBSET ToolCalls /\ ran' = [ran EXCEPT ![r] = ran[r]]
  BY Types
<1>4. x.agent = "ended" /\ x.kind \in Direct \cup {"query"} /\ ~x.flagged /\ ReplyOK(x, ran[r]) /\ x.agent # None
  BY <1>3 DEF ReqOK, None
<1>5. ReqOK(y, ran[r])
  <2>1. ReplyOK(y, ran[r])
    BY <1>2, <1>4 DEF ReplyOK
  <2>2. CodeOK(y, ran[r])
    BY <1>2, <1>4 DEF CodeOK, Direct
  <2> QED BY <1>2, <1>4, <2>1, <2>2 DEF ReqOK
<1>6. y.kind = "query" => code # "200"
  BY <1>2
<1> QED BY <1>1, <1>2, <1>3, <1>4, <1>5, <1>6, AnsweredInv

\* dispatchDirectTool.
LEMMA AnswerDirectInv ==
    ASSUME Inv, NEW r \in Requests, answerDirect(r)
    PROVE  Inv'
<1> DEFINE rep == req[r].reply
<1> DEFINE refused == IF AgentRefusal = "" THEN "404" ELSE AgentRefusal
<1>1. req[r].pc = "reply" /\ req[r].kind \in Direct /\ UNCHANGED <<config, current, events, ran, shared>>
  BY DEF answerDirect
<1>2. ReqOK(req[r], ran[r]) /\ req[r] \in RequestStates /\ rep \in Replies /\ req[r].kind # "query"
  BY <1>1, Types, RequestTypes DEF Direct
<1>3. rep \in {"ok", "marked", "unmarked", "error", "denied", "refused"}
      /\ (rep = "refused" => ran[r] = {})
  BY <1>1, <1>2 DEF ReqOK, ReplyOK, Replies, Errors
<1> DEFINE P1 == rep \in Errors /\ isPolicyDenial(rep)
<1> DEFINE P2 == rep = "error"
<1> DEFINE P3 == rep = "refused"
<1> DEFINE P4 == isToolError(rep)
<1>4. (CASE P1 -> RecordAndAnswer(r, "denied", "403")
         [] P2 -> RecordAndAnswer(r, "error", "422")
         [] P3 -> RecordAndAnswer(r, "error", refused)
         [] P4 -> RecordAndAnswer(r, "error", "422")
         [] OTHER -> RecordAndAnswer(r, "success", "200"))
  BY Zenon DEF answerDirect
<1>5. /\ P1 => rep = "denied"
      /\ P4 => rep = "marked"
      /\ ~P1 /\ ~P2 /\ ~P3 /\ ~P4 => rep \in {"ok", "unmarked"}
  BY <1>3 DEF isPolicyDenial, isToolError, Errors
<1>6. CASE P1 /\ RecordAndAnswer(r, "denied", "403")
  BY <1>1, <1>2, <1>5, <1>6, RepliedInv DEF Codes
<1>7. CASE (P2 \/ P4) /\ RecordAndAnswer(r, "error", "422")
  BY <1>1, <1>2, <1>5, <1>7, RepliedInv DEF Codes
<1>8. CASE P3 /\ RecordAndAnswer(r, "error", refused)
  <2>1. refused \in {"401", "403", "404"}
    BY AuthorizeIs DEF AgentRefusal
  <2> HIDE DEF refused
  <2> QED BY <1>1, <1>2, <1>3, <1>8, <2>1, RepliedInv DEF Codes
<1>9. CASE ~P1 /\ ~P2 /\ ~P3 /\ ~P4 /\ RecordAndAnswer(r, "success", "200")
  BY <1>1, <1>2, <1>5, <1>9, RepliedInv DEF Codes
<1> HIDE DEF P1, P2, P3, P4
<1> QED BY <1>4, <1>6, <1>7, <1>8, <1>9, Zenon

\* What the trail shows of a request served alone is what its tool calls left.
LEMMA TrailTells ==
    ASSUME Inv, NEW r \in Requests, r \notin shared, r \notin unheard, req[r].kind # "job"
    PROVE  /\ \A e \in events : e.trace = r <=> \E z \in ran[r] : e \in Trail(r, z)
           /\ \A z \in ran[r] : z \in ToolCalls /\ Trail(r, z) \subseteq events
           /\ \A e \in Fetched(r) : \E z \in ran[r] : z.end # None /\ z.class = e.class
           /\ \A z \in ran[r] : z.end # None => \E e \in Fetched(r) : e.class = z.class
<1>1. TraceOK(req, current, events, ran, shared, unheard) /\ ran[r] \in SUBSET ToolCalls
  BY Types DEF Inv
<1>2. \A z \in ran[r] : z \in ToolCalls /\ Trail(r, z) \subseteq events
  BY <1>1 DEF TraceOK
<1> DEFINE Left(z) == Trail(r, z)
<1>3. ASSUME NEW z \in ran[r]
      PROVE  /\ \A e \in Left(z) : /\ e.trace = r /\ e.class = z.class
                                   /\ e.type = "tool_execution" => z.end # None
             /\ z.end # None => \E e \in Left(z) : e.type = "tool_execution"
  <2> DEFINE status == IF z.end = "failed" THEN "error" ELSE "success"
  <2>1. z \in ToolCalls
    BY <1>2
  <2>2. \A e \in Left(z) : e.trace = r /\ e.class = z.class /\ Leaves(z, e.type, e.status)
    BY <2>1, TrailIs
  <2>3. z.end # None => Leaves(z, "tool_execution", status)
    BY DEF Leaves
  <2>4. Leaves(z, "tool_execution", status) =>
          \E e \in Left(z) : e.type = "tool_execution" /\ e.status = status
    BY <2>1, TrailIs
  <2> QED BY <2>1, <2>2, <2>3, <2>4, RowsSay
<1> HIDE DEF Left
<1>4. \A e \in events : e.trace = r <=> \E z \in ran[r] : e \in Trail(r, z)
  BY <1>1, <1>3 DEF TraceOK, Left
<1>5. ASSUME NEW e \in Fetched(r) PROVE \E z \in ran[r] : z.end # None /\ z.class = e.class
  <2>1. PICK z \in ran[r] : e \in Trail(r, z)
    BY <1>4 DEF Fetched
  <2>2. z.end # None /\ z.class = e.class
    BY <1>3, <2>1 DEF Fetched, Left
  <2> QED BY <2>2
<1>6. ASSUME NEW z \in ran[r], z.end # None PROVE \E e \in Fetched(r) : e.class = z.class
  <2>1. PICK e \in Trail(r, z) : e.type = "tool_execution"
    BY <1>6, <1>3 DEF Left
  <2>2. e \in events /\ e.trace = r /\ e.class = z.class
    BY <1>2, <1>3, <2>1 DEF Left
  <2> QED BY <2>1, <2>2 DEF Fetched
<1> QED BY <1>2, <1>4, <1>5, <1>6

\* The check of a claim finds no tool of the class asked for exactly if none was run.
LEMMA MismatchIs ==
    ASSUME NEW class \in Classes, class # "read", NEW found, NEW rn,
           \A e \in found : \E z \in rn : z.end # None /\ z.class = e.class,
           \A z \in rn : z.end # None => \E e \in found : e.class = z.class
    PROVE  Mismatch(class, found) <=> ~\E z \in rn : z.end # None /\ z.class \in Satisfies(class)
BY DEF Mismatch, Satisfies, Classes

\* A completed query: the claim is checked, and the check and the request recorded.
LEMMA CompletedInv ==
    ASSUME Inv, NEW r \in Requests, req[r].pc = "reply", req[r].kind = "query", req[r].reply = "completed",
           NEW found, NEW flagged \in BOOLEAN, NEW new,
           req' = [req EXCEPT ![r].pc = "done", ![r].code = "200", ![r].flagged = flagged],
           flagged <=> (Mismatch(req[r].class, found) /\ ~req[r].hold),
           records' = records \cup new, \A m \in new : m.request = r,
           \/ /\ unheard' = unheard /\ found = Fetched(r)
              /\ new = {[request |-> r, status |-> VerificationStatus(flagged), code |-> None],
                        [request |-> r, status |-> "success", code |-> "200"]}
           \/ unheard' = unheard \cup {r},
           UNCHANGED <<config, current, events, ran, shared>>
    PROVE  Inv'
<1> DEFINE x == req[r]
<1> DEFINE y == [x EXCEPT !.pc = "done", !.code = "200", !.flagged = flagged]
<1>1. req \in [Requests -> RequestStates] /\ x \in RequestStates /\ ReqOK(x, ran[r])
      /\ ran[r] \in SUBSET ToolCalls /\ ran' = [ran EXCEPT ![r] = ran[r]] /\ x.class \in Classes
  BY Types, RequestTypes
<1>2. req' = [req EXCEPT ![r] = y]
  BY <1>1
<1>3. y \in RequestStates
  BY <1>1 DEF RequestStates
<1>4. /\ y.pc = "done" /\ y.code = "200" /\ y.flagged = flagged /\ y.kind = "query" /\ y.agent = x.agent
      /\ y.reply = "completed" /\ y.class = x.class /\ y.hold = x.hold
  BY <1>1 DEF RequestStates
<1> HIDE DEF y
<1>5. x.agent = "ended" /\ y.agent # None
  BY <1>1, <1>4 DEF ReqOK, None
<1>6. ReqOK(y, ran[r])
  <2>1. ReplyOK(y, ran[r])
    BY <1>4 DEF ReplyOK, Direct
  <2>2. CodeOK(y, ran[r])
    BY <1>4, <1>5 DEF CodeOK, Direct
  <2> QED BY <1>3, <1>4, <1>5, <2>1, <2>2 DEF ReqOK
<1>7. RecordsOf(r, records) = {}
  BY Types DEF RecOK
<1>8. RecOK(r, y, records', unheard')
  <2>1. CASE r \in unheard'
    BY <1>4, <2>1 DEF RecOK
  <2>2. CASE r \notin unheard'
    <3> DEFINE m == [request |-> r, status |-> "success", code |-> "200"]
    <3>1. new = QueryRecords(r, y) /\ RecordsOf(r, records') = new
      BY <1>4, <1>7, <2>2 DEF QueryRecords, RecordsOf
    <3>2. m \in records' /\ m.request = r /\ m.code = y.code
      BY <1>4, <2>2
    <3> HIDE DEF m
    <3> QED BY <1>4, <3>1, <3>2 DEF RecOK
  <2> QED BY <2>1, <2>2
<1>9. FlagOK(r, y, ran[r], shared, unheard')
  <2>1. SUFFICES ASSUME r \notin shared, r \notin unheard', y.class # "read", ~y.hold
                 PROVE  y.flagged <=> ~\E z \in ran[r] : z.end # None /\ z.class \in Satisfies(y.class)
    BY <1>4 DEF FlagOK
  <2>2. found = Fetched(r) /\ r \notin unheard
    BY <2>1
  <2>3. Mismatch(x.class, found) <=> ~\E z \in ran[r] : z.end # None /\ z.class \in Satisfies(x.class)
    <3>1. \A e \in found : \E z \in ran[r] : z.end # None /\ z.class = e.class
      BY <2>1, <2>2, TrailTells
    <3>2. \A z \in ran[r] : z.end # None => \E e \in found : e.class = z.class
      BY <2>1, <2>2, TrailTells
    <3> QED BY <1>1, <1>4, <2>1, <3>1, <3>2, MismatchIs
  <2> QED BY <1>4, <2>1, <2>3, Zenon
<1>10. /\ records \subseteq records' /\ \A m \in records' : m \in records \/ m.request = r
       /\ unheard' = unheard \/ unheard' = unheard \cup {r}
       /\ y.agent # "serving" /\ y.kind = x.kind
  BY <1>4, <1>5
<1> QED BY <1>1, <1>2, <1>6, <1>8, <1>9, <1>10, QuietInv

\* proxyToAgentWithTool.
LEMMA AnswerQueryInv ==
    ASSUME Inv, NEW r \in Requests, answerQuery(r)
    PROVE  Inv'
<1>1. req[r].pc = "reply" /\ req[r].kind = "query" /\ UNCHANGED <<config, current, events, ran, shared>>
  BY DEF answerQuery
<1>2. CASE req[r].reply = "failed" /\ RecordAndAnswer(r, "error", "502")
  BY <1>1, <1>2, RepliedInv DEF Codes
<1>3. CASE req[r].reply = "completed"
  <2>1. PICK reached \in BOOLEAN, kept \in BOOLEAN, heard \in BOOLEAN :
          LET flagged == Mismatch(req[r].class, IF reached THEN Fetched(r) ELSE {}) /\ ~req[r].hold
              verification == [request |-> r, status |-> VerificationStatus(flagged), code |-> None]
              success == [request |-> r, status |-> "success", code |-> "200"]
          IN /\ req' = [req EXCEPT ![r].pc = "done", ![r].code = "200", ![r].flagged = flagged]
             /\ records' = records \cup (IF kept THEN {verification} ELSE {})
                                   \cup (IF heard THEN {success} ELSE {})
             /\ unheard' = IF reached /\ kept /\ heard THEN unheard ELSE unheard \cup {r}
    BY <1>3, Zenon DEF answerQuery
  <2> DEFINE found == IF reached THEN Fetched(r) ELSE {}
  <2> DEFINE flagged == Mismatch(req[r].class, found) /\ ~req[r].hold
  <2> DEFINE verification == [request |-> r, status |-> VerificationStatus(flagged), code |-> None]
  <2> DEFINE success == [request |-> r, status |-> "success", code |-> "200"]
  <2> DEFINE new == (IF kept THEN {verification} ELSE {}) \cup (IF heard THEN {success} ELSE {})
  <2>2. req' = [req EXCEPT ![r].pc = "done", ![r].code = "200", ![r].flagged = flagged]
    BY <2>1, Zenon
  <2>3. records' = records \cup (IF kept THEN {verification} ELSE {}) \cup (IF heard THEN {success} ELSE {})
    BY <2>1, Zenon
  <2>4. unheard' = IF reached /\ kept /\ heard THEN unheard ELSE unheard \cup {r}
    BY <2>1, Zenon
  <2>5. flagged \in BOOLEAN /\ (flagged <=> (Mismatch(req[r].class, found) /\ ~req[r].hold))
    BY Zenon
  <2>6. verification.request = r /\ success.request = r
    BY Zenon
  <2> HIDE DEF verification, success, flagged
  <2>7. records' = records \cup new
    BY <2>3
  <2>8. \A m \in new : m.request = r
    BY <2>6
  <2>9. (unheard' = unheard /\ found = Fetched(r) /\ new = {verification, success}) \/ unheard' = unheard \cup {r}
    BY <2>4
  <2>10. verification = [request |-> r, status |-> VerificationStatus(flagged), code |-> None]
         /\ success = [request |-> r, status |-> "success", code |-> "200"]
    BY DEF verification, success
  <2> HIDE DEF new, found
  <2> QED BY <1>1, <1>3, <2>2, <2>5, <2>7, <2>8, <2>9, <2>10, CompletedInv, Zenon
<1> QED BY <1>2, <1>3 DEF answerQuery

-----------------------------------------------------------------------------
(* The invariant. *)

\* It holds at the start.
LEMMA InitInv ==
    Init => Inv
<1> SUFFICES ASSUME Init PROVE Inv
  OBVIOUS
<1>1. NewRequest \in RequestStates
  BY DEF NewRequest, RequestStates, Kinds, Classes, Replies
<1>2. TypeOK
  BY <1>1 DEF Init, TypeOK
<1>3. ASSUME NEW r \in Requests
      PROVE  /\ ReqOK(req[r], ran[r]) /\ RecOK(r, req[r], records, unheard)
             /\ FlagOK(r, req[r], ran[r], shared, unheard)
  <2>1. req[r] = NewRequest /\ ran[r] = {} /\ records = {}
    BY DEF Init
  <2>2. /\ NewRequest.pc = "new" /\ NewRequest.agent = None /\ NewRequest.reply = None
        /\ NewRequest.kind = None /\ NewRequest.flagged = FALSE
    BY DEF NewRequest
  <2>3. None \notin {"arrived", "serving", "ended", "ok", "marked", "unmarked", "error", "refused", "completed", "failed"}
    BY DEF None
  <2>4. ReqOK(NewRequest, {})
    BY <1>1, <2>2, <2>3 DEF ReqOK, ReplyOK
  <2>5. RecOK(r, NewRequest, {}, unheard) /\ FlagOK(r, NewRequest, {}, shared, unheard)
    BY <2>2 DEF RecOK, FlagOK, RecordsOf
  <2> QED BY <2>1, <2>4, <2>5
<1>4. TraceOK(req, current, events, ran, shared, unheard)
  <2>1. \A r \in Requests : req[r].agent # "serving" /\ ran[r] = {}
    BY DEF Init, NewRequest, None
  <2>2. events = {}
    BY DEF Init
  <2> QED BY <2>1, <2>2 DEF TraceOK
<1> QED BY <1>2, <1>3, <1>4 DEF Inv

\* Every step keeps the invariant.
LEMMA NextInv ==
    Inv /\ [Next]_vars => Inv'
<1> SUFFICES ASSUME Inv, [Next]_vars PROVE Inv'
  OBVIOUS
<1>1. ASSUME NEW r \in Requests, Step(r) PROVE Inv'
  <2>1. serveA2A(r) => Inv'
    BY BeginInv DEF serveA2A
  <2> QED BY <1>1, <2>1, AuthInv, HandleToolInv, HandleQueryInv, CreateJobInv, ProxyRequestInv, ServeDirectInv,
     RunDirectInv, RunModelInv, EndA2AInv, GiveUpInv, AnswerDirectInv, AnswerQueryInv DEF Step
<1>2. CASE UNCHANGED vars
  BY <1>2 DEF vars, Inv, TypeOK
<1> QED BY <1>1, <1>2 DEF Next, Done

\* Every reachable state satisfies the invariant.
THEOREM Invariance ==
    Spec => []Inv
BY InitInv, NextInv, PTL DEF Spec

\* The state stays within its types (the type invariant of Gateway).
THEOREM TypeCorrect ==
    Spec => []TypeOK
<1>1. Inv => TypeOK
  BY DEF Inv
<1> QED BY <1>1, Invariance, PTL

-----------------------------------------------------------------------------
(* What the trail and the answers say. *)

\* A completed query for a write or destructive action is flagged exactly if the agent ran
\* no tool of that kind for it, with the exceptions FabricationSeen names
\* (proxyToAgentWithTool, buildDelegationVerification).
THEOREM Fabrication ==
    Spec => []FabricationSeen
<1>1. Inv => FabricationSeen
  BY DEF Inv, FabricationSeen, Undisturbed, FlagOK
<1> QED BY <1>1, Invariance, PTL

\* The status of a direct call or a job says what happened to it, whatever the agent
\* answers and whenever the caller gives up (dispatchDirectTool, isToolError,
\* isPolicyDenial, handleFleetCreateJob).
THEOREM HonestAnswers ==
    Spec => []AnswersHonest
<1>1. ASSUME Inv, NEW r \in Requests, req[r].pc = "done"
      PROVE  LET ends == {x.end : x \in ran[r]}
                 done == {"ok"} \cup Unconfirmed
             IN  /\ req[r].kind \in Direct /\ req[r].code = "200" => ends # {}
                 /\ req[r].kind = "db" /\ req[r].code = "200" => ends \subseteq done
                 /\ req[r].kind = "k8s" /\ req[r].code = "200" => ends \subseteq done \cup {"failed"}
                 /\ req[r].code = "422" => ends \subseteq {None, "failed", "denied after"}
                 /\ req[r].code \in {"400", "401", "403", "404"} => ends \subseteq {None, "denied after"}
                 /\ req[r].code = "201" => ends = {"ok"}
  <2>1. ReplyOK(req[r], ran[r]) /\ CodeOK(req[r], ran[r]) /\ ran[r] \in SUBSET ToolCalls
    BY <1>1, Types DEF Inv, ReqOK
  <2>2. \A z \in ran[r] : z.end \in Ends
    BY <2>1 DEF ToolCalls
  <2>3. Job.end = "ok"
    BY DEF Job
  <2>4. "db" \in Direct /\ "k8s" \in Direct /\ Direct = {"db", "k8s"} /\ "db" # "k8s"
    BY DEF Direct
  <2>5. ASSUME NEW z \in ran[r], req[r].kind \in Direct, req[r].reply # None
        PROVE  /\ req[r].reply \in {"ok", "unmarked"} =>
                    z.end \in {"ok"} \cup Unconfirmed \/ (z.end = "failed" /\ req[r].kind = "k8s")
               /\ req[r].reply \in {"marked", "error"} => z.end \in {None, "failed", "denied after"}
               /\ req[r].reply = "denied" => z.end \in {None, "denied after"}
    <3>1. req[r].reply \in ToolReplies(req[r].kind, z.end) /\ z.end \in Ends
      BY <2>1, <2>2, <2>5 DEF ReplyOK
    <3> DEFINE kind == req[r].kind
    <3> DEFINE end == z.end
    <3> DEFINE replies == ToolReplies(kind, end)
    <3>2. /\ end = "ok" => replies = {"ok"}
          /\ end \in {None, "denied after"} => replies = IF kind = "db" THEN {"marked"} ELSE {"denied"}
          /\ end = "failed" => replies = IF kind = "db" THEN {"marked"} ELSE {"error", "unmarked"}
          /\ end \in Unconfirmed => replies = {"unmarked"}
      BY <2>5, RepliesAre, Zenon
    <3>3. end \in {"ok", "failed"} \cup {None, "denied after"} \cup Unconfirmed
      BY <3>1 DEF Ends
    <3>4. req[r].reply \in replies /\ kind \in {"db", "k8s"}
      BY <2>4, <2>5, <3>1
    <3> HIDE DEF end, replies, kind
    <3>5. CASE end = "ok"
      BY <3>2, <3>4, <3>5 DEF end
    <3>6. CASE end = "failed"
      BY <3>2, <3>4, <3>6 DEF end, kind
    <3>7. CASE end \in {None, "denied after"}
      BY <3>2, <3>4, <3>7 DEF end
    <3>8. CASE end \in Unconfirmed
      BY <3>2, <3>4, <3>8 DEF end
    <3> QED BY <3>3, <3>5, <3>6, <3>7, <3>8
  <2>6. None \notin {"ok", "unmarked", "marked", "error", "denied"}
    BY DEF None
  <2> DEFINE ends == {x.end : x \in ran[r]}
  <2>7. \A e : e \in ends <=> \E z \in ran[r] : z.end = e
    OBVIOUS
  <2>8. req[r].code = "201" => ends = {"ok"}
    BY <2>1, <2>3 DEF CodeOK
  <2>9. req[r].kind \in Direct /\ req[r].code = "200" => ends # {}
    BY <2>1, <2>7 DEF ReplyOK, CodeOK
  <2> HIDE DEF ends
  <2>10. ASSUME NEW e \in ends
         PROVE  /\ req[r].kind \in Direct /\ req[r].code = "200" =>
                     e \in {"ok"} \cup Unconfirmed \/ (e = "failed" /\ req[r].kind = "k8s")
                /\ req[r].code = "422" => e \in {None, "failed", "denied after"}
                /\ req[r].code \in {"400", "401", "403", "404"} => e \in {None, "denied after"}
    <3>1. PICK z \in ran[r] : z.end = e
      BY <2>7
    <3> QED BY <2>1, <2>5, <2>6, <3>1 DEF CodeOK
  <2> QED BY <2>4, <2>8, <2>9, <2>10 DEF ends
<1>2. Inv => AnswersHonest
  BY <1>1 DEF AnswersHonest
<1> QED BY <1>2, Invariance, PTL

\* Whatever was done for a request that is over is in the trail, with the exceptions
\* NothingUnseen names (recordAudit, RecordToolCall, RecordPolicyDecision,
\* RecordToolVerification).
THEOREM Seen ==
    Spec => []NothingUnseen
<1>1. ASSUME Inv, NEW r \in Requests \ unheard, req[r].pc = "done", ran[r] # {}
      PROVE  /\ \/ \E m \in records : m.request = r /\ m.code = req[r].code
                \/ req[r].kind = "job" /\ req[r].code = "502"
             /\ req[r].kind # "job" /\ r \notin shared =>
                  \A x \in ran[r] : Trail(r, x) \subseteq events
  <2>1. ReqOK(req[r], ran[r]) /\ CodeOK(req[r], ran[r]) /\ RecOK(r, req[r], records, unheard)
        /\ TraceOK(req, current, events, ran, shared, unheard)
    BY <1>1 DEF Inv, ReqOK
  <2>2. CASE req[r].agent # None \/ req[r].code = "201"
    <3>1. \E m \in records : m.request = r /\ m.code = req[r].code
      BY <1>1, <2>1, <2>2 DEF RecOK
    <3> QED BY <1>1, <2>1, <3>1 DEF TraceOK
  <2>3. CASE req[r].agent = None /\ req[r].code # "201"
    BY <1>1, <2>1, <2>3 DEF ReqOK, CodeOK
  <2> QED BY <2>2, <2>3
<1>2. Inv => NothingUnseen
  BY <1>1 DEF NothingUnseen
<1> QED BY <1>2, Invariance, PTL

-----------------------------------------------------------------------------
(* Journeys. *)

\* What can happen to a query, other than that an approval is asked for.
Told == {"unverified_claim", "error", "denied", "success"} \cup Verifications

\* The ranks the code gives are the documented ones.
LEMMA Priorities ==
    /\ \A s \in Told : outcomePriority(s) = Rank[s] /\ Rank[s] \in 1..9
    /\ outcomePriority("verified") = 0 /\ Rank["approved"] = 3 /\ Rank["success"] = 1
    /\ \A s \in Told : s # "success" => Rank[s] > 3
    /\ \A s, t \in Told : Rank[s] = Rank[t] => s = t
<1>1. /\ outcomePriority("unverified_claim") = 9 /\ outcomePriority("error") = 8
      /\ outcomePriority("denied") = 7 /\ outcomePriority("escalation_required") = 6
      /\ outcomePriority("verified_failed") = 5 /\ outcomePriority("verified_warning") = 4
      /\ outcomePriority("success") = 1 /\ outcomePriority("verified") = 0
  <2>1. outcomePriority("unverified_claim") = 9 /\ outcomePriority("error") = 8
    BY Zenon DEF outcomePriority
  <2>2. outcomePriority("denied") = 7 /\ outcomePriority("escalation_required") = 6
    BY Zenon DEF outcomePriority
  <2>3. outcomePriority("verified_failed") = 5 /\ outcomePriority("verified_warning") = 4
    BY Zenon DEF outcomePriority
  <2>4. outcomePriority("success") = 1 /\ outcomePriority("verified") = 0
    BY Zenon DEF outcomePriority
  <2> QED BY <2>1, <2>2, <2>3, <2>4
<1>2. /\ Rank["unverified_claim"] = 9 /\ Rank["error"] = 8 /\ Rank["denied"] = 7
      /\ Rank["escalation_required"] = 6 /\ Rank["verified_failed"] = 5 /\ Rank["verified_warning"] = 4
      /\ Rank["approved"] = 3 /\ Rank["success"] = 1
  BY DEF Rank
<1> QED BY <1>1, <1>2 DEF Told, Verifications

\* The worst of what was told, and of an approval that was asked for.
LEMMA JourneyIs ==
    ASSUME NEW es, NEW told \in SUBSET Told, NEW asked \in BOOLEAN, told # {},
           \A e \in es : /\ e.type # "tool_retry" /\ e.approval # "approved"
                         /\ e.status \in told \cup {"verified", "require_approval"},
           \A s \in told : \E e \in es : e.status = s,
           asked <=> \E e \in es : e.status = "require_approval",
           \E e \in es : Anchor(e)
    PROVE  LET happened == told \cup (IF asked THEN {"approved"} ELSE {})
           IN  /\ JourneyOf(es).listed /\ JourneyOf(es).mismatch = HasMismatch(es)
               /\ JourneyOf(es).outcome \in happened
               /\ \A s \in happened : Rank[s] <= Rank[JourneyOf(es).outcome]
<1> DEFINE found == {e.status : e \in {x \in es : x.type # "tool_retry"}} \ {"require_approval"}
<1> DEFINE ranked == {s \in found : outcomePriority(s) > 0}
<1> DEFINE worst == CHOOSE s \in ranked : \A t \in ranked : outcomePriority(t) <= outcomePriority(s)
<1> DEFINE j == [listed |-> TRUE, outcome |-> JourneyOutcome(es), mismatch |-> HasMismatch(es)]
<1> DEFINE happened == told \cup (IF asked THEN {"approved"} ELSE {})
<1>1. JourneyOf(es) = j
  BY DEF JourneyOf
<1>2. j.listed /\ j.outcome = JourneyOutcome(es) /\ j.mismatch = HasMismatch(es)
  BY Zenon
<1>3. WorstStatus(es) = IF ranked = {} THEN "" ELSE worst
  BY DEF WorstStatus
<1>4. \A s : s \in found <=> s # "require_approval" /\ \E e \in es : e.status = s
  OBVIOUS
<1>5. "verified" \notin Told /\ "require_approval" \notin Told /\ "approved" \notin Told
      /\ "verified_ok" \notin Told /\ "success" \in Told
  BY DEF Told, Verifications
<1>6. ranked = told
  <2> HIDE DEF found
  <2>1. told \subseteq found /\ found \subseteq told \cup {"verified"}
    BY <1>4, <1>5
  <2>2. \A s \in told : outcomePriority(s) > 0
    BY Priorities
  <2>3. ~(outcomePriority("verified") > 0)
    BY Priorities
  <2> QED BY <2>1, <2>2, <2>3
<1> HIDE DEF found, ranked
<1>7. \E s \in told : \A t \in told : outcomePriority(t) <= outcomePriority(s)
  <2>1. \A s \in told : outcomePriority(s) = Rank[s] /\ Rank[s] \in 1..9
    BY Priorities
  <2> DEFINE At(n) == \E s \in told : Rank[s] = n
  <2>2. ASSUME NEW n \in 1..9, At(n), \A k \in 1..9 : k > n => ~At(k)
        PROVE  \E s \in told : \A t \in told : outcomePriority(t) <= outcomePriority(s)
    <3>1. PICK s \in told : Rank[s] = n
      BY <2>2
    <3>2. \A t \in told : Rank[t] <= n
      BY <2>1, <2>2
    <3> QED BY <2>1, <3>1, <3>2
  <2>3. \E n \in 1..9 : At(n)
    BY <2>1
  <2> HIDE DEF At
  <2>4. \E n \in 1..9 : At(n) /\ \A k \in 1..9 : k > n => ~At(k)
    BY <2>3
  <2> QED BY <2>2, <2>4
<1>8. worst \in told /\ \A t \in told : Rank[t] <= Rank[worst]
  <2>1. worst \in told /\ \A t \in told : outcomePriority(t) <= outcomePriority(worst)
    BY <1>6, <1>7
  <2> HIDE DEF worst
  <2> QED BY <2>1, Priorities
<1>9. WorstStatus(es) = worst
  BY <1>3, <1>6
<1> HIDE DEF worst
<1>10. JourneyOutcome(es) = IF asked /\ worst = "success" THEN "approved" ELSE worst
  <2>1. (\E e \in es : e.status = "require_approval" \/ e.approval = "approved") <=> asked
    OBVIOUS
  <2>2. worst \in {"success", "verified_ok"} <=> worst = "success"
    BY <1>5, <1>8
  <2> QED BY <1>9, <2>1, <2>2 DEF JourneyOutcome
<1>11. JourneyOutcome(es) \in happened /\ \A s \in happened : Rank[s] <= Rank[JourneyOutcome(es)]
  <2>1. \A s \in told : Rank[s] \in 1..9 /\ (s # "success" => Rank[s] > 3)
    BY Priorities
  <2>2. Rank["approved"] = 3 /\ Rank["success"] = 1
    BY Priorities
  <2>3. CASE asked /\ worst = "success"
    <3>1. JourneyOutcome(es) = "approved"
      BY <1>10, <2>3
    <3>2. \A s \in told : Rank[s] <= 3
      BY <1>8, <2>1, <2>2, <2>3
    <3> QED BY <2>2, <2>3, <3>1, <3>2
  <2>4. CASE ~(asked /\ worst = "success")
    <3>1. JourneyOutcome(es) = worst
      BY <1>10, <2>4
    <3>2. asked => 3 <= Rank[worst]
      BY <1>8, <2>1, <2>4
    <3> QED BY <1>8, <2>2, <3>1, <3>2
  <2> QED BY <2>3, <2>4
<1> HIDE DEF j, happened
<1> QED BY <1>1, <1>2, <1>11 DEF happened

RecordRow(r, m) ==
    [type |-> IF m.code = None THEN "delegation_verification" ELSE "gateway_request",
     tool |-> req[r].kind \in Direct, status |-> m.status, approval |-> None]
ToolRow(e) == [type |-> e.type, tool |-> e.type # "policy_decision", status |-> e.status, approval |-> None]

\* The rows of a trace.
LEMMA RowsAre ==
    ASSUME NEW r
    PROVE  /\ RowsOf(r) = {RecordRow(r, m) : m \in RecordsOf(r, records)}
                          \cup {ToolRow(e) : e \in {e \in events : e.trace = r}}
           /\ \A m : /\ RecordRow(r, m).type = IF m.code = None THEN "delegation_verification" ELSE "gateway_request"
                     /\ RecordRow(r, m).tool = (req[r].kind \in Direct)
                     /\ RecordRow(r, m).status = m.status /\ RecordRow(r, m).approval = None
           /\ \A e : ToolRow(e).type = e.type /\ ToolRow(e).status = e.status /\ ToolRow(e).approval = None
<1>1. RowsOf(r) = {RecordRow(r, m) : m \in RecordsOf(r, records)}
                  \cup {ToolRow(e) : e \in {e \in events : e.trace = r}}
  BY Zenon DEF RowsOf, RecordsOf, RecordRow, ToolRow
<1>2. \A m : /\ RecordRow(r, m).type = IF m.code = None THEN "delegation_verification" ELSE "gateway_request"
             /\ RecordRow(r, m).tool = (req[r].kind \in Direct)
             /\ RecordRow(r, m).status = m.status /\ RecordRow(r, m).approval = None
  BY Zenon DEF RecordRow
<1>3. \A e : ToolRow(e).type = e.type /\ ToolRow(e).status = e.status /\ ToolRow(e).approval = None
  BY Zenon DEF ToolRow
<1> QED BY <1>1, <1>2, <1>3

\* What happened to the tools of a request.
ToolSigns(rn) ==
    (IF \E x \in rn : x.end = "failed" THEN {"error"} ELSE {})
    \cup (IF \E x \in rn : x.policy = "denied" \/ x.end = "denied after" THEN {"denied"} ELSE {})
    \cup {v \in Verifications : \E x \in rn : x.end = v}

\* The rows the tools of a query left say what happened to them.
LEMMA ToolRows ==
    ASSUME Inv, NEW r \in Requests, r \notin shared, r \notin unheard, req[r].kind # "job"
    PROVE  LET tools == {ToolRow(e) : e \in {e \in events : e.trace = r}}
           IN  /\ \A d \in tools :
                    /\ d.type \in {"policy_decision", "tool_execution", "verification_outcome"} /\ d.approval = None
                    /\ d.status \in ToolSigns(ran[r]) \cup {"success", "require_approval"}
               /\ \A s \in ToolSigns(ran[r]) : \E d \in tools : d.status = s
               /\ (\E d \in tools : d.status = "require_approval") <=> \E x \in ran[r] : x.policy = "require_approval"
<1> DEFINE left == {e \in events : e.trace = r}
<1> DEFINE tools == {ToolRow(e) : e \in left}
<1>1. \A e : ToolRow(e).type = e.type /\ ToolRow(e).status = e.status /\ ToolRow(e).approval = None
  BY RowsAre, Zenon
<1>2. /\ \A e \in left : \E z \in ran[r] : e \in Trail(r, z)
      /\ \A z \in ran[r] : z \in ToolCalls /\ Trail(r, z) \subseteq left
  BY TrailTells
<1>3. ASSUME NEW z \in ran[r]
      PROVE  /\ \A e \in Trail(r, z) : Leaves(z, e.type, e.status)
             /\ \A type, s : Leaves(z, type, s) => \E e \in Trail(r, z) : e.type = type /\ e.status = s
  BY <1>2, TrailIs
<1> HIDE DEF left
<1>5. ASSUME NEW d \in tools
      PROVE  /\ d.type \in {"policy_decision", "tool_execution", "verification_outcome"} /\ d.approval = None
             /\ d.status \in ToolSigns(ran[r]) \cup {"success", "require_approval"}
             /\ d.status = "require_approval" => \E x \in ran[r] : x.policy = "require_approval"
  <2>1. PICK e \in left : d = ToolRow(e)
    OBVIOUS
  <2>2. PICK z \in ran[r] : e \in Trail(r, z)
    BY <1>2
  <2>3. d.type = e.type /\ d.approval = None /\ d.status = e.status
    BY <1>1, <2>1, Zenon
  <2>4. Leaves(z, e.type, e.status) /\ z \in ToolCalls
    BY <1>2, <1>3, <2>2
  <2>5. /\ e.type \in {"policy_decision", "tool_execution", "verification_outcome"}
        /\ e.status \in {"denied", "require_approval", "error", "success"} \cup Verifications
        /\ e.status = "error" => z.end = "failed"
        /\ e.status = "denied" => z.policy = "denied" \/ z.end = "denied after"
        /\ e.status = "require_approval" => z.policy = "require_approval"
        /\ e.status \in Verifications => z.end = e.status
    BY <2>4, RowsSay
  <2> QED BY <2>2, <2>3, <2>5 DEF ToolSigns
<1>6. ASSUME NEW z \in ran[r], NEW type, NEW s, Leaves(z, type, s)
      PROVE  \E d \in tools : d.status = s
  <2>1. PICK e \in Trail(r, z) : e.status = s
    BY <1>3, <1>6
  <2>2. e \in left /\ ToolRow(e) \in tools
    BY <1>2, <2>1
  <2>3. ToolRow(e).status = s
    BY <1>1, <2>1, Zenon
  <2> QED BY <2>2, <2>3, Zenon
<1>7. ASSUME NEW s \in ToolSigns(ran[r]) PROVE \E d \in tools : d.status = s
  <2>1. PICK z \in ran[r] : \/ s = "error" /\ z.end = "failed"
                            \/ s = "denied" /\ (z.policy = "denied" \/ z.end = "denied after")
                            \/ s \in Verifications /\ z.end = s
    BY DEF ToolSigns
  <2>2. \/ Leaves(z, "tool_execution", s) \/ Leaves(z, "policy_decision", s)
        \/ Leaves(z, "verification_outcome", s)
    BY <2>1 DEF Leaves, None
  <2> QED BY <1>6, <2>2
<1>8. (\E x \in ran[r] : x.policy = "require_approval") => \E d \in tools : d.status = "require_approval"
  <2> SUFFICES ASSUME NEW x \in ran[r], x.policy = "require_approval"
               PROVE  \E d \in tools : d.status = "require_approval"
    OBVIOUS
  <2>1. Leaves(x, "policy_decision", "require_approval")
    BY DEF Leaves
  <2> QED BY <1>6, <2>1
<1> QED BY <1>5, <1>7, <1>8 DEF left

\* The rows of a query that was passed to the agent and is over.
LEMMA QueryRows ==
    ASSUME Inv, NEW r \in Undisturbed, req[r].kind = "query", req[r].agent # None
    PROVE  LET own == {IF req[r].code = "200" THEN "success" ELSE "error"}
                      \cup (IF req[r].flagged THEN {"unverified_claim"} ELSE {})
               told == {e.status : e \in RowsOf(r)} \ {"verified", "require_approval"}
           IN  /\ \A e \in RowsOf(r) : e.type # "tool_retry" /\ e.approval # "approved"
               /\ \E e \in RowsOf(r) : Anchor(e)
               /\ HasMismatch(RowsOf(r)) <=> req[r].flagged
               /\ own \cup ToolSigns(ran[r]) \subseteq told
               /\ told \subseteq own \cup ToolSigns(ran[r]) \cup {"success"}
               /\ (\E e \in RowsOf(r) : e.status = "require_approval")
                    <=> \E x \in ran[r] : x.policy = "require_approval"
<1> DEFINE rows == RowsOf(r)
<1> DEFINE mine == {RecordRow(r, m) : m \in RecordsOf(r, records)}
<1> DEFINE tools == {ToolRow(e) : e \in {e \in events : e.trace = r}}
<1> DEFINE check == [request |-> r, status |-> VerificationStatus(req[r].flagged), code |-> None]
<1> DEFINE success == [request |-> r, status |-> "success", code |-> "200"]
<1> DEFINE failure == [request |-> r, status |-> "error", code |-> "502"]
<1> DEFINE signs == ToolSigns(ran[r])
<1> DEFINE asked == \E x \in ran[r] : x.policy = "require_approval"
<1>1. r \in Requests /\ r \notin shared /\ r \notin unheard /\ req[r].pc = "done"
  BY DEF Undisturbed
<1>2. ReqOK(req[r], ran[r]) /\ RecOK(r, req[r], records, unheard) /\ req[r] \in RequestStates
  BY <1>1, Types
<1>3. req[r].code \in {"200", "502"} /\ (req[r].code # "200" => ~req[r].flagged) /\ req[r].kind \notin Direct
  BY <1>1, <1>2 DEF ReqOK, CodeOK, Direct
<1>4. RecordsOf(r, records) = IF req[r].code = "200" THEN {check, success} ELSE {failure}
  BY <1>1, <1>2 DEF RecOK, QueryRecords
<1>5. /\ check.status = VerificationStatus(req[r].flagged) /\ check.code = None
      /\ success.status = "success" /\ success.code = "200"
      /\ failure.status = "error" /\ failure.code = "502" /\ None \notin {"200", "502", "approved"}
  BY Zenon DEF None
<1>6. VerificationStatus(req[r].flagged) = IF req[r].flagged THEN "unverified_claim" ELSE "verified"
  BY Zenon DEF VerificationStatus
<1> HIDE DEF check, success, failure
<1>7. rows = mine \cup tools
  BY RowsAre
<1>8. mine = IF req[r].code = "200" THEN {RecordRow(r, check), RecordRow(r, success)} ELSE {RecordRow(r, failure)}
  BY <1>4
<1>9. /\ RecordRow(r, check).type = "delegation_verification"
      /\ RecordRow(r, check).status = (IF req[r].flagged THEN "unverified_claim" ELSE "verified")
      /\ RecordRow(r, check).approval = None
      /\ RecordRow(r, success).type = "gateway_request" /\ RecordRow(r, success).status = "success"
      /\ RecordRow(r, success).approval = None
      /\ RecordRow(r, failure).type = "gateway_request" /\ RecordRow(r, failure).status = "error"
      /\ RecordRow(r, failure).approval = None
  <2>1. \A m : /\ RecordRow(r, m).type = IF m.code = None THEN "delegation_verification" ELSE "gateway_request"
               /\ RecordRow(r, m).status = m.status /\ RecordRow(r, m).approval = None
    BY Zenon DEF RecordRow
  <2> QED BY <1>5, <1>6, <2>1
<1>10. Anchor(RecordRow(r, success)) /\ Anchor(RecordRow(r, failure))
  <2>1. \A m : RecordRow(r, m).tool = (req[r].kind \in Direct)
    BY RowsAre, Zenon
  <2>2. ~RecordRow(r, success).tool /\ ~RecordRow(r, failure).tool
    BY <1>3, <2>1, Zenon
  <2> QED BY <1>9, <2>2 DEF Anchor
<1>11. req[r].kind # "job"
  OBVIOUS
<1>12. /\ \A d \in tools :
            /\ d.type \in {"policy_decision", "tool_execution", "verification_outcome"} /\ d.approval = None
            /\ d.status \in signs \cup {"success", "require_approval"}
       /\ \A s \in signs : \E d \in tools : d.status = s
       /\ (\E d \in tools : d.status = "require_approval") <=> asked
  BY <1>1, <1>11, ToolRows
<1>13. signs \cap {"verified", "require_approval", "unverified_claim", "success"} = {}
  BY DEF ToolSigns, Verifications
<1>14. HasMismatch(rows) <=> \E e \in rows : e.type = "delegation_verification" /\ e.status = "unverified_claim"
  BY Zenon DEF HasMismatch, VerificationStatus
<1> DEFINE own == {IF req[r].code = "200" THEN "success" ELSE "error"}
                  \cup (IF req[r].flagged THEN {"unverified_claim"} ELSE {})
<1> DEFINE told == {e.status : e \in rows} \ {"verified", "require_approval"}
<1> HIDE DEF mine, tools, rows, signs, asked
<1>15. /\ \A e \in rows : e.type # "tool_retry" /\ e.approval # "approved"
       /\ \E e \in rows : Anchor(e)
       /\ HasMismatch(rows) <=> req[r].flagged
       /\ own \cup signs \subseteq told
       /\ told \subseteq own \cup signs \cup {"success"}
       /\ (\E e \in rows : e.status = "require_approval") <=> asked
  <2>1. CASE req[r].code = "200"
    <3> DEFINE c == RecordRow(r, check)
    <3> DEFINE s == RecordRow(r, success)
    <3>1. rows = {c, s} \cup tools
      BY <1>7, <1>8, <2>1
    <3>2. /\ c.type = "delegation_verification" /\ c.approval = None
          /\ c.status = (IF req[r].flagged THEN "unverified_claim" ELSE "verified")
          /\ s.type = "gateway_request" /\ s.status = "success" /\ s.approval = None /\ Anchor(s)
      BY <1>9, <1>10
    <3> HIDE DEF c, s
    <3>3. \A e \in rows : e.type # "tool_retry" /\ e.approval # "approved"
      BY <1>5, <1>12, <3>1, <3>2
    <3>4. HasMismatch(rows) <=> req[r].flagged
      BY <1>12, <1>14, <3>1, <3>2
    <3>5. own = {"success"} \cup (IF req[r].flagged THEN {"unverified_claim"} ELSE {})
      BY <2>1
    <3> HIDE DEF own
    <3>6. own \subseteq told
      BY <3>1, <3>2, <3>5
    <3>7. signs \subseteq told
      BY <1>12, <1>13, <3>1
    <3>8. told \subseteq own \cup signs \cup {"success"}
      BY <1>12, <3>1, <3>2, <3>5
    <3>9. (\E e \in rows : e.status = "require_approval") <=> asked
      BY <1>12, <3>1, <3>2
    <3> QED BY <3>1, <3>2, <3>3, <3>4, <3>6, <3>7, <3>8, <3>9
  <2>2. CASE req[r].code # "200"
    <3> DEFINE f == RecordRow(r, failure)
    <3>1. rows = {f} \cup tools /\ ~req[r].flagged
      BY <1>3, <1>7, <1>8, <2>2
    <3>2. f.type = "gateway_request" /\ f.approval = None /\ f.status = "error" /\ Anchor(f)
      BY <1>9, <1>10
    <3> HIDE DEF f
    <3>3. \A e \in rows : e.type # "tool_retry" /\ e.approval # "approved"
      BY <1>5, <1>12, <3>1, <3>2
    <3>4. HasMismatch(rows) <=> req[r].flagged
      BY <1>12, <1>14, <3>1, <3>2
    <3>5. own = {"error"}
      BY <2>2, <3>1
    <3> HIDE DEF own
    <3>6. own \subseteq told
      BY <3>1, <3>2, <3>5
    <3>7. signs \subseteq told
      BY <1>12, <1>13, <3>1
    <3>8. told \subseteq own \cup signs \cup {"success"}
      BY <1>12, <3>1, <3>2, <3>5
    <3>9. (\E e \in rows : e.status = "require_approval") <=> asked
      BY <1>12, <3>1, <3>2
    <3> QED BY <3>1, <3>2, <3>3, <3>4, <3>6, <3>7, <3>8, <3>9
  <2> QED BY <2>1, <2>2
<1> QED BY <1>15 DEF rows, signs, asked

\* A journey tells the worst that happened to a query and its tools: a mismatch, an error,
\* a denial, a failed verification or an approval that was asked for (QueryJourneys,
\* outcomePriority), with the exceptions JourneysTell names.
THEOREM JourneysHonest ==
    Spec => []JourneysTell
<1>1. ASSUME Inv, NEW r \in Undisturbed, req[r].kind = "query", req[r].agent # None
      PROVE  LET journey == JourneyOf(RowsOf(r))
             IN  /\ journey.listed
                 /\ journey.mismatch <=> req[r].flagged
                 /\ journey.outcome \in Happened(r)
                 /\ \A s \in Happened(r) : Rank[s] <= Rank[journey.outcome]
  <2> DEFINE rows == RowsOf(r)
  <2> DEFINE own == {IF req[r].code = "200" THEN "success" ELSE "error"}
                    \cup (IF req[r].flagged THEN {"unverified_claim"} ELSE {})
  <2> DEFINE signs == ToolSigns(ran[r])
  <2> DEFINE told == {e.status : e \in rows} \ {"verified", "require_approval"}
  <2> DEFINE asked == \E x \in ran[r] : x.policy = "require_approval"
  <2> DEFINE approvals == IF asked THEN {"approved"} ELSE {}
  <2> DEFINE o == JourneyOf(rows).outcome
  <2>1. /\ \A e \in rows : e.type # "tool_retry" /\ e.approval # "approved"
        /\ \E e \in rows : Anchor(e)
        /\ HasMismatch(rows) <=> req[r].flagged
        /\ own \cup signs \subseteq told
        /\ told \subseteq own \cup signs \cup {"success"}
        /\ (\E e \in rows : e.status = "require_approval") <=> asked
    BY <1>1, QueryRows
  <2>2. Happened(r) = own \cup signs \cup approvals
    <3>1. /\ "failed" \in {x.end : x \in ran[r]} <=> \E x \in ran[r] : x.end = "failed"
          /\ "denied after" \in {x.end : x \in ran[r]} <=> \E x \in ran[r] : x.end = "denied after"
          /\ "denied" \in {x.policy : x \in ran[r]} <=> \E x \in ran[r] : x.policy = "denied"
          /\ "require_approval" \in {x.policy : x \in ran[r]} <=> asked
          /\ {x.end : x \in ran[r]} \cap Verifications = {v \in Verifications : \E x \in ran[r] : x.end = v}
      OBVIOUS
    <3> QED BY <3>1 DEF Happened, ToolSigns
  <2>3. own \cup signs \subseteq Told /\ (own = {"success"} \/ \E s \in own : Rank[s] > 3)
    <3>1. own \subseteq {"success", "error", "unverified_claim"}
          /\ (own = {"success"} \/ "error" \in own \/ "unverified_claim" \in own)
      OBVIOUS
    <3>2. signs \subseteq {"error", "denied"} \cup Verifications
      BY DEF ToolSigns
    <3>3. Rank["error"] > 3 /\ Rank["unverified_claim"] > 3
      BY Priorities DEF Told
    <3> HIDE DEF own, signs
    <3> QED BY <3>1, <3>2, <3>3 DEF Told
  <2>4. own # {} /\ {"success"} \subseteq Told
    BY DEF Told
  <2> HIDE DEF rows, own, signs, asked
  <2>5. /\ told \in SUBSET Told /\ told # {} /\ asked \in BOOLEAN
        /\ \A e \in rows : e.status \in told \cup {"verified", "require_approval"}
        /\ \A s \in told : \E e \in rows : e.status = s
    <3>1. told \in SUBSET Told /\ told # {}
      BY <2>1, <2>3, <2>4
    <3>2. asked \in BOOLEAN
      BY DEF asked
    <3>3. \A e \in rows : e.status \in told \cup {"verified", "require_approval"}
      OBVIOUS
    <3>4. \A s \in told : \E e \in rows : e.status = s
      OBVIOUS
    <3> QED BY <3>1, <3>2, <3>3, <3>4
  <2> HIDE DEF told
  <2>6. /\ JourneyOf(rows).listed /\ JourneyOf(rows).mismatch = HasMismatch(rows)
        /\ o \in told \cup approvals
        /\ \A s \in told \cup approvals : Rank[s] <= Rank[o]
    BY <2>1, <2>5, JourneyIs
  <2> HIDE DEF o, approvals
  <2>7. o \in own \cup signs \cup approvals
    <3>1. SUFFICES ASSUME o = "success" PROVE "success" \in own
      BY <2>1, <2>6
    <3>2. Rank["success"] = 1 /\ \A s \in own : Rank[s] \in 1..9
      BY <2>3, Priorities
    <3>3. \A s \in own : Rank[s] <= 1
      BY <2>1, <2>6, <3>1, <3>2
    <3> QED BY <2>3, <3>2, <3>3
  <2>8. \A s \in own \cup signs \cup approvals : Rank[s] <= Rank[o]
    BY <2>1, <2>6
  <2>9. JourneyOf(rows).mismatch <=> req[r].flagged
    BY <2>1, <2>6
  <2> QED BY <2>2, <2>6, <2>7, <2>8, <2>9 DEF rows, o
<1>2. Inv => JourneysTell
  BY <1>1 DEF JourneysTell
<1> QED BY <1>2, Invariance, PTL
=============================================================================
