-------------------------- MODULE PlaybookRunsProofs --------------------------
(***************************************************************************)
(* Proofs about PlaybookRuns, for any playbooks, answers, requests and     *)
(* number of handlers: which playbooks a chain may run, and that a gate is *)
(* decided once; and about PlaybookSteps, for any number of proposals and  *)
(* handlers: that a step is executed once, and is the one that was shown.  *)
(*                                                                         *)
(* Nothing locks a row of playbook_runs. What stands in for a lock is that *)
(* a run has at most one writer: the handler that started it, until it     *)
(* hands its PATCH to the background, then that PATCH, and after it has    *)
(* landed only handlers that resolve the gate. The parts of the invariant  *)
(* take the state as parameters, so that a step that leaves it alone       *)
(* leaves them alone.                                                      *)
(***************************************************************************)
EXTENDS PlaybookRuns, PlaybookSteps, TLAPS

-----------------------------------------------------------------------------
(* The inductive invariant. *)

\* The handler will complete the run; it is about to start the remediation of the run;
\* it found the gate of the run pending.
Owner(x, r) == x.primary = r \/ (x.pc = "agent" /\ x.prev = r)
Starter(x, r) == x.pc = "start" /\ x.depth = 0 /\ x.from = r
Holder(x, r) == x.pc = "checked" /\ x.from = r

\* What a run is completed with, other than by resolving its gate.
FinalOutcomes == Outcomes \ {"absent", "abandoned"}
Early == {"absent", "unknown"}

\* What a chain beyond its first playbook went by.
Authorised(x) ==
    /\ ~x.gate /\ ~x.ans.low /\ x.ans.findings # "monitor"
    /\ Playbook[x.series].approval_mode \in {"", "manual"} => x.mode = "force"

HandlerOK(x) ==
    /\ x \in HandlerStates
    /\ x.pc \in {"idle", "checked"} => x.primary = NoRun /\ x.depth = 0
    /\ x.pc = "checked" =>
         /\ x.from # NoRun /\ x.resolution \in {"approved", "denied"}
         /\ x.resolution = "approved" => x.series \in Series
    /\ x.pc \in {"start", "agent", "route"} => x.series \in Series
    /\ x.pc = "start" =>
         /\ x.depth < MaxChainDepth
         /\ x.depth = 0 => x.primary = NoRun
         /\ x.depth > 0 => Authorised(x)
    /\ x.pc \in {"agent", "route"} =>
         /\ x.depth > 0
         /\ x.depth = 1 => x.prev = x.primary
    /\ x.pc = "agent" /\ x.depth > 1 /\ x.prev # NoRun => x.prev # x.primary
    /\ x.pc = "route" => x.final.outcome \in FinalOutcomes
    /\ x.restricted => x.first \in Series
         /\ approvalModeRank[x.mode] <= approvalModeRank[Playbook[x.first].approval_mode]

\* A run has one writer at a time; the ones before the gate see it "unknown".
RunsOK(rw, hs, ps) ==
    /\ \A t, u \in Handlers : \A r \in RunIds : Owner(hs[t], r) /\ Owner(hs[u], r) => t = u
    /\ \A t \in Handlers : \A r \in RunIds : Owner(hs[t], r) =>
         rw[r].outcome = "unknown" /\ \A p \in ps : p.run # r
    /\ \A p \in ps : rw[p.run].outcome = "unknown" /\ p.row.outcome \in FinalOutcomes
    /\ \A p, q \in ps : p.run = q.run => p = q
    /\ \A t \in Handlers : \A r \in RunIds : Holder(hs[t], r) \/ Starter(hs[t], r) =>
         rw[r].outcome \notin Early

\* A run whose gate was not raced for: o is its outcome, n its remediations, v the
\* verdict on it, d whether it was denied.
GateOK(r, o, hs, n, v, d) ==
    /\ n <= 1
    /\ \A t, u \in Handlers : Starter(hs[t], r) /\ Starter(hs[u], r) => t = u
    /\ \A t \in Handlers : Starter(hs[t], r) => n = 0 /\ ~d
    /\ d => n = 0
    /\ o \in Early \cup {"gate_pending"} =>
         n = 0 /\ ~d /\ v = None /\ \A t \in Handlers : ~Starter(hs[t], r)
    /\ \A t \in Handlers : Holder(hs[t], r) => o = "gate_pending"
    /\ o = "abandoned" => d /\ v # "correct"

\* An announced gate of a first run: its PATCH is under way or has landed.
AnnouncedOK(rw, ps, r, ap, dn) ==
    \/ \E p \in ps : p.run = r /\ p.row.outcome = "gate_pending"
    \/ /\ rw[r].outcome \in {"gate_pending", "escalated", "transitioned", "abandoned"}
       /\ rw[r].outcome \in {"escalated", "transitioned"} => r \in ap
       /\ rw[r].outcome = "abandoned" => r \in dn

Inv ==
    /\ TypeOK
    /\ \A t \in Handlers : HandlerOK(h[t])
    /\ RunsOK(row, h, patches)
    /\ \A r \in RunIds \ raced : GateOK(r, row[r].outcome, h, remedied[r], feedback[r], r \in denied)
    /\ \A n \in notified : n.depth = 1 => AnnouncedOK(row, patches, n.run, approved, denied)

-----------------------------------------------------------------------------
(* Facts about the operators. *)

\* NoRun names no run.
LEMMA NoRunIsNone == NoRun \notin RunIds
BY ConstantsAssumption DEF NoRun

\* The order of the modes, and that a caller without the override roles is held to the
\* playbook's.
LEMMA ModeIs ==
    ASSUME NEW m \in Modes, NEW pb \in Playbooks, NEW restricted \in BOOLEAN
    PROVE  /\ EffectiveMode(m, pb, restricted) \in Modes
           /\ restricted => approvalModeRank[EffectiveMode(m, pb, restricted)]
                              <= approvalModeRank[pb.approval_mode]
<1> DEFINE q == IF m = "" THEN pb.approval_mode ELSE m
<1>1. pb.approval_mode \in Modes /\ q \in Modes
  BY DEF Playbooks
<1>2. ASSUME NEW x \in Modes PROVE approvalModeRank[x] \in Int
  <2>1. approvalModeRank[x] = CASE x \in {"", "manual"} -> 0 [] x = "review" -> 1 [] x = "session" -> 2
                                [] x = "auto" -> 3 [] x = "force" -> 4
    BY DEF approvalModeRank
  <2>2. x = "" \/ x = "manual" \/ x = "review" \/ x = "session" \/ x = "auto" \/ x = "force"
    BY DEF Modes
  <2>3. approvalModeRank[x] \in {0, 1, 2, 3, 4}
    BY <2>1, <2>2, Zenon
  <2> QED BY <2>3
<1>3. EffectiveMode(m, pb, restricted) =
        IF restricted /\ approvalModeRank[q] > approvalModeRank[pb.approval_mode]
        THEN pb.approval_mode ELSE q
  BY DEF EffectiveMode, enforceApprovalOverride
<1> HIDE DEF q
<1> QED BY <1>1, <1>2, <1>3

\* The answer that is left when undeclared targets were coerced.
LEMMA CoercedType ==
    ASSUME NEW a \in AgentAnswers, NEW pb
    PROVE  Coerced(a, pb) \in AgentAnswers
<1> DEFINE t1 == isAllowedNextPlaybook(a.trans, pb.transitions_to)
<1> DEFINE trans == IF t1 THEN a.trans ELSE None
<1> DEFINE esc1 == IF t1 THEN a.esc ELSE Terminal
<1> DEFINE esc == IF isAllowedNextPlaybook(esc1, pb.escalates_to) THEN esc1 ELSE Terminal
<1>1. Terminal \in Targets /\ a.trans \in Targets \cup {None} /\ a.esc \in Targets \cup {None}
  BY DEF AgentAnswers, Targets
<1>2. trans \in Targets \cup {None} /\ esc1 \in Targets \cup {None}
  BY <1>1
<1>3. esc \in Targets \cup {None}
  BY <1>1, <1>2
<1>4. Coerced(a, pb) = [a EXCEPT !.trans = trans, !.esc = IF trans # None THEN None ELSE esc]
  BY DEF Coerced
<1> HIDE DEF t1, trans, esc1, esc
<1> QED BY <1>2, <1>3, <1>4 DEF AgentAnswers

\* A run is never completed as absent or abandoned.
LEMMA OutcomeFinal ==
    ASSUME NEW a
    PROVE  Outcome(a) \in FinalOutcomes
BY DEF Outcome, FinalOutcomes, Outcomes

\* A handler with nothing to do owns nothing.
LEMMA IdleOK ==
    /\ HandlerOK(Idle)
    /\ \A r \in RunIds : ~Owner(Idle, r) /\ ~Starter(Idle, r) /\ ~Holder(Idle, r)
<1>1. Silent \in AgentAnswers /\ NoRow \in Rows
  BY DEF Silent, AgentAnswers, NoRow, Rows, Outcomes
<1>2. 0 \in 0..MaxChainDepth
  BY ConstantsAssumption
<1>3. Idle \in HandlerStates
  BY <1>1, <1>2 DEF Idle, HandlerStates, Modes
<1>4. Idle.pc = "idle" /\ Idle.primary = NoRun /\ Idle.depth = 0 /\ Idle.restricted = FALSE
  BY DEF Idle
<1>5. HandlerOK(Idle)
  BY <1>3, <1>4 DEF HandlerOK
<1> QED BY <1>4, <1>5, NoRunIsNone DEF Owner, Starter, Holder

\* What a handler's record holds.
LEMMA HandlerTypes ==
    ASSUME NEW x, HandlerOK(x)
    PROVE  /\ x \in HandlerStates /\ x.pc \in {"idle", "start", "agent", "route", "checked"}
           /\ x.mode \in Modes /\ x.restricted \in BOOLEAN /\ x.gate \in BOOLEAN
           /\ x.rem \in Targets \cup {None} /\ x.depth \in 0..MaxChainDepth
           /\ x.primary \in RunIds \cup {NoRun} /\ x.prev \in RunIds \cup {NoRun}
           /\ x.from \in RunIds \cup {NoRun} /\ x.ans \in AgentAnswers /\ x.final \in Rows
BY DEF HandlerOK, HandlerStates

-----------------------------------------------------------------------------
(* Steps of a handler before the gate. *)

\* A step of one handler that hands the PATCH of a run it owns to the background, or none,
\* and announces a gate, or none.
LEMMA StepInv ==
    ASSUME Inv, NEW t \in Handlers, NEW y, h' = [h EXCEPT ![t] = y], HandlerOK(y),
           NEW ps \in SUBSET Patches, patches' = patches \cup ps,
           \A p, q \in ps : p = q,
           \A p \in ps : Owner(h[t], p.run) /\ ~Owner(y, p.run) /\ p.row.outcome \in FinalOutcomes,
           \A r \in RunIds : Owner(y, r) => Owner(h[t], r),
           \A r \in RunIds : ~Starter(y, r) /\ (Holder(y, r) => row[r].outcome = "gate_pending"),
           notified' \subseteq [run : RunIds, depth : 1..MaxChainDepth],
           \A n \in notified' : n.depth = 1 => n \in notified
              \/ \E p \in ps : p.run = n.run /\ p.row.outcome = "gate_pending",
           UNCHANGED <<crystalBall, row, feedback, session, approved, remedied, denied, raced>>
    PROVE  Inv'
<1>1. h \in [Handlers -> HandlerStates] /\ \A u \in Handlers : h'[u] = IF u = t THEN y ELSE h[u]
  BY DEF Inv, TypeOK
<1>2. \A p \in ps : p.run \in RunIds
  BY DEF Patches
<1>3. TypeOK'
  BY DEF Inv, TypeOK, HandlerOK
<1>4. \A u \in Handlers : HandlerOK(h'[u])
  BY <1>1 DEF Inv
<1>5. RunsOK(row, h, patches)
  BY DEF Inv
<1>6. \A u \in Handlers, r \in RunIds :
        /\ Owner(h'[u], r) => Owner(h[u], r)
        /\ Starter(h'[u], r) => Starter(h[u], r) /\ u # t
        /\ Holder(h'[u], r) => Holder(h[u], r) \/ row[r].outcome = "gate_pending"
  BY <1>1
<1>7. RunsOK(row, h', patches')
  <2>1. ASSUME NEW u \in Handlers, NEW v \in Handlers, NEW r \in RunIds, Owner(h'[u], r), Owner(h'[v], r)
        PROVE  u = v
    BY <1>5, <1>6, <2>1 DEF RunsOK
  <2>2. ASSUME NEW u \in Handlers, NEW r \in RunIds, Owner(h'[u], r)
        PROVE  row[r].outcome = "unknown" /\ \A p \in patches' : p.run # r
    <3>1. row[r].outcome = "unknown" /\ \A p \in patches : p.run # r
      BY <1>5, <1>6, <2>2 DEF RunsOK
    <3>2. ASSUME NEW p \in ps, p.run = r PROVE FALSE
      <4>1. Owner(h[t], r) /\ ~Owner(y, r)
        BY <3>2
      <4>2. u = t
        BY <1>5, <1>6, <2>2, <4>1 DEF RunsOK
      <4> QED BY <1>1, <2>2, <4>1, <4>2
    <3> QED BY <3>1, <3>2
  <2>3. ASSUME NEW p \in patches'
        PROVE  row[p.run].outcome = "unknown" /\ p.row.outcome \in FinalOutcomes
    BY <1>2, <1>5 DEF RunsOK
  <2>4. ASSUME NEW p \in patches', NEW q \in patches', p.run = q.run
        PROVE  p = q
    BY <1>2, <1>5, <2>4 DEF RunsOK
  <2>5. ASSUME NEW u \in Handlers, NEW r \in RunIds, Holder(h'[u], r) \/ Starter(h'[u], r)
        PROVE  row[r].outcome \notin Early
    BY <1>5, <1>6, <2>5 DEF RunsOK, Early
  <2> QED BY <2>1, <2>2, <2>3, <2>4, <2>5 DEF RunsOK
<1>8. ASSUME NEW r \in RunIds \ raced
      PROVE  GateOK(r, row[r].outcome, h', remedied[r], feedback[r], r \in denied)
  <2>1. GateOK(r, row[r].outcome, h, remedied[r], feedback[r], r \in denied)
    BY DEF Inv
  <2> QED BY <1>6, <2>1 DEF GateOK
<1>9. ASSUME NEW n \in notified', n.depth = 1
      PROVE  AnnouncedOK(row, patches', n.run, approved, denied)
  <2>1. n \in notified => AnnouncedOK(row, patches, n.run, approved, denied)
    BY <1>9 DEF Inv
  <2> QED BY <1>9, <2>1 DEF AnnouncedOK
<1> QED BY <1>3, <1>4, <1>7, <1>8, <1>9 DEF Inv

\* handlePlaybookRun: a handler takes a request.
LEMMA RunRequestInv ==
    ASSUME Inv, NEW t \in Handlers, handlePlaybookRun(t)
    PROVE  Inv'
<1>1. PICK q \in Requests, restricted \in BOOLEAN :
        h' = [h EXCEPT ![t] = [Idle EXCEPT
                !.pc = "start", !.series = q.series, !.first = q.series,
                !.mode = EffectiveMode(q.mode, Playbook[q.series], restricted),
                !.restricted = restricted, !.gate = q.gate, !.rem = q.rem]]
  BY DEF handlePlaybookRun
<1> DEFINE m == EffectiveMode(q.mode, Playbook[q.series], restricted)
<1> DEFINE y == [Idle EXCEPT !.pc = "start", !.series = q.series, !.first = q.series, !.mode = m,
                             !.restricted = restricted, !.gate = q.gate, !.rem = q.rem]
<1>2. q.series \in Series /\ q.mode \in Modes /\ q.gate \in BOOLEAN /\ q.rem \in Targets \cup {None}
  BY ConstantsAssumption DEF RunRequests
<1>3. Playbook[q.series] \in Playbooks
  BY <1>2, ConstantsAssumption
<1>4. m \in Modes
      /\ (restricted => approvalModeRank[m] <= approvalModeRank[Playbook[q.series].approval_mode])
  BY <1>2, <1>3, ModeIs
<1> HIDE DEF m
<1>5. Idle \in HandlerStates
  BY IdleOK DEF HandlerOK
<1>6. y \in HandlerStates
  BY <1>2, <1>4, <1>5 DEF HandlerStates
<1>7. /\ y.pc = "start" /\ y.series = q.series /\ y.first = q.series /\ y.mode = m
      /\ y.restricted = restricted /\ y.depth = 0 /\ y.primary = NoRun /\ y.from = NoRun
  BY DEF Idle
<1>8. h' = [h EXCEPT ![t] = y]
  BY <1>1 DEF m
<1> HIDE DEF y
<1>9. MaxChainDepth > 0
  BY ConstantsAssumption
<1>10. HandlerOK(y)
  BY <1>2, <1>4, <1>6, <1>7, <1>9 DEF HandlerOK
<1>11. \A r \in RunIds : ~Owner(y, r) /\ ~Starter(y, r) /\ ~Holder(y, r)
  BY <1>7, NoRunIsNone DEF Owner, Starter, Holder
<1>12. notified \subseteq [run : RunIds, depth : 1..MaxChainDepth]
  BY DEF Inv, TypeOK
<1>13. UNCHANGED <<crystalBall, row, patches, feedback, session, notified, approved, remedied, denied, raced>>
  BY DEF handlePlaybookRun, history
<1>14. patches' = patches \cup {} /\ {} \in SUBSET Patches
  BY <1>13
<1> QED BY <1>8, <1>10, <1>11, <1>12, <1>13, <1>14, StepInv

\* handleProceedEscalation reads a pending gate.
LEMMA CheckGateInv ==
    ASSUME Inv, NEW t \in Handlers, checkGate(t)
    PROVE  Inv'
<1>1. UNCHANGED <<crystalBall, row, patches, feedback, session, notified, approved, remedied, denied, raced>>
  BY DEF checkGate, history
<1>2. notified \subseteq [run : RunIds, depth : 1..MaxChainDepth]
  BY DEF Inv, TypeOK
<1>3. patches' = patches \cup {} /\ {} \in SUBSET Patches
  BY <1>1
<1>4. ASSUME NEW r \in RunIds, row[r].outcome = "gate_pending", NEW y, h' = [h EXCEPT ![t] = y],
             y \in HandlerStates, y.pc = "checked", y.primary = NoRun, y.depth = 0, y.from = r,
             y.resolution = "approved" \/ y.resolution = "denied",
             y.resolution = "approved" => y.series \in Series,
             y.restricted => y.first \in Series
               /\ approvalModeRank[y.mode] <= approvalModeRank[Playbook[y.first].approval_mode]
      PROVE  Inv'
  <2>1. HandlerOK(y)
    BY <1>4, NoRunIsNone DEF HandlerOK
  <2>2. \A s \in RunIds : ~Owner(y, s) /\ ~Starter(y, s) /\ (Holder(y, s) => row[s].outcome = "gate_pending")
    BY <1>4, NoRunIsNone DEF Owner, Starter, Holder
  <2> QED BY <1>1, <1>2, <1>3, <1>4, <2>1, <2>2, StepInv
<1>5. PICK r \in RunIds :
        /\ IsPending(r)
        /\ \/ h' = [h EXCEPT ![t] = [Idle EXCEPT !.pc = "checked", !.from = r,
                                                 !.resolution = "denied"]]
           \/ \E m \in {""} \cup {q.mode : q \in Requests}, restricted \in BOOLEAN,
                 verdict \in Verdicts :
                LET next == NextSeries(row[r]) IN
                /\ next \in Series
                /\ h' = [h EXCEPT ![t] = [Idle EXCEPT
                      !.pc = "checked", !.from = r, !.resolution = "approved",
                      !.verdict = verdict, !.final = row[r], !.series = next, !.first = next,
                      !.mode = EffectiveMode(m, Playbook[next], restricted),
                      !.restricted = restricted]]
  BY DEF checkGate
<1>6. row[r].outcome = "gate_pending" /\ row[r] \in Rows
  BY <1>5 DEF IsPending, Inv, TypeOK
<1>7. Idle \in HandlerStates
  BY IdleOK DEF HandlerOK
<1>8. CASE h' = [h EXCEPT ![t] = [Idle EXCEPT !.pc = "checked", !.from = r, !.resolution = "denied"]]
  <2> DEFINE y == [Idle EXCEPT !.pc = "checked", !.from = r, !.resolution = "denied"]
  <2>1. y \in HandlerStates
    BY <1>7 DEF HandlerStates
  <2>2. y.pc = "checked" /\ y.primary = NoRun /\ y.depth = 0 /\ y.from = r /\ y.resolution = "denied"
        /\ y.restricted = FALSE
    BY DEF Idle
  <2>3. h' = [h EXCEPT ![t] = y]
    BY <1>8
  <2> HIDE DEF y
  <2> QED BY <1>4, <1>6, <2>1, <2>2, <2>3
<1>9. ASSUME NEW next \in Series, NEW m \in {""} \cup {q.mode : q \in Requests},
             NEW restricted \in BOOLEAN, NEW verdict \in Verdicts,
             h' = [h EXCEPT ![t] = [Idle EXCEPT
                    !.pc = "checked", !.from = r, !.resolution = "approved",
                    !.verdict = verdict, !.final = row[r], !.series = next, !.first = next,
                    !.mode = EffectiveMode(m, Playbook[next], restricted),
                    !.restricted = restricted]]
      PROVE  Inv'
  <2> DEFINE e == EffectiveMode(m, Playbook[next], restricted)
  <2> DEFINE y == [Idle EXCEPT !.pc = "checked", !.from = r, !.resolution = "approved",
                     !.verdict = verdict, !.final = row[r], !.series = next, !.first = next,
                     !.mode = e, !.restricted = restricted]
  <2>1. m \in Modes
    <3>1. \A q \in Requests : q.mode \in Modes
      BY ConstantsAssumption DEF RunRequests
    <3> QED BY <3>1 DEF Modes
  <2>2. Playbook[next] \in Playbooks
    BY ConstantsAssumption
  <2>3. e \in Modes /\ (restricted => approvalModeRank[e] <= approvalModeRank[Playbook[next].approval_mode])
    BY <2>1, <2>2, ModeIs
  <2> HIDE DEF e
  <2>4. y \in HandlerStates
    BY <1>6, <1>7, <2>3 DEF HandlerStates, Verdicts
  <2>5. /\ y.pc = "checked" /\ y.primary = NoRun /\ y.depth = 0 /\ y.from = r /\ y.resolution = "approved"
        /\ y.restricted = restricted /\ y.series = next /\ y.first = next /\ y.mode = e
    BY DEF Idle
  <2>6. h' = [h EXCEPT ![t] = y]
    BY <1>9 DEF e
  <2> HIDE DEF y
  <2> QED BY <1>4, <1>6, <2>3, <2>4, <2>5, <2>6
<1>10. CASE \E m \in {""} \cup {q.mode : q \in Requests}, restricted \in BOOLEAN,
               verdict \in Verdicts :
              LET next == NextSeries(row[r]) IN
              /\ next \in Series
              /\ h' = [h EXCEPT ![t] = [Idle EXCEPT
                    !.pc = "checked", !.from = r, !.resolution = "approved",
                    !.verdict = verdict, !.final = row[r], !.series = next, !.first = next,
                    !.mode = EffectiveMode(m, Playbook[next], restricted),
                    !.restricted = restricted]]
  <2> DEFINE next == NextSeries(row[r])
  <2>1. PICK m \in {""} \cup {q.mode : q \in Requests}, restricted \in BOOLEAN, verdict \in Verdicts :
          /\ next \in Series
          /\ h' = [h EXCEPT ![t] = [Idle EXCEPT
                !.pc = "checked", !.from = r, !.resolution = "approved",
                !.verdict = verdict, !.final = row[r], !.series = next, !.first = next,
                !.mode = EffectiveMode(m, Playbook[next], restricted),
                !.restricted = restricted]]
    BY <1>10, Zenon
  <2> HIDE DEF next
  <2> QED BY <1>9, <2>1, Zenon
<1> QED BY <1>5, <1>8, <1>10

\* The response is sent and the PATCH of the first run handed to the background.
LEMMA FinishInv ==
    ASSUME Inv, NEW t \in Handlers, h[t].pc = "route", NEW final \in Rows,
           final.outcome \in FinalOutcomes, Finish(t, final),
           UNCHANGED <<crystalBall, row, feedback, session, approved, remedied, denied, raced>>,
           \/ notified' = notified
           \/ /\ final.outcome = "gate_pending" /\ h[t].prev # NoRun
              /\ notified' = notified \cup {[run |-> h[t].prev, depth |-> h[t].depth]}
    PROVE  Inv'
<1> DEFINE ps == Patch(h[t].primary, final.outcome, final.esc, final.trans)
<1>1. HandlerOK(h[t])
  BY DEF Inv
<1>2. /\ h[t].primary \in RunIds \cup {NoRun} /\ h[t].prev \in RunIds \cup {NoRun}
      /\ h[t].depth \in 0..MaxChainDepth /\ h[t].depth > 0 /\ (h[t].depth = 1 => h[t].prev = h[t].primary)
  BY <1>1, HandlerTypes DEF HandlerOK
<1>3. final = [outcome |-> final.outcome, esc |-> final.esc, trans |-> final.trans]
  BY DEF Rows
<1>4. ps = IF h[t].primary = NoRun THEN {} ELSE {[run |-> h[t].primary, row |-> final]}
  BY <1>3 DEF Patch
<1>5. patches' = patches \cup ps /\ h' = [h EXCEPT ![t] = Idle]
  BY DEF Finish
<1> HIDE DEF ps
<1>6. ps \in SUBSET Patches /\ \A p, q \in ps : p = q
  BY <1>2, <1>4 DEF Patches
<1>7. \A p \in ps : p.run = h[t].primary /\ p.row = final /\ p.run \in RunIds
  BY <1>2, <1>4
<1>8. \A p \in ps : Owner(h[t], p.run) /\ ~Owner(Idle, p.run) /\ p.row.outcome \in FinalOutcomes
  BY <1>7, IdleOK DEF Owner
<1>9. notified \subseteq [run : RunIds, depth : 1..MaxChainDepth]
  BY DEF Inv, TypeOK
<1>10. notified' \subseteq [run : RunIds, depth : 1..MaxChainDepth]
  <2>1. h[t].depth \in 1..MaxChainDepth
    BY <1>2, ConstantsAssumption
  <2>2. h[t].prev # NoRun =>
          [run |-> h[t].prev, depth |-> h[t].depth] \in [run : RunIds, depth : 1..MaxChainDepth]
    BY <1>2, <2>1
  <2> QED BY <1>9, <2>2
<1>11. ASSUME NEW n \in notified', n.depth = 1, n \notin notified
       PROVE  \E p \in ps : p.run = n.run /\ p.row.outcome = "gate_pending"
  <2>1. n.run = h[t].prev /\ h[t].depth = 1 /\ final.outcome = "gate_pending" /\ h[t].prev # NoRun
    BY <1>11
  <2>2. [run |-> h[t].primary, row |-> final] \in ps
    BY <1>2, <1>4, <2>1
  <2> QED BY <1>2, <2>1, <2>2
<1> QED BY <1>5, <1>6, <1>8, <1>10, <1>11, IdleOK, StepInv

\* The row a route step ends with.
LEMMA FinalRow ==
    ASSUME Inv, NEW t \in Handlers, h[t].pc = "route"
    PROVE  /\ h[t].final \in Rows /\ h[t].final.outcome \in FinalOutcomes
           /\ h[t].ans \in AgentAnswers
           /\ GateRow(t) \in Rows /\ GateRow(t).outcome = "gate_pending"
           /\ "gate_pending" \in FinalOutcomes /\ "resolved" \in FinalOutcomes
           /\ h[t].rem \in Targets \cup {None}
           /\ \A o \in FinalOutcomes : [outcome |-> o, esc |-> None, trans |-> None] \in Rows
<1>1. HandlerOK(h[t])
  BY DEF Inv
<1>2. h[t].final \in Rows /\ h[t].ans \in AgentAnswers /\ h[t].rem \in Targets \cup {None}
      /\ h[t].final.outcome \in FinalOutcomes
  BY <1>1, HandlerTypes DEF HandlerOK
<1>3. h[t].ans.esc \in Targets \cup {None} /\ h[t].ans.trans \in Targets \cup {None}
  BY <1>2 DEF AgentAnswers
<1>4. "gate_pending" \in FinalOutcomes /\ "resolved" \in FinalOutcomes /\ FinalOutcomes \subseteq Outcomes
  BY DEF FinalOutcomes, Outcomes
<1>5. GateRow(t) \in Rows /\ GateRow(t).outcome = "gate_pending"
  BY <1>3, <1>4 DEF GateRow, Rows
<1> QED BY <1>2, <1>4, <1>5 DEF Rows

\* The loop ends without a signal, or in crystal-ball mode.
LEMMA EndChainInv ==
    ASSUME Inv, NEW t \in Handlers, EndChain(t)
    PROVE  Inv'
<1>1. h[t].pc = "route"
      /\ UNCHANGED <<crystalBall, row, feedback, session, approved, remedied, denied, raced>>
  BY DEF EndChain
<1>2. CASE crystalBall /\ Finish(t, [outcome |-> Outcome(h[t].ans), esc |-> None, trans |-> None])
           /\ UNCHANGED notified
  <2> DEFINE f == [outcome |-> Outcome(h[t].ans), esc |-> None, trans |-> None]
  <2>1. f \in Rows /\ f.outcome \in FinalOutcomes
    BY <1>1, OutcomeFinal, FinalRow
  <2>2. Finish(t, f)
    BY <1>2
  <2> HIDE DEF f
  <2> QED BY <1>1, <1>2, <2>1, <2>2, FinishInv
<1>3. CASE /\ Finish(t, IF FallbackGate(t)
                        THEN [h[t].final EXCEPT !.outcome = "gate_pending", !.trans = h[t].rem]
                        ELSE h[t].final)
           /\ notified' = notified \cup
                IF FallbackGate(t) /\ h[t].prev # NoRun
                THEN {[run |-> h[t].prev, depth |-> h[t].depth]} ELSE {}
  <2> DEFINE f == [h[t].final EXCEPT !.outcome = "gate_pending", !.trans = h[t].rem]
  <2>1. f \in Rows /\ f.outcome = "gate_pending" /\ f.outcome \in FinalOutcomes
    <3>1. h[t].final \in Rows /\ h[t].rem \in Targets \cup {None} /\ "gate_pending" \in FinalOutcomes
      BY <1>1, FinalRow
    <3>2. f.outcome = "gate_pending"
      BY <3>1 DEF Rows
    <3>3. f \in Rows
      BY <3>1 DEF Rows, Outcomes
    <3> QED BY <3>1, <3>2, <3>3
  <2>2. CASE FallbackGate(t)
    <3>1. Finish(t, f)
      BY <1>3, <2>2
    <3>2. notified' = notified
          \/ (h[t].prev # NoRun /\ notified' = notified \cup {[run |-> h[t].prev, depth |-> h[t].depth]})
      BY <1>3, <2>2
    <3> HIDE DEF f
    <3> QED BY <1>1, <2>1, <3>1, <3>2, FinishInv
  <2>3. CASE ~FallbackGate(t)
    <3>1. Finish(t, h[t].final) /\ notified' = notified
      BY <1>3, <2>3
    <3> QED BY <1>1, <3>1, FinalRow, FinishInv
  <2> QED BY <2>2, <2>3
<1> QED BY <1>2, <1>3 DEF EndChain

\* A terminal token, or a triage that only recommends monitoring.
LEMMA StopChainInv ==
    ASSUME Inv, NEW t \in Handlers, StopChain(t)
    PROVE  Inv'
<1>1. h[t].pc = "route"
      /\ UNCHANGED <<crystalBall, row, feedback, session, notified, approved, remedied, denied, raced>>
  BY DEF StopChain, Looping, history
<1>2. CASE Finish(t, h[t].final)
  BY <1>1, <1>2, FinalRow, FinishInv
<1>3. CASE Finish(t, [outcome |-> "resolved", esc |-> None, trans |-> None])
  <2> DEFINE f == [outcome |-> "resolved", esc |-> None, trans |-> None]
  <2>1. f \in Rows /\ f.outcome \in FinalOutcomes
    BY <1>1, FinalRow
  <2>2. Finish(t, f)
    BY <1>3
  <2> HIDE DEF f
  <2> QED BY <1>1, <2>1, <2>2, FinishInv
<1> QED BY <1>2, <1>3 DEF StopChain

\* The chain stops at a gate.
LEMMA PauseAtGateInv ==
    ASSUME Inv, NEW t \in Handlers, PauseAtGate(t)
    PROVE  Inv'
<1>1. h[t].pc = "route" /\ Finish(t, GateRow(t))
      /\ UNCHANGED <<crystalBall, row, feedback, session, approved, remedied, denied, raced>>
  BY DEF PauseAtGate, Looping
<1>2. notified' = notified
      \/ (h[t].prev # NoRun /\ notified' = notified \cup {[run |-> h[t].prev, depth |-> h[t].depth]})
  BY DEF PauseAtGate
<1> QED BY <1>1, <1>2, FinalRow, FinishInv

\* The next playbook is run, or returned.
LEMMA ChainInv ==
    ASSUME Inv, NEW t \in Handlers, Chain(t)
    PROVE  Inv'
<1>1. h[t].pc = "route" /\ h[t].depth < MaxChainDepth /\ ~Gated(t) /\ ~Monitor(t)
      /\ UNCHANGED <<crystalBall, row, feedback, session, notified, approved, remedied, denied, raced>>
  BY DEF Chain, Looping, history
<1>2. CASE Finish(t, h[t].final)
  BY <1>1, <1>2, FinalRow, FinishInv
<1>3. CASE /\ Signal(t) \in Series /\ canAutoChain(h[t].mode, Playbook[Signal(t)])
           /\ h' = [h EXCEPT ![t].pc = "start", ![t].series = Signal(t)]
           /\ UNCHANGED patches
  <2> DEFINE x == h[t]
  <2> DEFINE s == Signal(t)
  <2> DEFINE y == [x EXCEPT !.pc = "start", !.series = s]
  <2>1. HandlerOK(x) /\ x \in HandlerStates
    BY DEF Inv, HandlerOK
  <2>2. h' = [h EXCEPT ![t] = y]
    <3>1. h \in [Handlers -> HandlerStates]
      BY DEF Inv, TypeOK
    <3> QED BY <1>3, <3>1
  <2>3. s \in Series /\ (Playbook[s].approval_mode \in {"", "manual"} => x.mode = "force")
    BY <1>3 DEF canAutoChain
  <2>4. ~x.gate /\ ~x.ans.low /\ x.ans.findings # "monitor"
    BY <1>1 DEF Gated, Monitor
  <2>5. x.pc = "route" /\ x.depth < MaxChainDepth /\ x.depth > 0
    BY <1>1, <2>1 DEF HandlerOK
  <2>6. notified \subseteq [run : RunIds, depth : 1..MaxChainDepth]
    BY DEF Inv, TypeOK
  <2> HIDE DEF x, s
  <2>7. y \in HandlerStates
    BY <2>1, <2>3 DEF HandlerStates
  <2>8. /\ y.pc = "start" /\ y.series = s /\ y.depth = x.depth /\ y.primary = x.primary
        /\ y.mode = x.mode /\ y.gate = x.gate /\ y.ans = x.ans
        /\ y.restricted = x.restricted /\ y.first = x.first
    BY <2>1 DEF HandlerStates
  <2> HIDE DEF y
  <2>9. Authorised(y)
    BY <2>3, <2>4, <2>8 DEF Authorised
  <2>10. x.depth \in Int
    BY <2>1, HandlerTypes
  <2>11. HandlerOK(y)
    <3>1. y.restricted => y.first \in Series
            /\ approvalModeRank[y.mode] <= approvalModeRank[Playbook[y.first].approval_mode]
      BY <2>1, <2>8 DEF HandlerOK
    <3>2. y.depth # 0
      BY <2>5, <2>8, <2>10
    <3>3. y.depth < MaxChainDepth
      BY <2>5, <2>8
    <3> QED BY <2>3, <2>7, <2>8, <2>9, <3>1, <3>2, <3>3 DEF HandlerOK
  <2>12. \A r \in RunIds : (Owner(y, r) => Owner(x, r)) /\ ~Starter(y, r) /\ ~Holder(y, r)
    BY <2>5, <2>8, <2>10 DEF Owner, Starter, Holder
  <2>13. patches' = patches \cup {} /\ {} \in SUBSET Patches
    BY <1>3
  <2> QED BY <1>1, <2>2, <2>6, <2>11, <2>12, <2>13, StepInv DEF x
<1> QED BY <1>2, <1>3 DEF Chain

\* The agent answers; the PATCH of a chained run is handed to the background.
LEMMA RunAgentInv ==
    ASSUME Inv, NEW t \in Handlers, runAgentPlaybook(t)
    PROVE  Inv'
<1> DEFINE x == h[t]
<1> DEFINE chained == x.depth > 1
<1>1. x.pc = "agent"
      /\ UNCHANGED <<crystalBall, row, feedback, session, notified, approved, remedied, denied, raced>>
  BY DEF runAgentPlaybook, history
<1>2. PICK a0 \in Answers \cup {Silent} :
         LET a == Coerced(a0, Playbook[h[t].series])
             kept == a.findings # None \/ ~chained
         IN /\ h' = [h EXCEPT ![t] = [h[t] EXCEPT
                   !.pc = "route", !.ans = a,
                   !.final = [outcome |-> IF chained THEN "escalated+resolved" ELSE Outcome(a),
                              esc |-> IF kept THEN a.esc ELSE h[t].final.esc,
                              trans |-> IF kept THEN a.trans ELSE h[t].final.trans]]]
            /\ patches' = patches \cup (IF chained THEN Patch(h[t].prev, Outcome(a), a.esc, a.trans) ELSE {})
  BY DEF runAgentPlaybook
<1> DEFINE a == Coerced(a0, Playbook[h[t].series])
<1> DEFINE kept == a.findings # None \/ ~chained
<1> DEFINE o == IF chained THEN "escalated+resolved" ELSE Outcome(a)
<1> DEFINE e == IF kept THEN a.esc ELSE x.final.esc
<1> DEFINE v == IF kept THEN a.trans ELSE x.final.trans
<1> DEFINE f == [outcome |-> o, esc |-> e, trans |-> v]
<1> DEFINE y == [x EXCEPT !.pc = "route", !.ans = a, !.final = f]
<1> DEFINE ps == IF chained THEN Patch(x.prev, Outcome(a), a.esc, a.trans) ELSE {}
<1>3. h \in [Handlers -> HandlerStates] /\ HandlerOK(x) /\ x \in HandlerStates
  BY DEF Inv, TypeOK, HandlerOK
<1>4. h' = [h EXCEPT ![t] = y] /\ patches' = patches \cup ps
  <2>1. h' = [h EXCEPT ![t] = y]
    BY <1>2, <1>3
  <2>2. patches' = patches \cup ps
    BY <1>2
  <2> QED BY <2>1, <2>2
<1>5. a \in AgentAnswers
  <2>1. Silent \in AgentAnswers
    BY DEF Silent, AgentAnswers
  <2>2. a0 \in AgentAnswers
    BY <2>1, ConstantsAssumption
  <2> QED BY <2>2, CoercedType
<1>6. notified \subseteq [run : RunIds, depth : 1..MaxChainDepth]
  BY DEF Inv, TypeOK
<1> HIDE DEF a, x
<1>7. Outcome(a) \in FinalOutcomes /\ FinalOutcomes \subseteq Outcomes /\ o \in FinalOutcomes
  BY OutcomeFinal DEF FinalOutcomes, Outcomes
<1>8. a.esc \in Targets \cup {None} /\ a.trans \in Targets \cup {None}
  BY <1>5 DEF AgentAnswers
<1>9. x.final.esc \in Targets \cup {None} /\ x.final.trans \in Targets \cup {None}
  BY <1>3, HandlerTypes DEF Rows
<1>10. e \in Targets \cup {None} /\ v \in Targets \cup {None}
  BY <1>8, <1>9
<1> HIDE DEF o, e, v
<1>11. f \in Rows /\ f.outcome = o
  BY <1>7, <1>10 DEF Rows
<1> HIDE DEF f
<1>12. y \in HandlerStates
  BY <1>3, <1>5, <1>11 DEF HandlerStates
<1>13. /\ y.pc = "route" /\ y.final = f /\ y.depth = x.depth /\ y.primary = x.primary
       /\ y.prev = x.prev /\ y.mode = x.mode /\ y.restricted = x.restricted
       /\ y.first = x.first /\ y.series = x.series
  BY <1>3 DEF HandlerStates
<1> HIDE DEF y
<1>14. HandlerOK(y)
  BY <1>1, <1>3, <1>7, <1>11, <1>12, <1>13 DEF HandlerOK, x
<1>15. ps = IF chained /\ x.prev # NoRun
            THEN {[run |-> x.prev, row |-> [outcome |-> Outcome(a), esc |-> a.esc, trans |-> a.trans]]}
            ELSE {}
  BY DEF Patch
<1>16. x.prev \in RunIds \cup {NoRun}
  BY <1>3, HandlerTypes
<1>17. [outcome |-> Outcome(a), esc |-> a.esc, trans |-> a.trans] \in Rows
  BY <1>7, <1>8 DEF Rows
<1> HIDE DEF ps
<1>18. ps \in SUBSET Patches /\ \A p, q \in ps : p = q
  BY <1>15, <1>16, <1>17 DEF Patches
<1>19. \A p \in ps : chained /\ p.run = x.prev /\ x.prev # NoRun /\ p.row.outcome = Outcome(a)
  BY <1>15
<1>20. \A p \in ps : x.prev # x.primary
  BY <1>1, <1>3, <1>19 DEF HandlerOK, x
<1>21. \A p \in ps : Owner(x, p.run) /\ ~Owner(y, p.run) /\ p.row.outcome \in FinalOutcomes
  BY <1>1, <1>7, <1>13, <1>19, <1>20 DEF Owner, x
<1>22. \A r \in RunIds : (Owner(y, r) => Owner(x, r)) /\ ~Starter(y, r) /\ ~Holder(y, r)
  BY <1>13 DEF Owner, Starter, Holder
<1> QED BY <1>1, <1>4, <1>6, <1>14, <1>18, <1>21, <1>22, StepInv DEF x

-----------------------------------------------------------------------------
(* Steps that write a run. *)

\* A run without a writer is recorded, or none is, and the handler goes on with it.
LEMMA StartStepInv ==
    ASSUME Inv, NEW t \in Handlers, NEW y, h' = [h EXCEPT ![t] = y], HandlerOK(y), h[t].pc = "start",
           NEW r \in RunIds \cup {NoRun}, r # NoRun => row[r].outcome = "absent",
           row' = IF r = NoRun THEN row ELSE [row EXCEPT ![r].outcome = "unknown"],
           \A s \in RunIds : Owner(y, s) => Owner(h[t], s) \/ s = r,
           \A s \in RunIds : ~Starter(y, s) /\ ~Holder(y, s),
           remedied' = IF h[t].from # NoRun /\ h[t].depth = 0
                       THEN [remedied EXCEPT ![h[t].from] = @ + 1] ELSE remedied,
           UNCHANGED <<crystalBall, patches, feedback, session, notified, approved, denied, raced>>
    PROVE  Inv'
<1> DEFINE x == h[t]
<1>1. /\ h \in [Handlers -> HandlerStates] /\ \A u \in Handlers : h'[u] = IF u = t THEN y ELSE h[u]
      /\ row \in [RunIds -> Rows] /\ remedied \in [RunIds -> Nat] /\ x.from \in RunIds \cup {NoRun}
      /\ patches \subseteq Patches
  BY HandlerTypes DEF Inv, TypeOK
<1>2. row' \in [RunIds -> Rows]
      /\ \A s \in RunIds : row'[s].outcome = IF s = r THEN "unknown" ELSE row[s].outcome
  <2>1. CASE r = NoRun
    BY <1>1, <2>1, NoRunIsNone
  <2>2. CASE r # NoRun
    <3> DEFINE z == [row[r] EXCEPT !.outcome = "unknown"]
    <3>1. r \in RunIds /\ row[r] \in Rows
      BY <1>1, <2>2
    <3>2. z \in Rows /\ z.outcome = "unknown"
      BY <3>1 DEF Rows, Outcomes
    <3>3. row' = [row EXCEPT ![r] = z]
      BY <1>1, <2>2
    <3> HIDE DEF z
    <3> QED BY <1>1, <3>1, <3>2, <3>3
  <2> QED BY <2>1, <2>2
<1>3. remedied' \in [RunIds -> Nat]
      /\ \A s \in RunIds : remedied'[s] = IF Starter(x, s) THEN remedied[s] + 1 ELSE remedied[s]
  <2>1. CASE x.from # NoRun /\ x.depth = 0
    BY <1>1, <2>1 DEF Starter
  <2>2. CASE ~(x.from # NoRun /\ x.depth = 0)
    BY <1>1, <2>2, NoRunIsNone DEF Starter
  <2> QED BY <2>1, <2>2
<1>4. TypeOK'
  BY <1>2, <1>3 DEF Inv, TypeOK, HandlerOK
<1>5. \A u \in Handlers : HandlerOK(h'[u])
  BY <1>1 DEF Inv
<1>6. RunsOK(row, h, patches)
  BY DEF Inv
<1>7. \A u \in Handlers, s \in RunIds :
        /\ Owner(h'[u], s) => Owner(h[u], s) \/ (u = t /\ s = r)
        /\ Starter(h'[u], s) => Starter(h[u], s) /\ u # t
        /\ Holder(h'[u], s) => Holder(h[u], s)
  BY <1>1
<1>8. r \in RunIds => /\ row[r].outcome = "absent"
                      /\ \A u \in Handlers : ~Owner(h[u], r) /\ ~Holder(h[u], r) /\ ~Starter(h[u], r)
                      /\ \A p \in patches : p.run # r
  BY <1>6, NoRunIsNone DEF RunsOK, Early
<1>9. \A p \in patches : p.run \in RunIds /\ p.run # r
  BY <1>1, <1>8, NoRunIsNone DEF Patches
<1>10. RunsOK(row', h', patches)
  <2>1. ASSUME NEW u \in Handlers, NEW v \in Handlers, NEW s \in RunIds, Owner(h'[u], s), Owner(h'[v], s)
        PROVE  u = v
    BY <1>6, <1>7, <1>8, <2>1 DEF RunsOK
  <2>2. ASSUME NEW u \in Handlers, NEW s \in RunIds, Owner(h'[u], s)
        PROVE  row'[s].outcome = "unknown" /\ \A p \in patches : p.run # s
    BY <1>2, <1>6, <1>7, <1>8, <2>2 DEF RunsOK
  <2>3. ASSUME NEW p \in patches
        PROVE  row'[p.run].outcome = "unknown" /\ p.row.outcome \in FinalOutcomes
    BY <1>2, <1>6, <1>9 DEF RunsOK
  <2>4. ASSUME NEW u \in Handlers, NEW s \in RunIds, Holder(h'[u], s) \/ Starter(h'[u], s)
        PROVE  row'[s].outcome \notin Early
    BY <1>2, <1>6, <1>7, <1>8, <2>4 DEF RunsOK
  <2> QED BY <1>6, <2>1, <2>2, <2>3, <2>4 DEF RunsOK
<1>11. ASSUME NEW s \in RunIds \ raced
       PROVE  GateOK(s, row'[s].outcome, h', remedied'[s], feedback[s], s \in denied)
  <2>1. GateOK(s, row[s].outcome, h, remedied[s], feedback[s], s \in denied)
    BY DEF Inv
  <2>2. CASE s = r
    <3>1. ~Starter(x, s) /\ row[s].outcome = "absent" /\ row'[s].outcome = "unknown"
          /\ remedied'[s] = remedied[s] /\ \A u \in Handlers : ~Holder(h'[u], s) /\ ~Starter(h'[u], s)
      BY <1>2, <1>3, <1>7, <1>8, <2>2
    <3> QED BY <2>1, <3>1 DEF GateOK, Early
  <2>3. CASE s # r /\ Starter(x, s)
    <3>1. row'[s].outcome = row[s].outcome /\ remedied'[s] = remedied[s] + 1
      BY <1>2, <1>3, <2>3
    <3>2. remedied[s] = 0 /\ s \notin denied /\ row[s].outcome \notin Early \cup {"gate_pending"}
          /\ \A u \in Handlers : Starter(h[u], s) => u = t
      BY <2>1, <2>3 DEF GateOK
    <3>3. remedied'[s] = 1
      BY <3>1, <3>2
    <3>4. \A u \in Handlers : ~Starter(h'[u], s)
      BY <1>7, <3>2
    <3> QED BY <1>7, <2>1, <3>1, <3>2, <3>3, <3>4 DEF GateOK
  <2>4. CASE s # r /\ ~Starter(x, s)
    <3>1. row'[s].outcome = row[s].outcome /\ remedied'[s] = remedied[s]
      BY <1>2, <1>3, <2>4
    <3> QED BY <1>7, <2>1, <3>1 DEF GateOK
  <2> QED BY <2>2, <2>3, <2>4
<1>12. ASSUME NEW n \in notified, n.depth = 1
       PROVE  AnnouncedOK(row', patches, n.run, approved, denied)
  <2>1. n.run \in RunIds /\ AnnouncedOK(row, patches, n.run, approved, denied)
    BY <1>12 DEF Inv, TypeOK
  <2>2. n.run = r => \E p \in patches : p.run = n.run /\ p.row.outcome = "gate_pending"
    BY <1>8, <2>1 DEF AnnouncedOK
  <2> QED BY <1>2, <2>1, <2>2 DEF AnnouncedOK
<1> QED BY <1>4, <1>5, <1>10, <1>11, <1>12 DEF Inv

\* recordPlaybookRunStart.
LEMMA RecordStartInv ==
    ASSUME Inv, NEW t \in Handlers, recordPlaybookRunStart(t)
    PROVE  Inv'
<1> DEFINE x == h[t]
<1>1. x.pc = "start"
      /\ remedied' = (IF h[t].from # NoRun /\ h[t].depth = 0
                      THEN [remedied EXCEPT ![h[t].from] = @ + 1] ELSE remedied)
      /\ UNCHANGED <<crystalBall, patches, feedback, session, notified, approved, denied, raced>>
  BY DEF recordPlaybookRunStart
<1>2. PICK r \in {NoRun} \cup {s \in RunIds : row[s].outcome = "absent"} :
        /\ row' = IF r = NoRun THEN row ELSE [row EXCEPT ![r].outcome = "unknown"]
        /\ h' = [h EXCEPT ![t] =
               IF Playbook[h[t].series].execution_mode = "agent_approve" /\ h[t].depth = 0
               THEN Idle
               ELSE [h[t] EXCEPT !.pc = "agent", !.prev = r, !.depth = @ + 1, !.ans = Silent,
                                 !.primary = IF h[t].depth = 0 THEN r ELSE @]]
  BY DEF recordPlaybookRunStart
<1>3. r \in RunIds \cup {NoRun} /\ (r # NoRun => row[r].outcome = "absent")
  BY <1>2
<1>4. HandlerOK(x) /\ x \in HandlerStates
  BY DEF Inv, HandlerOK
<1>5. CASE Playbook[h[t].series].execution_mode = "agent_approve" /\ h[t].depth = 0
  <2>1. h' = [h EXCEPT ![t] = Idle]
    BY <1>2, <1>5
  <2> QED BY <1>1, <1>2, <1>3, <2>1, IdleOK, StartStepInv
<1>6. CASE ~(Playbook[h[t].series].execution_mode = "agent_approve" /\ h[t].depth = 0)
  <2> DEFINE d == x.depth + 1
  <2> DEFINE pr == IF x.depth = 0 THEN r ELSE x.primary
  <2> DEFINE y == [x EXCEPT !.pc = "agent", !.prev = r, !.depth = d, !.ans = Silent, !.primary = pr]
  <2>1. h' = [h EXCEPT ![t] = y]
    BY <1>2, <1>6
  <2>2. /\ x.depth \in 0..MaxChainDepth /\ x.depth < MaxChainDepth /\ MaxChainDepth \in Nat
        /\ x.primary \in RunIds \cup {NoRun} /\ (x.depth = 0 => x.primary = NoRun)
    BY <1>1, <1>4, HandlerTypes, ConstantsAssumption DEF HandlerOK
  <2>3. x.series \in Series /\ Silent \in AgentAnswers
    BY <1>1, <1>4 DEF HandlerOK, Silent, AgentAnswers
  <2>4. \A u \in Handlers : Owner(h[u], r) => r \notin RunIds
    BY <1>3, NoRunIsNone DEF Inv, RunsOK
  <2>5. x.primary = r => r = NoRun
    BY <1>3, <2>4 DEF Owner
  <2> HIDE DEF x
  <2>6. d \in 0..MaxChainDepth /\ d > 0 /\ (d = 1 <=> x.depth = 0) /\ (d > 1 => x.depth # 0)
    BY <2>2
  <2>7. pr \in RunIds \cup {NoRun}
    BY <1>3, <2>2
  <2> HIDE DEF d
  <2>8. d = 1 => pr = r
    BY <2>6
  <2>9. d > 1 => pr = x.primary
    BY <2>6
  <2>10. \A s \in RunIds : pr = s => x.primary = s \/ s = r
    OBVIOUS
  <2> HIDE DEF pr
  <2>11. y \in HandlerStates
    BY <1>3, <1>4, <2>3, <2>6, <2>7 DEF HandlerStates
  <2>12. /\ y.pc = "agent" /\ y.prev = r /\ y.depth = d /\ y.primary = pr /\ y.series = x.series
         /\ y.mode = x.mode /\ y.restricted = x.restricted /\ y.first = x.first
    BY <1>4 DEF HandlerStates
  <2> HIDE DEF y
  <2>13. HandlerOK(y)
    <3>1. y.restricted => y.first \in Series
            /\ approvalModeRank[y.mode] <= approvalModeRank[Playbook[y.first].approval_mode]
      BY <1>4, <2>12 DEF HandlerOK
    <3>2. y.depth > 1 /\ y.prev # NoRun => y.prev # y.primary
      BY <2>5, <2>9, <2>12
    <3> QED BY <2>3, <2>6, <2>8, <2>11, <2>12, <3>1, <3>2 DEF HandlerOK
  <2>14. \A s \in RunIds : Owner(y, s) => Owner(x, s) \/ s = r
    BY <2>10, <2>12 DEF Owner
  <2>15. \A s \in RunIds : ~Starter(y, s) /\ ~Holder(y, s)
    BY <2>12 DEF Starter, Holder
  <2> QED BY <1>1, <1>2, <1>3, <2>1, <2>13, <2>14, <2>15, StartStepInv DEF x
<1> QED BY <1>5, <1>6

\* A PATCH lands: the run has no handler as a writer, and no other PATCH.
LEMMA LandPatchInv ==
    ASSUME Inv, LandPatch
    PROVE  Inv'
<1>1. PICK p \in patches : patches' = patches \ {p} /\ row' = [row EXCEPT ![p.run] = p.row]
  BY DEF LandPatch
<1>2. UNCHANGED <<crystalBall, h, feedback, session, notified, approved, remedied, denied, raced>>
  BY DEF LandPatch, history
<1>3. p.run \in RunIds /\ p.row \in Rows /\ row \in [RunIds -> Rows] /\ patches \subseteq Patches
  BY DEF Inv, TypeOK, Patches
<1>4. RunsOK(row, h, patches)
  BY DEF Inv
<1>5. row[p.run].outcome = "unknown" /\ p.row.outcome \in FinalOutcomes
      /\ \A q \in patches : q.run = p.run => q = p
  BY <1>4 DEF RunsOK
<1>6. \A s \in RunIds : row'[s] = IF s = p.run THEN p.row ELSE row[s]
  BY <1>1, <1>3
<1>7. TypeOK'
  BY <1>1, <1>2, <1>3 DEF Inv, TypeOK
<1>8. \A u \in Handlers : ~Owner(h[u], p.run) /\ ~Holder(h[u], p.run) /\ ~Starter(h[u], p.run)
  BY <1>3, <1>4, <1>5 DEF RunsOK, Early
<1>9. RunsOK(row', h, patches')
  <2>1. \A u \in Handlers, s \in RunIds : Owner(h[u], s) \/ Holder(h[u], s) \/ Starter(h[u], s) => row'[s] = row[s]
    BY <1>6, <1>8
  <2>2. \A q \in patches' : q \in patches /\ q.run \in RunIds /\ row'[q.run] = row[q.run]
    BY <1>1, <1>3, <1>5, <1>6 DEF Patches
  <2> QED BY <1>4, <2>1, <2>2 DEF RunsOK
<1>10. ASSUME NEW s \in RunIds \ raced
       PROVE  GateOK(s, row'[s].outcome, h, remedied[s], feedback[s], s \in denied)
  <2>1. GateOK(s, row[s].outcome, h, remedied[s], feedback[s], s \in denied)
    BY DEF Inv
  <2>2. s # p.run => row'[s] = row[s]
    BY <1>6
  <2>3. CASE s = p.run
    <3>1. row'[s].outcome = p.row.outcome /\ row[s].outcome \in Early /\ p.row.outcome # "abandoned"
      BY <1>5, <1>6, <2>3 DEF Early, FinalOutcomes
    <3> QED BY <1>8, <2>1, <2>3, <3>1 DEF GateOK
  <2> QED BY <2>1, <2>2, <2>3
<1>11. ASSUME NEW n \in notified, n.depth = 1
       PROVE  AnnouncedOK(row', patches', n.run, approved, denied)
  <2>1. n.run \in RunIds /\ AnnouncedOK(row, patches, n.run, approved, denied)
    BY <1>11 DEF Inv, TypeOK
  <2>2. CASE n.run = p.run
    <3>1. p.row.outcome = "gate_pending"
      BY <1>5, <2>1, <2>2 DEF AnnouncedOK
    <3> QED BY <1>6, <2>1, <2>2, <3>1 DEF AnnouncedOK
  <2>3. CASE n.run # p.run
    <3>1. row'[n.run] = row[n.run] /\ \A q \in patches : q.run = n.run => q \in patches'
      BY <1>1, <1>6, <2>1, <2>3
    <3> QED BY <2>1, <3>1 DEF AnnouncedOK
  <2> QED BY <2>2, <2>3
<1> QED BY <1>2, <1>7, <1>9, <1>10, <1>11 DEF Inv

\* A gate is resolved: no PATCH of the run is under way, and when nothing raced the row was
\* still pending and no other handler holds the gate.
LEMMA ResolveGateInv ==
    ASSUME Inv, NEW t \in Handlers, resolveGate(t)
    PROVE  Inv'
<1> DEFINE x == h[t]
<1> DEFINE r == x.from
<1> DEFINE approve == x.resolution = "approved"
<1> DEFINE closed == IF approve
                     THEN [x.final EXCEPT !.outcome = IF x.final.trans # None THEN "transitioned" ELSE "escalated"]
                     ELSE [NoRow EXCEPT !.outcome = "abandoned"]
<1> DEFINE y == IF approve
                THEN [x EXCEPT !.pc = "start", !.final = NoRow, !.verdict = None, !.resolution = None]
                ELSE Idle
<1>1. x.pc = "checked" /\ UNCHANGED <<crystalBall, patches, session, notified, remedied>>
      /\ recordGateAcknowledged(t) /\ SubmitFeedback(r, AtGateVerdict(t))
      /\ h' = [h EXCEPT ![t] = IF approve
                  THEN [@ EXCEPT !.pc = "start", !.final = NoRow, !.verdict = None, !.resolution = None]
                  ELSE Idle]
  BY DEF resolveGate
<1>2. PICK lost \in BOOLEAN :
        /\ row' = IF lost THEN row ELSE [row EXCEPT ![r] = closed]
        /\ raced' = IF lost \/ Holders(r) # {t} THEN raced \cup {r} ELSE raced
  BY DEF resolveGate
<1>3. HandlerOK(x) /\ x \in HandlerStates /\ h \in [Handlers -> HandlerStates]
  BY DEF Inv, HandlerOK, TypeOK
<1>4. r \in RunIds
  BY <1>1, <1>3, HandlerTypes DEF HandlerOK
<1>5. h' = [h EXCEPT ![t] = y]
  BY <1>1, <1>3
<1>6. approved' = (IF approve THEN approved \cup {r} ELSE approved)
      /\ denied' = (IF approve THEN denied ELSE denied \cup {r})
  BY <1>1 DEF recordGateAcknowledged
<1>7. /\ feedback' = feedback \/ \E v \in Verdicts : feedback' = [feedback EXCEPT ![r] = v]
      /\ ~approve => feedback' = feedback \/ feedback' = [feedback EXCEPT ![r] = "wrong"]
  <2>1. AtGateVerdict(t) \in Verdicts /\ (~approve => AtGateVerdict(t) = "wrong")
    <3>1. x.verdict \in Verdicts
      BY <1>3 DEF HandlerStates, Verdicts
    <3> QED BY <3>1 DEF AtGateVerdict, Verdicts
  <2> QED BY <1>1, <2>1 DEF SubmitFeedback
<1>8. RunsOK(row, h, patches) /\ row \in [RunIds -> Rows] /\ feedback \in [RunIds -> Verdicts]
      /\ patches \subseteq Patches
  BY DEF Inv, TypeOK
<1>9. Holder(x, r) /\ Holders(r) = {u \in Handlers : Holder(h[u], r)}
  BY <1>1 DEF Holder, Holders
<1>10. row[r].outcome \notin Early
  BY <1>4, <1>8, <1>9 DEF RunsOK
<1>11. NoRow \in Rows
  BY DEF NoRow, Rows, Outcomes
<1>12. closed \in Rows /\ closed.outcome \in (IF approve THEN {"transitioned", "escalated"} ELSE {"abandoned"})
  <2>1. CASE approve
    <3> DEFINE o == IF x.final.trans # None THEN "transitioned" ELSE "escalated"
    <3>1. o \in {"transitioned", "escalated"} /\ o \in Outcomes
      BY DEF Outcomes
    <3>2. x.final \in Rows
      BY <1>3, HandlerTypes
    <3>3. closed = [x.final EXCEPT !.outcome = o]
      BY <2>1
    <3> HIDE DEF o, closed
    <3>4. closed \in Rows /\ closed.outcome = o
      BY <3>1, <3>2, <3>3 DEF Rows
    <3> QED BY <2>1, <3>1, <3>4
  <2>2. CASE ~approve
    BY <1>11, <2>2 DEF Rows, Outcomes
  <2> QED BY <2>1, <2>2
<1>13. closed.outcome \notin Early
  BY <1>12 DEF Early
<1>14. /\ HandlerOK(y)
       /\ \A s \in RunIds : ~Owner(y, s) /\ ~Holder(y, s) /\ (Starter(y, s) => approve /\ s = r)
  <2>1. CASE approve
    <3> DEFINE z == [x EXCEPT !.pc = "start", !.final = NoRow, !.verdict = None, !.resolution = None]
    <3>1. z \in HandlerStates
      BY <1>3, <1>11 DEF HandlerStates
    <3>2. /\ z.pc = "start" /\ z.depth = x.depth /\ z.primary = x.primary /\ z.from = r
          /\ z.series = x.series /\ z.mode = x.mode /\ z.restricted = x.restricted /\ z.first = x.first
      BY <1>3 DEF HandlerStates
    <3>3. x.depth = 0 /\ x.primary = NoRun /\ x.series \in Series
      BY <1>1, <1>3, <2>1 DEF HandlerOK
    <3>4. 0 < MaxChainDepth
      BY ConstantsAssumption
    <3> HIDE DEF z
    <3>5. z.restricted => z.first \in Series
            /\ approvalModeRank[z.mode] <= approvalModeRank[Playbook[z.first].approval_mode]
      BY <1>3, <3>2 DEF HandlerOK
    <3>6. HandlerOK(z)
      BY <3>1, <3>2, <3>3, <3>4, <3>5 DEF HandlerOK
    <3>7. y = z
      BY <2>1 DEF z
    <3> HIDE DEF y
    <3> QED BY <2>1, <3>2, <3>3, <3>6, <3>7, NoRunIsNone DEF Owner, Holder, Starter
  <2>2. CASE ~approve
    BY <2>2, IdleOK
  <2> QED BY <2>1, <2>2
<1> HIDE DEF y, closed
<1>15. \A s \in RunIds : row'[s] = IF s = r /\ ~lost THEN closed ELSE row[s]
  BY <1>2, <1>4, <1>8
<1>16. row'[r].outcome \notin Early
  BY <1>4, <1>10, <1>13, <1>15
<1> HIDE DEF r, approve
<1>17. TypeOK'
  <2>1. row' \in [RunIds -> Rows]
    BY <1>2, <1>8, <1>12
  <2>2. raced' \subseteq RunIds /\ approved' \subseteq RunIds /\ denied' \subseteq RunIds
    BY <1>2, <1>4, <1>6 DEF Inv, TypeOK
  <2>3. feedback' \in [RunIds -> Verdicts]
    BY <1>7, <1>8
  <2> QED BY <1>1, <1>5, <1>14, <2>1, <2>2, <2>3 DEF Inv, TypeOK, HandlerOK
<1>18. \A u \in Handlers : h'[u] = IF u = t THEN y ELSE h[u]
  BY <1>3, <1>5
<1>19. \A u \in Handlers : HandlerOK(h'[u])
  BY <1>14, <1>18 DEF Inv
<1>20. \A u \in Handlers, s \in RunIds :
         /\ Owner(h'[u], s) => Owner(h[u], s)
         /\ Holder(h'[u], s) => Holder(h[u], s) /\ u # t
         /\ Starter(h'[u], s) => Starter(h[u], s) \/ (u = t /\ s = r /\ approve)
  BY <1>14, <1>18
<1>21. RunsOK(row', h', patches)
  <2>1. \A p \in patches : p.run \in RunIds /\ p.run # r /\ row'[p.run] = row[p.run]
    BY <1>8, <1>10, <1>15 DEF RunsOK, Early, Patches
  <2>2. ASSUME NEW u \in Handlers, NEW s \in RunIds, Owner(h'[u], s)
        PROVE  row'[s] = row[s]
    BY <1>8, <1>10, <1>15, <1>20, <2>2 DEF RunsOK, Early
  <2>3. ASSUME NEW u \in Handlers, NEW s \in RunIds, Holder(h'[u], s) \/ Starter(h'[u], s)
        PROVE  row'[s].outcome \notin Early
    BY <1>8, <1>15, <1>16, <1>20, <2>3 DEF RunsOK
  <2>4. ASSUME NEW u \in Handlers, NEW v \in Handlers, NEW s \in RunIds, Owner(h'[u], s), Owner(h'[v], s)
        PROVE  u = v
    BY <1>8, <1>20, <2>4 DEF RunsOK
  <2>5. ASSUME NEW u \in Handlers, NEW s \in RunIds, Owner(h'[u], s)
        PROVE  row'[s].outcome = "unknown" /\ \A p \in patches : p.run # s
    BY <1>8, <1>20, <2>2, <2>5 DEF RunsOK
  <2>6. \A p \in patches : row'[p.run].outcome = "unknown" /\ p.row.outcome \in FinalOutcomes
    BY <1>8, <2>1 DEF RunsOK
  <2> QED BY <1>8, <2>3, <2>4, <2>5, <2>6 DEF RunsOK
<1>22. ASSUME NEW s \in RunIds \ raced'
       PROVE  GateOK(s, row'[s].outcome, h', remedied[s], feedback'[s], s \in denied')
  <2>1. s \in RunIds \ raced
    BY <1>2
  <2>2. GateOK(s, row[s].outcome, h, remedied[s], feedback[s], s \in denied)
    BY <2>1 DEF Inv
  <2>3. CASE s # r
    <3>1. row'[s] = row[s] /\ feedback'[s] = feedback[s] /\ (s \in denied' <=> s \in denied)
      BY <1>6, <1>7, <1>8, <1>15, <2>3
    <3>2. \A u \in Handlers : (Holder(h'[u], s) => Holder(h[u], s)) /\ (Starter(h'[u], s) => Starter(h[u], s))
      BY <1>20, <2>3
    <3> QED BY <2>2, <3>1, <3>2 DEF GateOK
  <2>4. CASE s = r
    <3>1. ~lost /\ Holders(r) = {t}
      BY <1>2, <2>4
    <3>2. \A u \in Handlers : ~Holder(h'[u], s)
      BY <1>9, <1>20, <2>4, <3>1
    <3>3. row[s].outcome = "gate_pending"
      BY <1>9, <2>2, <2>4 DEF GateOK, r
    <3>4. remedied[s] = 0 /\ s \notin denied /\ feedback[s] = None /\ \A u \in Handlers : ~Starter(h[u], s)
      BY <2>2, <3>3 DEF GateOK
    <3>5. row'[s] = closed
      BY <1>15, <2>4, <3>1
    <3>6. CASE approve
      <4>1. row'[s].outcome \in {"transitioned", "escalated"} /\ s \notin denied'
        BY <1>6, <1>12, <3>4, <3>5, <3>6
      <4>2. row'[s].outcome \notin Early \cup {"gate_pending", "abandoned"}
        BY <4>1 DEF Early
      <4>3. \A u \in Handlers : Starter(h'[u], s) => u = t
        BY <1>20, <3>4
      <4> QED BY <3>2, <3>4, <4>1, <4>2, <4>3 DEF GateOK
    <3>7. CASE ~approve
      <4>1. row'[s].outcome = "abandoned" /\ s \in denied'
        BY <1>6, <1>12, <2>4, <3>5, <3>7
      <4>2. row'[s].outcome \notin Early \cup {"gate_pending"}
        BY <4>1 DEF Early
      <4>3. \A u \in Handlers : ~Starter(h'[u], s)
        BY <1>20, <3>4, <3>7
      <4>4. feedback'[s] # "correct"
        <5>1. feedback'[s] \in {None, "wrong"}
          BY <1>4, <1>7, <1>8, <2>4, <3>4, <3>7
        <5> QED BY <5>1 DEF None
      <4> QED BY <3>2, <3>4, <4>1, <4>2, <4>3, <4>4 DEF GateOK
    <3> QED BY <3>6, <3>7
  <2> QED BY <2>3, <2>4
<1>23. ASSUME NEW n \in notified, n.depth = 1
       PROVE  AnnouncedOK(row', patches, n.run, approved', denied')
  <2>1. n.run \in RunIds /\ AnnouncedOK(row, patches, n.run, approved, denied)
    BY <1>23 DEF Inv, TypeOK
  <2>2. approved \subseteq approved' /\ denied \subseteq denied'
    BY <1>6
  <2>3. CASE row'[n.run] = row[n.run]
    BY <2>1, <2>2, <2>3 DEF AnnouncedOK
  <2>4. CASE row'[n.run] # row[n.run]
    <3>1. n.run = r /\ row'[n.run] = closed
      BY <1>15, <2>1, <2>4
    <3>2. CASE approve
      <4>1. row'[n.run].outcome \in {"transitioned", "escalated"} /\ n.run \in approved'
        BY <1>6, <1>12, <3>1, <3>2
      <4> QED BY <4>1 DEF AnnouncedOK
    <3>3. CASE ~approve
      <4>1. row'[n.run].outcome = "abandoned" /\ n.run \in denied'
        BY <1>6, <1>12, <3>1, <3>3
      <4> QED BY <4>1 DEF AnnouncedOK
    <3> QED BY <3>2, <3>3
  <2> QED BY <2>3, <2>4
<1> QED BY <1>1, <1>17, <1>19, <1>21, <1>22, <1>23 DEF Inv

-----------------------------------------------------------------------------
(* The invariant holds. *)

\* The invariant holds when the gateway starts on empty tables.
LEMMA InitInv ==
    ASSUME Init
    PROVE  Inv
<1>1. /\ row = [r \in RunIds |-> NoRow] /\ h = [t \in Handlers |-> Idle] /\ patches = {}
      /\ feedback = [r \in RunIds |-> None] /\ notified = {} /\ approved = {} /\ denied = {}
      /\ raced = {} /\ remedied = [r \in RunIds |-> 0]
      /\ crystalBall \in BOOLEAN /\ session \in BOOLEAN
  BY DEF Init
<1>2. NoRow \in Rows /\ NoRow.outcome = "absent" /\ None \in Verdicts
  BY DEF NoRow, Rows, Outcomes, Verdicts
<1>3. Idle \in HandlerStates
  BY IdleOK DEF HandlerOK
<1>4. TypeOK
  BY <1>1, <1>2, <1>3 DEF TypeOK
<1>5. \A t \in Handlers : h[t] = Idle
  BY <1>1
<1>6. \A t \in Handlers, r \in RunIds : ~Owner(h[t], r) /\ ~Starter(h[t], r) /\ ~Holder(h[t], r)
  BY <1>5, IdleOK
<1>7. RunsOK(row, h, patches)
  BY <1>1, <1>6 DEF RunsOK
<1>8. \A r \in RunIds : row[r].outcome = "absent" /\ remedied[r] = 0 /\ feedback[r] = None /\ r \notin denied
  BY <1>1, <1>2
<1>9. \A r \in RunIds : GateOK(r, row[r].outcome, h, remedied[r], feedback[r], r \in denied)
  BY <1>6, <1>8 DEF GateOK
<1> QED BY <1>1, <1>4, <1>5, <1>7, <1>9, IdleOK DEF Inv

\* A step keeps the invariant.
LEMMA NextInv ==
    ASSUME Inv, [Next]_vars
    PROVE  Inv'
<1>1. CASE UNCHANGED vars
  BY <1>1 DEF vars, Inv, TypeOK
<1>2. ASSUME EndSession PROVE Inv'
  <2>1. session' \in BOOLEAN
        /\ UNCHANGED <<crystalBall, row, h, patches, feedback, notified, approved, remedied, denied, raced>>
    BY <1>2 DEF EndSession, history
  <2> QED BY <2>1 DEF Inv, TypeOK
<1>3. ASSUME NEW t \in Handlers, HandlerStep(t) PROVE Inv'
  BY <1>3, RecordStartInv, RunAgentInv, EndChainInv, StopChainInv, PauseAtGateInv, ChainInv,
     ResolveGateInv DEF HandlerStep
<1> QED BY <1>1, <1>2, <1>3, RunRequestInv, CheckGateInv, LandPatchInv DEF Next

\* The invariant holds in every state of every behaviour.
THEOREM Invariance == Spec => []Inv
<1> QED BY InitInv, NextInv, PTL DEF Spec

-----------------------------------------------------------------------------
(* The properties. *)

\* Every variable keeps its type; a chain has at most MaxChainDepth playbooks.
THEOREM TypeCorrect == Spec => []TypeOK
<1>1. Inv => TypeOK
  BY DEF Inv
<1> QED BY <1>1, Invariance, PTL

\* A chain goes on only as its mode, the gate and the answer before allow it.
LEMMA ChainAuthorisedInv ==
    ASSUME Inv
    PROVE  ChainAuthorised
<1> SUFFICES ASSUME NEW t \in Handlers, h[t].pc = "start", h[t].depth > 0
    PROVE /\ ~h[t].gate /\ ~h[t].ans.low /\ h[t].ans.findings # "monitor"
          /\ Playbook[h[t].series].approval_mode \in {"", "manual"} => h[t].mode = "force"
          /\ h[t].restricted =>
               approvalModeRank[h[t].mode] <= approvalModeRank[Playbook[h[t].first].approval_mode]
  BY DEF ChainAuthorised
<1>1. HandlerOK(h[t])
  BY DEF Inv
<1>2. Authorised(h[t])
  BY <1>1 DEF HandlerOK
<1>3. h[t].restricted =>
        approvalModeRank[h[t].mode] <= approvalModeRank[Playbook[h[t].first].approval_mode]
  BY <1>1 DEF HandlerOK
<1> QED BY <1>2, <1>3 DEF Authorised

\* A playbook beyond the first of a chain is run only without a gate and on an answer that
\* is not of low confidence, a manual one only in force mode, and never in a mode above the
\* first playbook's by a caller without the override roles (handlePlaybookRunAsAgent,
\* canAutoChain, enforceApprovalOverride).
THEOREM Authorisation == Spec => []ChainAuthorised
<1> QED BY ChainAuthorisedInv, Invariance, PTL

\* A gate that was not raced for is decided once.
LEMMA GateRunsOnceInv ==
    ASSUME Inv
    PROVE  GateRunsOnce
<1> SUFFICES ASSUME NEW r \in RunIds \ raced
    PROVE /\ remedied[r] <= 1
          /\ row[r].outcome = "abandoned" => remedied[r] = 0 /\ feedback[r] # "correct"
          /\ remedied[r] = 1 => r \notin denied
  BY DEF GateRunsOnce
<1>1. GateOK(r, row[r].outcome, h, remedied[r], feedback[r], r \in denied)
  BY DEF Inv
<1> QED BY <1>1 DEF GateOK

\* A gate starts at most one remediation, and none when it was denied, unless two operators
\* held it at the same time or the PATCH that closes it was lost (handleProceedEscalation).
THEOREM RunsOnce == Spec => []GateRunsOnce
<1> QED BY GateRunsOnceInv, Invariance, PTL

\* The row of an announced gate.
LEMMA AnnouncedGateStandsInv ==
    ASSUME Inv
    PROVE  AnnouncedGateStands
<1> SUFFICES ASSUME NEW n \in notified, n.depth = 1
    PROVE LET outcome == row[n.run].outcome
              toCome == {p.row.outcome : p \in {q \in patches : q.run = n.run}}
          IN \/ outcome = "unknown" /\ toCome = {"gate_pending"}
             \/ outcome = "gate_pending" /\ toCome = {}
             \/ outcome \in {"escalated", "transitioned"} /\ toCome = {} /\ n.run \in approved
             \/ outcome = "abandoned" /\ toCome = {} /\ n.run \in denied
  BY DEF AnnouncedGateStands
<1> DEFINE toCome == {p.row.outcome : p \in {q \in patches : q.run = n.run}}
<1>1. AnnouncedOK(row, patches, n.run, approved, denied) /\ RunsOK(row, h, patches)
  BY DEF Inv
<1>2. CASE \E p \in patches : p.run = n.run /\ p.row.outcome = "gate_pending"
  <2>1. PICK p \in patches : p.run = n.run /\ p.row.outcome = "gate_pending"
    BY <1>2
  <2>2. row[n.run].outcome = "unknown" /\ \A q \in patches : q.run = n.run => q = p
    BY <1>1, <2>1 DEF RunsOK
  <2>3. toCome = {"gate_pending"}
    BY <2>1, <2>2
  <2> QED BY <2>2, <2>3
<1>3. CASE ~\E p \in patches : p.run = n.run /\ p.row.outcome = "gate_pending"
  <2>1. row[n.run].outcome # "unknown" /\ AnnouncedOK(row, {}, n.run, approved, denied)
    BY <1>1, <1>3 DEF AnnouncedOK
  <2>2. \A q \in patches : q.run # n.run
    BY <1>1, <2>1 DEF RunsOK
  <2>3. toCome = {}
    BY <2>2
  <2> QED BY <2>1, <2>3 DEF AnnouncedOK
<1> QED BY <1>2, <1>3

\* A gate announced for the run that asked for it is pending, or waits for the one PATCH
\* that makes it so, or was closed as an operator decided (handlePlaybookRunAsAgent,
\* recordPlaybookRunComplete, handleProceedEscalation).
THEOREM AnnouncedStands == Spec => []AnnouncedGateStands
<1> QED BY AnnouncedGateStandsInv, Invariance, PTL

-----------------------------------------------------------------------------
(* Step-by-step runs (PlaybookSteps), which a gate with execution mode      *)
(* agent_approve goes on with.                                              *)

\* The handler works on proposal p; it has marked it as executing.
Holds(x, p) == x.proposal = p /\ x.pc \in {"fetched", "tool", "record"}
Works(x, p) == x.proposal = p /\ x.pc \in {"tool", "record"}

\* What a handler has in hand.
StepHandlerOK(x, st) ==
    /\ x \in StepHandlerStates
    /\ x.pc \in {"create", "approval", "fetched", "tool", "record"} =>
         x.index \in Indexes /\ x.proposal \in Proposals
    /\ x.pc \in {"fetched", "tool", "record"} => st[x.index].proposal = x.proposal
    /\ x.pc = "fetched" => x.resolution \in {"approved", "denied"}
    /\ x.pc = "record" => x.status \in {"succeeded", "failed"}

\* A proposal is made once and stored in one row.
StoreOK(st, hs, md) ==
    /\ \A i \in Indexes : st[i].status = "absent" <=> st[i].proposal = NoStep
    /\ \A i \in Indexes : st[i].proposal <= md
    /\ \A i, j \in Indexes : st[i].proposal = st[j].proposal /\ st[i].proposal # NoStep => i = j
    /\ \A t \in ProceedHandlers : hs[t].pc = "create" =>
         /\ hs[t].proposal <= md
         /\ \A i \in Indexes : st[i].proposal # hs[t].proposal
         /\ \A u \in ProceedHandlers : hs[u].pc = "create" /\ hs[u].proposal = hs[t].proposal => u = t

\* A proposal that was not disturbed: its row has status s, it was executed n times.
StepRowOK(p, s, hs, n, rf) ==
    /\ s = "proposed" => n = 0 /\ p \notin rf /\ \A t \in ProceedHandlers : Holds(hs[t], p) => hs[t].pc = "fetched"
    /\ s = "executing" => p \notin rf /\ \E t \in ProceedHandlers :
         /\ Works(hs[t], p) /\ \A u \in ProceedHandlers : Works(hs[u], p) => u = t
         /\ n = IF hs[t].pc = "tool" THEN 0 ELSE 1
    /\ s \in {"succeeded", "failed"} => n <= 1 /\ p \notin rf /\ \A t \in ProceedHandlers : ~Holds(hs[t], p)
    /\ s = "denied" => n = 0 /\ \A t \in ProceedHandlers : ~Holds(hs[t], p)
\* The same for the proposal itself, stored or not.
ProposalOK(p, st, hs, n, rf) ==
    /\ (\A i \in Indexes : st[i].proposal # p) => n = 0 /\ p \notin rf
    /\ \A i \in Indexes : st[i].proposal = p => StepRowOK(p, st[i].status, hs, n, rf)

\* Without a misplaced proposal, what was shown is what is stored under its index.
ShownOK(st, hs, sh) ==
    /\ sh.proposal # NoStep => sh.index \in Indexes /\ st[sh.index].proposal = sh.proposal
    /\ \A t \in ProceedHandlers :
         /\ hs[t].pc = "approval" => st[hs[t].index].proposal = hs[t].proposal
         /\ hs[t].pc \in {"fetched", "tool", "record"} /\ hs[t].named => hs[t].proposal = hs[t].meant

\* TypeOK and the parts above. Beyond its type, the state keeps that every proposal is
\* stored in one row for good: so "the row is pending" and "who has it in hand" together
\* count the executions.
StepsInv ==
    /\ MaxProposals \in Nat /\ StepTypeOK
    /\ \A t \in ProceedHandlers : StepHandlerOK(hd[t], step)
    /\ StoreOK(step, hd, made)
    /\ \A p \in Proposals \ disturbed : ProposalOK(p, step, hd, executed[p], refused)
    /\ misplaced \/ ShownOK(step, hd, shown)

-----------------------------------------------------------------------------
(* Facts about the operators. *)

\* The types of the state.
LEMMA StepTypes ==
    ASSUME StepsInv, NEW t \in ProceedHandlers
    PROVE  /\ step \in [Indexes -> StepRows] /\ hd \in [ProceedHandlers -> StepHandlerStates]
           /\ hd[t] \in StepHandlerStates /\ StepHandlerOK(hd[t], step) /\ StoreOK(step, hd, made)
           /\ made \in Nat /\ made <= MaxProposals /\ MaxProposals \in Nat
           /\ executed \in [Proposals -> Nat]
           /\ refused \subseteq Proposals /\ disturbed \subseteq Proposals
<1>1. /\ StepTypeOK /\ MaxProposals \in Nat
      /\ StepHandlerOK(hd[t], step) /\ StoreOK(step, hd, made)
  BY DEF StepsInv
<1>2. made \in 0..MaxProposals /\ hd \in [ProceedHandlers -> StepHandlerStates]
  BY <1>1 DEF StepTypeOK
<1>3. made \in Nat /\ made <= MaxProposals
  BY <1>1, <1>2
<1> QED BY <1>1, <1>2, <1>3 DEF StepTypeOK

\* Idle is a handler's state.
LEMMA StepIdle ==
    IdleProceed \in StepHandlerStates /\ IdleProceed.pc = "idle"
BY DEF IdleProceed, StepHandlerStates

\* Handlers that do not work on a proposal do not matter to it.
LEMMA SameHolders ==
    ASSUME NEW p, NEW st, NEW hs, NEW hs2, NEW n, NEW rf, ProposalOK(p, st, hs, n, rf),
           \A u \in ProceedHandlers : /\ Holds(hs2[u], p) <=> Holds(hs[u], p)
                                      /\ Holds(hs[u], p) => hs2[u].pc = hs[u].pc
    PROVE  ProposalOK(p, st, hs2, n, rf)
<1>1. \A u \in ProceedHandlers : Works(hs[u], p) <=> Holds(hs[u], p) /\ hs[u].pc # "fetched"
  BY DEF Works, Holds
<1>2. \A u \in ProceedHandlers : Works(hs2[u], p) <=> Holds(hs2[u], p) /\ hs2[u].pc # "fetched"
  BY DEF Works, Holds
<1>3. \A u \in ProceedHandlers : /\ Works(hs2[u], p) <=> Works(hs[u], p)
                                 /\ Works(hs[u], p) => hs2[u].pc = hs[u].pc
  BY <1>1, <1>2
<1>4. ASSUME NEW s, StepRowOK(p, s, hs, n, rf) PROVE StepRowOK(p, s, hs2, n, rf)
  <2>1. s = "executing" => p \notin rf /\ \E t \in ProceedHandlers :
          /\ Works(hs2[t], p) /\ \A u \in ProceedHandlers : Works(hs2[u], p) => u = t
          /\ n = IF hs2[t].pc = "tool" THEN 0 ELSE 1
    BY <1>3, <1>4 DEF StepRowOK
  <2> QED BY <1>4, <2>1 DEF StepRowOK
<1> QED BY <1>4 DEF ProposalOK

-----------------------------------------------------------------------------
(* Steps. *)

\* One handler goes on and the table stays as it is; the proposals it works on, before or
\* after, are looked at by themselves.
LEMMA OneHandlerInv ==
    ASSUME StepsInv, NEW t \in ProceedHandlers, NEW y, hd' = [hd EXCEPT ![t] = y], UNCHANGED step,
           StepTypeOK', StepHandlerOK(y, step), StoreOK(step, hd', made'),
           \A p \in Proposals \ disturbed' : p \notin disturbed
             /\ (executed'[p] = executed[p] \/ Holds(hd[t], p) \/ Holds(y, p))
             /\ (p \in refused' <=> p \in refused),
           \A p \in Proposals \ disturbed' : Holds(hd[t], p) \/ Holds(y, p) =>
             ProposalOK(p, step, hd', executed'[p], refused),
           misplaced' \/ ShownOK(step, hd', shown')
    PROVE  StepsInv'
<1>1. hd \in [ProceedHandlers -> StepHandlerStates]
  BY StepTypes
<1>2. \A u \in ProceedHandlers : hd'[u] = IF u = t THEN y ELSE hd[u]
  BY <1>1
<1>3. \A u \in ProceedHandlers : StepHandlerOK(hd'[u], step')
  BY <1>2 DEF StepsInv
<1>4. ASSUME NEW p \in Proposals \ disturbed' PROVE ProposalOK(p, step', hd', executed'[p], refused')
  <2>1. ProposalOK(p, step, hd, executed[p], refused)
    BY <1>4 DEF StepsInv
  <2>2. ProposalOK(p, step, hd', executed'[p], refused)
    <3>1. CASE Holds(hd[t], p) \/ Holds(y, p)
      BY <1>4, <3>1
    <3>2. CASE ~(Holds(hd[t], p) \/ Holds(y, p))
      <4>1. \A u \in ProceedHandlers : /\ Holds(hd'[u], p) <=> Holds(hd[u], p)
                                       /\ Holds(hd[u], p) => hd'[u].pc = hd[u].pc
        BY <1>2, <3>2
      <4> QED BY <1>4, <2>1, <3>2, <4>1, SameHolders
    <3> QED BY <3>1, <3>2
  <2>3. p \in refused' <=> p \in refused
    BY <1>4
  <2> QED BY <2>2, <2>3 DEF ProposalOK, StepRowOK
<1> QED BY <1>3, <1>4 DEF StepsInv

\* The planner is asked.
LEMMA ProposeInv ==
    ASSUME StepsInv, NEW t \in ProceedHandlers, hd[t].pc \in {"propose", "history"}, NEW hist,
           Propose(t, hist),
           UNCHANGED <<runOutcome, step, idWrites, hub, requests, shown, executed, refused, disturbed, misplaced>>
    PROVE  StepsInv'
<1>1. PICK y \in StepHandlerStates :
        /\ hd' = [hd EXCEPT ![t] = y] /\ outcomeWrites' \subseteq {"resolved", "abandoned"}
        /\ \/ y.pc = "idle" /\ made' = made
           \/ /\ y.pc = "create" /\ y.index \in Indexes /\ made' = made + 1 /\ y.proposal = made'
              /\ made < MaxProposals
  <2>1. outcomeWrites \subseteq {"resolved", "abandoned"}
    BY DEF StepsInv, StepTypeOK
  <2>2. CASE /\ \/ outcomeWrites' = IF made = 0 THEN outcomeWrites ELSE outcomeWrites \cup {"abandoned"}
                \/ outcomeWrites' = outcomeWrites \cup {"resolved"}
             /\ hd' = [hd EXCEPT ![t] = IdleProceed] /\ UNCHANGED made
    BY <2>1, <2>2, StepIdle
  <2>3. CASE /\ made < MaxProposals /\ made' = made + 1
             /\ NextIndex(hist) \in Indexes
             /\ hd' = [hd EXCEPT ![t] = [IdleProceed EXCEPT !.pc = "create", !.index = NextIndex(hist),
                                                            !.proposal = made + 1]]
             /\ UNCHANGED outcomeWrites
    <3> DEFINE y == [IdleProceed EXCEPT !.pc = "create", !.index = NextIndex(hist), !.proposal = made + 1]
    <3>1. made + 1 \in Proposals
      BY <2>3, StepTypes DEF Proposals
    <3>2. y \in StepHandlerStates /\ y.pc = "create" /\ y.index = NextIndex(hist) /\ y.proposal = made + 1
      BY <2>3, <3>1 DEF IdleProceed, StepHandlerStates
    <3> HIDE DEF y
    <3> QED BY <2>1, <2>3, <3>2 DEF y
  <2> QED BY <2>2, <2>3 DEF Propose
<1>2. /\ hd \in [ProceedHandlers -> StepHandlerStates] /\ step \in [Indexes -> StepRows] /\ StoreOK(step, hd, made)
      /\ made \in Nat /\ MaxProposals \in Nat
  BY StepTypes
<1>3. \A u \in ProceedHandlers : hd'[u] = IF u = t THEN y ELSE hd[u]
  BY <1>1, <1>2
<1>4. StepTypeOK'
  <2>1. hd' \in [ProceedHandlers -> StepHandlerStates] /\ made' \in 0..MaxProposals
    BY <1>1, <1>2 DEF StepsInv, StepTypeOK
  <2> QED BY <1>1, <2>1 DEF StepsInv, StepTypeOK
<1>5. StepHandlerOK(y, step)
  BY <1>1, <1>2 DEF StepHandlerOK, Proposals
<1>6. \A i \in Indexes : step[i].proposal \in Nat
  BY <1>2 DEF StepRows, NoStep, Proposals
<1>7. StoreOK(step, hd', made')
  <2>1. \A u \in ProceedHandlers : hd[u].proposal \in Nat
    <3>1. \A u \in ProceedHandlers : hd[u].proposal \in {NoStep} \cup Proposals
      BY <1>2 DEF StepHandlerStates
    <3> QED BY <3>1 DEF Proposals, NoStep
  <2>2. CASE y.pc = "idle" /\ made' = made
    <3>1. \A u \in ProceedHandlers : hd'[u].pc = "create" => hd'[u] = hd[u]
      BY <1>3, <2>2
    <3> QED BY <1>2, <2>2, <3>1 DEF StoreOK
  <2>3. CASE y.pc = "create" /\ made' = made + 1 /\ y.proposal = made'
    <3>1. \A i \in Indexes : step[i].proposal <= made' /\ step[i].proposal # y.proposal
      BY <1>2, <1>6, <2>3 DEF StoreOK
    <3>2. \A u \in ProceedHandlers : u # t /\ hd'[u].pc = "create" => hd'[u].proposal # y.proposal /\ hd'[u].proposal <= made'
      BY <1>2, <1>3, <2>1, <2>3 DEF StoreOK
    <3>3. y.proposal <= made'
      BY <1>2, <2>3
    <3> QED BY <1>2, <1>3, <3>1, <3>2, <3>3 DEF StoreOK
  <2> QED BY <1>1, <2>2, <2>3
<1>8. \A p : ~Holds(hd[t], p) /\ ~Holds(y, p)
  BY <1>1 DEF Holds
<1>9. misplaced \/ ShownOK(step, hd', shown)
  BY <1>1, <1>3 DEF StepsInv, ShownOK
<1> QED BY <1>1, <1>4, <1>5, <1>7, <1>8, <1>9, OneHandlerInv

\* proposeNextStep, with the history there is or with none.
LEMMA PlannerInv ==
    ASSUME StepsInv, NEW t \in ProceedHandlers, ProposeFirst(t) \/ Replan(t)
    PROVE  StepsInv'
<1>1. PICK hist \in {Steps, {}} :
        /\ hd[t].pc \in {"propose", "history"} /\ Propose(t, hist)
        /\ UNCHANGED <<runOutcome, step, idWrites, hub, requests, shown, executed, refused, disturbed, misplaced>>
  BY DEF ProposeFirst, Replan
<1> QED BY <1>1, ProposeInv

\* The response.
LEMMA AskInv ==
    ASSUME StepsInv, NEW t \in ProceedHandlers, createStepApproval(t)
    PROVE  StepsInv'
<1> DEFINE x == hd[t]
<1>1. /\ x.pc = "approval" /\ hd' = [hd EXCEPT ![t] = IdleProceed]
      /\ shown' = [proposal |-> x.proposal, index |-> x.index]
      /\ UNCHANGED <<runOutcome, step, outcomeWrites, made, requests, executed, refused, disturbed, misplaced>>
  BY DEF createStepApproval
<1>2. hd \in [ProceedHandlers -> StepHandlerStates] /\ step \in [Indexes -> StepRows] /\ StoreOK(step, hd, made)
      /\ x.index \in Indexes /\ x.proposal \in Proposals
  BY <1>1, StepTypes DEF StepHandlerOK
<1>3. \A u \in ProceedHandlers : hd'[u] = IF u = t THEN IdleProceed ELSE hd[u]
  BY <1>1, <1>2
<1>4. StepTypeOK'
  <2>1. hd' \in [ProceedHandlers -> StepHandlerStates]
    BY <1>1, <1>2, StepIdle
  <2>2. hub' \in [Proposals -> {"none", "pending", "approved", "denied"}] /\ idWrites' \subseteq Indexes
    BY <1>2 DEF createStepApproval, StepsInv, StepTypeOK
  <2>3. shown' \in [proposal : {NoStep} \cup Proposals, index : {NoStep} \cup Indexes]
    BY <1>1, <1>2
  <2> QED BY <1>1, <2>1, <2>2, <2>3 DEF StepsInv, StepTypeOK
<1>5. StepHandlerOK(IdleProceed, step)
  BY StepIdle DEF StepHandlerOK
<1>6. StoreOK(step, hd', made)
  BY <1>2, <1>3, StepIdle DEF StoreOK
<1>7. \A p : ~Holds(hd[t], p) /\ ~Holds(IdleProceed, p)
  BY <1>1, StepIdle DEF Holds
<1>8. misplaced \/ ShownOK(step, hd', shown')
  BY <1>1, <1>2, <1>3, StepIdle DEF StepsInv, ShownOK
<1> QED BY <1>1, <1>4, <1>5, <1>6, <1>7, <1>8, OneHandlerInv
\* The row is stored, or not.
LEMMA StoreInv ==
    ASSUME StepsInv, NEW t \in ProceedHandlers, createRunStep(t)
    PROVE  StepsInv'
<1> DEFINE x == hd[t]
<1> DEFINE i == x.index
<1> DEFINE y == [x EXCEPT !.pc = "approval"]
<1>1. /\ x.pc = "create" /\ hd' = [hd EXCEPT ![t].pc = "approval"]
      /\ UNCHANGED <<runOutcome, outcomeWrites, idWrites, hub, made, requests, shown, executed, refused, disturbed>>
  BY DEF createRunStep
<1>2. /\ hd \in [ProceedHandlers -> StepHandlerStates] /\ step \in [Indexes -> StepRows]
      /\ StoreOK(step, hd, made) /\ x \in StepHandlerStates
      /\ i \in Indexes /\ x.proposal \in Proposals /\ x.proposal <= made
  BY <1>1, StepTypes DEF StepHandlerOK, StoreOK
<1>3. hd' = [hd EXCEPT ![t] = y]
  BY <1>1, <1>2
<1>4. y \in StepHandlerStates /\ y.pc = "approval" /\ y.index = i /\ y.proposal = x.proposal
  BY <1>2 DEF StepHandlerStates
<1> HIDE DEF y
<1>5. \A u \in ProceedHandlers : hd'[u] = IF u = t THEN y ELSE hd[u]
  BY <1>2, <1>3
<1>6. hd' \in [ProceedHandlers -> StepHandlerStates]
  BY <1>2, <1>3, <1>4
<1>7. \A p : ~Holds(x, p) /\ ~Holds(y, p)
  BY <1>1, <1>4 DEF Holds
<1>8. x.proposal # NoStep
  BY <1>2 DEF Proposals, NoStep
<1>9. CASE UNCHANGED step /\ misplaced' = TRUE
  <2>1. StepTypeOK'
    BY <1>1, <1>6, <1>9 DEF StepsInv, StepTypeOK
  <2>2. StepHandlerOK(y, step)
    BY <1>2, <1>4 DEF StepHandlerOK
  <2>3. StoreOK(step, hd', made)
    <3>1. \A u \in ProceedHandlers : hd'[u].pc = "create" => hd'[u] = hd[u]
      BY <1>4, <1>5
    <3> QED BY <1>2, <3>1 DEF StoreOK
  <2> QED BY <1>1, <1>3, <1>7, <1>9, <2>1, <2>2, <2>3, OneHandlerInv
<1>10. CASE /\ step[i].status = "absent" /\ UNCHANGED misplaced
            /\ step' = [step EXCEPT ![i] = [status |-> "proposed", proposal |-> x.proposal]]
  <2> DEFINE stored == [status |-> "proposed", proposal |-> x.proposal]
  <2>1. stored \in StepRows /\ stored.status = "proposed" /\ stored.proposal = x.proposal
    BY <1>2 DEF StepRows, Statuses
  <2>2. \A j \in Indexes : step'[j] = IF j = i THEN stored ELSE step[j]
    BY <1>2, <1>10
  <2>3. step' \in [Indexes -> StepRows]
    BY <1>2, <1>10, <2>1
  <2> HIDE DEF stored
  <2>4. step[i].proposal = NoStep
    BY <1>2, <1>10 DEF StoreOK
  <2>5. StepTypeOK'
    BY <1>1, <1>6, <1>10, <2>3 DEF StepsInv, StepTypeOK
  <2>6. ASSUME NEW u \in ProceedHandlers PROVE StepHandlerOK(hd'[u], step')
    <3>1. CASE u = t
      BY <1>2, <1>4, <1>5, <3>1 DEF StepHandlerOK
    <3>2. CASE u # t
      <4>1. StepHandlerOK(hd[u], step) /\ hd'[u] = hd[u]
        BY <1>5, <3>2, StepTypes
      <4>2. hd[u].pc \in {"fetched", "tool", "record"} => hd[u].index \in Indexes /\ hd[u].index # i
        BY <2>4, <4>1 DEF StepHandlerOK, Proposals, NoStep
      <4> QED BY <2>2, <4>1, <4>2 DEF StepHandlerOK
    <3> QED BY <3>1, <3>2
  <2>7. StoreOK(step', hd', made)
    <3>1. \A u \in ProceedHandlers : hd'[u].pc = "create" => hd'[u] = hd[u] /\ u # t /\ hd[u].proposal # x.proposal
      BY <1>1, <1>2, <1>4, <1>5 DEF StoreOK
    <3>2. \A j \in Indexes : step[j].proposal # x.proposal
      BY <1>1, <1>2 DEF StoreOK
    <3>3. \A j \in Indexes : step'[j].status = "absent" <=> step'[j].proposal = NoStep
      BY <1>2, <1>8, <2>1, <2>2 DEF StoreOK
    <3>4. \A j \in Indexes : step'[j].proposal <= made
      BY <1>2, <2>1, <2>2 DEF StoreOK
    <3>5. \A j, k \in Indexes : step'[j].proposal = step'[k].proposal /\ step'[j].proposal # NoStep => j = k
      BY <1>2, <2>1, <2>2, <3>2 DEF StoreOK
    <3>6. \A u \in ProceedHandlers : hd'[u].pc = "create" => \A j \in Indexes : step'[j].proposal # hd'[u].proposal
      BY <1>2, <2>1, <2>2, <3>1 DEF StoreOK
    <3> QED BY <1>2, <3>1, <3>3, <3>4, <3>5, <3>6 DEF StoreOK
  <2>8. ASSUME NEW p \in Proposals \ disturbed PROVE ProposalOK(p, step', hd', executed[p], refused)
    <3>1. ProposalOK(p, step, hd, executed[p], refused)
      BY DEF StepsInv
    <3>2. \A u \in ProceedHandlers : /\ Holds(hd'[u], p) <=> Holds(hd[u], p)
                                     /\ Holds(hd[u], p) => hd'[u].pc = hd[u].pc
      BY <1>5, <1>7
    <3>3. ProposalOK(p, step, hd', executed[p], refused)
      BY <3>1, <3>2, SameHolders
    <3>4. CASE p # x.proposal
      <4>1. p # NoStep
        BY DEF Proposals, NoStep
      <4>2. \A j \in Indexes : step'[j].proposal = p <=> step[j].proposal = p
        BY <2>1, <2>2, <2>4, <3>4, <4>1
      <4>3. \A j \in Indexes : step'[j].proposal = p => step'[j] = step[j]
        BY <2>1, <2>2, <3>4
      <4> QED BY <3>3, <4>2, <4>3 DEF ProposalOK
    <3>5. CASE p = x.proposal
      <4>1. executed[p] = 0 /\ p \notin refused
        BY <1>1, <1>2, <3>1, <3>5 DEF ProposalOK, StoreOK
      <4>2. \A u \in ProceedHandlers : ~Holds(hd[u], p)
        <5> SUFFICES ASSUME NEW u \in ProceedHandlers, Holds(hd[u], p) PROVE FALSE
          OBVIOUS
        <5>1. hd[u].index \in Indexes /\ step[hd[u].index].proposal = p
          BY StepTypes DEF StepHandlerOK, Holds
        <5> QED BY <1>1, <1>2, <3>5, <5>1 DEF StoreOK
      <4>3. StepRowOK(p, "proposed", hd', executed[p], refused)
        BY <3>2, <4>1, <4>2 DEF StepRowOK
      <4>4. \A j \in Indexes : step'[j].proposal = p => step'[j].status = "proposed"
        BY <1>1, <1>2, <2>1, <2>2, <3>5 DEF StoreOK
      <4>5. step'[i].proposal = p
        BY <1>2, <2>1, <2>2, <3>5
      <4> QED BY <1>2, <4>3, <4>4, <4>5 DEF ProposalOK
    <3> QED BY <3>4, <3>5
  <2>9. misplaced' \/ ShownOK(step', hd', shown')
    <3>1. SUFFICES ASSUME ~misplaced PROVE ShownOK(step', hd', shown)
      BY <1>1, <1>10
    <3>2. ShownOK(step, hd, shown)
      BY <3>1 DEF StepsInv
    <3>3. \A j \in Indexes : step[j].proposal # NoStep => step'[j] = step[j]
      BY <2>2, <2>4
    <3>4. shown.proposal # NoStep => shown.index \in Indexes /\ step'[shown.index].proposal = shown.proposal
      BY <3>2, <3>3 DEF ShownOK
    <3>5. ASSUME NEW u \in ProceedHandlers, hd'[u].pc = "approval" PROVE step'[hd'[u].index].proposal = hd'[u].proposal
      <4>1. CASE u = t
        BY <1>2, <1>4, <1>5, <2>1, <2>2, <4>1
      <4>2. CASE u # t
        <5>1. hd'[u] = hd[u] /\ hd[u].index \in Indexes /\ hd[u].proposal \in Proposals
          BY <1>5, <3>5, <4>2, StepTypes DEF StepHandlerOK
        <5>2. step[hd[u].index].proposal = hd[u].proposal /\ hd[u].proposal # NoStep
          BY <3>2, <3>5, <5>1 DEF ShownOK, Proposals, NoStep
        <5> QED BY <3>3, <5>1, <5>2
      <4> QED BY <4>1, <4>2
    <3>6. \A u \in ProceedHandlers : hd'[u].pc \in {"fetched", "tool", "record"} => hd'[u] = hd[u]
      BY <1>4, <1>5
    <3> QED BY <3>2, <3>4, <3>5, <3>6 DEF ShownOK
  <2> QED BY <1>1, <2>5, <2>6, <2>7, <2>8, <2>9 DEF StepsInv
<1> QED BY <1>9, <1>10 DEF createRunStep

\* The pending step is read.
LEMMA FetchInv ==
    ASSUME StepsInv, NEW t \in ProceedHandlers, fetchPendingStep(t)
    PROVE  StepsInv'
<1> DEFINE x == hd[t]
<1>1. PICK i \in Indexes, resolution \in {"approved", "denied"}, named \in BOOLEAN :
        /\ Matches(i, named)
        /\ hd' = [hd EXCEPT ![t] = [IdleProceed EXCEPT
                 !.pc = "fetched", !.index = i, !.proposal = step[i].proposal,
                 !.resolution = resolution, !.meant = shown.proposal, !.named = named]]
  BY DEF fetchPendingStep
<1> DEFINE y == [IdleProceed EXCEPT !.pc = "fetched", !.index = i, !.proposal = step[i].proposal,
                                    !.resolution = resolution, !.meant = shown.proposal, !.named = named]
<1> DEFINE p == step[i].proposal
<1>2. /\ x.pc = "idle" /\ requests < MaxProceeds /\ requests' = requests + 1 /\ shown.proposal # NoStep
      /\ UNCHANGED <<runOutcome, step, outcomeWrites, idWrites, hub, made, shown, executed, refused, disturbed, misplaced>>
  BY DEF fetchPendingStep
<1>3. hd \in [ProceedHandlers -> StepHandlerStates] /\ step \in [Indexes -> StepRows] /\ StoreOK(step, hd, made)
  BY StepTypes
<1>4. step[i].status \in {"proposed", "executing"} /\ (named => i = shown.index)
  BY <1>1 DEF Matches, IsFirst, PendingSteps
<1>5. p \in Proposals
  <2>1. p \in {NoStep} \cup Proposals /\ p # NoStep
    BY <1>3, <1>4 DEF StoreOK, StepRows
  <2> QED BY <2>1
<1>6. /\ y.pc = "fetched" /\ y.index = i /\ y.proposal = p /\ y.resolution = resolution
      /\ y.meant = shown.proposal /\ y.named = named
  BY DEF IdleProceed
<1>7. y \in StepHandlerStates
  <2>1. shown.proposal \in {NoStep} \cup Proposals
    BY DEF StepsInv, StepTypeOK
  <2> HIDE DEF p
  <2> QED BY <1>5, <2>1 DEF IdleProceed, StepHandlerStates, p
<1>8. hd' = [hd EXCEPT ![t] = y]
  BY <1>1
<1> HIDE DEF y
<1>9. \A u \in ProceedHandlers : hd'[u] = IF u = t THEN y ELSE hd[u]
  BY <1>3, <1>8
<1>10. StepTypeOK'
  <2>1. hd' \in [ProceedHandlers -> StepHandlerStates] /\ requests' \in 0..MaxProceeds
    BY <1>2, <1>3, <1>7, <1>8, StepAssumption DEF StepsInv, StepTypeOK
  <2> QED BY <1>2, <2>1 DEF StepsInv, StepTypeOK
<1>11. StepHandlerOK(y, step)
  BY <1>5, <1>6, <1>7 DEF StepHandlerOK
<1>12. StoreOK(step, hd', made)
  <2>1. \A u \in ProceedHandlers : hd'[u].pc = "create" => hd'[u] = hd[u]
    BY <1>6, <1>9
  <2> QED BY <1>3, <2>1 DEF StoreOK
<1>13. \A q : ~Holds(x, q) /\ (Holds(y, q) => q = p)
  BY <1>2, <1>6 DEF Holds
<1>14. ASSUME NEW q \in Proposals \ disturbed, Holds(y, q) PROVE ProposalOK(q, step, hd', executed[q], refused)
  <2>1. ProposalOK(p, step, hd, executed[p], refused) /\ q = p
    BY <1>5, <1>13, <1>14 DEF StepsInv
  <2>2. \A j \in Indexes : step[j].proposal = p => j = i
    BY <1>3, <1>5 DEF StoreOK, Proposals, NoStep
  <2>3. StepRowOK(p, step[i].status, hd, executed[p], refused)
    BY <2>1 DEF ProposalOK
  <2>4. \A u \in ProceedHandlers : /\ Holds(hd'[u], p) => hd'[u].pc = "fetched" \/ Holds(hd[u], p)
                                   /\ Works(hd'[u], p) <=> Works(hd[u], p)
                                   /\ Works(hd[u], p) => hd'[u].pc = hd[u].pc
    BY <1>2, <1>6, <1>9 DEF Holds, Works
  <2>5. \A u \in ProceedHandlers : Holds(hd'[u], p) /\ Holds(hd[u], p) => hd'[u] = hd[u]
    BY <1>9, <1>13
  <2>6. StepRowOK(p, step[i].status, hd', executed[p], refused)
    <3>1. CASE step[i].status = "proposed"
      BY <2>3, <2>4, <2>5, <3>1 DEF StepRowOK
    <3>2. CASE step[i].status = "executing"
      <4>1. PICK w \in ProceedHandlers : /\ Works(hd[w], p) /\ \A u \in ProceedHandlers : Works(hd[u], p) => u = w
                                         /\ executed[p] = IF hd[w].pc = "tool" THEN 0 ELSE 1
        BY <2>3, <3>2 DEF StepRowOK
      <4>2. /\ Works(hd'[w], p) /\ \A u \in ProceedHandlers : Works(hd'[u], p) => u = w
            /\ executed[p] = IF hd'[w].pc = "tool" THEN 0 ELSE 1
        BY <2>4, <4>1
      <4> QED BY <2>3, <3>2, <4>2 DEF StepRowOK
    <3> QED BY <1>4, <3>1, <3>2
  <2> QED BY <2>1, <2>2, <2>6 DEF ProposalOK
<1>15. misplaced \/ ShownOK(step, hd', shown)
  <2>1. SUFFICES ASSUME ~misplaced PROVE ShownOK(step, hd', shown)
    OBVIOUS
  <2>2. ShownOK(step, hd, shown)
    BY <2>1 DEF StepsInv
  <2>3. y.named => y.proposal = y.meant
    BY <1>2, <1>4, <1>6, <2>2 DEF ShownOK
  <2>4. \A u \in ProceedHandlers : /\ hd'[u].pc = "approval" => hd'[u] = hd[u]
                                   /\ u # t => hd'[u] = hd[u]
    BY <1>6, <1>9
  <2> QED BY <1>9, <2>2, <2>3, <2>4 DEF ShownOK
<1> HIDE DEF p
<1> QED BY <1>2, <1>8, <1>10, <1>11, <1>12, <1>13, <1>14, <1>15, OneHandlerInv

\* A write of the status of a row leaves alone where proposals are stored.
LEMMA StatusOnly ==
    ASSUME StepsInv, NEW st, NEW hs, NEW md, NEW shn,
           \A i \in Indexes : /\ st[i].proposal = step[i].proposal
                              /\ st[i].status = "absent" <=> step[i].status = "absent",
           \A u \in ProceedHandlers : StepHandlerOK(hs[u], step)
    PROVE  /\ StoreOK(step, hs, md) => StoreOK(st, hs, md)
           /\ \A u \in ProceedHandlers : StepHandlerOK(hs[u], st)
           /\ ShownOK(step, hs, shn) => ShownOK(st, hs, shn)
<1>1. StoreOK(step, hs, md) => StoreOK(st, hs, md)
  BY DEF StoreOK
<1>2. ASSUME NEW u \in ProceedHandlers PROVE StepHandlerOK(hs[u], st)
  BY DEF StepHandlerOK
<1>3. \A u \in ProceedHandlers : hs[u].pc = "approval" => hs[u].index \in Indexes
  BY DEF StepHandlerOK
<1>4. ShownOK(step, hs, shn) => ShownOK(st, hs, shn)
  BY <1>3 DEF ShownOK
<1> QED BY <1>1, <1>2, <1>4

\* A handler writes the status of the row it read. What it does to an undisturbed
\* proposal, which nobody else has in hand, is looked at by itself.
LEMMA UpdateInv ==
    ASSUME StepsInv, NEW t \in ProceedHandlers, hd[t].pc \in {"fetched", "record"},
           NEW s \in {"executing", "succeeded", "failed", "denied"}, updateRunStep(t, s),
           NEW y \in StepHandlerStates, hd' = [hd EXCEPT ![t] = y], y.pc \in {"idle", "tool", "history"},
           y.pc = "tool" => /\ y.index = hd[t].index /\ y.proposal = hd[t].proposal
                            /\ y.named = hd[t].named /\ y.meant = hd[t].meant,
           runOutcome' = runOutcome, outcomeWrites' \subseteq {"resolved", "abandoned"},
           refused' = refused \/ refused' = refused \cup {hd[t].proposal},
           UNCHANGED <<idWrites, hub, made, requests, shown, executed, misplaced>>,
           /\ hd[t].proposal \notin disturbed
           /\ StepRowOK(hd[t].proposal, step[hd[t].index].status, hd, executed[hd[t].proposal], refused)
           /\ \A u \in ProceedHandlers : Holds(hd[u], hd[t].proposal) => u = t
           => StepRowOK(hd[t].proposal, s, hd', executed[hd[t].proposal], refused')
    PROVE  StepsInv'
<1> DEFINE x == hd[t]
<1> DEFINE i == x.index
<1> DEFINE p == x.proposal
<1>1. PICK lost \in BOOLEAN :
        /\ step' = IF lost THEN step ELSE [step EXCEPT ![i].status = s]
        /\ disturbed' = IF lost \/ StepHolders(p) # {t} THEN disturbed \cup {p} ELSE disturbed
  BY DEF updateRunStep
<1>2. /\ hd \in [ProceedHandlers -> StepHandlerStates] /\ step \in [Indexes -> StepRows] /\ StoreOK(step, hd, made)
      /\ i \in Indexes /\ p \in Proposals /\ step[i].proposal = p
      /\ refused \subseteq Proposals /\ disturbed \subseteq Proposals
  BY StepTypes DEF StepHandlerOK
<1>3. p # NoStep /\ step[i].status # "absent"
  BY <1>2 DEF StoreOK, Proposals, NoStep
<1>4. \A u \in ProceedHandlers : hd'[u] = IF u = t THEN y ELSE hd[u]
  BY <1>2
<1>5. hd' \in [ProceedHandlers -> StepHandlerStates]
  BY <1>2
<1>6. step[i] \in StepRows /\ [step[i] EXCEPT !.status = s] \in StepRows
      /\ [step[i] EXCEPT !.status = s].status = s
      /\ [step[i] EXCEPT !.status = s].proposal = p
  BY <1>2 DEF StepRows, Statuses
<1>7. step' \in [Indexes -> StepRows]
      /\ \A j \in Indexes : ~lost => step'[j] = IF j = i THEN [step[i] EXCEPT !.status = s] ELSE step[j]
  BY <1>1, <1>2, <1>6
<1>8. \A j \in Indexes : /\ step'[j].proposal = step[j].proposal
                         /\ j # i \/ lost => step'[j] = step[j]
                         /\ j = i /\ ~lost => step'[j].status = s
  BY <1>1, <1>2, <1>6, <1>7
<1>9. \A j \in Indexes : step'[j].status = "absent" <=> step[j].status = "absent"
  BY <1>3, <1>8
<1>10. StepTypeOK'
  <2>1. refused' \subseteq Proposals /\ disturbed' \subseteq Proposals
    BY <1>1, <1>2
  <2> QED BY <1>5, <1>7, <2>1 DEF StepsInv, StepTypeOK
<1>11. \A u \in ProceedHandlers : StepHandlerOK(hd'[u], step)
  <2>1. StepHandlerOK(y, step)
    BY <1>2 DEF StepHandlerOK
  <2> QED BY <1>4, <2>1, StepTypes
<1>12. StoreOK(step, hd', made)
  <2>1. \A u \in ProceedHandlers : hd'[u].pc = "create" => hd'[u] = hd[u]
    BY <1>4
  <2> QED BY <1>2, <2>1 DEF StoreOK
<1>13. ShownOK(step, hd, shown) => ShownOK(step, hd', shown)
  <2>1. \A u \in ProceedHandlers : /\ hd'[u].pc = "approval" => hd'[u] = hd[u]
                                   /\ u # t => hd'[u] = hd[u]
    BY <1>4
  <2> QED BY <1>4, <2>1 DEF ShownOK
<1>14. /\ StoreOK(step', hd', made) /\ \A u \in ProceedHandlers : StepHandlerOK(hd'[u], step')
       /\ ShownOK(step, hd, shown) => ShownOK(step', hd', shown)
  BY <1>8, <1>9, <1>11, <1>12, <1>13, StatusOnly
<1>15. ASSUME NEW q \in Proposals \ disturbed' PROVE ProposalOK(q, step', hd', executed[q], refused')
  <2>1. q \notin disturbed /\ ProposalOK(q, step, hd, executed[q], refused)
    BY <1>1 DEF StepsInv
  <2>2. CASE q # p
    <3>1. \A u \in ProceedHandlers : /\ Holds(hd'[u], q) <=> Holds(hd[u], q)
                                     /\ Holds(hd[u], q) => hd'[u].pc = hd[u].pc
      BY <1>4, <2>2 DEF Holds
    <3>2. ProposalOK(q, step, hd', executed[q], refused)
      BY <2>1, <3>1, SameHolders
    <3>3. \A j \in Indexes : step'[j].proposal = q <=> step[j].proposal = q
      BY <1>8
    <3>4. \A j \in Indexes : step[j].proposal = q => step'[j] = step[j]
      BY <1>2, <1>8, <2>2
    <3>5. q \in refused' <=> q \in refused
      BY <2>2
    <3> QED BY <3>2, <3>3, <3>4, <3>5 DEF ProposalOK, StepRowOK
  <2>3. CASE q = p
    <3>1. ~lost /\ StepHolders(p) = {t} /\ p \notin disturbed
      BY <1>1, <2>1, <2>3
    <3>2. \A u \in ProceedHandlers : Holds(hd[u], p) => u = t
      BY <3>1 DEF StepHolders, Holds
    <3>3. StepRowOK(p, step[i].status, hd, executed[p], refused)
      BY <1>2, <2>1, <2>3 DEF ProposalOK
    <3>4. StepRowOK(p, s, hd', executed[p], refused')
      BY <3>1, <3>2, <3>3
    <3>5. \A j \in Indexes : step'[j].proposal = p => j = i
      BY <1>2, <1>3, <1>8 DEF StoreOK
    <3>6. step'[i].proposal = p /\ step'[i].status = s
      BY <1>2, <1>8, <3>1
    <3> QED BY <1>2, <2>3, <3>4, <3>5, <3>6 DEF ProposalOK
  <2> QED BY <2>2, <2>3
<1>16. misplaced' \/ ShownOK(step', hd', shown')
  BY <1>14 DEF StepsInv
<1> QED BY <1>10, <1>14, <1>15, <1>16 DEF StepsInv

\* A proposal that one handler alone has in hand, before it has been marked or after its
\* tool was called.
LEMMA SoleHolder ==
    ASSUME NEW t \in ProceedHandlers, NEW p, NEW s \in Statuses \ {"absent"}, NEW n, NEW rf,
           StepRowOK(p, s, hd, n, rf), Holds(hd[t], p), \A u \in ProceedHandlers : Holds(hd[u], p) => u = t
    PROVE  /\ hd[t].pc = "fetched" => n = 0 /\ p \notin rf
           /\ hd[t].pc = "record" => n = 1 /\ p \notin rf
           /\ hd[t].pc = "tool" => n = 0 /\ p \notin rf
<1>1. s \notin {"succeeded", "failed", "denied"}
  BY DEF StepRowOK
<1>2. CASE s = "proposed"
  BY <1>2 DEF StepRowOK
<1>3. CASE s = "executing"
  <2>1. PICK w \in ProceedHandlers : Works(hd[w], p) /\ n = IF hd[w].pc = "tool" THEN 0 ELSE 1
    BY <1>3 DEF StepRowOK
  <2>2. w = t
    BY <2>1 DEF Works, Holds
  <2> QED BY <1>3, <2>1, <2>2 DEF StepRowOK, Works
<1> QED BY <1>1, <1>2, <1>3 DEF Statuses

\* The proposal a handler has in hand is stored.
LEMMA InHand ==
    ASSUME StepsInv, NEW t \in ProceedHandlers, hd[t].pc \in {"fetched", "tool", "record"}
    PROVE  /\ hd[t] \in StepHandlerStates /\ hd[t].index \in Indexes /\ hd[t].proposal \in Proposals
           /\ step[hd[t].index].proposal = hd[t].proposal
           /\ step[hd[t].index].status \in Statuses \ {"absent"}
           /\ Holds(hd[t], hd[t].proposal)
<1>1. /\ hd[t] \in StepHandlerStates /\ hd[t].index \in Indexes /\ hd[t].proposal \in Proposals
      /\ step[hd[t].index].proposal = hd[t].proposal
      /\ step \in [Indexes -> StepRows] /\ StoreOK(step, hd, made)
  BY StepTypes DEF StepHandlerOK
<1>2. step[hd[t].index].status \in Statuses /\ step[hd[t].index].status # "absent"
  BY <1>1 DEF StoreOK, StepRows, Proposals, NoStep
<1> QED BY <1>1, <1>2 DEF Holds

\* The operator denies the step.
LEMMA DenyInv ==
    ASSUME StepsInv, NEW t \in ProceedHandlers, Deny(t)
    PROVE  StepsInv'
<1> DEFINE p == hd[t].proposal
<1>1. /\ hd[t].pc = "fetched" /\ updateRunStep(t, "denied") /\ hd' = [hd EXCEPT ![t] = IdleProceed]
      /\ outcomeWrites' = outcomeWrites \cup {"abandoned"} /\ refused' = refused \cup {p}
      /\ UNCHANGED <<runOutcome, idWrites, hub, made, requests, shown, executed, misplaced>>
  BY DEF Deny
<1>2. outcomeWrites' \subseteq {"resolved", "abandoned"} /\ hd \in [ProceedHandlers -> StepHandlerStates]
  BY <1>1 DEF StepsInv, StepTypeOK
<1>3. \A u \in ProceedHandlers : hd'[u] = IF u = t THEN IdleProceed ELSE hd[u]
  BY <1>1, <1>2
<1>4. ASSUME StepRowOK(p, step[hd[t].index].status, hd, executed[p], refused),
             \A u \in ProceedHandlers : Holds(hd[u], p) => u = t
      PROVE  StepRowOK(p, "denied", hd', executed[p], refused')
  <2>1. executed[p] = 0
    BY <1>1, <1>4, InHand, SoleHolder
  <2>2. \A u \in ProceedHandlers : ~Holds(hd'[u], p)
    BY <1>3, <1>4, StepIdle DEF Holds
  <2> QED BY <2>1, <2>2 DEF StepRowOK
<1> HIDE DEF p
<1> QED BY <1>1, <1>2, <1>4, StepIdle, UpdateInv DEF p

\* The step is marked before its tool is called.
LEMMA MarkInv ==
    ASSUME StepsInv, NEW t \in ProceedHandlers, MarkExecuting(t)
    PROVE  StepsInv'
<1> DEFINE p == hd[t].proposal
<1> DEFINE y == [hd[t] EXCEPT !.pc = "tool"]
<1>1. /\ hd[t].pc = "fetched" /\ updateRunStep(t, "executing") /\ hd' = [hd EXCEPT ![t].pc = "tool"]
      /\ UNCHANGED <<runOutcome, outcomeWrites, idWrites, hub, made, requests, shown, executed, refused, misplaced>>
  BY DEF MarkExecuting
<1>2. outcomeWrites \subseteq {"resolved", "abandoned"} /\ hd \in [ProceedHandlers -> StepHandlerStates]
  BY DEF StepsInv, StepTypeOK
<1>3. /\ y \in StepHandlerStates /\ y.pc = "tool" /\ y.index = hd[t].index /\ y.proposal = p
      /\ y.named = hd[t].named /\ y.meant = hd[t].meant
  BY <1>2 DEF StepHandlerStates
<1>4. hd' = [hd EXCEPT ![t] = y]
  BY <1>1, <1>2
<1> HIDE DEF y
<1>5. \A u \in ProceedHandlers : hd'[u] = IF u = t THEN y ELSE hd[u]
  BY <1>2, <1>4
<1>6. ASSUME StepRowOK(p, step[hd[t].index].status, hd, executed[p], refused),
             \A u \in ProceedHandlers : Holds(hd[u], p) => u = t
      PROVE  StepRowOK(p, "executing", hd', executed[p], refused')
  <2>1. executed[p] = 0 /\ p \notin refused
    BY <1>1, <1>6, InHand, SoleHolder
  <2>2. Works(hd'[t], p) /\ hd'[t].pc = "tool" /\ \A u \in ProceedHandlers : Works(hd'[u], p) => u = t
    BY <1>3, <1>5, <1>6 DEF Works, Holds
  <2> QED BY <1>1, <2>1, <2>2 DEF StepRowOK
<1> HIDE DEF p
<1> QED BY <1>1, <1>2, <1>3, <1>4, <1>6, UpdateInv DEF p

\* The result is stored.
LEMMA RecordInv ==
    ASSUME StepsInv, NEW t \in ProceedHandlers, RecordResult(t)
    PROVE  StepsInv'
<1> DEFINE p == hd[t].proposal
<1>1. PICK y \in StepHandlerStates : hd' = [hd EXCEPT ![t] = y] /\ y.pc \in {"idle", "history"}
  <2>1. [IdleProceed EXCEPT !.pc = "history"] \in StepHandlerStates /\ [IdleProceed EXCEPT !.pc = "history"].pc = "history"
    BY DEF IdleProceed, StepHandlerStates
  <2> QED BY <2>1, StepIdle DEF RecordResult
<1>2. /\ hd[t].pc = "record" /\ updateRunStep(t, hd[t].status)
      /\ outcomeWrites' \subseteq outcomeWrites \cup {"abandoned"}
      /\ UNCHANGED <<runOutcome, idWrites, hub, made, requests, shown, executed, refused, misplaced>>
  BY DEF RecordResult
<1>3. outcomeWrites' \subseteq {"resolved", "abandoned"} /\ hd \in [ProceedHandlers -> StepHandlerStates]
  BY <1>2 DEF StepsInv, StepTypeOK
<1>4. \A u \in ProceedHandlers : hd'[u] = IF u = t THEN y ELSE hd[u]
  BY <1>1, <1>3
<1>5. hd[t].status \in {"succeeded", "failed"}
  BY <1>2, StepTypes DEF StepHandlerOK
<1>6. ASSUME StepRowOK(p, step[hd[t].index].status, hd, executed[p], refused),
             \A u \in ProceedHandlers : Holds(hd[u], p) => u = t
      PROVE  StepRowOK(p, hd[t].status, hd', executed[p], refused')
  <2>1. executed[p] = 1 /\ p \notin refused
    BY <1>2, <1>6, InHand, SoleHolder
  <2>2. \A u \in ProceedHandlers : ~Holds(hd'[u], p)
    BY <1>1, <1>4, <1>6 DEF Holds
  <2> QED BY <1>2, <1>5, <2>1, <2>2 DEF StepRowOK
<1> HIDE DEF p
<1> QED BY <1>1, <1>2, <1>3, <1>5, <1>6, UpdateInv DEF p

\* The tool is called.
LEMMA ToolInv ==
    ASSUME StepsInv, NEW t \in ProceedHandlers, callToolForStep(t)
    PROVE  StepsInv'
<1> DEFINE x == hd[t]
<1> DEFINE p == x.proposal
<1>1. PICK s \in {"succeeded", "failed"} : hd' = [hd EXCEPT ![t].pc = "record", ![t].status = s]
  BY DEF callToolForStep
<1> DEFINE y == [x EXCEPT !.pc = "record", !.status = s]
<1>2. /\ x.pc = "tool" /\ executed' = [executed EXCEPT ![p] = @ + 1]
      /\ UNCHANGED <<runOutcome, step, outcomeWrites, idWrites, hub, made, requests, shown, refused, disturbed, misplaced>>
  BY DEF callToolForStep
<1>3. /\ hd \in [ProceedHandlers -> StepHandlerStates] /\ StoreOK(step, hd, made) /\ executed \in [Proposals -> Nat]
      /\ x \in StepHandlerStates /\ x.index \in Indexes /\ p \in Proposals /\ step[x.index].proposal = p
  BY <1>2, StepTypes, InHand
<1>4. /\ y \in StepHandlerStates /\ y.pc = "record" /\ y.index = x.index /\ y.proposal = p /\ y.status = s
      /\ y.named = x.named /\ y.meant = x.meant
  BY <1>3 DEF StepHandlerStates
<1>5. hd' = [hd EXCEPT ![t] = y]
  BY <1>1, <1>3
<1> HIDE DEF y
<1>6. \A u \in ProceedHandlers : hd'[u] = IF u = t THEN y ELSE hd[u]
  BY <1>3, <1>5
<1>7. /\ executed' \in [Proposals -> Nat] /\ executed'[p] = executed[p] + 1
      /\ \A q \in Proposals : q # p => executed'[q] = executed[q]
  BY <1>2, <1>3
<1>8. StepTypeOK'
  <2>1. hd' \in [ProceedHandlers -> StepHandlerStates]
    BY <1>3, <1>4, <1>5
  <2> QED BY <1>2, <1>7, <2>1 DEF StepsInv, StepTypeOK
<1>9. StepHandlerOK(y, step)
  BY <1>3, <1>4 DEF StepHandlerOK
<1>10. StoreOK(step, hd', made)
  <2>1. \A u \in ProceedHandlers : hd'[u].pc = "create" => hd'[u] = hd[u]
    BY <1>4, <1>6
  <2> QED BY <1>3, <2>1 DEF StoreOK
<1>11. \A q : (Holds(x, q) <=> q = p) /\ (Holds(y, q) <=> q = p)
  BY <1>2, <1>4 DEF Holds
<1>12. ASSUME p \notin disturbed PROVE ProposalOK(p, step, hd', executed'[p], refused)
  <2>1. ProposalOK(p, step, hd, executed[p], refused)
    BY <1>3, <1>12 DEF StepsInv
  <2>2. \A j \in Indexes : step[j].proposal = p => j = x.index
    BY <1>3 DEF StoreOK, Proposals, NoStep
  <2>3. StepRowOK(p, step[x.index].status, hd, executed[p], refused)
    BY <1>3, <2>1 DEF ProposalOK
  <2>4. step[x.index].status = "executing"
    <3>1. step[x.index].status \in Statuses \ {"absent"}
      BY <1>2, InHand
    <3> QED BY <1>2, <1>11, <2>3, <3>1 DEF StepRowOK, Statuses
  <2>5. PICK w \in ProceedHandlers : /\ Works(hd[w], p) /\ \A u \in ProceedHandlers : Works(hd[u], p) => u = w
                                     /\ executed[p] = IF hd[w].pc = "tool" THEN 0 ELSE 1
    BY <2>3, <2>4 DEF StepRowOK
  <2>6. w = t
    BY <1>2, <2>5 DEF Works
  <2>7. /\ Works(hd'[t], p) /\ \A u \in ProceedHandlers : Works(hd'[u], p) => u = t
        /\ executed'[p] = IF hd'[t].pc = "tool" THEN 0 ELSE 1
    <3>1. executed[p] = 0
      BY <1>2, <2>5, <2>6
    <3>2. executed'[p] = 1 /\ hd'[t].pc = "record"
      BY <1>4, <1>6, <1>7, <3>1
    <3>3. Works(hd'[t], p)
      BY <1>4, <1>6 DEF Works
    <3>4. \A u \in ProceedHandlers : Works(hd'[u], p) => u = t
      BY <1>6, <2>5, <2>6
    <3> QED BY <3>2, <3>3, <3>4
  <2>8. StepRowOK(p, "executing", hd', executed'[p], refused)
    BY <2>3, <2>4, <2>7 DEF StepRowOK
  <2> QED BY <1>3, <2>2, <2>4, <2>8 DEF ProposalOK
<1>13. misplaced \/ ShownOK(step, hd', shown)
  <2>1. \A u \in ProceedHandlers : /\ hd'[u].pc = "approval" => hd'[u] = hd[u]
                                   /\ u # t => hd'[u] = hd[u]
    BY <1>4, <1>6
  <2>2. ShownOK(step, hd, shown) => ShownOK(step, hd', shown)
    BY <1>2, <1>4, <1>6, <2>1 DEF ShownOK
  <2> QED BY <2>2 DEF StepsInv
<1>14. /\ \A q \in Proposals \ disturbed' : q \notin disturbed
            /\ (executed'[q] = executed[q] \/ Holds(x, q) \/ Holds(y, q))
            /\ (q \in refused' <=> q \in refused)
       /\ \A q \in Proposals \ disturbed' : Holds(x, q) \/ Holds(y, q) =>
            ProposalOK(q, step, hd', executed'[q], refused)
  BY <1>2, <1>7, <1>11, <1>12
<1> QED BY <1>2, <1>5, <1>8, <1>9, <1>10, <1>13, <1>14, OneHandlerInv

\* The late write of an approval id.
LEMMA IdWriteInv ==
    ASSUME StepsInv, LandIdWrite
    PROVE  StepsInv'
<1>1. PICK i \in idWrites :
        /\ idWrites' = idWrites \ {i}
        /\ step' = IF step[i].status = "absent" THEN step ELSE [step EXCEPT ![i].status = "proposed"]
        /\ disturbed' = IF step[i].status \in {"absent", "proposed"} /\ StepHolders(step[i].proposal) = {}
                        THEN disturbed ELSE disturbed \cup {step[i].proposal}
  BY DEF LandIdWrite
<1>2. UNCHANGED <<runOutcome, hd, outcomeWrites, hub, made, requests, shown, executed, refused, misplaced>>
  BY DEF LandIdWrite
<1>3. /\ i \in Indexes /\ step \in [Indexes -> StepRows] /\ StoreOK(step, hd, made)
      /\ \A u \in ProceedHandlers : StepHandlerOK(hd[u], step)
  BY DEF StepsInv, StepTypeOK
<1>4. StepHolders(NoStep) = {}
  <2>1. \A u \in ProceedHandlers : hd[u].pc \in {"fetched", "tool", "record"} => hd[u].proposal # NoStep
    BY <1>3 DEF StepHandlerOK, Proposals, NoStep
  <2> QED BY <2>1 DEF StepHolders
<1>5. step[i].status = "absent" => disturbed' = disturbed
  BY <1>1, <1>3, <1>4 DEF StoreOK
<1>6. step[i] \in StepRows /\ [step[i] EXCEPT !.status = "proposed"] \in StepRows
      /\ [step[i] EXCEPT !.status = "proposed"].status = "proposed"
      /\ [step[i] EXCEPT !.status = "proposed"].proposal = step[i].proposal
  BY <1>3 DEF StepRows, Statuses
<1>7. /\ step' \in [Indexes -> StepRows]
      /\ \A j \in Indexes : step'[j] = IF j # i \/ step[i].status = "absent" THEN step[j]
                                       ELSE [step[i] EXCEPT !.status = "proposed"]
  BY <1>1, <1>3, <1>6
<1>8. \A j \in Indexes : /\ step'[j].proposal = step[j].proposal
                         /\ step'[j].status = "absent" <=> step[j].status = "absent"
                         /\ j # i => step'[j].status = step[j].status
                         /\ step[i].status \in {"absent", "proposed"} => step'[j].status = step[j].status
  BY <1>6, <1>7
<1>9. StepTypeOK'
  <2>1. disturbed \subseteq Proposals /\ disturbed' \subseteq Proposals
    <3>1. step[i].status # "absent" => step[i].proposal \in Proposals
      BY <1>3, <1>6 DEF StoreOK, StepRows
    <3> QED BY <1>1, <1>5, <3>1 DEF StepsInv, StepTypeOK
  <2>2. idWrites' \subseteq Indexes
    BY <1>1 DEF StepsInv, StepTypeOK
  <2> QED BY <1>2, <1>7, <2>1, <2>2 DEF StepsInv, StepTypeOK
<1>10. /\ StoreOK(step', hd, made) /\ \A u \in ProceedHandlers : StepHandlerOK(hd[u], step')
       /\ ShownOK(step, hd, shown) => ShownOK(step', hd, shown)
  BY <1>3, <1>8, StatusOnly
<1>11. ASSUME NEW q \in Proposals \ disturbed' PROVE ProposalOK(q, step', hd, executed[q], refused)
  <2>1. ProposalOK(q, step, hd, executed[q], refused)
    BY <1>1 DEF StepsInv
  <2>2. step[i].proposal # q \/ step[i].status \in {"absent", "proposed"}
    BY <1>1
  <2>3. \A j \in Indexes : step[j].proposal = q => step'[j].status = step[j].status
    BY <1>8, <2>2
  <2> QED BY <1>8, <2>1, <2>3 DEF ProposalOK
<1> QED BY <1>2, <1>9, <1>10, <1>11 DEF StepsInv

\* The run's outcome lands, or the decision hub resolves a request: nothing the
\* handlers look at changes.
LEMMA LandInv ==
    ASSUME StepsInv, LandOutcome \/ resolveAuditdApproval
    PROVE  StepsInv'
<1>1. UNCHANGED <<step, hd, made, shown, executed, refused, disturbed, misplaced>>
  BY DEF LandOutcome, resolveAuditdApproval
<1>2. StepTypeOK'
  <2>1. CASE LandOutcome
    BY <2>1 DEF StepsInv, StepTypeOK, LandOutcome
  <2>2. CASE resolveAuditdApproval
    BY <2>2 DEF StepsInv, StepTypeOK, resolveAuditdApproval
  <2> QED BY <2>1, <2>2
<1> QED BY <1>1, <1>2 DEF StepsInv

-----------------------------------------------------------------------------
(* The theorems. *)

\* The first handler is about to ask the planner.
LEMMA StepInitInv ==
    ASSUME StepInit PROVE StepsInv
<1>1. PICK t \in ProceedHandlers :
        hd = [u \in ProceedHandlers |-> IF u = t THEN [IdleProceed EXCEPT !.pc = "propose"] ELSE IdleProceed]
  BY DEF StepInit
<1>2. [IdleProceed EXCEPT !.pc = "propose"] \in StepHandlerStates /\ [IdleProceed EXCEPT !.pc = "propose"].pc = "propose"
  BY DEF IdleProceed, StepHandlerStates
<1>3. hd \in [ProceedHandlers -> StepHandlerStates] /\ \A u \in ProceedHandlers : hd[u].pc \in {"idle", "propose"}
  BY <1>1, <1>2, StepIdle
<1>4. NoStepRow \in StepRows /\ NoStepRow.status = "absent" /\ NoStepRow.proposal = NoStep
  BY DEF NoStepRow, StepRows, Statuses
<1>5. step \in [Indexes -> StepRows] /\ \A i \in Indexes : step[i] = NoStepRow
  BY <1>4 DEF StepInit
<1>6. StepTypeOK
  <2>1. executed \in [Proposals -> Nat] /\ hub \in [Proposals -> {"none", "pending", "approved", "denied"}]
    BY DEF StepInit
  <2>2. made \in 0..MaxProposals /\ requests \in 0..MaxProceeds
    BY StepAssumption DEF StepInit
  <2>3. shown \in [proposal : {NoStep} \cup Proposals, index : {NoStep} \cup Indexes]
    BY DEF StepInit
  <2> QED BY <1>3, <1>5, <2>1, <2>2, <2>3 DEF StepInit, StepTypeOK
<1>7. \A u \in ProceedHandlers : StepHandlerOK(hd[u], step)
  BY <1>3 DEF StepHandlerOK
<1>8. StoreOK(step, hd, made)
  <2>1. made = 0 /\ NoStep <= made
    BY DEF StepInit, NoStep
  <2> QED BY <1>3, <1>4, <1>5, <2>1 DEF StoreOK
<1>9. ASSUME NEW p \in Proposals PROVE ProposalOK(p, step, hd, executed[p], refused)
  <2>1. p # NoStep
    BY DEF Proposals, NoStep
  <2>2. executed[p] = 0 /\ p \notin refused
    BY DEF StepInit
  <2> QED BY <1>4, <1>5, <2>1, <2>2 DEF ProposalOK
<1>10. ShownOK(step, hd, shown)
  BY <1>3 DEF StepInit, ShownOK
<1> QED BY <1>6, <1>7, <1>8, <1>9, <1>10, StepAssumption DEF StepsInv

\* The invariant of a step-by-step run is one.
THEOREM StepsInvariance == StepSpec => []StepsInv
<1>1. StepInit => StepsInv
  BY StepInitInv
<1>2. ASSUME StepsInv, [StepNext]_stepVars PROVE StepsInv'
  <2>1. CASE \E t \in ProceedHandlers : ProposeFirst(t) \/ Replan(t)
    BY <1>2, <2>1, PlannerInv
  <2>2. CASE \E t \in ProceedHandlers : createRunStep(t)
    BY <1>2, <2>2, StoreInv
  <2>3. CASE \E t \in ProceedHandlers : createStepApproval(t)
    BY <1>2, <2>3, AskInv
  <2>4. CASE \E t \in ProceedHandlers : fetchPendingStep(t)
    BY <1>2, <2>4, FetchInv
  <2>5. CASE \E t \in ProceedHandlers : Deny(t)
    BY <1>2, <2>5, DenyInv
  <2>6. CASE \E t \in ProceedHandlers : MarkExecuting(t)
    BY <1>2, <2>6, MarkInv
  <2>7. CASE \E t \in ProceedHandlers : callToolForStep(t)
    BY <1>2, <2>7, ToolInv
  <2>8. CASE \E t \in ProceedHandlers : RecordResult(t)
    BY <1>2, <2>8, RecordInv
  <2>9. CASE LandIdWrite
    BY <1>2, <2>9, IdWriteInv
  <2>10. CASE LandOutcome \/ resolveAuditdApproval
    BY <1>2, <2>10, LandInv
  <2>11. CASE UNCHANGED stepVars
    BY <1>2, <2>11 DEF stepVars, StepsInv, StepTypeOK
  <2> QED BY <1>2, <2>1, <2>2, <2>3, <2>4, <2>5, <2>6, <2>7, <2>8, <2>9, <2>10, <2>11 DEF StepNext
<1> QED BY <1>1, <1>2, PTL DEF StepSpec

\* The state of a step-by-step run keeps its type.
THEOREM StepTypeCorrect == StepSpec => []StepTypeOK
<1>1. StepsInv => StepTypeOK
  BY DEF StepsInv
<1> QED BY <1>1, StepsInvariance, PTL

\* A step is executed at most once, and not at all when it was denied, unless two requests
\* worked on it at once, a write of its status was lost, or the late write of its approval
\* id found it taken up (handlePlaybookRunProceed, GetPendingStep, createStepApproval).
THEOREM OneExecution == StepSpec => []StepRunsOnce
<1>1. ASSUME StepsInv PROVE StepRunsOnce
  <2> SUFFICES ASSUME NEW p \in Proposals \ disturbed
               PROVE  executed[p] <= 1 /\ (p \in refused => executed[p] = 0)
    BY DEF StepRunsOnce
  <2>1. ProposalOK(p, step, hd, executed[p], refused)
    BY <1>1 DEF StepsInv
  <2>2. CASE \A i \in Indexes : step[i].proposal # p
    BY <2>1, <2>2 DEF ProposalOK
  <2>3. CASE \E i \in Indexes : step[i].proposal = p
    <3>1. PICK i \in Indexes : step[i].proposal = p
      BY <2>3
    <3>2. StepRowOK(p, step[i].status, hd, executed[p], refused)
      BY <2>1, <3>1 DEF ProposalOK
    <3>3. step[i].status \in Statuses \ {"absent"}
      BY <1>1, <3>1 DEF StepsInv, StepTypeOK, StoreOK, StepRows, Proposals, NoStep
    <3> QED BY <3>2, <3>3 DEF StepRowOK, Statuses
  <2> QED BY <2>2, <2>3
<1> QED BY <1>1, StepsInvariance, PTL

\* A request that names the index it was shown runs the proposal it was shown, unless some
\* proposal was shown that could not be stored (handlePlaybookRunProceed, createRunStep).
THEOREM ShownIsRun == StepSpec => []ApprovedIsRun
<1>1. ASSUME StepsInv PROVE ApprovedIsRun
  BY <1>1 DEF StepsInv, ShownOK, ApprovedIsRun
<1> QED BY <1>1, StepsInvariance, PTL
=============================================================================
