------------------------- MODULE PolicyEnforcerProofs -------------------------
(***************************************************************************)
(* Proofs about PolicyEnforcer, for any policy files, calls, requests and  *)
(* configurations: what a command had to pass before it ran.               *)
(*                                                                         *)
(* The parts of the invariant are about one task, and take the state they  *)
(* depend on as parameters: a step that leaves a task and that state alone *)
(* leaves its part of the invariant alone.                                 *)
(***************************************************************************)
EXTENDS PolicyEnforcer, NaturalsInduction, WellFoundedInduction, TLAPS

-----------------------------------------------------------------------------
(* The rule that decides a request. *)

\* What explainEvaluate and Explain return.
Decisions == [effect : Effects, approval : BOOLEAN]

\* A nonempty set of pairs of positions has a first one, by policy and then by rule.
LEMMA FirstMatch ==
    ASSUME NEW S \in SUBSET (Nat \X Nat), S # {}
    PROVE  \E m \in S : \A n \in S \ {m} : Before(m, n)
<1> DEFINE I == {i \in Nat : \E j \in Nat : <<i, j>> \in S}
<1>1. I # {}
  BY DEF I
<1>2. PICK i \in I : \A k \in I : ~(<<k, i>> \in OpToRel(<, Nat))
  <2>1. IsWellFoundedOn(OpToRel(<, Nat), Nat)
    BY NatLessThanWellFounded
  <2>2. I \in SUBSET Nat
    BY DEF I
  <2> HIDE DEF I
  <2> QED BY <1>1, <2>1, <2>2, WFMin
<1> DEFINE J == {j \in Nat : <<i, j>> \in S}
<1>3. J # {}
  BY DEF I, J
<1>4. PICK j \in J : \A k \in J : ~(<<k, j>> \in OpToRel(<, Nat))
  <2>1. IsWellFoundedOn(OpToRel(<, Nat), Nat)
    BY NatLessThanWellFounded
  <2>2. J \in SUBSET Nat
    BY DEF J
  <2> HIDE DEF J
  <2> QED BY <1>3, <2>1, <2>2, WFMin
<1>5. \A k \in I : ~(k < i)
  BY <1>2 DEF I, OpToRel
<1>6. \A k \in J : ~(k < j)
  BY <1>4 DEF J, OpToRel
<1>7. <<i, j>> \in S
  BY DEF J
<1>8. ASSUME NEW n \in S \ {<<i, j>>}
      PROVE  Before(<<i, j>>, n)
  <2>1. PICK a \in Nat, b \in Nat : n = <<a, b>>
    OBVIOUS
  <2>2. ~(a < i) /\ i \in Nat
    BY <1>5, <1>8, <2>1 DEF I
  <2>3. a = i => b # j /\ ~(b < j) /\ j \in Nat
    BY <1>6, <1>8, <2>1 DEF J
  <2> QED BY <2>1, <2>2, <2>3 DEF Before
<1> QED BY <1>7, <1>8

\* A deciding position other than the default's is that of a rule of the file.
LEMMA DecidingRule ==
    ASSUME NEW file \in Seq(PolicyDefs), NEW q, Deciding(file, q) # <<0, 0>>
    PROVE  file[Deciding(file, q)[1]].rules[Deciding(file, q)[2]] \in RuleDefs
<1> DEFINE S == Matching(file, q)
<1> DEFINE D == Deciding(file, q)
<1>1. S # {}
  BY DEF Deciding
<1>2. S \in SUBSET (Nat \X Nat)
  BY DEF Matching, PolicyDefs
<1>3. D \in S
  <2>1. D = CHOOSE m \in S : \A n \in S \ {m} : Before(m, n)
    BY <1>1 DEF Deciding
  <2>2. \E m \in S : \A n \in S \ {m} : Before(m, n)
    <3> HIDE DEF S
    <3> QED BY <1>1, <1>2, FirstMatch
  <2> HIDE DEF D, S
  <2> QED BY <2>1, <2>2
<1>4. PICK k \in 1..Len(file) : D \in {k} \X (1..Len(file[k].rules))
  BY <1>3 DEF Matching, S
<1>5. file[k].rules \in Seq(RuleDefs)
  <2>1. file[k] \in PolicyDefs
    BY <1>4
  <2> QED BY <2>1 DEF PolicyDefs
<1> HIDE DEF D
<1>6. D[1] = k /\ D[2] \in 1..Len(file[k].rules)
  BY <1>4
<1> QED BY <1>5, <1>6 DEF D

-----------------------------------------------------------------------------
(* The inductive invariant. *)

\* What the policies of configuration c say of task t, and whether a command they
\* deny, or that the readonly mode or a missing purpose stops, was let through.
Said(c, t) == Explain(c.file, c.default, c.dryRun, ToolRequest(t, t.at))
NotDenied(c, t) ==
    /\ ~(c.readOnly /\ ActionOf(t) \in {"write", "destructive"})
    /\ ~(c.requirePurpose /\ hasSensitiveSensitivity(t.call.sensitivity) /\ ~t.call.explicit)
    /\ (c.mode # "off" /\ IsDenied(Said(c, t))) => c.mode = "local" /\ Said(c, t).approval

\* An approval, the pre-authorisation or the remote dry run lets task t run.
Authorised(c, aps, t) ==
    (c.mode # "off" /\ NeedsApproval(Said(c, t))) =>
        \/ \E i \in 1..Len(aps) : aps[i].status = "approved" /\ aps[i].key = Key(t.call)
        \/ c.mode = "local" /\ t.call.auto
        \/ c.mode = "remote" /\ c.dryRun

\* From the check on, a task was not denied; from the plan on, it is authorised.
Cleared(c, aps, t) ==
    /\ t.pc \in {"find", "find_pending", "by_trace", "create"} => NotDenied(c, t)
    /\ t.pc \in {"plan", "run"} \/ t.ran => NotDenied(c, t) /\ Authorised(c, aps, t)
    /\ t.pc \in {"post", "measure"} => t.ran
    /\ t.ran => ~t.nested /\ t.pc \in {"post", "measure", "end", "left"}
    /\ t.pc = "age" => ~t.nested

\* In the first hour, a check that knew the age, or the amount, passed.
Unmeasured(c, t) == Asked(t, "", IF c.mode = "remote" /\ c.infra THEN t.call.sensitivity ELSE {}, 1)
Passes(c, q) == c.mode = "off" \/ Explain(c.file, c.default, c.dryRun, q).effect # "deny"
AgeWithin(c, t) == t.age = 0 \/ Passes(c, [Unmeasured(c, t) EXCEPT !.age = t.age])
AmountWithin(c, t) ==
    \/ t.amount = 0
    \/ Passes(c, IF t.call.type = "database" THEN [Unmeasured(c, t) EXCEPT !.rows = t.amount, !.pods = 0]
                 ELSE [Unmeasured(c, t) EXCEPT !.rows = 0, !.pods = t.amount])

\* When a task knows its age and its amount, and since when they are within the limits.
Measured(c, hr, t) ==
    /\ t.at <= hr /\ (t.pc \notin {"idle", "check"} => 1 <= t.at)
    /\ t.nested => Inspects(t.call)
    /\ t.pc = "idle" \/ t.nested => t.age = 0
    /\ t.pc \notin {"run", "post", "measure", "end", "left"} => t.amount = 0
    /\ t.pc = "plan" => t.call.tool = "scale_deployment"
    /\ t.pc = "run" /\ t.call.tool # "scale_deployment" => t.amount = 0
    /\ t.pc = "measure" => Remeasured(t.call)
    /\ hr = 1 =>
         /\ t.pc \notin {"age", "end", "left"} \/ t.result = "ok" => AgeWithin(c, t)
         /\ t.pc = "run" \/ (t.pc = "post" /\ ~Remeasured(t.call)) \/ t.result = "ok"
            => AmountWithin(c, t)

\* A request that had the agent to itself finds its own trace id in the store.
TraceInv ==
    /\ \A r, s \in Requests : Active(r) /\ Active(s) /\ r # s => r \in met
    /\ \A r \in Requests \ met : (Active(r) => store = r) /\ seen[r] \subseteq {r}

\* A task as it may be under configuration c, with the approvals aps, in hour hr.
TaskOK(c, aps, hr, t) ==
    /\ t \in TaskStates
    /\ (t.result = "none") = (t.pc \notin {"end", "left"})
    /\ Cleared(c, aps, t)
    /\ Measured(c, hr, t)

Inv ==
    /\ TypeOK
    /\ \A r \in Requests : TaskOK(cfg, approvals, hour, task[r])
    /\ TraceInv

-----------------------------------------------------------------------------
(* What a change of a task keeps. *)

\* The policies' decision on a task depends on its call, its hour and whether it is
\* the nested query.
LEMMA SameSaid ==
    ASSUME NEW c, NEW aps, NEW t, NEW u,
           u.call = t.call, u.nested = t.nested, u.at = t.at
    PROVE  /\ NotDenied(c, t) => NotDenied(c, u)
           /\ Authorised(c, aps, t) => Authorised(c, aps, u)
<1>1. ActionOf(u) = ActionOf(t)
  BY DEF ActionOf
<1>2. ToolRequest(u, u.at) = ToolRequest(t, t.at)
  BY <1>1 DEF ToolRequest, Asked, ToolName
<1>3. Said(c, u) = Said(c, t)
  BY <1>2 DEF Said
<1> QED BY <1>1, <1>3 DEF NotDenied, Authorised

\* So do the checks of its age and amount, apart from these.
LEMMA SameWithin ==
    ASSUME NEW c, NEW t, NEW u, u.call = t.call, u.nested = t.nested
    PROVE  /\ u.age = t.age /\ AgeWithin(c, t) => AgeWithin(c, u)
           /\ u.amount = t.amount /\ AmountWithin(c, t) => AmountWithin(c, u)
<1>1. ActionOf(u) = ActionOf(t)
  BY DEF ActionOf
<1>2. Unmeasured(c, u) = Unmeasured(c, t)
  BY <1>1 DEF Unmeasured, Asked
<1> QED BY <1>2 DEF AgeWithin, AmountWithin

\* A task ends with any result but "ok" as it is.
LEMMA EndOK ==
    ASSUME NEW c, NEW aps, NEW hr \in Nat, NEW t, TaskOK(c, aps, hr, t), 1 <= t.at, t.pc # "idle",
           NEW res \in Results \ {"none", "ok"}
    PROVE  TaskOK(c, aps, hr, End(t, res))
<1> DEFINE u == End(t, res)
<1>1. u \in TaskStates /\ u.pc = "end" /\ u.result = res /\ u.call = t.call /\ u.nested = t.nested
      /\ u.at = t.at /\ u.age = t.age /\ u.amount = t.amount /\ u.ran = t.ran
  BY DEF TaskOK, TaskStates, End, Points
<1>2. Cleared(c, aps, u)
  <2> HIDE DEF u
  <2> QED BY <1>1, SameSaid DEF TaskOK, Cleared
<1>3. Measured(c, hr, u)
  <2> HIDE DEF u
  <2> QED BY <1>1 DEF TaskOK, Measured
<1> HIDE DEF u
<1>4. TaskOK(c, aps, hr, u)
  BY <1>1, <1>2, <1>3 DEF TaskOK
<1> QED BY <1>4 DEF u

\* A task goes from one look-up to the next.
LEMMA LookOK ==
    ASSUME NEW c, NEW aps, NEW hr \in Nat, NEW t, TaskOK(c, aps, hr, t),
           t.pc \notin {"idle", "age"}, 1 <= t.at, NotDenied(c, t), ~t.ran, t.amount = 0,
           t.result = "none",
           NEW p \in {"find", "find_pending", "by_trace", "create"}
    PROVE  TaskOK(c, aps, hr, To(t, p))
<1> DEFINE u == To(t, p)
<1>1. u \in TaskStates /\ u.pc = p /\ u.result = t.result /\ u.call = t.call /\ u.nested = t.nested
      /\ u.at = t.at /\ u.age = t.age /\ u.amount = t.amount /\ u.ran = t.ran
  BY DEF TaskOK, TaskStates, To, Points
<1>0. t.pc \notin {"end", "left"}
  BY DEF TaskOK
<1>2. Cleared(c, aps, u)
  <2> HIDE DEF u
  <2> QED BY <1>1, SameSaid DEF TaskOK, Cleared
<1>3. Measured(c, hr, u)
  <2> HIDE DEF u
  <2> QED BY <1>0, <1>1, SameWithin DEF TaskOK, Measured
<1> HIDE DEF u
<1>4. TaskOK(c, aps, hr, u)
  BY <1>1, <1>2, <1>3 DEF TaskOK
<1> QED BY <1>4 DEF u

\* A task that is neither denied nor unauthorised may go on to its plan or its command.
LEMMA PassedOK ==
    ASSUME NEW c, NEW aps, NEW hr \in Nat, NEW t, TaskOK(c, aps, hr, t),
           t.pc \notin {"idle", "age"}, 1 <= t.at,
           NotDenied(c, t), Authorised(c, aps, t), ~t.ran, t.amount = 0, t.result = "none"
    PROVE  TaskOK(c, aps, hr, Passed(t))
<1> DEFINE u == Passed(t)
<1>1. u \in TaskStates /\ u.result = t.result /\ u.call = t.call /\ u.nested = t.nested
      /\ u.at = t.at /\ u.age = t.age /\ u.amount = t.amount /\ u.ran = t.ran
      /\ u.pc \in {"plan", "run"} /\ (u.pc = "plan" => t.call.tool = "scale_deployment")
  BY DEF TaskOK, TaskStates, To, Points, Passed
<1>0. t.pc \notin {"end", "left"}
  BY DEF TaskOK
<1>2. Cleared(c, aps, u)
  <2> HIDE DEF u
  <2> QED BY <1>1, SameSaid DEF TaskOK, Cleared
<1>3. Measured(c, hr, u)
  <2> HIDE DEF u
  <2>1. u.call = t.call /\ u.nested = t.nested /\ u.age = t.age
    BY <1>1
  <2>2. hr = 1 => AgeWithin(c, u)
    BY <1>0, <1>1, SameWithin DEF TaskOK, Measured
  <2>3. AmountWithin(c, u)
    BY <1>1 DEF AmountWithin
  <2> QED BY <1>0, <1>1, <2>2, <2>3 DEF TaskOK, Measured
<1> HIDE DEF u
<1>4. TaskOK(c, aps, hr, u)
  BY <1>1, <1>2, <1>3 DEF TaskOK
<1> QED BY <1>4 DEF u

\* Without a dry run, a decision that needs an approval says so in its effect, unless
\* it is a denial (applyConditions): all the remote path looks at.
LEMMA RemoteApproval ==
    ASSUME NEW c \in ConfigDefs, NEW t,
           Said(c, t).effect \notin {"deny", "require_approval"}, NeedsApproval(Said(c, t))
    PROVE  c.dryRun
<1> SUFFICES ASSUME ~c.dryRun PROVE FALSE
  OBVIOUS
<1> DEFINE q == ToolRequest(t, t.at)
<1> DEFINE m == Deciding(c.file, q)
<1>1. Said(c, t) = explainEvaluate(c.file, c.default, q)
  BY DEF Said, Explain
<1>2. Said(c, t).approval
  BY DEF NeedsApproval
<1>3. m # <<0, 0>>
  <2>1. SUFFICES ASSUME m = <<0, 0>> PROVE FALSE
    OBVIOUS
  <2>2. Said(c, t) = [effect |-> c.default, approval |-> FALSE]
    BY <1>1, <2>1 DEF explainEvaluate
  <2>3. Said(c, t).approval = FALSE
    BY <2>2
  <2> QED BY <1>2, <2>3
<1>4. Said(c, t) = applyConditions(c.file[m[1]].rules[m[2]], q)
  BY <1>1, <1>3 DEF explainEvaluate
<1> DEFINE rule == c.file[m[1]].rules[m[2]]
<1>5. rule \in RuleDefs
  BY <1>3, DecidingRule DEF ConfigDefs
<1> HIDE DEF m, rule, q
<1>6. Said(c, t) = applyConditions(rule, q)
  BY <1>4 DEF rule
<1>7. rule.effect \in Effects /\ rule.approval \in BOOLEAN
  BY <1>5 DEF RuleDefs
<1>8. rule.approval
  BY <1>2, <1>6 DEF applyConditions
<1>9. CASE Exceeded(rule, q) \/ PurposeRefused(rule, q)
  <2>1. Said(c, t).effect = "deny"
    BY <1>6, <1>9 DEF applyConditions
  <2> QED BY <2>1
<1>10. CASE ~(Exceeded(rule, q) \/ PurposeRefused(rule, q))
  <2>1. Said(c, t).effect = IF rule.effect = "allow" THEN "require_approval" ELSE rule.effect
    BY <1>6, <1>8, <1>10 DEF applyConditions
  <2> QED BY <1>7, <2>1 DEF Effects
<1> QED BY <1>9, <1>10

-----------------------------------------------------------------------------
(* Steps. *)

\* A step of request r, while it is in the agent, that leaves the approvals alone.
LEMMA StepInv ==
    ASSUME Inv, NEW r \in Requests, NEW t, Go(r, t), TaskOK(cfg, approvals, hour, t),
           Active(r), t.pc \notin {"idle", "left"},
           UNCHANGED <<cfg, hour, store, approvals, met>>,
           UNCHANGED seen \/ Records(r)
    PROVE  Inv'
<1>1. /\ task' \in [Requests -> TaskStates] /\ task'[r] = t
      /\ \A s \in Requests \ {r} : task'[s] = task[s]
  BY DEF Inv, TypeOK, Go, TaskOK
<1>2. \A s \in Requests : TaskOK(cfg', approvals', hour', task'[s])
  BY <1>1 DEF Inv
<1>3. \A s \in Requests : Active(s)' = Active(s)
  BY <1>1 DEF Active
<1>4. /\ seen' \in [Requests -> SUBSET (Requests \cup {NoTrace})]
      /\ \A s \in Requests : seen'[s] = seen[s] \/ (s = r /\ seen'[s] = seen[s] \cup {store})
  BY DEF Inv, TypeOK, Records
<1>5. TypeOK'
  BY <1>1, <1>2, <1>4 DEF Inv, TypeOK, TaskOK
<1>6. TraceInv'
  <2>1. \A a, b \in Requests : Active(a)' /\ Active(b)' /\ a # b => a \in met'
    BY <1>3 DEF Inv, TraceInv
  <2>2. ASSUME NEW s \in Requests \ met'
        PROVE  (Active(s)' => store' = s) /\ seen'[s] \subseteq {s}
    <3>1. s \in Requests \ met /\ (Active(s) => store = s) /\ seen[s] \subseteq {s}
      BY <2>2 DEF Inv, TraceInv
    <3> QED BY <1>3, <1>4, <3>1
  <2> QED BY <2>1, <2>2 DEF TraceInv
<1> QED BY <1>2, <1>5, <1>6 DEF Inv

\* TraceMiddleware lets a request in.
LEMMA ArriveInv ==
    ASSUME Inv, NEW r \in Requests, Arrive(r)
    PROVE  Inv'
<1> DEFINE t == [task[r] EXCEPT !.pc = "check", !.nested = Inspects(task[r].call)]
<1>1. TaskOK(cfg, approvals, hour, task[r]) /\ task[r].pc = "idle" /\ cfg' = cfg
      /\ approvals' = approvals /\ hour' = hour /\ seen' = seen /\ store' = r
  BY DEF Inv, Arrive
<1>0. Inspects(task[r].call) \in BOOLEAN
  BY DEF Inspects
<1>2. t \in TaskStates /\ t.pc = "check" /\ t.call = task[r].call /\ t.nested = Inspects(t.call)
      /\ t.at = task[r].at /\ t.age = task[r].age /\ t.amount = task[r].amount
      /\ t.ran = task[r].ran /\ t.result = task[r].result
  BY <1>0, <1>1 DEF TaskOK, TaskStates, Points
<1>3. task' = [task EXCEPT ![r] = t]
  BY DEF Arrive, Go
<1> HIDE DEF t
<1>4. TaskOK(cfg, approvals, hour, t)
  BY <1>1, <1>2 DEF TaskOK, Cleared, Measured, AgeWithin, AmountWithin
<1>5. /\ task' \in [Requests -> TaskStates] /\ task'[r] = t
      /\ \A s \in Requests \ {r} : task'[s] = task[s]
  BY <1>2, <1>3 DEF Inv, TypeOK
<1>6. \A s \in Requests : TaskOK(cfg', approvals', hour', task'[s])
  BY <1>1, <1>4, <1>5 DEF Inv
<1>7. \A s \in Requests \ {r} : Active(s)' = Active(s)
  BY <1>5 DEF Active
<1> DEFINE others == {s \in Requests \ {r} : Active(s)}
<1>8. met' = IF others = {} THEN met ELSE met \cup others \cup {r}
  BY DEF Arrive
<1>9. TypeOK'
  BY <1>1, <1>5, <1>6, <1>8 DEF Inv, TypeOK, TaskOK
<1>10. TraceInv'
  BY <1>1, <1>7, <1>8 DEF Inv, TraceInv
<1> QED BY <1>6, <1>9, <1>10 DEF Inv

\* The deferred Clear lets a request out.
LEMMA LeaveInv ==
    ASSUME Inv, NEW r \in Requests, Leave(r)
    PROVE  Inv'
<1> DEFINE t == To(task[r], "left")
<1>1. TaskOK(cfg, approvals, hour, task[r]) /\ task[r].pc = "end" /\ cfg' = cfg /\ met' = met
      /\ approvals' = approvals /\ hour' = hour /\ seen' = seen /\ store' = NoTrace
  BY DEF Inv, Leave
<1>2. t \in TaskStates /\ t.pc = "left" /\ t.call = task[r].call /\ t.nested = task[r].nested
      /\ t.at = task[r].at /\ t.age = task[r].age /\ t.amount = task[r].amount
      /\ t.ran = task[r].ran /\ t.result = task[r].result
  BY <1>1 DEF TaskOK, TaskStates, Points, To
<1>3. task' = [task EXCEPT ![r] = t]
  BY DEF Leave, Go
<1> HIDE DEF t
<1>4. TaskOK(cfg, approvals, hour, t)
  <2>1. Cleared(cfg, approvals, t)
    BY <1>1, <1>2, SameSaid DEF TaskOK, Cleared
  <2>2. Measured(cfg, hour, t)
    BY <1>1, <1>2, SameWithin DEF TaskOK, Measured
  <2> QED BY <1>1, <1>2, <2>1, <2>2 DEF TaskOK
<1>5. /\ task' \in [Requests -> TaskStates] /\ task'[r] = t
      /\ \A s \in Requests \ {r} : task'[s] = task[s]
  BY <1>2, <1>3 DEF Inv, TypeOK
<1>6. \A s \in Requests : TaskOK(cfg', approvals', hour', task'[s])
  BY <1>1, <1>4, <1>5 DEF Inv
<1>7. Active(r) /\ ~Active(r)' /\ \A s \in Requests \ {r} : Active(s)' = Active(s)
  BY <1>1, <1>2, <1>5 DEF Active
<1>9. TypeOK'
  BY <1>1, <1>5, <1>6 DEF Inv, TypeOK, TaskOK
<1>10. TraceInv'
  BY <1>1, <1>7 DEF Inv, TraceInv
<1> QED BY <1>6, <1>9, <1>10 DEF Inv

\* CheckTool: the only way on is through the readonly mode, the purpose and the policies.
LEMMA CheckToolInv ==
    ASSUME Inv, NEW r \in Requests, CheckTool(r)
    PROVE  Inv'
<1> DEFINE t == [task[r] EXCEPT !.trace = store, !.at = hour]
<1> DEFINE d == Decide(ToolRequest(t, hour))
<1>1. TaskOK(cfg, approvals, hour, task[r]) /\ task[r].pc = "check" /\ hour \in Nat /\ 1 <= hour
      /\ store \in Requests \cup {NoTrace} /\ cfg \in ConfigDefs
  BY DEF Inv, CheckTool, TypeOK
<1>2. t \in TaskStates /\ t.pc = "check" /\ t.call = task[r].call /\ t.nested = task[r].nested
      /\ t.at = hour /\ t.age = task[r].age /\ t.amount = task[r].amount
      /\ t.ran = task[r].ran /\ t.result = task[r].result
  BY <1>1 DEF TaskOK, TaskStates
<1>3. d = Said(cfg, t)
  BY <1>2 DEF Decide, Said
<1>4. /\ \/ (ReadOnlyRefuses(t) \/ PurposeMissing(t)) /\ Go(r, End(t, "refused"))
         \/ /\ ~ReadOnlyRefuses(t) /\ ~PurposeMissing(t)
            /\ \/ cfg.mode = "off" /\ Go(r, Passed(t))
               \/ cfg.mode = "local" /\ Go(r, LocalDecision(t, d))
               \/ cfg.mode = "remote" /\ Go(r, handleRemoteResponse(t, d))
               \/ Go(r, End(t, "refused"))
      /\ Records(r)
      /\ UNCHANGED <<cfg, hour, store, approvals, met>>
  BY DEF CheckTool
<1> HIDE DEF t, d
<1>5. TaskOK(cfg, approvals, hour, t) /\ ~t.ran /\ t.amount = 0 /\ t.result = "none"
  <2>1. Cleared(cfg, approvals, t) /\ ~t.ran
    BY <1>1, <1>2 DEF TaskOK, Cleared
  <2>2. Measured(cfg, hour, t) /\ t.amount = 0
    BY <1>1, <1>2, SameWithin DEF TaskOK, Measured
  <2>3. task[r].result = "none"
    BY <1>1 DEF TaskOK
  <2> QED BY <1>1, <1>2, <2>1, <2>2, <2>3 DEF TaskOK
<1>6. TaskOK(cfg, approvals, hour, End(t, "refused"))
  BY <1>1, <1>2, <1>5, EndOK DEF Results
<1>7. ASSUME ~ReadOnlyRefuses(t), ~PurposeMissing(t),
             (cfg.mode # "off" /\ IsDenied(d)) => cfg.mode = "local" /\ d.approval
      PROVE  NotDenied(cfg, t)
  BY <1>3, <1>7 DEF NotDenied, ReadOnlyRefuses, PurposeMissing
<1>8. ASSUME NotDenied(cfg, t)
      PROVE  TaskOK(cfg, approvals, hour, NeedsOne(t))
  <2>1. TaskOK(cfg, approvals, hour, To(t, "find"))
    BY <1>1, <1>2, <1>5, <1>8, LookOK
  <2> QED BY <1>6, <2>1 DEF NeedsOne
<1>9. ASSUME NotDenied(cfg, t),
             (cfg.mode # "off" /\ NeedsApproval(d)) =>
                 (cfg.mode = "local" /\ t.call.auto) \/ (cfg.mode = "remote" /\ cfg.dryRun)
      PROVE  TaskOK(cfg, approvals, hour, Passed(t))
  <2>1. Authorised(cfg, approvals, t)
    BY <1>3, <1>9 DEF Authorised
  <2> QED BY <1>1, <1>2, <1>5, <1>9, <2>1, PassedOK
<1>10. PICK u : Go(r, u) /\ TaskOK(cfg, approvals, hour, u) /\ u.pc \notin {"idle", "left"}
  <2>1. CASE Go(r, End(t, "refused"))
    BY <1>6, <2>1 DEF End, TaskOK, TaskStates
  <2>2. CASE /\ ~ReadOnlyRefuses(t) /\ ~PurposeMissing(t)
             /\ cfg.mode = "off" /\ Go(r, Passed(t))
    <3>1. TaskOK(cfg, approvals, hour, Passed(t))
      BY <1>7, <1>9, <2>2
    <3>2. Passed(t).pc \notin {"idle", "left"}
      BY <1>2 DEF Passed, To, TaskStates
    <3> QED BY <2>2, <3>1, <3>2
  <2>3. CASE /\ ~ReadOnlyRefuses(t) /\ ~PurposeMissing(t)
             /\ cfg.mode = "local" /\ Go(r, LocalDecision(t, d))
    <3>2. CASE IsDenied(d) /\ ~NeedsApproval(d)
      <4>1. LocalDecision(t, d) = End(t, "refused")
        BY <3>2 DEF LocalDecision
      <4> QED BY <1>6, <2>3, <4>1 DEF End, TaskOK, TaskStates
    <3>3. CASE ~(IsDenied(d) /\ ~NeedsApproval(d))
      <4>1. IsDenied(d) => d.approval
        BY <3>3 DEF IsDenied, NeedsApproval
      <4>2. NotDenied(cfg, t)
        BY <1>7, <2>3, <4>1
      <4>3. LocalDecision(t, d) = NeedsOne(t) \/
            (LocalDecision(t, d) = Passed(t) /\ (NeedsApproval(d) => t.call.auto))
        BY <3>3 DEF LocalDecision
      <4>4. TaskOK(cfg, approvals, hour, LocalDecision(t, d))
        BY <1>8, <1>9, <2>3, <4>2, <4>3
      <4>5. Passed(t).pc \notin {"idle", "left"} /\ NeedsOne(t).pc \notin {"idle", "left"}
        BY <1>2 DEF Passed, To, TaskStates, NeedsOne, End
      <4> QED BY <2>3, <4>3, <4>4, <4>5
    <3> QED BY <3>2, <3>3
  <2>4. CASE /\ ~ReadOnlyRefuses(t) /\ ~PurposeMissing(t)
             /\ cfg.mode = "remote" /\ Go(r, handleRemoteResponse(t, d))
    <3>2. CASE IsDenied(d)
      <4>1. handleRemoteResponse(t, d) = End(t, "refused")
        BY <3>2 DEF handleRemoteResponse
      <4> QED BY <1>6, <2>4, <4>1 DEF End, TaskOK, TaskStates
    <3>3. CASE ~IsDenied(d)
      <4>2. NotDenied(cfg, t)
        BY <1>7, <2>4, <3>3
      <4>3. handleRemoteResponse(t, d) = NeedsOne(t) \/
            (handleRemoteResponse(t, d) = Passed(t) /\ d.effect \notin {"deny", "require_approval"})
        BY <3>3 DEF handleRemoteResponse, IsDenied
      <4>4. d.effect \notin {"deny", "require_approval"} /\ NeedsApproval(d) => cfg.dryRun
        BY <1>1, <1>3, RemoteApproval
      <4>5. TaskOK(cfg, approvals, hour, handleRemoteResponse(t, d))
        BY <1>8, <1>9, <2>4, <4>2, <4>3, <4>4
      <4>6. Passed(t).pc \notin {"idle", "left"} /\ NeedsOne(t).pc \notin {"idle", "left"}
        BY <1>2 DEF Passed, To, TaskStates, NeedsOne, End
      <4> QED BY <2>4, <4>3, <4>5, <4>6
    <3> QED BY <3>2, <3>3
  <2> QED BY <1>4, <2>1, <2>2, <2>3, <2>4
<1>11. Active(r)
  BY <1>1 DEF Active
<1> QED BY <1>4, <1>10, <1>11, StepInv

\* A task that looks for an approval: it was not denied, and it has not run.
LEMMA Looking ==
    ASSUME Inv, NEW r \in Requests, task[r].pc \in {"find", "find_pending", "by_trace", "create"}
    PROVE  /\ TaskOK(cfg, approvals, hour, task[r]) /\ Active(r) /\ hour \in Nat
           /\ NotDenied(cfg, task[r]) /\ ~task[r].ran /\ 1 <= task[r].at
           /\ task[r].amount = 0 /\ task[r].result = "none"
<1>1. TaskOK(cfg, approvals, hour, task[r])
  BY DEF Inv
<1> QED BY <1>1 DEF Inv, TypeOK, TaskOK, Cleared, Measured, Active

\* FindApprovalByTool and CheckExistingApproval let a command run only with an approved
\* request for its own resource.
LEMMA LookUpInv ==
    ASSUME Inv, NEW r \in Requests,
           FindApproved(r) \/ FindPending(r) \/ CheckExistingApproval(r)
    PROVE  Inv'
<1> DEFINE t == task[r]
<1> DEFINE Next2 == {To(t, "find_pending"), To(t, "by_trace"), To(t, "create"), End(t, "pending")}
<1>1. t.pc \in {"find", "find_pending", "by_trace", "create"} /\ UNCHANGED <<cfg, hour, store, approvals, seen, met>>
  BY DEF FindApproved, FindPending, CheckExistingApproval
<1>2. \/ \E u \in Next2 : Go(r, u)
      \/ Go(r, Passed(t)) /\ \E i \in 1..Len(approvals) : Granted(approvals[i], Key(t.call))
  <2>1. CASE FindApproved(r)
    BY <2>1 DEF FindApproved, Held
  <2>2. CASE FindPending(r)
    BY <2>2 DEF FindPending
  <2>3. CASE CheckExistingApproval(r)
    BY <2>3 DEF CheckExistingApproval, Held
  <2> QED BY <2>1, <2>2, <2>3
<1>3. /\ TaskOK(cfg, approvals, hour, t) /\ Active(r) /\ hour \in Nat
      /\ NotDenied(cfg, t) /\ ~t.ran /\ 1 <= t.at /\ t.amount = 0 /\ t.result = "none"
  BY <1>1, Looking
<1>4. t \in TaskStates
  BY <1>3 DEF TaskOK
<1>5. ASSUME NEW u \in Next2
      PROVE  TaskOK(cfg, approvals, hour, u) /\ u.pc \notin {"idle", "left"}
  <2>1. TaskOK(cfg, approvals, hour, u)
    BY <1>1, <1>3, LookOK, EndOK DEF Results
  <2> QED BY <1>4, <2>1 DEF To, End, TaskStates
<1>6. ASSUME \E i \in 1..Len(approvals) : Granted(approvals[i], Key(t.call))
      PROVE  TaskOK(cfg, approvals, hour, Passed(t)) /\ Passed(t).pc \notin {"idle", "left"}
  <2>1. Authorised(cfg, approvals, t)
    BY <1>6 DEF Authorised, Granted
  <2>2. TaskOK(cfg, approvals, hour, Passed(t))
    BY <1>1, <1>3, <2>1, PassedOK
  <2> QED BY <1>4, <2>2 DEF To, Passed, TaskStates
<1> HIDE DEF Next2, t
<1>7. PICK u : Go(r, u) /\ TaskOK(cfg, approvals, hour, u) /\ u.pc \notin {"idle", "left"}
  BY <1>2, <1>5, <1>6
<1> QED BY <1>1, <1>3, <1>7, StepInv

\* Approvals only ever gain requests and lose nothing that was approved.
LEMMA MoreApprovals ==
    ASSUME NEW c, NEW aps, NEW new, NEW hr, NEW t, TaskOK(c, aps, hr, t),
           \A i \in 1..Len(aps) : aps[i].status = "approved" =>
               \E j \in 1..Len(new) : new[j].status = "approved" /\ new[j].key = aps[i].key
    PROVE  TaskOK(c, new, hr, t)
<1>1. Authorised(c, aps, t) => Authorised(c, new, t)
  BY DEF Authorised
<1>2. Cleared(c, new, t)
  BY <1>1 DEF TaskOK, Cleared
<1> QED BY <1>2 DEF TaskOK

\* A step that only changes the approvals.
LEMMA ApprovalStepInv ==
    ASSUME Inv, UNCHANGED <<cfg, hour, store, task, seen, met>>,
           approvals' \in Seq(ApprovalStates), Len(approvals') <= MaxApprovals,
           \A i \in 1..Len(approvals) : approvals[i].status = "approved" =>
               \E j \in 1..Len(approvals') :
                   approvals'[j].status = "approved" /\ approvals'[j].key = approvals[i].key
    PROVE  Inv'
<1>1. \A s \in Requests : TaskOK(cfg', approvals', hour', task'[s])
  BY MoreApprovals DEF Inv
<1>2. TypeOK'
  BY DEF Inv, TypeOK
<1>3. TraceInv'
  BY DEF Inv, TraceInv, Active
<1> QED BY <1>1, <1>2, <1>3 DEF Inv

\* Resolution and lapse of an approval.
LEMMA ResolveInv ==
    ASSUME Inv, NEW i \in 1..Len(approvals), Resolve(i) \/ Lapse(i)
    PROVE  Inv'
<1>1. PICK a \in ApprovalStates :
        /\ approvals' = [approvals EXCEPT ![i] = a] /\ a.key = approvals[i].key
        /\ approvals[i].status = "approved" => a.status = "approved"
  <2>0. approvals[i] \in ApprovalStates
    BY DEF Inv, TypeOK
  <2>1. CASE Resolve(i)
    <3>1. PICK s \in {"approved", "denied", "expired", "cancelled"} :
            approvals' = [approvals EXCEPT ![i].status = s]
      BY <2>1 DEF Resolve
    <3> DEFINE a == [approvals[i] EXCEPT !.status = s]
    <3>2. a \in ApprovalStates /\ a.key = approvals[i].key
      BY <2>0 DEF ApprovalStates
    <3>3. approvals[i].status = "pending"
      BY <2>1 DEF Resolve
    <3> QED BY <3>1, <3>2, <3>3
  <2>2. CASE Lapse(i)
    <3> DEFINE a == [approvals[i] EXCEPT !.valid = FALSE]
    <3>2. a \in ApprovalStates /\ a.key = approvals[i].key /\ a.status = approvals[i].status
      BY <2>0 DEF ApprovalStates
    <3> QED BY <2>2, <3>2 DEF Lapse
  <2> QED BY <2>1, <2>2
<1>2. approvals \in Seq(ApprovalStates) /\ Len(approvals) <= MaxApprovals
  BY DEF Inv, TypeOK
<1>3. approvals' \in Seq(ApprovalStates) /\ Len(approvals') = Len(approvals)
      /\ \A j \in 1..Len(approvals) : approvals'[j] = IF j = i THEN a ELSE approvals[j]
  BY <1>1, <1>2
<1>4. \A k \in 1..Len(approvals) : approvals[k].status = "approved" =>
        approvals'[k].status = "approved" /\ approvals'[k].key = approvals[k].key
  BY <1>1, <1>3
<1>5. UNCHANGED <<cfg, hour, store, task, seen, met>>
  BY DEF Resolve, Lapse
<1> QED BY <1>2, <1>3, <1>4, <1>5, ApprovalStepInv

\* requestApproval creates a request, or fails; either way the command does not run.
LEMMA CreateApprovalInv ==
    ASSUME Inv, NEW r \in Requests, CreateApproval(r)
    PROVE  Inv'
<1> DEFINE t == task[r]
<1>0. t.pc = "create" /\ UNCHANGED <<cfg, hour, store, seen, met>>
  BY DEF CreateApproval
<1>1. /\ TaskOK(cfg, approvals, hour, t) /\ Active(r) /\ hour \in Nat
      /\ NotDenied(cfg, t) /\ ~t.ran /\ 1 <= t.at /\ t.amount = 0 /\ t.result = "none"
  BY <1>0, Looking
<1>2. t \in TaskStates
  BY <1>1 DEF TaskOK
<1>3. ASSUME NEW res \in {"pending", "refused"}
      PROVE  TaskOK(cfg, approvals, hour, End(t, res)) /\ End(t, res).pc \notin {"idle", "left"}
  <2>1. TaskOK(cfg, approvals, hour, End(t, res))
    BY <1>0, <1>1, EndOK DEF Results
  <2> QED BY <1>2, <2>1 DEF End, TaskStates
<1>4. CASE UNCHANGED approvals /\ Go(r, End(t, "refused"))
  BY <1>0, <1>1, <1>3, <1>4, StepInv
<1>5. CASE /\ Len(approvals) < MaxApprovals
           /\ approvals' = Append(approvals,
                  [key |-> Key(t.call), action |-> ActionOf(t), trace |-> t.trace,
                   status |-> "pending", valid |-> TRUE])
           /\ Go(r, End(t, "pending"))
  <2> DEFINE a == [key |-> Key(t.call), action |-> ActionOf(t), trace |-> t.trace,
                   status |-> "pending", valid |-> TRUE]
  <2>1. t.call \in Calls /\ t.call.action \in Actions /\ t.trace \in Requests \cup {NoTrace}
    BY <1>2, ConstantsAssumption DEF TaskStates, CallDefs
  <2>2. a \in ApprovalStates
    BY <2>1 DEF ApprovalStates, ActionOf, Actions
  <2> HIDE DEF a
  <2>3. approvals' = Append(approvals, a)
    BY <1>5 DEF a
  <2>4. approvals \in Seq(ApprovalStates) /\ Len(approvals) \in Nat /\ MaxApprovals \in Nat
    BY ConstantsAssumption DEF Inv, TypeOK
  <2>5. /\ approvals' \in Seq(ApprovalStates) /\ Len(approvals') <= MaxApprovals
        /\ \A i \in 1..Len(approvals) : i \in 1..Len(approvals') /\ approvals'[i] = approvals[i]
    BY <1>5, <2>2, <2>3, <2>4
  <2> DEFINE u == End(t, "pending")
  <2>6. TaskOK(cfg, approvals, hour, u) /\ u.pc \notin {"idle", "left"} /\ task' = [task EXCEPT ![r] = u]
    BY <1>3, <1>5 DEF Go
  <2> HIDE DEF u, t
  <2>7. /\ task' \in [Requests -> TaskStates] /\ task'[r] = u
        /\ \A s \in Requests \ {r} : task'[s] = task[s]
    BY <2>6 DEF Inv, TypeOK, TaskOK
  <2>8. \A s \in Requests : TaskOK(cfg, approvals, hour, task'[s])
    BY <2>6, <2>7 DEF Inv
  <2>9. \A s \in Requests : TaskOK(cfg', approvals', hour', task'[s])
    BY <1>0, <2>5, <2>8, MoreApprovals
  <2>10. TypeOK'
    BY <1>0, <2>5, <2>7, <2>9 DEF Inv, TypeOK, TaskOK
  <2>11. \A s \in Requests : Active(s)' = Active(s)
    BY <1>1, <2>6, <2>7 DEF Active
  <2>12. TraceInv'
    BY <1>0, <2>11 DEF Inv, TraceInv
  <2> QED BY <2>9, <2>10, <2>12 DEF Inv
<1> QED BY <1>4, <1>5 DEF CreateApproval

\* A check with a measure that passes in the first hour.
LEMMA MayPassPasses ==
    ASSUME Inv, NEW q, MayPass(q)
    PROVE  Passes(cfg, q)
BY DEF Inv, TypeOK, ConfigDefs, MayPass, Passes, Decide

\* The request of the checks that know a measure.
LEMMA ResultRequestIs ==
    ASSUME hour = 1, NEW t
    PROVE  ResultRequest(t, hour) = Unmeasured(cfg, t)
BY DEF ResultRequest, Unmeasured

\* CheckResult either lets the task go on, if it is exempt or within the limits, or
\* makes it fail.
LEMMA CheckResultCases ==
    ASSUME Inv, NEW r \in Requests, NEW rows, NEW pods, NEW onPass, NEW onFail,
           CheckResult(r, rows, pods, onPass, onFail)
    PROVE  /\ UNCHANGED seen \/ Records(r)
           /\ \/ Go(r, onFail)
              \/ /\ Go(r, onPass)
                 /\ hour = 1 => \/ rows = 0 /\ pods = 0
                                \/ Passes(cfg, [Unmeasured(cfg, task[r]) EXCEPT !.rows = rows, !.pods = pods])
<1> DEFINE q == [ResultRequest(task[r], hour) EXCEPT !.rows = rows, !.pods = pods]
<1> DEFINE exempt == task[r].call.action = "read" /\ rows = 0 /\ pods = 0
<1>1. \/ (exempt \/ MayPass(q)) /\ Go(r, onPass) /\ UNCHANGED seen
      \/ Go(r, onFail) /\ Records(r)
  BY DEF CheckResult
<1>2. hour = 1 => q = [Unmeasured(cfg, task[r]) EXCEPT !.rows = rows, !.pods = pods]
  BY ResultRequestIs
<1>3. MayPass(q) => Passes(cfg, q)
  BY MayPassPasses
<1> HIDE DEF q
<1> QED BY <1>1, <1>2, <1>3

\* scale_deployment's planned size is within the limits before the command runs.
LEMMA CheckPlannedInv ==
    ASSUME Inv, NEW r \in Requests, CheckPlanned(r)
    PROVE  Inv'
<1> DEFINE t == task[r]
<1>0. t.pc = "plan" /\ UNCHANGED <<cfg, hour, store, approvals, met>>
  BY DEF CheckPlanned
<1>1. TaskOK(cfg, approvals, hour, t) /\ t \in TaskStates /\ hour \in Nat /\ 1 <= t.at
      /\ t.call.tool = "scale_deployment" /\ t.call.type = "kubernetes" /\ ~t.ran /\ t.result = "none"
  BY <1>0, ConstantsAssumption DEF Inv, TypeOK, TaskOK, Measured, Cleared, TaskStates, CallDefs
<1>2. PICK n \in Amounts :
        CheckResult(r, 0, n, [To(t, "run") EXCEPT !.amount = n], End(t, "refused"))
  BY DEF CheckPlanned
<1>3. n \in Nat
  BY ConstantsAssumption
<1> DEFINE u == [To(t, "run") EXCEPT !.amount = n]
<1>4. u \in TaskStates /\ u.pc = "run" /\ u.result = t.result /\ u.call = t.call /\ u.nested = t.nested
      /\ u.at = t.at /\ u.age = t.age /\ u.amount = n /\ u.ran = t.ran
  BY <1>1, <1>3 DEF TaskStates, To, Points
<1>5. /\ UNCHANGED seen \/ Records(r)
      /\ \/ Go(r, End(t, "refused"))
         \/ /\ Go(r, u)
            /\ hour = 1 => n = 0 \/ Passes(cfg, [Unmeasured(cfg, t) EXCEPT !.rows = 0, !.pods = n])
  BY <1>2, CheckResultCases
<1>6. Active(r)
  BY <1>0 DEF Active
<1>7. CASE Go(r, End(t, "refused"))
  <2>1. TaskOK(cfg, approvals, hour, End(t, "refused"))
    BY <1>0, <1>1, EndOK DEF Results
  <2>2. End(t, "refused").pc = "end"
    BY <1>1 DEF End, TaskStates
  <2> QED BY <1>0, <1>5, <1>6, <1>7, <2>1, <2>2, StepInv
<1>8. CASE /\ Go(r, u)
           /\ hour = 1 => n = 0 \/ Passes(cfg, [Unmeasured(cfg, t) EXCEPT !.rows = 0, !.pods = n])
  <2> HIDE DEF u
  <2>1. Cleared(cfg, approvals, u)
    BY <1>0, <1>1, <1>4, SameSaid DEF TaskOK, Cleared
  <2>2. Unmeasured(cfg, u) = Unmeasured(cfg, t)
    BY <1>4 DEF Unmeasured, Asked, ActionOf
  <2>3. hour = 1 => AmountWithin(cfg, u)
    BY <1>1, <1>4, <1>8, <2>2 DEF AmountWithin
  <2>4. hour = 1 => AgeWithin(cfg, u)
    BY <1>0, <1>1, <1>4, SameWithin DEF TaskOK, Measured
  <2>5. Measured(cfg, hour, u)
    BY <1>0, <1>1, <1>4, <2>3, <2>4 DEF TaskOK, Measured
  <2>6. TaskOK(cfg, approvals, hour, u)
    BY <1>1, <1>4, <2>1, <2>5 DEF TaskOK
  <2> QED BY <1>0, <1>4, <1>5, <1>6, <1>8, <2>6, StepInv
<1> QED BY <1>5, <1>7, <1>8

\* The nested query and the command.
LEMMA RunInv ==
    ASSUME Inv, NEW r \in Requests, Run(r)
    PROVE  Inv'
<1> DEFINE t == task[r]
<1>0. t.pc = "run" /\ UNCHANGED <<cfg, hour, store, approvals, met>> /\ Records(r)
  BY DEF Run
<1>1. TaskOK(cfg, approvals, hour, t) /\ t \in TaskStates /\ hour \in Nat /\ 1 <= t.at
      /\ ~t.ran /\ t.result = "none"
  BY <1>0 DEF Inv, TypeOK, TaskOK, Measured, Cleared
<1>2. Active(r)
  BY <1>0 DEF Active
<1>3. \/ Go(r, End(t, "error"))
      \/ t.nested /\ \E age \in Ages : Go(r, [t EXCEPT !.pc = "age", !.age = age, !.nested = FALSE])
      \/ ~t.nested /\ \E n \in Affected(t) : Go(r, [t EXCEPT !.pc = "post", !.ran = TRUE, !.amount = n])
      \/ ~t.nested /\ Go(r, [End(t, "error") EXCEPT !.ran = TRUE])
  BY DEF Run
<1>4. CASE Go(r, End(t, "error"))
  <2>1. TaskOK(cfg, approvals, hour, End(t, "error"))
    BY <1>0, <1>1, EndOK DEF Results
  <2>2. End(t, "error").pc = "end"
    BY <1>1 DEF End, TaskStates
  <2> QED BY <1>0, <1>2, <1>4, <2>1, <2>2, StepInv
<1>5. CASE t.nested /\ \E age \in Ages : Go(r, [t EXCEPT !.pc = "age", !.age = age, !.nested = FALSE])
  <2>1. PICK age \in Ages : Go(r, [t EXCEPT !.pc = "age", !.age = age, !.nested = FALSE])
    BY <1>5
  <2>2. age \in Nat
    BY ConstantsAssumption
  <2> DEFINE u == [t EXCEPT !.pc = "age", !.age = age, !.nested = FALSE]
  <2>3. u \in TaskStates /\ u.pc = "age" /\ u.result = t.result /\ u.call = t.call /\ u.nested = FALSE
        /\ u.at = t.at /\ u.age = age /\ u.amount = t.amount /\ u.ran = t.ran
    BY <1>1, <2>2 DEF TaskStates, Points
  <2>4. t.call.tool # "scale_deployment"
    BY <1>1, <1>5 DEF TaskOK, Measured, Inspects
  <2>5. Go(r, u)
    BY <2>1
  <2> HIDE DEF u
  <2>6. TaskOK(cfg, approvals, hour, u)
    BY <1>0, <1>1, <2>3, <2>4 DEF TaskOK, Cleared, Measured
  <2> QED BY <1>0, <1>2, <2>3, <2>5, <2>6, StepInv
<1>6. CASE ~t.nested /\ \E n \in Affected(t) : Go(r, [t EXCEPT !.pc = "post", !.ran = TRUE, !.amount = n])
  <2>1. PICK n \in Affected(t) : Go(r, [t EXCEPT !.pc = "post", !.ran = TRUE, !.amount = n])
    BY <1>6
  <2>2. n \in Nat /\ (n = 0 \/ n = t.amount \/ Remeasured(t.call))
    <3>1. n = 0 \/ n = 1 \/ n = t.amount \/ n \in Amounts
      BY DEF Affected
    <3>2. Affected(t) = {0} \/ Affected(t) = {t.amount} \/ Remeasured(t.call)
      BY DEF Affected, Remeasured
    <3>3. t.amount \in Nat /\ Amounts \subseteq Nat
      BY <1>1, ConstantsAssumption DEF TaskStates
    <3>4. n \in Amounts => n \in Nat
      BY <3>3, Zenon
    <3>5. n \in Nat
      BY <3>1, <3>3, <3>4
    <3> QED BY <3>2, <3>5, Zenon
  <2> DEFINE u == [t EXCEPT !.pc = "post", !.ran = TRUE, !.amount = n]
  <2>3. u \in TaskStates /\ u.pc = "post" /\ u.result = t.result /\ u.call = t.call /\ u.nested = t.nested
        /\ u.at = t.at /\ u.age = t.age /\ u.amount = n /\ u.ran = TRUE
    BY <1>1, <2>2 DEF TaskStates, Points
  <2>5. Go(r, u)
    BY <2>1
  <2> HIDE DEF u
  <2>6. Cleared(cfg, approvals, u)
    BY <1>0, <1>1, <1>6, <2>3, SameSaid DEF TaskOK, Cleared
  <2>7. hour = 1 => AgeWithin(cfg, u)
    BY <1>0, <1>1, <2>3, SameWithin DEF TaskOK, Measured
  <2>8. hour = 1 /\ ~Remeasured(t.call) => AmountWithin(cfg, u)
    <3>1. CASE n = 0
      BY <2>3, <3>1 DEF AmountWithin
    <3>2. CASE n = t.amount
      BY <1>0, <1>1, <2>3, <3>2, SameWithin DEF TaskOK, Measured
    <3> QED BY <2>2, <3>1, <3>2
  <2>9. Measured(cfg, hour, u)
    BY <1>0, <1>1, <2>3, <2>7, <2>8 DEF TaskOK, Measured
  <2>10. TaskOK(cfg, approvals, hour, u)
    BY <1>1, <2>3, <2>6, <2>9 DEF TaskOK
  <2> QED BY <1>0, <1>2, <2>3, <2>5, <2>10, StepInv
<1>7. CASE ~t.nested /\ Go(r, [End(t, "error") EXCEPT !.ran = TRUE])
  <2> DEFINE u == [End(t, "error") EXCEPT !.ran = TRUE]
  <2>3. u \in TaskStates /\ u.pc = "end" /\ u.result = "error" /\ u.call = t.call /\ u.nested = t.nested
        /\ u.at = t.at /\ u.age = t.age /\ u.amount = t.amount /\ u.ran = TRUE
    BY <1>1 DEF TaskStates, Points, End, Results
  <2>5. Go(r, u)
    BY <1>7
  <2> HIDE DEF u
  <2>6. Cleared(cfg, approvals, u)
    BY <1>0, <1>1, <1>7, <2>3, SameSaid DEF TaskOK, Cleared
  <2>9. Measured(cfg, hour, u)
    BY <1>0, <1>1, <2>3 DEF TaskOK, Measured
  <2>10. TaskOK(cfg, approvals, hour, u)
    BY <1>1, <2>3, <2>6, <2>9 DEF TaskOK
  <2> QED BY <1>0, <1>2, <2>3, <2>5, <2>10, StepInv
<1> QED BY <1>3, <1>4, <1>5, <1>6, <1>7

\* CheckDatabaseSessionAge: in the first hour an age within the limits goes on.
LEMMA CheckAgeInv ==
    ASSUME Inv, NEW r \in Requests, CheckAge(r)
    PROVE  Inv'
<1> DEFINE t == task[r]
<1> DEFINE q == [ResultRequest(t, hour) EXCEPT !.age = t.age]
<1>0. t.pc = "age" /\ UNCHANGED <<cfg, hour, store, approvals, met>>
      /\ (UNCHANGED seen \/ Records(r))
  BY DEF CheckAge
<1>1. TaskOK(cfg, approvals, hour, t) /\ t \in TaskStates /\ hour \in Nat /\ 1 <= t.at
      /\ ~t.ran /\ t.result = "none"
  BY <1>0 DEF Inv, TypeOK, TaskOK, Measured, Cleared
<1>2. Active(r)
  BY <1>0 DEF Active
<1>3. \/ (t.age = 0 \/ MayPass(q)) /\ Go(r, To(t, "check"))
      \/ Go(r, End(t, "refused"))
  BY DEF CheckAge
<1>4. CASE Go(r, End(t, "refused"))
  <2>1. TaskOK(cfg, approvals, hour, End(t, "refused"))
    BY <1>0, <1>1, EndOK DEF Results
  <2>2. End(t, "refused").pc = "end"
    BY <1>1 DEF End, TaskStates
  <2> QED BY <1>0, <1>2, <1>4, <2>1, <2>2, StepInv
<1>5. CASE (t.age = 0 \/ MayPass(q)) /\ Go(r, To(t, "check"))
  <2> DEFINE u == To(t, "check")
  <2>1. u \in TaskStates /\ u.pc = "check" /\ u.result = t.result /\ u.call = t.call /\ u.nested = t.nested
        /\ u.at = t.at /\ u.age = t.age /\ u.amount = t.amount /\ u.ran = t.ran
    BY <1>1 DEF TaskStates, Points, To
  <2>2. hour = 1 => q = [Unmeasured(cfg, t) EXCEPT !.age = t.age]
    BY ResultRequestIs
  <2>3. hour = 1 => AgeWithin(cfg, t)
    <3>1. MayPass(q) => Passes(cfg, q)
      BY MayPassPasses
    <3> HIDE DEF q
    <3> QED BY <1>5, <2>2, <3>1 DEF AgeWithin
  <2> HIDE DEF u
  <2>4. hour = 1 => AgeWithin(cfg, u)
    BY <2>1, <2>3, SameWithin
  <2>5. Cleared(cfg, approvals, u)
    BY <1>0, <1>1, <2>1 DEF TaskOK, Cleared
  <2>6. Measured(cfg, hour, u)
    BY <1>0, <1>1, <2>1, <2>4 DEF TaskOK, Measured
  <2>7. TaskOK(cfg, approvals, hour, u)
    BY <1>1, <2>1, <2>5, <2>6 DEF TaskOK
  <2>8. Go(r, u)
    BY <1>5 DEF u
  <2> QED BY <1>0, <1>2, <2>1, <2>7, <2>8, StepInv
<1> QED BY <1>3, <1>4, <1>5

\* A task that ran ends in "ok" with an amount that is within the limits.
LEMMA EndsOK ==
    ASSUME Inv, NEW r \in Requests, task[r].pc \in {"post", "measure"},
           hour = 1 => AmountWithin(cfg, task[r])
    PROVE  /\ TaskOK(cfg, approvals, hour, End(task[r], "ok"))
           /\ End(task[r], "ok").pc \notin {"idle", "left"}
<1> DEFINE t == task[r]
<1> DEFINE u == End(t, "ok")
<1>1. TaskOK(cfg, approvals, hour, t) /\ t \in TaskStates /\ hour \in Nat
  BY DEF Inv, TypeOK, TaskOK
<1>2. u \in TaskStates /\ u.pc = "end" /\ u.result = "ok" /\ u.call = t.call /\ u.nested = t.nested
      /\ u.at = t.at /\ u.age = t.age /\ u.amount = t.amount /\ u.ran = t.ran
  BY <1>1 DEF TaskStates, Points, End, Results
<1> HIDE DEF u
<1>3. Cleared(cfg, approvals, u)
  BY <1>1, <1>2, SameSaid DEF TaskOK, Cleared
<1>4. hour = 1 => AmountWithin(cfg, u)
  BY <1>2, SameWithin
<1>5. hour = 1 => AgeWithin(cfg, u)
  BY <1>1, <1>2, SameWithin DEF TaskOK, Measured
<1>6. Measured(cfg, hour, u)
  BY <1>1, <1>2, <1>4, <1>5 DEF TaskOK, Measured
<1>7. TaskOK(cfg, approvals, hour, u)
  BY <1>1, <1>2, <1>3, <1>6 DEF TaskOK
<1> QED BY <1>2, <1>7 DEF u

\* A task that ran may fail after the fact.
LEMMA DeniedAfter ==
    ASSUME Inv, NEW r \in Requests, task[r].pc \in {"post", "measure"}
    PROVE  /\ TaskOK(cfg, approvals, hour, End(task[r], "denied_after"))
           /\ End(task[r], "denied_after").pc \notin {"idle", "left"}
           /\ Active(r)
<1>1. TaskOK(cfg, approvals, hour, task[r]) /\ task[r] \in TaskStates /\ hour \in Nat /\ 1 <= task[r].at
  BY DEF Inv, TypeOK, TaskOK, Measured
<1>2. TaskOK(cfg, approvals, hour, End(task[r], "denied_after"))
  BY <1>1, EndOK DEF Results
<1> QED BY <1>1, <1>2 DEF End, TaskStates, Active

\* The check after the command.
LEMMA CheckAfterInv ==
    ASSUME Inv, NEW r \in Requests, CheckAfter(r)
    PROVE  Inv'
<1> DEFINE t == task[r]
<1> DEFINE next == IF Remeasured(t.call) THEN To(t, "measure") ELSE End(t, "ok")
<1>0. t.pc = "post" /\ UNCHANGED <<cfg, hour, store, approvals, met>>
  BY DEF CheckAfter
<1>1. PICK pods : CheckResult(r, 0, pods, next, End(t, "denied_after"))
  BY DEF CheckAfter
<1>2. (UNCHANGED seen \/ Records(r)) /\ (Go(r, End(t, "denied_after")) \/ Go(r, next))
  <2> HIDE DEF next
  <2> QED BY <1>1, CheckResultCases
<1>3. TaskOK(cfg, approvals, hour, t) /\ t \in TaskStates /\ hour \in Nat
  BY DEF Inv, TypeOK, TaskOK
<1>4. CASE Go(r, End(t, "denied_after"))
  BY <1>0, <1>2, <1>4, DeniedAfter, StepInv
<1>5. CASE Go(r, next) /\ ~Remeasured(t.call)
  <2>1. hour = 1 => AmountWithin(cfg, t)
    BY <1>0, <1>3, <1>5 DEF TaskOK, Measured
  <2>2. Go(r, End(t, "ok"))
    BY <1>5
  <2> QED BY <1>0, <1>2, <2>1, <2>2, EndsOK, DeniedAfter, StepInv
<1>6. CASE Go(r, next) /\ Remeasured(t.call)
  <2> DEFINE u == To(t, "measure")
  <2>1. u \in TaskStates /\ u.pc = "measure" /\ u.result = t.result /\ u.call = t.call /\ u.nested = t.nested
        /\ u.at = t.at /\ u.age = t.age /\ u.amount = t.amount /\ u.ran = t.ran
    BY <1>3 DEF TaskStates, Points, To
  <2>2. Go(r, u)
    BY <1>6
  <2> HIDE DEF u
  <2>3. Cleared(cfg, approvals, u)
    BY <1>0, <1>3, <2>1, SameSaid DEF TaskOK, Cleared
  <2>4. hour = 1 => AgeWithin(cfg, u)
    BY <1>0, <1>3, <2>1, SameWithin DEF TaskOK, Measured
  <2>5. t.result = "none"
    BY <1>0, <1>3 DEF TaskOK
  <2>6. Measured(cfg, hour, u)
    BY <1>0, <1>3, <1>6, <2>1, <2>4, <2>5 DEF TaskOK, Measured
  <2>7. TaskOK(cfg, approvals, hour, u)
    BY <1>3, <2>1, <2>3, <2>5, <2>6 DEF TaskOK
  <2> QED BY <1>0, <1>2, <2>1, <2>2, <2>7, DeniedAfter, StepInv
<1> QED BY <1>2, <1>4, <1>5, <1>6

\* The second check, which knows the number of sessions.
LEMMA CheckMeasuredInv ==
    ASSUME Inv, NEW r \in Requests, CheckMeasured(r)
    PROVE  Inv'
<1> DEFINE t == task[r]
<1>0. t.pc = "measure" /\ UNCHANGED <<cfg, hour, store, approvals, met>>
  BY DEF CheckMeasured
<1>1. TaskOK(cfg, approvals, hour, t) /\ t \in TaskStates /\ Remeasured(t.call)
  BY <1>0 DEF Inv, TypeOK, TaskOK, Measured
<1>2. t.call.type = "database"
  BY <1>1, ConstantsAssumption DEF TaskStates, CallDefs, Remeasured, Inspects
<1>3. \/ CheckResult(r, t.amount, 0, End(t, "ok"), End(t, "denied_after"))
      \/ t.amount = 0 /\ Go(r, End(t, "ok")) /\ UNCHANGED seen
  BY DEF CheckMeasured
<1>4. /\ UNCHANGED seen \/ Records(r)
      /\ \/ Go(r, End(t, "denied_after"))
         \/ Go(r, End(t, "ok")) /\ (hour = 1 => AmountWithin(cfg, t))
  <2>1. CASE CheckResult(r, t.amount, 0, End(t, "ok"), End(t, "denied_after"))
    <3>1. /\ UNCHANGED seen \/ Records(r)
          /\ \/ Go(r, End(t, "denied_after"))
             \/ /\ Go(r, End(t, "ok"))
                /\ hour = 1 => \/ t.amount = 0
                               \/ Passes(cfg, [Unmeasured(cfg, t) EXCEPT !.rows = t.amount, !.pods = 0])
      BY <2>1, CheckResultCases
    <3> QED BY <1>2, <3>1 DEF AmountWithin
  <2>2. CASE t.amount = 0 /\ Go(r, End(t, "ok")) /\ UNCHANGED seen
    BY <2>2 DEF AmountWithin
  <2> QED BY <1>3, <2>1, <2>2
<1> QED BY <1>0, <1>4, EndsOK, DeniedAfter, StepInv

\* An hour passes.
LEMMA TickInv ==
    ASSUME Inv, Tick
    PROVE  Inv'
<1>1. hour \in Nat /\ 1 <= hour /\ hour' = hour + 1 /\ hour' \in 1..LastHour
      /\ UNCHANGED <<cfg, store, task, approvals, seen, met>>
  BY ConstantsAssumption DEF Inv, TypeOK, Tick
<1>2. \A s \in Requests : TaskOK(cfg', approvals', hour', task'[s])
  <2> SUFFICES ASSUME NEW s \in Requests PROVE TaskOK(cfg, approvals, hour + 1, task[s])
    BY <1>1
  <2>1. TaskOK(cfg, approvals, hour, task[s]) /\ task[s].at \in Nat
    BY DEF Inv, TypeOK, TaskStates
  <2>2. Measured(cfg, hour + 1, task[s])
    BY <1>1, <2>1 DEF TaskOK, Measured
  <2> QED BY <2>1, <2>2 DEF TaskOK
<1>3. TypeOK'
  BY <1>1 DEF Inv, TypeOK
<1>4. TraceInv'
  BY <1>1 DEF Inv, TraceInv, Active
<1> QED BY <1>2, <1>3, <1>4 DEF Inv

-----------------------------------------------------------------------------
(* The theorems. *)

\* A loaded file has the policies of the file, in another order.
LEMMA LoadType ==
    ASSUME NEW file \in Seq(PolicyDefs), NEW f \in Load(file)
    PROVE  f \in Seq(PolicyDefs)
<1>1. PICK p \in [1..Len(file) -> 1..Len(file)] : f = [k \in 1..Len(file) |-> file[p[k]]]
  BY DEF Load
<1>2. Len(file) \in Nat /\ \A k \in 1..Len(file) : file[p[k]] \in PolicyDefs
  OBVIOUS
<1> QED BY <1>1, <1>2

\* The invariant holds initially.
LEMMA InitInv == Init => Inv
<1> SUFFICES ASSUME Init PROVE Inv
  OBVIOUS
<1>1. cfg \in ConfigDefs
  <2>1. PICK c \in Configs : \E f \in Load(c.file) : cfg = [c EXCEPT !.file = f]
    BY DEF Init
  <2>2. PICK f \in Load(c.file) : cfg = [c EXCEPT !.file = f]
    BY <2>1
  <2>3. c \in ConfigDefs
    BY ConstantsAssumption
  <2>4. c.file \in Seq(PolicyDefs)
    BY <2>3 DEF ConfigDefs
  <2>5. f \in Seq(PolicyDefs)
    BY <2>4, LoadType
  <2> QED BY <2>2, <2>3, <2>5 DEF ConfigDefs
<1>2. PICK call \in [Requests -> Calls] : task = [r \in Requests |-> Idle(call[r])]
  BY DEF Init
<1>3. ASSUME NEW r \in Requests
      PROVE  TaskOK(cfg, approvals, hour, task[r]) /\ task[r].pc = "idle"
  <2> DEFINE t == task[r]
  <2>0. task[r] = Idle(call[r]) /\ call[r] \in Calls
    BY <1>2
  <2>1. t = [pc |-> "idle", call |-> call[r], trace |-> NoTrace, nested |-> FALSE,
             age |-> 0, amount |-> 0, at |-> 0, ran |-> FALSE, result |-> "none"]
    BY <2>0 DEF Idle, NewTask
  <2>2. t \in TaskStates /\ t.pc = "idle" /\ t.at = 0 /\ ~t.nested /\ t.age = 0 /\ t.amount = 0
        /\ ~t.ran /\ t.result = "none"
    BY <2>0, <2>1 DEF TaskStates, Points, Results
  <2> HIDE DEF t
  <2>3. TaskOK(cfg, approvals, hour, t)
    BY <2>2 DEF TaskOK, Cleared, Measured, AgeWithin, AmountWithin, Init
  <2> QED BY <2>2, <2>3 DEF t
<1>4. task \in [Requests -> TaskStates]
  BY <1>2, <1>3 DEF TaskOK
<1>5. TypeOK
  BY <1>1, <1>3, <1>4, ConstantsAssumption DEF Init, TypeOK, TaskOK
<1>6. TraceInv
  BY <1>3 DEF Init, TraceInv, Active
<1> QED BY <1>3, <1>5, <1>6 DEF Inv

\* Every step keeps it.
LEMMA NextInv == Inv /\ [Next]_vars => Inv'
<1> SUFFICES ASSUME Inv, [Next]_vars PROVE Inv'
  OBVIOUS
<1>1. CASE UNCHANGED vars
  <2>1. TypeOK'
    BY <1>1 DEF Inv, TypeOK, vars
  <2>2. TraceInv'
    BY <1>1 DEF Inv, TraceInv, Active, vars
  <2> QED BY <1>1, <2>1, <2>2 DEF Inv, vars
<1>2. ASSUME NEW r \in Requests,
             \/ Arrive(r) \/ CheckTool(r)
             \/ FindApproved(r) \/ FindPending(r) \/ CheckExistingApproval(r) \/ CreateApproval(r)
             \/ CheckPlanned(r) \/ Run(r) \/ CheckAge(r) \/ CheckAfter(r) \/ CheckMeasured(r)
             \/ Leave(r)
      PROVE  Inv'
  BY <1>2, ArriveInv, CheckToolInv, LookUpInv, CreateApprovalInv, CheckPlannedInv, RunInv,
     CheckAgeInv, CheckAfterInv, CheckMeasuredInv, LeaveInv
<1>3. ASSUME NEW i \in 1..Len(approvals), Resolve(i) \/ Lapse(i)
      PROVE  Inv'
  BY <1>3, ResolveInv
<1> QED BY <1>1, <1>2, <1>3, TickInv DEF Next

\* The invariant of the specification.
THEOREM Invariance == Spec => []Inv
BY InitInv, NextInv, PTL DEF Spec

\* Every variable keeps its type, whatever the policies and the calls, and a call has a
\* result exactly when it is over.
THEOREM TypeCorrect == Spec => []TypeOK
<1>1. Inv => TypeOK
  BY DEF Inv
<1> QED BY <1>1, Invariance, PTL

\* The denial part of the invariant is DenialHolds.
LEMMA InvDenial == Inv => DenialHolds
<1> SUFFICES ASSUME Inv, NEW r \in Requests, task[r].ran
             PROVE  /\ cfg.readOnly => task[r].call.action = "read"
                    /\ ~PurposeMissing(task[r])
                    /\ (cfg.mode # "off" /\ IsDenied(Verdict(task[r]))) =>
                          cfg.mode = "local" /\ Verdict(task[r]).approval
  BY DEF DenialHolds
<1>1. TaskOK(cfg, approvals, hour, task[r])
  BY DEF Inv
<1>2. NotDenied(cfg, task[r]) /\ ~task[r].nested
  BY <1>1 DEF TaskOK, Cleared
<1>3. Verdict(task[r]) = Said(cfg, task[r])
  BY DEF Verdict, Said, Decide
<1>4. task[r].call.action \in Actions
  BY <1>1, ConstantsAssumption DEF TaskOK, TaskStates, CallDefs
<1>5. cfg.readOnly => task[r].call.action = "read"
  BY <1>2, <1>4 DEF NotDenied, ActionOf, Actions
<1> QED BY <1>2, <1>3, <1>5 DEF NotDenied, PurposeMissing

\* CheckTool: for any policy files and interleaving, no command runs that the readonly
\* mode, a missing purpose or the policies deny, but for the local path's denials that
\* an approver may lift.
THEOREM Denials == Spec => []DenialHolds
BY InvDenial, Invariance, PTL

\* The approval part of the invariant is ApprovalHolds.
LEMMA InvApproval == Inv => ApprovalHolds
<1> SUFFICES ASSUME Inv, NEW r \in Requests,
                    task[r].ran, cfg.mode # "off", NeedsApproval(Verdict(task[r]))
             PROVE  \/ Held(LAMBDA a : a.status = "approved" /\ a.key = Key(task[r].call))
                    \/ cfg.mode = "local" /\ task[r].call.auto
                    \/ cfg.mode = "remote" /\ cfg.dryRun
  BY DEF ApprovalHolds
<1>1. TaskOK(cfg, approvals, hour, task[r])
  BY DEF Inv
<1>2. Authorised(cfg, approvals, task[r])
  BY <1>1 DEF TaskOK, Cleared
<1>3. Verdict(task[r]) = Said(cfg, task[r])
  BY DEF Verdict, Said, Decide
<1> QED BY <1>2, <1>3 DEF Authorised, Held

\* requestApproval: for any number of requests, retries and failing look-ups, a command
\* that needs an approval runs only when a request for its own resource was approved,
\* or pre-authorised on the local path, or in a remote dry run.
THEOREM Approvals == Spec => []ApprovalHolds
BY InvApproval, Invariance, PTL

\* The measure part of the invariant is LimitsHold.
LEMMA InvLimits == Inv => LimitsHold
<1> SUFFICES ASSUME Inv, NEW r \in Requests
             PROVE  LET t == task[r]
                        m == Deciding(cfg.file, ToolRequest(t, t.at))
                        rule == cfg.file[m[1]].rules[m[2]]
                        measured == IF t.call.type = "database" THEN "maxRows" ELSE "maxPods"
                    IN  (/\ t.ran /\ t.result = "ok" /\ hour = 1
                         /\ cfg.mode # "off" /\ ~cfg.dryRun /\ m # <<0, 0>>
                         /\ m = Deciding(cfg.file, ResultRequest(t, t.at))) =>
                          /\ rule[measured] = 0 \/ t.amount <= rule[measured]
                          /\ rule.maxAge = 0 \/ t.age <= rule.maxAge
  BY DEF LimitsHold
<1> DEFINE t == task[r]
<1> DEFINE m == Deciding(cfg.file, ToolRequest(t, t.at))
<1> DEFINE rule == cfg.file[m[1]].rules[m[2]]
<1> DEFINE measured == IF t.call.type = "database" THEN "maxRows" ELSE "maxPods"
<1> SUFFICES ASSUME t.ran, t.result = "ok", hour = 1, cfg.mode # "off", ~cfg.dryRun, m # <<0, 0>>,
                    m = Deciding(cfg.file, ResultRequest(t, t.at))
             PROVE  /\ rule[measured] = 0 \/ t.amount <= rule[measured]
                    /\ rule.maxAge = 0 \/ t.age <= rule.maxAge
  OBVIOUS
<1>1. TaskOK(cfg, approvals, hour, t) /\ cfg \in ConfigDefs /\ t.at = 1
      /\ t.amount \in Nat /\ t.age \in Nat
  BY DEF Inv, TypeOK, TaskOK, Measured, Cleared, TaskStates
<1>2. AgeWithin(cfg, t) /\ AmountWithin(cfg, t)
  BY <1>1 DEF TaskOK, Measured
<1>3. m = Deciding(cfg.file, Unmeasured(cfg, t))
  BY <1>1, ResultRequestIs
<1>4. rule \in RuleDefs
  BY <1>1, DecidingRule DEF ConfigDefs
<1> HIDE DEF m
<1>5. ASSUME NEW q, q.who = Unmeasured(cfg, t).who, q.resource = Unmeasured(cfg, t).resource,
             q.action = Unmeasured(cfg, t).action, q.hour = Unmeasured(cfg, t).hour, Passes(cfg, q)
      PROVE  ~Exceeded(rule, q)
  <2>1. Deciding(cfg.file, q) = m
    BY <1>3, <1>5 DEF Deciding, Matching, ruleMatches
  <2>2. Explain(cfg.file, cfg.default, cfg.dryRun, q) = applyConditions(rule, q)
    BY <2>1 DEF Explain, explainEvaluate
  <2>3. applyConditions(rule, q).effect # "deny"
    BY <1>5, <2>2 DEF Passes
  <2> QED BY <2>3 DEF applyConditions
<1> HIDE DEF rule
<1>6. rule.maxRows \in Nat /\ rule.maxPods \in Nat /\ rule.maxAge \in Nat
  BY <1>4 DEF RuleDefs
<1> DEFINE U == Unmeasured(cfg, t)
<1>7. rule.maxAge = 0 \/ t.age <= rule.maxAge
  <2>1. CASE t.age = 0
    BY <1>6, <2>1
  <2>2. CASE Passes(cfg, [U EXCEPT !.age = t.age])
    <3> DEFINE q == [U EXCEPT !.age = t.age]
    <3>1. q.who = U.who /\ q.resource = U.resource /\ q.action = U.action /\ q.hour = U.hour
          /\ q.age = t.age
      BY DEF Unmeasured, Asked
    <3> HIDE DEF q
    <3>2. ~Exceeded(rule, q)
      BY <1>5, <2>2, <3>1 DEF q
    <3> QED BY <1>1, <1>6, <3>1, <3>2 DEF Exceeded
  <2> QED BY <1>2, <2>1, <2>2 DEF AgeWithin
<1>8. rule[measured] = 0 \/ t.amount <= rule[measured]
  <2>1. CASE t.amount = 0
    BY <1>6, <2>1
  <2>2. CASE t.call.type = "database" /\ Passes(cfg, [U EXCEPT !.rows = t.amount, !.pods = 0])
    <3> DEFINE q == [U EXCEPT !.rows = t.amount, !.pods = 0]
    <3>1. q.who = U.who /\ q.resource = U.resource /\ q.action = U.action /\ q.hour = U.hour
          /\ q.rows = t.amount
      BY DEF Unmeasured, Asked
    <3> HIDE DEF q
    <3>2. ~Exceeded(rule, q)
      BY <1>5, <2>2, <3>1 DEF q
    <3> QED BY <1>1, <1>6, <2>2, <3>1, <3>2 DEF Exceeded
  <2>3. CASE t.call.type # "database" /\ Passes(cfg, [U EXCEPT !.rows = 0, !.pods = t.amount])
    <3> DEFINE q == [U EXCEPT !.rows = 0, !.pods = t.amount]
    <3>1. q.who = U.who /\ q.resource = U.resource /\ q.action = U.action /\ q.hour = U.hour
          /\ q.pods = t.amount
      BY DEF Unmeasured, Asked
    <3> HIDE DEF q
    <3>2. ~Exceeded(rule, q)
      BY <1>5, <2>3, <3>1 DEF q
    <3> QED BY <1>1, <1>6, <2>3, <3>1, <3>2 DEF Exceeded
  <2> QED BY <1>2, <2>1, <2>2, <2>3 DEF AmountWithin
<1> QED BY <1>7, <1>8

\* CheckResult and CheckDatabaseSessionAge: for any policy files, a call whose rows, pods
\* or transaction age exceed the limits of the rule that decides it and its measured
\* checks never ends in "ok".
THEOREM Limits == Spec => []LimitsHold
BY InvLimits, Invariance, PTL

\* CurrentTraceStore: for any number of requests, one that had the agent to itself has
\* all its events recorded under its own trace id.
THEOREM Traces == Spec => []TraceKept
<1>1. Inv => TraceKept
  BY DEF Inv, TraceInv, TraceKept
<1> QED BY <1>1, Invariance, PTL
=============================================================================
