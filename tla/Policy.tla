-------------------------------- MODULE Policy --------------------------------
(***************************************************************************)
(* The policy engine (internal/policy): which rule of a policy file        *)
(* decides a request, and with what effect.                                *)
(*                                                                         *)
(* A glob and an exact name are both a set of names they match, a schedule *)
(* is the set of hours it is active in, a principal is the set of its      *)
(* identities (user, service, each role, "any"), and 0 is "no limit".      *)
(***************************************************************************)
EXTENDS Integers, Sequences

Actions == {"read", "write", "destructive"}
Effects == {"allow", "deny", "require_approval"}
Types == {"database", "kubernetes"}

MatchDefs == [type : Types, names : SUBSET STRING, namespace : STRING, tags : SUBSET STRING,
              sensitivity : SUBSET STRING, tools : SUBSET STRING]
RuleDefs == [actions : SUBSET Actions, effect : Effects, approval : BOOLEAN,
             maxRows : Nat, maxPods : Nat, maxAge : Nat,
             allowedPurposes : SUBSET STRING, blockedPurposes : SUBSET STRING,
             schedule : SUBSET Nat]
PolicyDefs == [priority : Int, enabled : BOOLEAN, principals : SUBSET STRING,
               resources : SUBSET MatchDefs, rules : Seq(RuleDefs)]

IsDenied(d) == d.effect = "deny"
NeedsApproval(d) == d.effect = "require_approval" \/ d.approval

\* Load: higher priorities first. sort.Slice is not stable, so policies of
\* equal priority may come in any order.
Load(file) ==
    LET Places == 1..Len(file)
    IN  {[k \in Places |-> file[p[k]]] :
            p \in {q \in [Places -> Places] :
                      \A i, j \in Places : i < j =>
                          q[i] # q[j] /\ file[q[i]].priority >= file[q[j]].priority}}

-----------------------------------------------------------------------------
matchesPrincipal(pol, who) == pol.principals = {} \/ pol.principals \cap who # {}

\* An empty namespace in a match is no criterion.
matchesResource(pol, res) ==
    \E m \in pol.resources :
        /\ m.type = res.type
        /\ res.name \in m.names
        /\ m.namespace \in {"", res.namespace}
        /\ m.tags \subseteq res.tags
        /\ m.sensitivity \subseteq res.sensitivity
        /\ res.tool \in m.tools

ruleMatches(rule, q) == q.action \in rule.actions /\ q.hour \in rule.schedule

\* The policies and rules that match, as pairs of positions.
Matching(file, q) ==
    {m \in UNION {{k} \X (1..Len(file[k].rules)) : k \in 1..Len(file)} :
        /\ file[m[1]].enabled
        /\ matchesPrincipal(file[m[1]], q.who)
        /\ matchesResource(file[m[1]], q.resource)
        /\ ruleMatches(file[m[1]].rules[m[2]], q)}

Before(m, n) == m[1] < n[1] \/ (m[1] = n[1] /\ m[2] < n[2])

\* The position of the rule that decides; <<0, 0>> is the default.
Deciding(file, q) ==
    LET S == Matching(file, q)
    IN  IF S = {} THEN <<0, 0>>
        ELSE CHOOSE m \in S : \A n \in S \ {m} : Before(m, n)

\* max_rows_affected, max_pods_affected, max_xact_age_secs.
Exceeded(rule, q) ==
    \/ rule.maxRows > 0 /\ q.rows > rule.maxRows
    \/ rule.maxPods > 0 /\ q.pods > rule.maxPods
    \/ rule.maxAge > 0 /\ q.age > rule.maxAge

PurposeRefused(rule, q) ==
    \/ rule.allowedPurposes # {} /\ q.purpose \notin rule.allowedPurposes
    \/ q.purpose \in rule.blockedPurposes

\* Mutant: a limit only applies to a rule that needs no approval.
LimitsWithoutApproval(rule, q) ==
    [effect |-> IF rule.approval /\ rule.effect = "allow" THEN "require_approval"
                ELSE IF Exceeded(rule, q) \/ PurposeRefused(rule, q) THEN "deny"
                ELSE rule.effect,
     approval |-> rule.approval]

applyConditions(rule, q) ==
    [effect |-> IF Exceeded(rule, q) \/ PurposeRefused(rule, q) THEN "deny"
                ELSE IF rule.approval /\ rule.effect = "allow" THEN "require_approval"
                ELSE rule.effect,
     approval |-> rule.approval]

explainEvaluate(file, default, q) ==
    LET m == Deciding(file, q)
    IN  IF m = <<0, 0>> THEN [effect |-> default, approval |-> FALSE]
        ELSE applyConditions(file[m[1]].rules[m[2]], q)

\* In a dry run the effect becomes allow; RequiresApproval is left as it is.
Explain(file, default, dryRun, q) ==
    LET d == explainEvaluate(file, default, q)
    IN  IF dryRun THEN [d EXCEPT !.effect = "allow"] ELSE d
=============================================================================
