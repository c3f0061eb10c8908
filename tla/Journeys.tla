------------------------------- MODULE Journeys -------------------------------
(***************************************************************************)
(* Journeys: how auditd summarises the events of one trace                 *)
(* (internal/audit/store.go, QueryJourneys). An event is [type, tool,      *)
(* status, approval]: its type, whether it names a tool, the outcome       *)
(* status Record stores for it and its approval status. Each rule counts,  *)
(* ors or takes a maximum, so the order of the events plays no part.       *)
(***************************************************************************)
EXTENDS Naturals

\* The status Record stores for a delegation_verification event.
VerificationStatus(mismatch) == IF mismatch THEN "unverified_claim" ELSE "verified"

\* Events that make a trace a journey. A direct tool call's gateway request names its tool.
Anchor(e) ==
    \/ e.type \in {"delegation_decision", "rollback_initiated"}
    \/ e.type = "gateway_request" /\ ~e.tool

\* Mutant of outcomePriority: an error outranks a claim that was not verified.
errorsFirst(o) ==
    CASE o = "error" -> 9
      [] o = "unverified_claim" -> 8
      [] o = "denied" -> 7
      [] o = "escalation_required" -> 6
      [] o = "verified_failed" -> 5
      [] o = "verified_warning" -> 4
      [] o = "approved" -> 3
      [] o = "verified_ok" -> 2
      [] o = "success" -> 1
      [] OTHER -> 0

\* A status that is not listed never becomes an outcome, a clean verification included.
outcomePriority(o) ==
    CASE o = "unverified_claim" -> 9
      [] o = "error" -> 8
      [] o = "denied" -> 7
      [] o = "escalation_required" -> 6
      [] o = "verified_failed" -> 5
      [] o = "verified_warning" -> 4
      [] o = "approved" -> 3
      [] o = "verified_ok" -> 2
      [] o = "success" -> 1
      [] OTHER -> 0

\* The worst status; retries and the requirement of an approval are not outcomes.
WorstStatus(es) ==
    LET found == {e.status : e \in {x \in es : x.type # "tool_retry"}} \ {"require_approval"}
        ranked == {s \in found : outcomePriority(s) > 0}
    IN IF ranked = {} THEN "" ELSE CHOOSE s \in ranked :
           \A t \in ranked : outcomePriority(t) <= outcomePriority(s)

\* A success for which an approval was needed or given shows the approval.
JourneyOutcome(es) ==
    LET worst == WorstStatus(es)
        approval == \E e \in es : e.status = "require_approval" \/ e.approval = "approved"
    IN IF approval /\ worst \in {"success", "verified_ok"} THEN "approved" ELSE worst

HasMismatch(es) ==
    \E e \in es : e.type = "delegation_verification" /\ e.status = VerificationStatus(TRUE)

\* The summaries: the outcome of a trace that has an anchor, or none.
JourneyOf(es) ==
    IF \E e \in es : Anchor(e)
    THEN [listed |-> TRUE, outcome |-> JourneyOutcome(es), mismatch |-> HasMismatch(es)]
    ELSE [listed |-> FALSE, outcome |-> "", mismatch |-> FALSE]
=============================================================================
