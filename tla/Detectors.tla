------------------------------ MODULE Detectors ------------------------------
(***************************************************************************)
(* What the two programs that watch the audit trail make of one event: the *)
(* rules of the auditor (cmd/auditor/main.go, Analyze) over the state it   *)
(* keeps between events, and those of secbot (cmd/secbot/main.go).         *)
(*                                                                         *)
(* An event is [kind, ts, dur]: kind holds the fields the rules look at,   *)
(* ts its timestamp, which is when the work began, dur the duration of its *)
(* outcome. Durations and rates are the fields of Rules, so that small     *)
(* instances reach them. The chain check is in AuditChain.                 *)
(***************************************************************************)
EXTENDS Integers, Sequences, FiniteSets

CONSTANT
    Rules     \* the clock's units (second, minute, hour), the hour of the day at which it
              \* starts, and the thresholds the rules compare with

None == "none"

\* audit.Event, as far as a rule reads it. agent is the delegation's target: one whose
\* category agrees, one that is not known, a mismatch, or the next playbook of a chain.
\* error is the text of a tool's error; loops marks the traces of fleet jobs and direct
\* tools; big an encoding of more than 64 KB; approval "expired" an approved status whose
\* ExpiresAt has passed (auditor/main.go:1196).
EventKinds ==
    [type : {"delegation_decision", "gateway_request", "tool_invoked", "policy_decision",
             "tool_execution", "delegation_verification"},
     decision : BOOLEAN, confidence : {"high", "low", "very low"}, reasoned : BOOLEAN,
     agent : {"known", "unknown", "mismatch", "playbook"},
     outcome : {None, "success", "error"}, playbook : BOOLEAN,
     query : Nat, loops : BOOLEAN,
     class : {"read", "write", "destructive"}, allow : BOOLEAN,
     approval : {None, "pending", "denied", "approved", "expired", "auto_approved"},
     mismatch : BOOLEAN, error : {None, "sql", "command"}, intact : BOOLEAN, big : BOOLEAN]

Events == [kind : EventKinds, ts : Nat, dur : Nat]

\* The Auditor's fields that outlive an event: the totals of the one agent modelled, the
\* queries of the one session, the minute's count, and the last timestamp (-1 is the zero
\* time). recentEvents and securityAlerts are kept but never read.
AuditorStates ==
    [calls : Nat, errors : Nat, queries : Seq(Nat),
     eventsThisMinute : Nat, minuteStart : Nat, lastEventTime : Nat \cup {-1}]

NewAuditor(now) ==
    [calls |-> 0, errors |-> 0, queries |-> <<>>,
     eventsThisMinute |-> 0, minuteStart |-> now, lastEventTime |-> -1]

trackEvent(a, e) ==
    LET failed == e.kind.decision /\ e.kind.outcome = "error"
    IN [a EXCEPT !.calls = IF e.kind.decision THEN @ + 1 ELSE @,
                 !.errors = IF failed THEN @ + 1 ELSE @,
                 !.queries = IF e.kind.type = "tool_execution" /\ e.kind.query # 0
                             THEN Append(@, e.kind.query) ELSE @]

-----------------------------------------------------------------------------
\* The rules. Each gives the alerts it raises, as types and levels.

Raise(condition, type, level) == IF condition THEN {[type |-> type, level |-> level]} ELSE {}

\* The first of two thresholds that is passed.
Graded(critical, warning, type) ==
    Raise(critical, type, "critical") \cup Raise(warning /\ ~critical, type, "warning")

checkLowConfidence(k) ==
    IF k.type = "tool_execution" \/ ~k.decision THEN {}
    ELSE Graded(k.confidence = "very low", k.confidence = "low", "low confidence")

checkCategoryMismatch(k) ==
    IF ~k.decision \/ k.type = "gateway_request" THEN {}
    ELSE Raise(k.agent \in {"unknown", "mismatch"}, "agent", "warning")

checkHighErrorRate(a, k) ==
    IF ~k.decision \/ k.outcome = None \/ a.calls < Rules.samples THEN {}
    ELSE Graded(10 * a.errors > 5 * a.calls, 10 * a.errors > 3 * a.calls, "error rate")

checkLongDuration(e) ==
    LET limits == IF e.kind.playbook THEN Rules.slowRun ELSE Rules.slow
    IN IF e.kind.outcome = None THEN {}
       ELSE Graded(e.dur > limits.critical, e.dur > limits.warning, "duration")

\* The last query of the session against the few before it, whatever event this one is.
checkRepeatedQueries(a, k) ==
    LET n == Len(a.queries)
        before == {i \in 1..(n - 1) : i >= n - Rules.lookback}
    IN Raise(/\ ~k.loops /\ n >= 3
             /\ Cardinality({i \in before : a.queries[i] = a.queries[n]}) >= Rules.repeats,
             "loop", "critical")

checkEmptyReasoning(k) ==
    Raise(/\ k.type \notin {"gateway_request", "tool_execution", "policy_decision"}
          /\ k.decision /\ ~k.reasoned, "no reasoning", "warning")

checkDangerousAction(k) ==
    IF k.type = "tool_invoked" \/ k.allow \/ k.approval = "auto_approved" THEN {}
    ELSE Graded(k.class = "destructive", k.class = "write", "dangerous")

checkApprovalStatus(k) ==
    Graded(k.approval = "denied", k.approval \in {"pending", "expired"}, "approval")

\* The window restarts with the first event after a minute; one alert per window.
checkHighVolume(a, now) ==
    LET fresh == now - a.minuteStart >= Rules.minute
        count == IF fresh THEN 1 ELSE a.eventsThisMinute + 1
    IN [state |-> [a EXCEPT !.eventsThisMinute = count,
                            !.minuteStart = IF fresh THEN now ELSE @],
        alerts |-> Raise(Rules.volume > 0 /\ count = Rules.volume + 1, "high_volume", "critical")]

Hour(ts) == (Rules.startHour + ts \div Rules.hour) % 24

checkOffHours(e) ==
    LET h == Hour(e.ts)
        allowed == IF Rules.from <= Rules.to THEN h >= Rules.from /\ h < Rules.to
                                             ELSE h >= Rules.from \/ h < Rules.to
    IN Raise(Rules.from >= 0 /\ Rules.to >= 0 /\ ~allowed, "off_hours", "warning")

checkUnauthorizedDestructive(k) ==
    Raise(/\ k.class = "destructive" /\ k.type # "tool_invoked" /\ ~k.allow
          /\ k.approval \notin {"approved", "expired", "auto_approved"},
          "unauthorized_destructive", "critical")

\* Mutant of Backwards: the duration is not looked at.
BackwardsAtAll(a, e) == e.ts - a.lastEventTime < -Rules.skew

\* A timestamp that lies behind the last one by more than the skew tolerated between
\* services, unless the event's own duration accounts for it.
Backwards(a, e) ==
    LET gap == e.ts - a.lastEventTime
    IN gap < -Rules.skew /\ ~(e.kind.outcome # None /\ gap + e.dur >= -Rules.skew)

checkTimestampGap(a, e) ==
    IF a.lastEventTime = -1 THEN {}
    ELSE Raise(Backwards(a, e), "timestamp_anomaly", "critical")
         \cup Raise(e.ts - a.lastEventTime > Rules.hour /\ Hour(e.ts) \in 8..18,
                    "timestamp_gap", "warning")

checkFabricationMismatch(k) ==
    Raise(k.type = "delegation_verification" /\ k.mismatch, "fabrication_mismatch", "critical")

\* Analyze: the event is counted first, so the rules see it in the totals.
Analyze(a, e, now) ==
    LET tracked == trackEvent(a, e)
        volume == checkHighVolume(tracked, now)
    IN [state |-> [volume.state EXCEPT !.lastEventTime = e.ts],
        alerts |-> UNION {checkLowConfidence(e.kind), checkCategoryMismatch(e.kind),
                          checkHighErrorRate(tracked, e.kind), checkLongDuration(e),
                          checkRepeatedQueries(tracked, e.kind), checkEmptyReasoning(e.kind),
                          checkDangerousAction(e.kind), checkApprovalStatus(e.kind),
                          volume.alerts, checkOffHours(e), checkUnauthorizedDestructive(e.kind),
                          checkTimestampGap(tracked, e), checkFabricationMismatch(e.kind)}]

-----------------------------------------------------------------------------
\* secbot.

VolumeTrackers == [eventsThisMinute : Nat, minuteStart : Nat, alerted : BOOLEAN]

NewVolumeTracker(now) == [eventsThisMinute |-> 0, minuteStart |-> now, alerted |-> FALSE]

recordAndCheck(v, now) ==
    LET w == IF now - v.minuteStart >= Rules.minute THEN NewVolumeTracker(now) ELSE v
        count == w.eventsThisMinute + 1
        high == count = Rules.volume + 1 /\ ~w.alerted
    IN [state |-> [w EXCEPT !.eventsThisMinute = count, !.alerted = @ \/ high], high |-> high]

detectSecurityAlert(k) ==
    CASE ~k.intact -> "hash_mismatch"
      [] k.intact /\ k.class = "destructive"
           /\ k.approval \notin {"approved", "expired", "auto_approved"} -> "unauthorized_destructive"
      [] OTHER -> IF k.error = None THEN None ELSE "potential_injection"

\* What secbot takes an event for: the volume rule hides the others.
AlertOf(v, k, now) ==
    IF recordAndCheck(v, now).high THEN "high_volume" ELSE detectSecurityAlert(k)
=============================================================================
