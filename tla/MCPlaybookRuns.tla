---------------------------- MODULE MCPlaybookRuns ----------------------------
(* Three playbooks that lead into each other; one is manual, one runs by steps. *)
EXTENDS PlaybookRuns, TLC

HandlerSymmetry == Permutations(Handlers)

Pb(mode, exec, trans, esc) ==
    [approval_mode |-> mode, execution_mode |-> exec, transitions_to |-> trans, escalates_to |-> esc]

MCSeries == {"triage", "fix", "steps"}
MCPlaybook == [s \in MCSeries |->
    CASE s = "triage" -> Pb("session", "agent", {"fix", "steps"}, {})
      [] s = "fix" -> Pb("manual", "agent", {}, {"triage"})
      [] s = "steps" -> Pb("auto", "agent_approve", {}, {})]

Answer(trans, esc, findings, low) ==
    [trans |-> trans, esc |-> esc, findings |-> findings, low |-> low]
MCAnswers == {Answer("fix", None, "act", FALSE), Answer("fix", "triage", "act", TRUE),
              Answer("triage", "unknown_series", "monitor", FALSE),
              Answer(None, "triage", None, FALSE), Answer("steps", None, "act", FALSE)}

Request(series, mode, gate, rem) == [series |-> series, mode |-> mode, gate |-> gate, rem |-> rem]
MCRequests == {Request("triage", "force", FALSE, None), Request("triage", "", FALSE, None),
               Request("triage", "", TRUE, "fix")}
=============================================================================
