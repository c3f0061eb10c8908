------------------------------ MODULE MCWatchers ------------------------------
(* Small instances of Watchers. *)
EXTENDS Watchers

\* A minute and a cooldown of a few ticks, a second of two, office hours that end soon.
MCRules ==
    [second |-> 2, minute |-> 3, hour |-> 3, startHour |-> 17, from |-> 9, to |-> 18,
     skew |-> 2, cooldown |-> 2, volume |-> 2, samples |-> 2, lookback |-> 4, repeats |-> 1,
     slow |-> [warning |-> 1, critical |-> 2], slowRun |-> [warning |-> 2, critical |-> 3]]

Plain ==
    [type |-> "gateway_request", decision |-> TRUE, confidence |-> "high", reasoned |-> TRUE,
     agent |-> "known", outcome |-> "success", playbook |-> FALSE, query |-> 0, loops |-> FALSE,
     class |-> "read", allow |-> FALSE, approval |-> None, mismatch |-> FALSE, error |-> None,
     intact |-> TRUE, big |-> FALSE]

\* A tool that dropped something without an approval, and an event too long for a scanner.
Dropped == [Plain EXCEPT !.type = "tool_execution", !.class = "destructive", !.query = 1]
Long == [Plain EXCEPT !.type = "tool_invoked", !.outcome = None, !.big = TRUE]

Watcher(name, mode, dryRun, events, until) ==
    [name |-> name, mode |-> mode, dryRun |-> dryRun, kinds |-> {Dropped, Long},
     events |-> events, until |-> until]

\* secbot with the incident agent has by far the more states of the two.
MCDeployments ==
    {Watcher("auditor", "poll", FALSE, 4, 6), Watcher("auditor", "socket", FALSE, 4, 6),
     Watcher("secbot", "poll", FALSE, 3, 3), Watcher("secbot", "socket", FALSE, 2, 3),
     Watcher("secbot", "socket", TRUE, 2, 3)}

BundleSymmetry == Permutations(Bundles)
=============================================================================
