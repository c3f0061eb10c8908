--------------------------- MODULE MCPolicyEnforcer ---------------------------
(* Two policy files, one after policies.example.yaml, and one call per tool. *)
EXTENDS PolicyEnforcer, TLC

Hrs == 1..2
Names == {"prod", "dev", "kube-system", "apps"}
Tools == {"", "get_status_summary", "get_session_info", "terminate_connection", "cancel_query",
          "terminate_idle_connections", "run_vacuum"}

\* A match on a type; the criteria are overridden where a policy has them.
On(type) == [type |-> type, names |-> Names, namespace |-> "", tags |-> {},
             sensitivity |-> {}, tools |-> Tools]
Rule(actions, effect) ==
    [actions |-> actions, effect |-> effect, approval |-> FALSE, maxRows |-> 0, maxPods |-> 0,
     maxAge |-> 0, allowedPurposes |-> {}, blockedPurposes |-> {}, schedule |-> Hrs]
Pol(priority, principals, resources, rules) ==
    [priority |-> priority, enabled |-> TRUE, principals |-> principals,
     resources |-> resources, rules |-> rules]

\* development-permissive, production-database-protection, k8s-system-protection
\* and dba-privileges.
Example ==
    <<Pol(10, {}, {[On("database") EXCEPT !.tags = {"development"}],
                   [On("kubernetes") EXCEPT !.tags = {"development"}]},
          <<Rule({"read", "write"}, "allow"), Rule({"destructive"}, "allow")>>),
      Pol(100, {}, {[On("database") EXCEPT !.tags = {"production"}]},
          <<Rule({"read"}, "allow"),
            [Rule({"write"}, "allow") EXCEPT !.approval = TRUE, !.maxRows = 1, !.blockedPurposes = {"audit"}],
            Rule({"destructive"}, "deny")>>),
      Pol(100, {}, {[On("kubernetes") EXCEPT !.namespace = "kube-system"]},
          <<Rule({"read"}, "allow"), Rule({"write", "destructive"}, "deny")>>),
      Pol(80, {"dba"}, {On("database")},
          <<Rule({"read", "write"}, "allow"), [Rule({"destructive"}, "allow") EXCEPT !.approval = TRUE]>>)>>

\* Limits, a schedule, and policies scoped by tool, sensitivity and principal.
Limits ==
    <<[Pol(90, {}, {On("database")}, <<Rule(Actions, "deny")>>) EXCEPT !.enabled = FALSE],
      Pol(50, {}, {[On("database") EXCEPT !.tools = {"terminate_idle_connections"}, !.names = {"prod"}]},
          <<[Rule({"destructive"}, "allow") EXCEPT !.maxRows = 1]>>),
      Pol(30, {"dba"}, {[On("database") EXCEPT !.sensitivity = {"pii"}]},
          <<[Rule({"destructive"}, "allow") EXCEPT !.approval = TRUE, !.maxAge = 1, !.allowedPurposes = {"incident"}]>>),
      Pol(20, {}, {On("database")},
          <<Rule({"read"}, "allow"),
            [Rule({"write"}, "allow") EXCEPT !.maxAge = 1, !.schedule = {1}],
            [Rule({"destructive"}, "allow") EXCEPT !.approval = TRUE, !.maxRows = 1]>>),
      Pol(20, {}, {On("kubernetes")},
          <<[Rule({"destructive"}, "allow") EXCEPT !.maxPods = 1]>>)>>

Cfg(file, mode, default, client, infra) ==
    [file |-> file, mode |-> mode, default |-> default, dryRun |-> FALSE, readOnly |-> FALSE,
     requirePurpose |-> FALSE, approvals |-> client, infra |-> infra]
MCConfigs ==
    {Cfg(Example, "local", "deny", TRUE, TRUE), Cfg(Example, "remote", "deny", TRUE, TRUE),
     Cfg(Limits, "local", "deny", TRUE, TRUE), Cfg(Limits, "remote", "allow", TRUE, FALSE),
     [Cfg(Limits, "local", "deny", FALSE, TRUE) EXCEPT !.dryRun = TRUE],
     [Cfg(Limits, "remote", "deny", FALSE, TRUE) EXCEPT !.dryRun = TRUE],
     [Cfg(Example, "local", "allow", TRUE, TRUE) EXCEPT !.readOnly = TRUE],
     [Cfg(Limits, "off", "deny", FALSE, TRUE) EXCEPT !.requirePurpose = TRUE]}

Call(tool, action, type, name, tags, sensitivity) ==
    [tool |-> tool, action |-> action, type |-> type, name |-> name, tags |-> tags,
     sensitivity |-> sensitivity, who |-> {"any", "dba"}, purpose |-> "incident",
     explicit |-> TRUE, auto |-> FALSE]
OnProd(tool, action) == Call(tool, action, "database", "prod", {"production"}, {"pii"})
OnDev(tool, action) == Call(tool, action, "database", "dev", {"development"}, {})
OnCluster(tool, ns) == Call(tool, "destructive", "kubernetes", ns, {"development"}, {})
MCCalls ==
    {OnProd("terminate_connection", "destructive"),
     [OnProd("cancel_query", "write") EXCEPT !.purpose = "audit", !.auto = TRUE],
     [OnProd("terminate_idle_connections", "destructive") EXCEPT !.explicit = FALSE],
     OnDev("terminate_idle_connections", "destructive"),
     OnCluster("scale_deployment", "apps")}
Symmetry == Permutations(Requests)
=============================================================================
