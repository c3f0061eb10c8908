------------------------------- MODULE MCGateway -------------------------------
EXTENDS Gateway, TLC

NoCredential == [bearer |-> "none", verifies |-> FALSE, roles |-> {}, user |-> FALSE, known |-> FALSE, userRoles |-> {}]
Key(roles) == [NoCredential EXCEPT !.bearer = "key", !.verifies = TRUE, !.roles = roles]
Token(roles) == [Key(roles) EXCEPT !.bearer = "jwt"]

\* A service account that may use the database tools and, through its operator, submit
\* jobs; an administrator's token; a listed user without roles; a stranger.
MCCallers ==
    {[Key({"dba"}) EXCEPT !.user = TRUE, !.known = TRUE, !.userRoles = {"fleet-operator"}],
     Token({"admin"}),
     [NoCredential EXCEPT !.user = TRUE, !.known = TRUE],
     [NoCredential EXCEPT !.user = TRUE]}

\* A database agent and service accounts; a Kubernetes agent without authentication, in a
\* deployment that is read-only.
MCConfigs ==
    {[agent |-> "db", provider |-> "static", key |-> Key({}), mode |-> "fix"],
     [agent |-> "k8s", provider |-> "none", key |-> NoCredential, mode |-> "readonly-governed"]}

\* A read that fails and one that is held for approval; a write that works; a destructive
\* command that is denied after it was done and one whose effect is not confirmed.
MCResults ==
    {[class |-> "read", policy |-> "allow", end |-> "failed"],
     [class |-> "read", policy |-> "require_approval", end |-> None],
     [class |-> "write", policy |-> "allow", end |-> "ok"],
     [class |-> "destructive", policy |-> "allow", end |-> "denied after"],
     [class |-> "destructive", policy |-> "allow", end |-> "escalation_required"]}

Symmetry == Permutations(Requests)
=============================================================================
