------------------------------- MODULE Access -------------------------------
(***************************************************************************)
(* Who a request comes from and which routes it may use: the identity      *)
(* providers (internal/identity) and the authorizer with its route tables  *)
(* (internal/authz). A credential is what the headers carry; signatures    *)
(* and key hashes are reduced to whether they verify.                      *)
(***************************************************************************)

Roles == {"dba", "sre", "fleet-operator", "admin"}

\* What a request can carry: a bearer token (a service account's key or a JWT), an
\* X-User header, both or neither. roles are those of the account the bearer token
\* names, userRoles those users.yaml gives to the user; known says whether it does.
Credentials ==
    [bearer : {"none", "key", "jwt"}, verifies : BOOLEAN, roles : SUBSET Roles,
     user : BOOLEAN, known : BOOLEAN, userRoles : SUBSET Roles]

Principals == [anonymous : BOOLEAN, service : BOOLEAN, roles : SUBSET Roles]
Anonymous == [anonymous |-> TRUE, service |-> FALSE, roles |-> {}]

\* StaticProvider.Resolve fails on a key no account has and on a user that is not
\* listed; next to a key, an unlisted user is ignored.
StaticFails(c) == IF c.bearer = "none" THEN c.user /\ ~c.known ELSE c.bearer # "key" \/ ~c.verifies

StaticPrincipal(c) ==
    CASE c.bearer # "none" -> [anonymous |-> FALSE, service |-> TRUE,
                               roles |-> c.roles \cup (IF c.user /\ c.known THEN c.userRoles ELSE {})]
      [] c.bearer = "none" /\ c.user -> [anonymous |-> FALSE, service |-> FALSE, roles |-> c.userRoles]
      [] OTHER -> Anonymous

\* JWTProvider.Resolve wants a token that is well formed, not expired, properly signed
\* and for this issuer and audience. Nothing in it makes its owner a service account.
JWTFails(c) == ~(c.bearer = "jwt" /\ c.verifies)

JWTPrincipal(c) == [anonymous |-> FALSE, service |-> FALSE, roles |-> c.roles]

ResolveFails(provider, c) ==
    CASE provider = "static" -> StaticFails(c) [] provider = "jwt" -> JWTFails(c) [] OTHER -> FALSE

\* The wrapper around every route takes a caller it cannot resolve for an anonymous one.
Resolve(provider, c) ==
    CASE ResolveFails(provider, c) -> Anonymous
      [] provider = "static" -> StaticPrincipal(c)
      [] provider = "jwt" -> JWTPrincipal(c)
      [] OTHER -> Anonymous

\* The permission tables of the gateway and of the agents, for the routes modelled.
Permission(route) ==
    CASE route = "db" -> [open |-> FALSE, roles |-> {"dba", "sre"}, serviceOnly |-> FALSE]
      [] route = "k8s" -> [open |-> FALSE, roles |-> {"sre"}, serviceOnly |-> FALSE]
      [] route = "job" -> [open |-> FALSE, roles |-> {"fleet-operator"}, serviceOnly |-> FALSE]
      [] route = "tool" -> [open |-> FALSE, roles |-> {}, serviceOnly |-> TRUE]
      [] route = "agents" -> [open |-> TRUE, roles |-> {}, serviceOnly |-> FALSE]
      [] OTHER -> [open |-> FALSE, roles |-> {}, serviceOnly |-> FALSE]

\* Authorizer.Authorize: the status it refuses with, or "" (every table entry that is
\* not open has AdminBypass). Checks are off without an identity provider.
Authorize(provider, route, p) ==
    LET perm == Permission(route)
    IN CASE provider = "none" \/ perm.open -> ""
         [] ~perm.open /\ p.anonymous -> "401"
         [] "admin" \in p.roles -> ""
         [] perm.serviceOnly /\ ~p.service -> "403"
         [] perm.roles = {} \/ perm.roles \cap p.roles # {} -> ""
         [] OTHER -> "403"

=============================================================================
