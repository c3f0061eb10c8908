--------------------------- MODULE ApprovalDecision ---------------------------
(***************************************************************************)
(* What the approval service promises, with no table, goroutine, channel   *)
(* or clock: a request is decided at most once, never approved by its own  *)
(* requester, and whoever asks is told that decision or nothing.           *)
(***************************************************************************)
CONSTANTS Approvals, People, System, NoOne, Clients

VARIABLES
    decision,    \* "absent", "pending" or the decision, by request
    requester,   \* who asked for the approval
    decider,     \* who decided, if a person did
    asked,       \* the request each client asked about ({} before it asks)
    told         \* the decision each client was told, or "nothing"

vars == <<decision, requester, decider, asked, told>>

Init ==
    /\ decision = [a \in Approvals |-> "absent"]
    /\ requester = [a \in Approvals |-> NoOne]
    /\ decider = [a \in Approvals |-> NoOne]
    /\ asked = [c \in Clients |-> {}]
    /\ told = [c \in Clients |-> "nothing"]

Open(a, p) ==
    /\ decision[a] = "absent"
    /\ decision' = [decision EXCEPT ![a] = "pending"]
    /\ requester' = [requester EXCEPT ![a] = p]
    /\ UNCHANGED <<decider, asked, told>>

Decide(a, d, p) ==
    /\ decision[a] = "pending"
    /\ d = "approved" => p \in People \ {requester[a]}
    /\ decision' = [decision EXCEPT ![a] = d]
    /\ decider' = [decider EXCEPT ![a] = p]
    /\ UNCHANGED <<requester, asked, told>>

\* Expiry decides any set of requests at once.
Expire(S) ==
    /\ \A a \in S : decision[a] = "pending"
    /\ decision' = [a \in Approvals |-> IF a \in S THEN "expired" ELSE decision[a]]
    /\ UNCHANGED <<requester, decider, asked, told>>

Ask(c, a) ==
    /\ asked[c] = {} /\ decision[a] # "absent"
    /\ asked' = [asked EXCEPT ![c] = {a}]
    /\ UNCHANGED <<decision, requester, decider, told>>

Tell(c, a) ==
    /\ asked[c] = {a} /\ told[c] = "nothing"
    /\ decision[a] \notin {"absent", "pending"}
    /\ told' = [told EXCEPT ![c] = decision[a]]
    /\ UNCHANGED <<decision, requester, decider, asked>>

Next ==
    \/ \E a \in Approvals, p \in People : Open(a, p)
    \/ \E a \in Approvals, d \in {"approved", "denied", "cancelled"},
          p \in People \cup {System} : Decide(a, d, p)
    \/ \E S \in SUBSET Approvals : Expire(S)
    \/ \E c \in Clients, a \in Approvals : Ask(c, a) \/ Tell(c, a)

Spec == Init /\ [][Next]_vars
=============================================================================
