---------------------------- MODULE ApprovalStore ----------------------------
(***************************************************************************)
(* The human-approval service of auditd: the approval_requests table with  *)
(* the long-poll waiters kept beside it (internal/audit/approval_store.go), *)
(* the HTTP handlers that create and resolve requests and the worker that  *)
(* expires them (cmd/auditd/approval_handlers.go), the resolution callback *)
(* (cmd/auditd/approval_notifier.go) and the polling client                *)
(* (internal/audit/approval_client.go).                                    *)
(*                                                                         *)
(* One step is one SQL statement, or one critical section of waiterMu, of  *)
(* one goroutine: everything between two such points interleaves.  The     *)
(* deployment modelled is the enforcing one, in which the middleware has   *)
(* rejected anonymous callers before a handler runs.                       *)
(***************************************************************************)
EXTENDS Integers, FiniteSets

CONSTANTS
    Approvals,    \* approval ids
    People,       \* principals: requesters and approvers
    RolesOf,      \* the roles each principal holds
    System,       \* the cancelled_by of a cancellation that names nobody
    NoOne,        \* resolved_by of a row nobody has resolved (NULL)
    Handlers,     \* request goroutines that create and resolve requests
    Clients,      \* long-poll clients, one WaitForApproval call each
    Sweeper,      \* the expiration worker's goroutine
    Windows,      \* expiry windows, in clock ticks
    MaxTime,      \* bound: last value of the clock
    MaxPolls,     \* bound: long polls before the client's deadline
    MaxCrashes    \* bound: restarts of auditd

Null == -1        \* a NULL timestamp column
Tasks == Handlers \cup {Sweeper}
RoleNames == {"dba", "fleet-approver", "admin"}

ASSUME ConstantsAssumption ==
    /\ RolesOf \in [People -> SUBSET RoleNames]
    /\ Sweeper \notin Handlers
    /\ NoOne \notin People /\ System \notin People /\ NoOne # System
    /\ Windows \subseteq Nat \ {0}
    /\ MaxTime \in Nat /\ MaxPolls \in Nat \ {0} /\ MaxCrashes \in Nat

Kinds == {"tool", "fleet", "rollback"}
Resolutions == {"approved", "denied", "cancelled", "expired"}
Statuses == {"absent", "pending"} \cup Resolutions
Times == Nat \cup {Null}

\* The columns of approval_requests that decide behaviour.
Rows == [status : Statuses, kind : Kinds, requestedBy : People \cup {NoOne},
         expiresAt : Times, resolvedBy : People \cup {System, NoOne},
         callback : BOOLEAN]

NoRow == [status |-> "absent", kind |-> "tool", requestedBy |-> NoOne,
          expiresAt |-> Null, resolvedBy |-> NoOne, callback |-> FALSE]

VARIABLES
    row,          \* approval_requests, by approval id
    waiters,      \* ApprovalStore.waiters: channels registered per approval
    chan,         \* each client's channel (capacity 1): "empty" or a status
    client,       \* each client's WaitForApproval call
    task,         \* each handler goroutine, and the expiration worker
    callbackURLs, \* ApprovalNotifier.callbackURLs: ids with a callback to send
    posted,       \* the status POSTed to each callback URL, or "none"
    clock, crashes

vars == <<row, waiters, chan, client, task, callbackURLs, posted, clock, crashes>>
memory == <<waiters, chan, client, callbackURLs, posted>>

TaskPCs == {"idle", "created", "checked", "selected", "notify", "deliver", "respond"}
ClientPCs == {"idle", "check", "register", "waiting", "reread", "pending", "done", "failed"}

\* ids: the approvals still to notify; cur, chans: the one being notified and
\* the channels taken for it; at: the worker's "now".
TaskStates == [pc : TaskPCs, op : Resolutions, by : People \cup {System, NoOne},
               ids : SUBSET Approvals, cur : SUBSET Approvals,
               chans : SUBSET Clients, at : Nat]
IdleTask == [pc |-> "idle", op |-> "expired", by |-> NoOne, ids |-> {},
             cur |-> {}, chans |-> {}, at |-> 0]

ClientStates == [pc : ClientPCs, id : SUBSET Approvals, answer : Statuses,
                 left : 0..MaxPolls]
IdleClient == [pc |-> "idle", id |-> {}, answer |-> "absent", left |-> MaxPolls]

Init ==
    /\ row = [a \in Approvals |-> NoRow]
    /\ waiters = [a \in Approvals |-> {}]
    /\ chan = [c \in Clients |-> "empty"]
    /\ client = [c \in Clients |-> IdleClient]
    /\ task = [t \in Tasks |-> IdleTask]
    /\ callbackURLs = {}
    /\ posted = [a \in Approvals |-> "none"]
    /\ clock = 0 /\ crashes = 0

-----------------------------------------------------------------------------
(* Creating a request. *)

\* Only fleet approvals may lack an expiry by choice of the caller; a tool
\* approval gets the default window, a rollback approval never has one.
ExpiryFor(k) ==
    CASE k = "tool"     -> {clock + w : w \in Windows}
      [] k = "fleet"    -> {clock + w : w \in Windows} \cup {Null}
      [] k = "rollback" -> {Null}

\* The INSERT; only handleCreateApproval carries a callback and goes on to
\* NotifyCreated, in a later step.
CreateRequest(t, a, p, k, cb) ==
    /\ task[t].pc = "idle" /\ row[a].status = "absent"
    /\ cb => k = "tool"
    /\ \E e \in ExpiryFor(k) :
         /\ e < MaxTime
         /\ row' = [row EXCEPT ![a] = [NoRow EXCEPT !.status = "pending", !.kind = k,
                        !.requestedBy = p, !.expiresAt = e, !.callback = cb]]
    /\ task' = IF k = "tool" THEN [task EXCEPT ![t] = [@ EXCEPT !.pc = "created", !.cur = {a}]]
                             ELSE task
    /\ UNCHANGED <<memory, clock, crashes>>

NotifyCreated(t) ==
    /\ task[t].pc = "created"
    /\ callbackURLs' = callbackURLs \cup {a \in task[t].cur : row[a].callback}
    /\ task' = [task EXCEPT ![t] = IdleTask]
    /\ UNCHANGED <<row, waiters, chan, client, posted, clock, crashes>>

-----------------------------------------------------------------------------
(* Resolving a request. *)

isFleetApproval(r) == r.kind = "fleet"

\* Authorizer.Require with the role the approval's type calls for.
MayResolve(p, r) ==
    \/ "admin" \in RolesOf[p]
    \/ (IF isFleetApproval(r) THEN "fleet-approver" ELSE "dba") \in RolesOf[p]

\* Mutant: the check that approver and requester differ is dropped.
FourEyesDropped(p, r) == TRUE

FourEyes(p, r) == p # r.requestedBy

Checked(t, a, p, op) ==
    task' = [task EXCEPT ![t] = [IdleTask EXCEPT !.pc = "checked", !.op = op,
                                                 !.by = p, !.ids = {a}]]

\* handleApprove up to the store call: the row is read and the caller vetted.
handleApprove(t, a, p) ==
    /\ task[t].pc = "idle" /\ row[a].status # "absent"
    /\ MayResolve(p, row[a]) /\ FourEyes(p, row[a])
    /\ Checked(t, a, p, "approved")
    /\ UNCHANGED <<row, memory, clock, crashes>>

handleDeny(t, a, p) ==
    /\ task[t].pc = "idle" /\ row[a].status # "absent"
    /\ MayResolve(p, row[a])
    /\ Checked(t, a, p, "denied")
    /\ UNCHANGED <<row, memory, clock, crashes>>

\* handleCancel reads nothing before its UPDATE and narrows no role.
handleCancel(t, a, p) ==
    /\ task[t].pc = "idle"
    /\ Checked(t, a, p, "cancelled")
    /\ UNCHANGED <<row, memory, clock, crashes>>

\* Mutant: UPDATE ... WHERE approval_id = ?, whatever the row's status.
UpdateAnyStatus(a, op, by) ==
    row' = [row EXCEPT ![a] = [@ EXCEPT !.status = op, !.resolvedBy = by]]

\* UPDATE ... WHERE approval_id = ? AND status = 'pending'.
UpdatePending(a, op, by) ==
    /\ row[a].status = "pending"
    /\ row' = [row EXCEPT ![a] = [@ EXCEPT !.status = op, !.resolvedBy = by]]

\* ApprovalStore.Approve, Deny and Cancel.
Resolve(t) ==
    /\ task[t].pc = "checked"
    /\ \E a \in task[t].ids : UpdatePending(a, task[t].op, task[t].by)
    /\ task' = [task EXCEPT ![t].pc = "notify"]
    /\ UNCHANGED <<memory, clock, crashes>>

\* No row affected, or the UPDATE failed: the handler answers 400.
ResolveRefused(t) ==
    /\ task[t].pc = "checked"
    /\ task' = [task EXCEPT ![t] = IdleTask]
    /\ UNCHANGED <<row, memory, clock, crashes>>

\* The handler's re-read of the row and NotifyResolved.
NotifyResolved(t) ==
    /\ task[t].pc = "respond"
    /\ \E a \in task[t].cur :
         /\ posted' = IF a \in callbackURLs
                      THEN [posted EXCEPT ![a] = row[a].status] ELSE posted
         /\ callbackURLs' = callbackURLs \ {a}
    /\ task' = [task EXCEPT ![t] = IdleTask]
    /\ UNCHANGED <<row, waiters, chan, client, clock, crashes>>

-----------------------------------------------------------------------------
(* The expiration worker: SELECT, UPDATE and notification with one "now". *)

\* Mutant: a NULL expires_at compares as the oldest time.
OverdueNullFirst(a, now) ==
    row[a].status = "pending" /\ row[a].expiresAt < now

\* Mutant: the comparison with "now" is the wrong way round.
OverdueSwapped(a, now) ==
    row[a].status = "pending" /\ row[a].expiresAt # Null /\ row[a].expiresAt > now

Overdue(a, now) ==
    /\ row[a].status = "pending"
    /\ row[a].expiresAt # Null /\ row[a].expiresAt < now

ExpireSelect ==
    /\ task[Sweeper].pc = "idle"
    /\ \E a \in Approvals : Overdue(a, clock)
    /\ task' = [task EXCEPT ![Sweeper] = [IdleTask EXCEPT !.pc = "selected",
                    !.ids = {a \in Approvals : Overdue(a, clock)}, !.at = clock]]
    /\ UNCHANGED <<row, memory, clock, crashes>>

ExpireUpdate ==
    /\ task[Sweeper].pc = "selected"
    /\ row' = [a \in Approvals |->
                 IF Overdue(a, task[Sweeper].at)
                 THEN [row[a] EXCEPT !.status = "expired"]
                 ELSE row[a]]
    /\ task' = [task EXCEPT ![Sweeper].pc = "notify"]
    /\ UNCHANGED <<memory, clock, crashes>>

\* The UPDATE failed: the worker reports the error and notifies nobody.
ExpireFailed ==
    /\ task[Sweeper].pc = "selected"
    /\ task' = [task EXCEPT ![Sweeper] = IdleTask]
    /\ UNCHANGED <<row, memory, clock, crashes>>

-----------------------------------------------------------------------------
(* notifyWaiters, called by a resolver for its approval and by the worker   *)
(* for each id it selected.                                                 *)

\* What follows the last notification: a handler answers, the worker idles.
AfterNotify(t, a, rest) ==
    IF rest # {} THEN [task[t] EXCEPT !.pc = "notify", !.ids = rest, !.cur = {}, !.chans = {}]
    ELSE IF t = Sweeper THEN IdleTask
    ELSE [task[t] EXCEPT !.pc = "respond", !.ids = {}, !.cur = {a}, !.chans = {}]

\* Under waiterMu: take the registered channels and drop the map entry.
NotifyTake(t) ==
    /\ task[t].pc = "notify"
    /\ \E a \in task[t].ids :
         /\ waiters' = [waiters EXCEPT ![a] = {}]
         /\ task' = [task EXCEPT ![t] =
                IF waiters[a] = {} THEN AfterNotify(t, a, task[t].ids \ {a})
                ELSE [task[t] EXCEPT !.pc = "deliver", !.ids = @ \ {a},
                                     !.cur = {a}, !.chans = waiters[a]]]
    /\ UNCHANGED <<row, chan, client, callbackURLs, posted, clock, crashes>>

\* Mutant: the caller's own verdict is sent instead of the row fetched again.
DeliverVerdict(t) ==
    /\ task[t].pc = "deliver"
    /\ \E a \in task[t].cur :
         /\ chan' = [c \in Clients |-> IF c \in task[t].chans /\ chan[c] = "empty"
                                       THEN task[t].op ELSE chan[c]]
         /\ task' = [task EXCEPT ![t] = AfterNotify(t, a, task[t].ids)]
    /\ UNCHANGED <<row, waiters, client, callbackURLs, posted, clock, crashes>>

\* Fetch the row again and send it, without blocking, on every channel taken.
NotifyDeliver(t) ==
    /\ task[t].pc = "deliver"
    /\ \E a \in task[t].cur :
         /\ chan' = [c \in Clients |-> IF c \in task[t].chans /\ chan[c] = "empty"
                                       THEN row[a].status ELSE chan[c]]
         /\ task' = [task EXCEPT ![t] = AfterNotify(t, a, task[t].ids)]
    /\ UNCHANGED <<row, waiters, client, callbackURLs, posted, clock, crashes>>

\* The fetch failed: the channels taken are never written.
NotifyFetchFailed(t) ==
    /\ task[t].pc = "deliver"
    /\ \E a \in task[t].cur : task' = [task EXCEPT ![t] = AfterNotify(t, a, task[t].ids)]
    /\ UNCHANGED <<row, memory, clock, crashes>>

-----------------------------------------------------------------------------
(* A client's WaitForApproval and the server side of its long polls         *)
(* (handleWaitForApproval, WaitForResolution).                              *)

StartWait(c, a) ==
    /\ client[c].pc = "idle" /\ row[a].status # "absent"
    /\ client' = [client EXCEPT ![c] = [@ EXCEPT !.pc = "check", !.id = {a}]]
    /\ UNCHANGED <<row, waiters, chan, task, callbackURLs, posted, clock, crashes>>

Answered(c, s) == [client EXCEPT ![c] = [@ EXCEPT !.pc = "done", !.answer = s]]

\* "First check if already resolved".
WaitCheck(c) ==
    /\ client[c].pc = "check"
    /\ \E a \in client[c].id :
         client' = IF row[a].status # "pending" THEN Answered(c, row[a].status)
                   ELSE [client EXCEPT ![c].pc = "register"]
    /\ UNCHANGED <<row, waiters, chan, task, callbackURLs, posted, clock, crashes>>

\* "Register waiter": a fresh channel, appended under waiterMu.  A notifier
\* still holding the channel of an earlier poll now holds garbage.
WaitRegister(c) ==
    /\ client[c].pc = "register"
    /\ waiters' = [a \in Approvals |-> waiters[a] \cup (IF a \in client[c].id THEN {c} ELSE {})]
    /\ chan' = [chan EXCEPT ![c] = "empty"]
    /\ client' = [client EXCEPT ![c].pc = "waiting"]
    /\ task' = [t \in Tasks |-> [task[t] EXCEPT !.chans = @ \ {c}]]
    /\ UNCHANGED <<row, callbackURLs, posted, clock, crashes>>

\* Mutant: no deferred cleanup.
UnregisterNothing(c) == waiters

\* The deferred cleanup of WaitForResolution.
Unregister(c) == [a \in Approvals |-> waiters[a] \ {c}]

\* A poll that answers "pending" uses up one of the client's chunks.
PollReturns(c, s) ==
    client' = IF s # "pending" THEN Answered(c, s)
              ELSE [client EXCEPT ![c] = [client[c] EXCEPT !.pc = "pending", !.left = @ - 1]]

WaitReceive(c) ==
    /\ client[c].pc = "waiting" /\ chan[c] # "empty"
    /\ waiters' = Unregister(c)
    /\ PollReturns(c, chan[c])
    /\ UNCHANGED <<row, chan, task, callbackURLs, posted, clock, crashes>>

\* Mutant: the poll has no timeout of its own.
WaitForever(c) == FALSE /\ UNCHANGED vars

\* ctx.Done: the poll's timeout; the handler then reads the current row.
WaitTimeout(c) ==
    /\ client[c].pc = "waiting"
    /\ waiters' = Unregister(c)
    /\ client' = [client EXCEPT ![c].pc = "reread"]
    /\ UNCHANGED <<row, chan, task, callbackURLs, posted, clock, crashes>>

WaitReread(c) ==
    /\ client[c].pc = "reread"
    /\ \E a \in client[c].id : PollReturns(c, row[a].status)
    /\ UNCHANGED <<row, waiters, chan, task, callbackURLs, posted, clock, crashes>>

\* Still pending: poll again, or at the deadline return GetApproval's answer.
PollAgain(c) ==
    /\ client[c].pc = "pending" /\ client[c].left > 0
    /\ client' = [client EXCEPT ![c].pc = "check"]
    /\ UNCHANGED <<row, waiters, chan, task, callbackURLs, posted, clock, crashes>>

\* Mutant: the client reports its own deadline as the request's expiry.
GiveUpExpired(c) ==
    /\ client[c].pc = "pending" /\ client[c].left = 0
    /\ client' = Answered(c, "expired")
    /\ UNCHANGED <<row, waiters, chan, task, callbackURLs, posted, clock, crashes>>

GiveUp(c) ==
    /\ client[c].pc = "pending" /\ client[c].left = 0
    /\ \E a \in client[c].id : client' = Answered(c, row[a].status)
    /\ UNCHANGED <<row, waiters, chan, task, callbackURLs, posted, clock, crashes>>

-----------------------------------------------------------------------------
Tick ==
    /\ clock < MaxTime /\ clock' = clock + 1
    /\ UNCHANGED <<row, memory, task, crashes>>

\* auditd restarts: the table survives; goroutines, waiters and registered
\* callbacks do not, and connected clients see their request fail.
Crash ==
    /\ crashes < MaxCrashes /\ crashes' = crashes + 1
    /\ task' = [t \in Tasks |-> IdleTask]
    /\ waiters' = [a \in Approvals |-> {}]
    /\ chan' = [c \in Clients |-> "empty"]
    /\ callbackURLs' = {}
    /\ client' = [c \in Clients |->
                    IF client[c].pc \in {"check", "register", "waiting", "reread"}
                    THEN [client[c] EXCEPT !.pc = "failed"] ELSE client[c]]
    /\ UNCHANGED <<row, posted, clock>>

HandlerStep(t) ==
    \/ NotifyCreated(t) \/ Resolve(t) \/ ResolveRefused(t) \/ NotifyResolved(t)
    \/ NotifyTake(t) \/ NotifyDeliver(t) \/ NotifyFetchFailed(t)

SweeperStep ==
    \/ ExpireSelect \/ ExpireUpdate \/ ExpireFailed
    \/ NotifyTake(Sweeper) \/ NotifyDeliver(Sweeper) \/ NotifyFetchFailed(Sweeper)

ClientStep(c) ==
    \/ WaitCheck(c) \/ WaitRegister(c) \/ WaitReceive(c) \/ WaitTimeout(c)
    \/ WaitReread(c) \/ PollAgain(c) \/ GiveUp(c)

Request(t) ==
    \/ \E a \in Approvals, p \in People, k \in Kinds, cb \in BOOLEAN :
           CreateRequest(t, a, p, k, cb)
    \/ \E a \in Approvals, p \in People : handleApprove(t, a, p) \/ handleDeny(t, a, p)
    \/ \E a \in Approvals, p \in People \cup {System} : handleCancel(t, a, p)

Next ==
    \/ \E t \in Handlers : Request(t) \/ HandlerStep(t)
    \/ SweeperStep
    \/ \E c \in Clients : ClientStep(c) \/ \E a \in Approvals : StartWait(c, a)
    \/ Tick \/ Crash

\* A goroutine that can run is scheduled; the ticker keeps firing and its
\* statements do not fail for ever; a poll's context expires.
Fairness ==
    /\ \A t \in Handlers : WF_vars(HandlerStep(t))
    /\ WF_vars(ExpireSelect) /\ SF_vars(ExpireUpdate)
    /\ WF_vars(NotifyTake(Sweeper))
    /\ WF_vars(NotifyDeliver(Sweeper) \/ NotifyFetchFailed(Sweeper))
    /\ \A c \in Clients : WF_vars(ClientStep(c))
    /\ WF_vars(Tick)

SafeSpec == Init /\ [][Next]_vars
Spec == SafeSpec /\ Fairness
-----------------------------------------------------------------------------
(* Properties. *)

\* Every variable keeps its type: no client polls past its deadline and every
\* goroutine works on requests of the table (approval_store.go's fields).
TypeOK ==
    /\ row \in [Approvals -> Rows]
    /\ waiters \in [Approvals -> SUBSET Clients]
    /\ chan \in [Clients -> {"empty"} \cup Statuses]
    /\ client \in [Clients -> ClientStates]
    /\ task \in [Tasks -> TaskStates]
    /\ callbackURLs \subseteq Approvals
    /\ posted \in [Approvals -> {"none"} \cup Statuses]
    /\ clock \in 0..MaxTime /\ crashes \in 0..MaxCrashes

Resolved(a) == row[a].status \in Resolutions

\* A resolution is final: whatever approvers, cancellers, the expiration
\* worker and restarts do, a resolved row is never written again (the
\* AND status = 'pending' of every UPDATE).
ResolutionIsFinal ==
    [][\A a \in Approvals : Resolved(a) => row'[a] = row[a]]_vars

\* Every approved row was approved by somebody other than its requester who
\* holds the role its type calls for, though both were checked on a row read
\* before the UPDATE (handleApprove).
ApproverEntitled ==
    \A a \in Approvals : row[a].status = "approved" =>
        /\ row[a].resolvedBy \in People
        /\ row[a].resolvedBy # row[a].requestedBy
        /\ MayResolve(row[a].resolvedBy, row[a])

\* Expiry is exact: only a row whose expiry has passed is expired, and once
\* the worker has run its UPDATE no row overdue at its "now" is pending
\* (ExpireRequests).
ExpiryExact ==
    /\ \A a \in Approvals : row[a].status = "expired" =>
           row[a].expiresAt # Null /\ row[a].expiresAt < clock
    /\ task[Sweeper].pc \in {"notify", "deliver"} =>
           \A a \in Approvals : ~Overdue(a, task[Sweeper].at)

\* What a client or a wake-up reports as a resolution is the row's own, even
\* when the worker wakes waiters of a request approved after its SELECT
\* (notifyWaiters fetches again); a wake-up never reports "pending".
AnswersAgree ==
    /\ \A c \in Clients : \A a \in client[c].id :
           /\ client[c].answer \in Resolutions => client[c].answer = row[a].status
           /\ chan[c] # "empty" => chan[c] \in Resolutions /\ chan[c] = row[a].status
    /\ \A a \in Approvals : posted[a] # "none" =>
           posted[a] \in Resolutions /\ posted[a] = row[a].status

\* The waiters map holds only channels somebody is waiting on: no entry
\* outlives its poll, whichever of wake-up, timeout and notification came
\* first (the deferred cleanup of WaitForResolution).
NoStrayWaiter ==
    \A a \in Approvals : \A c \in waiters[a] :
        client[c].pc = "waiting" /\ client[c].id = {a}

\* The store, its waiters, its expiration worker and the polling clients
\* together implement ApprovalDecision: decided once, four eyes, and every
\* answer is the decision.
Decision == INSTANCE ApprovalDecision WITH
    decision  <- [a \in Approvals |-> row[a].status],
    requester <- [a \in Approvals |-> row[a].requestedBy],
    decider   <- [a \in Approvals |-> row[a].resolvedBy],
    asked     <- [c \in Clients |-> client[c].id],
    told      <- [c \in Clients |-> IF client[c].answer \in Resolutions
                                   THEN client[c].answer ELSE "nothing"]
ImplementsDecision == Decision!Spec

\* A request with an expiry does not stay pending for ever
\* (startExpirationWorker).
EventuallyResolved ==
    \A a \in Approvals :
        (row[a].status = "pending" /\ row[a].expiresAt # Null) ~> Resolved(a)

\* Every WaitForApproval call returns, wake-ups lost or not.
WaitReturns ==
    \A c \in Clients :
        (client[c].pc # "idle") ~> (client[c].pc \in {"done", "failed"})
=============================================================================
