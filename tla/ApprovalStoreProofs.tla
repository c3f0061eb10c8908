------------------------- MODULE ApprovalStoreProofs -------------------------
(***************************************************************************)
(* The safety of ApprovalStore for every set of approvals, people, request *)
(* goroutines and clients, and every bound on time, polls and restarts.    *)
(***************************************************************************)
EXTENDS ApprovalStore, TLAPS

\* What a goroutine between two of its steps may rely on: a vetted approver
\* stays entitled, whoever notifies notifies of resolved requests only, and a
\* request the worker selected is overdue or has been resolved meanwhile.
TaskInv ==
    /\ \A t \in Handlers :
         /\ task[t].pc # "selected"
         /\ task[t].pc = "checked" =>
              /\ task[t].op \in {"approved", "denied", "cancelled"}
              /\ task[t].by \in People \cup {System}
              /\ \A a, b \in task[t].ids : a = b
              /\ task[t].op = "approved" =>
                   \A a \in task[t].ids :
                     /\ row[a].status # "absent"
                     /\ task[t].by \in People
                     /\ FourEyes(task[t].by, row[a])
                     /\ MayResolve(task[t].by, row[a])
    /\ task[Sweeper].pc \in {"idle", "selected", "notify", "deliver"}
    /\ task[Sweeper].at <= clock
    /\ \A t \in Tasks : task[t].pc \in {"notify", "deliver", "respond"} =>
         /\ \A a \in task[t].ids \cup task[t].cur : Resolved(a)
         /\ \A c \in task[t].chans : client[c].id = task[t].cur
    /\ \A t \in Tasks :
         /\ task[t].pc = "deliver" => task[t].cur # {}
         /\ task[t].pc # "deliver" => task[t].chans = {}
         /\ task[t].pc \in {"checked", "selected"} => task[t].cur = {}
    /\ task[Sweeper].pc = "selected" =>
         \A a \in task[Sweeper].ids : Resolved(a) \/ Overdue(a, task[Sweeper].at)

\* A client is told a resolution only with its answer, and always that of the
\* one request it asked about.
ClientInv ==
    \A c \in Clients :
        /\ client[c].pc = "idle" <=> client[c].id = {}
        /\ \A a, b \in client[c].id : a = b
        /\ \A a \in client[c].id : row[a].status # "absent"
        /\ client[c].pc # "done" => client[c].answer = "absent"
        /\ client[c].pc = "idle" => chan[c] = "empty"
        /\ client[c].pc \in {"idle", "check", "register", "waiting", "reread"} =>
               client[c].left > 0

\* Nobody has resolved a row that is absent.
Untouched ==
    \A a \in Approvals : row[a].status = "absent" => row[a].resolvedBy = NoOne

Inv ==
    /\ TypeOK
    /\ TaskInv
    /\ ClientInv
    /\ ApproverEntitled
    /\ ExpiryExact
    /\ AnswersAgree
    /\ NoStrayWaiter
    /\ Untouched

USE ConstantsAssumption DEF IdleTask, NoRow, Statuses, Resolutions, Kinds, Times, Tasks, TaskPCs, ClientPCs, Null, memory

\* The record updates the actions apply to a goroutine's state keep its type.
LEMMA TaskTyped ==
    ASSUME NEW s \in TaskStates, NEW q \in TaskPCs, NEW I \in SUBSET Approvals,
           NEW D \in SUBSET Clients
    PROVE  /\ [s EXCEPT !.pc = q] \in TaskStates
           /\ [s EXCEPT !.chans = s.chans \ D] \in TaskStates
           /\ [s EXCEPT !.pc = "notify", !.ids = I, !.cur = {}, !.chans = {}] \in TaskStates
           /\ \A a \in Approvals :
                /\ [s EXCEPT !.pc = q, !.cur = {a}] \in TaskStates
                /\ [s EXCEPT !.pc = "respond", !.ids = {}, !.cur = {a}, !.chans = {}] \in TaskStates
                /\ [s EXCEPT !.pc = "deliver", !.ids = I, !.cur = {a}, !.chans = D] \in TaskStates
<1>1. [s EXCEPT !.pc = q] \in TaskStates
    BY DEF TaskStates
<1>2. [s EXCEPT !.chans = s.chans \ D] \in TaskStates
    BY DEF TaskStates
<1>3. [s EXCEPT !.pc = "notify", !.ids = I, !.cur = {}, !.chans = {}] \in TaskStates
    BY DEF TaskStates
<1>4. ASSUME NEW a \in Approvals
      PROVE  /\ [s EXCEPT !.pc = q, !.cur = {a}] \in TaskStates
             /\ [s EXCEPT !.pc = "respond", !.ids = {}, !.cur = {a}, !.chans = {}] \in TaskStates
             /\ [s EXCEPT !.pc = "deliver", !.ids = I, !.cur = {a}, !.chans = D] \in TaskStates
  <2>1. [s EXCEPT !.pc = q, !.cur = {a}] \in TaskStates
      BY DEF TaskStates
  <2>2. [s EXCEPT !.pc = "respond", !.ids = {}, !.cur = {a}, !.chans = {}] \in TaskStates
      BY DEF TaskStates
  <2>3. [s EXCEPT !.pc = "deliver", !.ids = I, !.cur = {a}, !.chans = D] \in TaskStates
      BY DEF TaskStates
  <2> QED BY <2>1, <2>2, <2>3
<1> QED BY <1>1, <1>2, <1>3, <1>4

\* A goroutine starts well typed.
LEMMA IdleTyped == IdleTask \in TaskStates
BY DEF TaskStates

\* The types of a goroutine's fields.
LEMMA TaskFields ==
    ASSUME NEW s \in TaskStates
    PROVE  /\ s.ids \in SUBSET Approvals /\ s.cur \in SUBSET Approvals
           /\ s.chans \in SUBSET Clients /\ s.pc \in TaskPCs
           /\ s.op \in Resolutions /\ s.by \in People \cup {System, NoOne} /\ s.at \in Nat
BY DEF TaskStates

\* The types of a call's fields.
LEMMA ClientFields ==
    ASSUME NEW s \in ClientStates
    PROVE  /\ s.id \in SUBSET Approvals /\ s.answer \in Statuses 
           /\ s.left \in 0..MaxPolls /\ s.pc \in ClientPCs
BY DEF ClientStates

\* The record updates the actions apply to a call's state keep its type.
LEMMA ClientTyped ==
    ASSUME NEW s \in ClientStates, NEW q \in ClientPCs, NEW w \in Statuses
    PROVE  /\ [s EXCEPT !.pc = q] \in ClientStates
           /\ [s EXCEPT !.pc = q, !.answer = w] \in ClientStates
           /\ s.left > 0 => [s EXCEPT !.pc = q, !.left = s.left - 1] \in ClientStates
           /\ \A a \in Approvals : [s EXCEPT !.pc = q, !.id = {a}] \in ClientStates
<1>1. [s EXCEPT !.pc = q] \in ClientStates
    BY DEF ClientStates
<1>2. [s EXCEPT !.pc = q, !.answer = w] \in ClientStates
    BY DEF ClientStates
<1>3. ASSUME NEW a \in Approvals PROVE [s EXCEPT !.pc = q, !.id = {a}] \in ClientStates
    BY DEF ClientStates
<1>4. s.left > 0 => [s EXCEPT !.pc = q, !.left = s.left - 1] \in ClientStates
  <2>1. s.left > 0 => s.left - 1 \in 0..MaxPolls
      BY ClientFields
  <2>2. \A n \in 0..MaxPolls : [s EXCEPT !.pc = q, !.left = n] \in ClientStates
      BY DEF ClientStates
  <2> QED BY <2>1, <2>2
<1> QED BY <1>1, <1>2, <1>3, <1>4

\* So does what follows the last notification.
LEMMA AfterNotifyTyped ==
    ASSUME TypeOK, NEW t \in Tasks, NEW a \in Approvals, NEW I \in SUBSET Approvals
    PROVE  AfterNotify(t, a, I) \in TaskStates
<1>1. task[t] \in TaskStates
    BY DEF TypeOK
<1> QED BY <1>1, TaskTyped, IdleTyped DEF AfterNotify

-----------------------------------------------------------------------------
(* Every step preserves the types. *)

\* The INSERT keeps the types.
LEMMA CreateRequestType ==
    ASSUME NEW t \in Handlers, NEW a \in Approvals, NEW p \in People,
               NEW k \in Kinds, NEW cb \in BOOLEAN,
           TypeOK, CreateRequest(t, a, p, k, cb)
    PROVE  TypeOK'
<1>1. PICK e \in ExpiryFor(k) : row' = [row EXCEPT ![a] = [NoRow EXCEPT !.status = "pending", !.kind = k,
                        !.requestedBy = p, !.expiresAt = e, !.callback = cb]]
    BY DEF CreateRequest
<1>2. e \in Times
    BY DEF ExpiryFor, TypeOK
<1>3. [NoRow EXCEPT !.status = "pending", !.kind = k,
                        !.requestedBy = p, !.expiresAt = e, !.callback = cb] \in Rows
    BY <1>2 DEF Rows
<1>4. row' \in [Approvals -> Rows]
    BY <1>1, <1>3 DEF TypeOK
<1>5. [task[t] EXCEPT !.pc = "created", !.cur = {a}] \in TaskStates
    BY TaskTyped DEF TypeOK
<1> QED BY <1>4, <1>5 DEF TypeOK, CreateRequest

\* Registering the callback keeps the types.
LEMMA NotifyCreatedType ==
    ASSUME NEW t \in Handlers, TypeOK, NotifyCreated(t)
    PROVE  TypeOK'
BY DEF NotifyCreated, TypeOK, Rows, TaskStates, ClientStates

\* Vetting an approver keeps the types.
LEMMA handleApproveType ==
    ASSUME NEW t \in Handlers, NEW a \in Approvals, NEW p \in People,
           TypeOK, handleApprove(t, a, p)
    PROVE  TypeOK'
BY DEF handleApprove, Checked, TypeOK, Rows, TaskStates, ClientStates

\* Vetting a denier keeps the types.
LEMMA handleDenyType ==
    ASSUME NEW t \in Handlers, NEW a \in Approvals, NEW p \in People,
           TypeOK, handleDeny(t, a, p)
    PROVE  TypeOK'
BY DEF handleDeny, Checked, TypeOK, Rows, TaskStates, ClientStates

\* Accepting a cancellation keeps the types.
LEMMA handleCancelType ==
    ASSUME NEW t \in Handlers, NEW a \in Approvals, NEW p \in People \cup {System},
           TypeOK, handleCancel(t, a, p)
    PROVE  TypeOK'
BY DEF handleCancel, Checked, TypeOK, Rows, TaskStates, ClientStates

\* The conditional UPDATE of Approve, Deny and Cancel keeps the types.
LEMMA ResolveType ==
    ASSUME NEW t \in Handlers, TypeOK, Resolve(t)
    PROVE  TypeOK'
<1>1. task[t] \in TaskStates /\ task[t].ids \in SUBSET Approvals /\ task[t].op \in Resolutions /\ task[t].by \in People \cup {System, NoOne}
    BY TaskFields DEF TypeOK
<1>2. PICK a \in task[t].ids : UpdatePending(a, task[t].op, task[t].by)
    BY DEF Resolve
<1>3. row[a] \in Rows
    BY <1>1, <1>2 DEF TypeOK
<1>4. [row[a] EXCEPT !.status = task[t].op, !.resolvedBy = task[t].by] \in Rows
    BY <1>1, <1>3 DEF Rows
<1>5. row' \in [Approvals -> Rows]
    BY <1>2, <1>4 DEF TypeOK, UpdatePending
<1>6. [task[t] EXCEPT !.pc = "notify"] \in TaskStates
    BY <1>1, TaskTyped
<1> QED BY <1>5, <1>6 DEF TypeOK, Resolve

\* A refused UPDATE keeps the types.
LEMMA ResolveRefusedType ==
    ASSUME NEW t \in Handlers, TypeOK, ResolveRefused(t)
    PROVE  TypeOK'
BY DEF ResolveRefused, TypeOK, Rows, TaskStates, ClientStates

\* The callback keeps the types.
LEMMA NotifyResolvedType ==
    ASSUME NEW t \in Handlers, TypeOK, NotifyResolved(t)
    PROVE  TypeOK'
BY DEF NotifyResolved, TypeOK, Rows, TaskStates, ClientStates

\* Taking the waiters' channels keeps the types.
LEMMA NotifyTakeType ==
    ASSUME NEW t \in Tasks, TypeOK, NotifyTake(t)
    PROVE  TypeOK'
<1>1. task[t] \in TaskStates /\ task[t].ids \in SUBSET Approvals
    BY TaskFields DEF TypeOK
<1>2. PICK a \in task[t].ids :
         /\ waiters' = [waiters EXCEPT ![a] = {}]
         /\ task' = [task EXCEPT ![t] =
                IF waiters[a] = {} THEN AfterNotify(t, a, task[t].ids \ {a})
                ELSE [task[t] EXCEPT !.pc = "deliver", !.ids = @ \ {a},
                                     !.cur = {a}, !.chans = waiters[a]]]
    BY DEF NotifyTake
<1>3. AfterNotify(t, a, task[t].ids \ {a}) \in TaskStates
    BY <1>1, <1>2, AfterNotifyTyped
<1>4. [task[t] EXCEPT !.pc = "deliver", !.ids = task[t].ids \ {a}, !.cur = {a}, !.chans = waiters[a]] \in TaskStates
    BY <1>1, TaskTyped DEF TypeOK
<1>5. task' \in [Tasks -> TaskStates]
    BY <1>2, <1>3, <1>4 DEF TypeOK
<1> QED BY <1>2, <1>5 DEF TypeOK, NotifyTake

\* Waking the waiters keeps the types.
LEMMA NotifyDeliverType ==
    ASSUME NEW t \in Tasks, TypeOK, NotifyDeliver(t)
    PROVE  TypeOK'
<1>1. task[t] \in TaskStates /\ task[t].ids \in SUBSET Approvals /\ task[t].cur \in SUBSET Approvals
    BY TaskFields DEF TypeOK
<1>2. PICK a \in task[t].cur :
         /\ chan' = [c \in Clients |-> IF c \in task[t].chans /\ chan[c] = "empty"
                                       THEN row[a].status ELSE chan[c]]
         /\ task' = [task EXCEPT ![t] = AfterNotify(t, a, task[t].ids)]
    BY DEF NotifyDeliver
<1>3. AfterNotify(t, a, task[t].ids) \in TaskStates
    BY <1>1, <1>2, AfterNotifyTyped
<1>4. row[a].status \in Statuses
    BY <1>1, <1>2 DEF TypeOK, Rows
<1> QED BY <1>2, <1>3, <1>4 DEF TypeOK, NotifyDeliver

\* A failed fetch before the wake-up keeps the types.
LEMMA NotifyFetchFailedType ==
    ASSUME NEW t \in Tasks, TypeOK, NotifyFetchFailed(t)
    PROVE  TypeOK'
<1>1. task[t] \in TaskStates /\ task[t].ids \in SUBSET Approvals /\ task[t].cur \in SUBSET Approvals
    BY TaskFields DEF TypeOK
<1>2. PICK a \in task[t].cur : task' = [task EXCEPT ![t] = AfterNotify(t, a, task[t].ids)]
    BY DEF NotifyFetchFailed
<1>3. AfterNotify(t, a, task[t].ids) \in TaskStates
    BY <1>1, <1>2, AfterNotifyTyped
<1> QED BY <1>2, <1>3 DEF TypeOK, NotifyFetchFailed

\* The worker's SELECT keeps the types.
LEMMA ExpireSelectType ==
    ASSUME TypeOK, ExpireSelect
    PROVE  TypeOK'
<1>1. clock \in Nat /\ {a \in Approvals : Overdue(a, clock)} \in SUBSET Approvals
    BY DEF TypeOK
<1>2. [IdleTask EXCEPT !.pc = "selected", !.ids = {a \in Approvals : Overdue(a, clock)},
                       !.at = clock] \in TaskStates
    BY <1>1 DEF TaskStates
<1> QED BY <1>2 DEF TypeOK, ExpireSelect

\* The worker's UPDATE keeps the types.
LEMMA ExpireUpdateType ==
    ASSUME TypeOK, ExpireUpdate
    PROVE  TypeOK'
<1>1. ASSUME NEW a \in Approvals PROVE [row[a] EXCEPT !.status = "expired"] \in Rows
  <2>1. row[a] \in Rows
      BY DEF TypeOK
  <2> QED BY <2>1 DEF Rows
<1>2. row' \in [Approvals -> Rows]
    BY <1>1 DEF TypeOK, ExpireUpdate
<1>4. [task[Sweeper] EXCEPT !.pc = "notify"] \in TaskStates
    BY TaskTyped DEF TypeOK
<1>5. task' \in [Tasks -> TaskStates]
    BY <1>4 DEF TypeOK, ExpireUpdate
<1> QED BY <1>2, <1>5 DEF TypeOK, ExpireUpdate

\* A failed sweep keeps the types.
LEMMA ExpireFailedType ==
    ASSUME TypeOK, ExpireFailed
    PROVE  TypeOK'
BY DEF ExpireFailed, TypeOK, Rows, TaskStates, ClientStates

\* A new WaitForApproval call keeps the types.
LEMMA StartWaitType ==
    ASSUME NEW c \in Clients, NEW a \in Approvals, TypeOK, StartWait(c, a)
    PROVE  TypeOK'
<1>1. [client[c] EXCEPT !.pc = "check", !.id = {a}] \in ClientStates
    BY ClientTyped DEF TypeOK
<1> QED BY <1>1 DEF TypeOK, StartWait

\* The first check of a poll keeps the types.
LEMMA WaitCheckType ==
    ASSUME NEW c \in Clients, TypeOK, WaitCheck(c)
    PROVE  TypeOK'
<1>1. client[c] \in ClientStates /\ client[c].id \in SUBSET Approvals
    BY ClientFields DEF TypeOK
<1>2. PICK a \in client[c].id :
         client' = IF row[a].status # "pending" THEN Answered(c, row[a].status)
                   ELSE [client EXCEPT ![c].pc = "register"]
    BY DEF WaitCheck
<1>3. row[a].status \in Statuses
    BY <1>1, <1>2 DEF TypeOK, Rows
<1>4. /\ [client[c] EXCEPT !.pc = "done", !.answer = row[a].status] \in ClientStates
      /\ [client[c] EXCEPT !.pc = "register"] \in ClientStates
    BY <1>1, <1>3, ClientTyped
<1> QED BY <1>2, <1>4 DEF TypeOK, WaitCheck, Answered

\* Registering a waiter keeps the types.
LEMMA WaitRegisterType ==
    ASSUME NEW c \in Clients, TypeOK, WaitRegister(c)
    PROVE  TypeOK'
<1>1. ASSUME NEW t \in Tasks PROVE [task[t] EXCEPT !.chans = @ \ {c}] \in TaskStates
  <2>1. task[t] \in TaskStates
     BY DEF TypeOK
  <2> QED BY <2>1, TaskTyped
<1>2. task' \in [Tasks -> TaskStates]
    BY <1>1 DEF WaitRegister
<1>3. [client[c] EXCEPT !.pc = "waiting"] \in ClientStates
    BY ClientTyped DEF TypeOK
<1>4. waiters' \in [Approvals -> SUBSET Clients]
    BY DEF TypeOK, WaitRegister
<1> QED BY <1>2, <1>3, <1>4 DEF TypeOK, WaitRegister

\* A wake-up received keeps the types.
LEMMA WaitReceiveType ==
    ASSUME NEW c \in Clients, TypeOK, client[c].left > 0, WaitReceive(c)
    PROVE  TypeOK'
<1>1. client[c] \in ClientStates /\ chan[c] \in Statuses
    BY DEF TypeOK, WaitReceive
<1>4. /\ [client[c] EXCEPT !.pc = "done", !.answer = chan[c]] \in ClientStates
      /\ [client[c] EXCEPT !.pc = "pending", !.left = client[c].left - 1] \in ClientStates
    BY <1>1, ClientTyped
<1>5. client' \in [Clients -> ClientStates]
  <2>1. PollReturns(c, chan[c])
      BY DEF WaitReceive
  <2>2. CASE chan[c] # "pending"
      BY <2>1, <2>2, <1>4 DEF TypeOK, PollReturns, Answered
  <2>3. CASE chan[c] = "pending"
    <3>1. client' = [client EXCEPT ![c] = [client[c] EXCEPT !.pc = "pending", !.left = client[c].left - 1]]
        BY <2>1, <2>3 DEF PollReturns
    <3> QED BY <3>1, <1>4 DEF TypeOK
  <2> QED BY <2>2, <2>3
<1> QED BY <1>5 DEF TypeOK, WaitReceive, Unregister

\* A poll's timeout keeps the types.
LEMMA WaitTimeoutType ==
    ASSUME NEW c \in Clients, TypeOK, WaitTimeout(c)
    PROVE  TypeOK'
BY DEF WaitTimeout, Unregister, TypeOK, Rows, TaskStates, ClientStates

\* The read after a timeout keeps the types.
LEMMA WaitRereadType ==
    ASSUME NEW c \in Clients, TypeOK, client[c].left > 0, WaitReread(c)
    PROVE  TypeOK'
<1>1. client[c] \in ClientStates /\ client[c].id \in SUBSET Approvals
    BY ClientFields DEF TypeOK
<1>2. PICK a \in client[c].id : PollReturns(c, row[a].status)
    BY DEF WaitReread
<1>3. row[a].status \in Statuses
    BY <1>1, <1>2 DEF TypeOK, Rows
<1>4. /\ [client[c] EXCEPT !.pc = "done", !.answer = row[a].status] \in ClientStates
      /\ [client[c] EXCEPT !.pc = "pending", !.left = client[c].left - 1] \in ClientStates
    BY <1>1, <1>3, ClientTyped
<1>5. client' \in [Clients -> ClientStates]
  <2>2. CASE row[a].status # "pending"
      BY <1>2, <2>2, <1>4 DEF TypeOK, PollReturns, Answered
  <2>3. CASE row[a].status = "pending"
    <3>1. client' = [client EXCEPT ![c] = [client[c] EXCEPT !.pc = "pending", !.left = client[c].left - 1]]
        BY <1>2, <2>3 DEF PollReturns
    <3> QED BY <3>1, <1>4 DEF TypeOK
  <2> QED BY <2>2, <2>3
<1> QED BY <1>5 DEF TypeOK, WaitReread

\* The next poll keeps the types.
LEMMA PollAgainType ==
    ASSUME NEW c \in Clients, TypeOK, PollAgain(c)
    PROVE  TypeOK'
<1>1. [client[c] EXCEPT !.pc = "check"] \in ClientStates
    BY ClientTyped DEF TypeOK
<1> QED BY <1>1 DEF TypeOK, PollAgain

\* The client's deadline keeps the types.
LEMMA GiveUpType ==
    ASSUME NEW c \in Clients, TypeOK, GiveUp(c)
    PROVE  TypeOK'
<1>1. client[c] \in ClientStates /\ client[c].id \in SUBSET Approvals
    BY ClientFields DEF TypeOK
<1>2. PICK a \in client[c].id : client' = Answered(c, row[a].status)
    BY DEF GiveUp
<1>3. row[a].status \in Statuses
    BY <1>1, <1>2 DEF TypeOK, Rows
<1>4. [client[c] EXCEPT !.pc = "done", !.answer = row[a].status] \in ClientStates
    BY <1>1, <1>3, ClientTyped
<1> QED BY <1>2, <1>4 DEF TypeOK, GiveUp, Answered

\* The passing of time keeps the types.
LEMMA TickType ==
    ASSUME TypeOK, Tick
    PROVE  TypeOK'
BY DEF Tick, TypeOK, Rows, TaskStates, ClientStates

\* A restart keeps the types.
LEMMA CrashType ==
    ASSUME TypeOK, Crash
    PROVE  TypeOK'
<1>1. ASSUME NEW c \in Clients PROVE [client[c] EXCEPT !.pc = "failed"] \in ClientStates
    BY ClientTyped DEF TypeOK
<1>2. client' \in [Clients -> ClientStates]
    BY <1>1 DEF TypeOK, Crash
<1>3. task' \in [Tasks -> TaskStates]
    BY IdleTyped DEF TypeOK, Crash
<1>4. crashes' \in 0..MaxCrashes
    BY DEF TypeOK, Crash
<1> QED BY <1>2, <1>3, <1>4 DEF TypeOK, Crash

-----------------------------------------------------------------------------
(* Every step preserves the invariant. *)

USE DEF Rows, TaskStates, ClientStates

\* The INSERT keeps the invariant.
LEMMA CreateRequestInv ==
    ASSUME NEW t \in Handlers, NEW a \in Approvals, NEW p \in People,
               NEW k \in Kinds, NEW cb \in BOOLEAN,
           Inv, CreateRequest(t, a, p, k, cb)
    PROVE  Inv'
<1>1. TypeOK'
    BY CreateRequestType DEF Inv
<1>2. NoStrayWaiter'
    BY DEF CreateRequest, Inv, NoStrayWaiter
<1>3. TaskInv'
    BY DEF CreateRequest, ExpiryFor, Inv, TypeOK, TaskInv, ClientInv,
           NoStrayWaiter, Overdue, Resolved, FourEyes, MayResolve,
           isFleetApproval
<1>4. ClientInv'
    BY DEF CreateRequest, ExpiryFor, Inv, TypeOK, TaskInv, ClientInv,
           AnswersAgree
<1>5. ApproverEntitled'
    BY DEF CreateRequest, ExpiryFor, Inv, TypeOK, TaskInv, ApproverEntitled,
           Resolved, FourEyes, MayResolve, isFleetApproval
<1>6. ExpiryExact'
    BY DEF CreateRequest, ExpiryFor, Inv, TypeOK, TaskInv, ExpiryExact,
           Overdue, Resolved
<1>7. AnswersAgree'
    BY DEF CreateRequest, ExpiryFor, Inv, TypeOK, TaskInv, ClientInv,
           AnswersAgree, Resolved, NoStrayWaiter
<1>8. Untouched'
    BY DEF CreateRequest, ExpiryFor, Inv, TypeOK, TaskInv, Untouched, Overdue
<1> QED BY <1>1, <1>2, <1>3, <1>4, <1>5, <1>6, <1>7, <1>8 DEF Inv

\* Registering the callback keeps the invariant.
LEMMA NotifyCreatedInv ==
    ASSUME NEW t \in Handlers, Inv, NotifyCreated(t)
    PROVE  Inv'
<1>1. TypeOK'
    BY NotifyCreatedType DEF Inv
<1>2. ClientInv' /\ ApproverEntitled' /\ AnswersAgree' /\ NoStrayWaiter' /\
      Untouched'
    BY DEF NotifyCreated, Inv, ClientInv, ApproverEntitled, AnswersAgree,
           NoStrayWaiter, Untouched, MayResolve
<1>3. TaskInv'
    BY DEF NotifyCreated, Inv, TypeOK, TaskInv, ClientInv, NoStrayWaiter,
           Overdue, Resolved, FourEyes, MayResolve, isFleetApproval
<1>4. ExpiryExact'
    BY DEF NotifyCreated, Inv, TypeOK, TaskInv, ExpiryExact, Overdue, Resolved
<1> QED BY <1>1, <1>2, <1>3, <1>4 DEF Inv

\* Vetting an approver keeps the invariant.
LEMMA handleApproveInv ==
    ASSUME NEW t \in Handlers, NEW a \in Approvals, NEW p \in People,
           Inv, handleApprove(t, a, p)
    PROVE  Inv'
<1>1. TypeOK'
    BY handleApproveType DEF Inv
<1>2. ClientInv' /\ ApproverEntitled' /\ AnswersAgree' /\ NoStrayWaiter' /\
      Untouched'
    BY DEF handleApprove, Inv, ClientInv, ApproverEntitled, AnswersAgree,
           NoStrayWaiter, Untouched, MayResolve
<1>3. TaskInv'
    BY DEF handleApprove, Checked, Inv, TypeOK, TaskInv, ClientInv,
           NoStrayWaiter, Overdue, Resolved, FourEyes, MayResolve,
           isFleetApproval
<1>4. ExpiryExact'
    BY DEF handleApprove, Checked, Inv, TypeOK, TaskInv, ExpiryExact, Overdue,
           Resolved
<1> QED BY <1>1, <1>2, <1>3, <1>4 DEF Inv

\* Vetting a denier keeps the invariant.
LEMMA handleDenyInv ==
    ASSUME NEW t \in Handlers, NEW a \in Approvals, NEW p \in People,
           Inv, handleDeny(t, a, p)
    PROVE  Inv'
<1>1. TypeOK'
    BY handleDenyType DEF Inv
<1>2. ClientInv' /\ ApproverEntitled' /\ AnswersAgree' /\ NoStrayWaiter' /\
      Untouched'
    BY DEF handleDeny, Inv, ClientInv, ApproverEntitled, AnswersAgree,
           NoStrayWaiter, Untouched, MayResolve
<1>3. TaskInv'
    BY DEF handleDeny, Checked, Inv, TypeOK, TaskInv, ClientInv, NoStrayWaiter,
           Overdue, Resolved, FourEyes, MayResolve, isFleetApproval
<1>4. ExpiryExact'
    BY DEF handleDeny, Checked, Inv, TypeOK, TaskInv, ExpiryExact, Overdue,
           Resolved
<1> QED BY <1>1, <1>2, <1>3, <1>4 DEF Inv

\* Accepting a cancellation keeps the invariant.
LEMMA handleCancelInv ==
    ASSUME NEW t \in Handlers, NEW a \in Approvals, NEW p \in People \cup {System},
           Inv, handleCancel(t, a, p)
    PROVE  Inv'
<1>1. TypeOK'
    BY handleCancelType DEF Inv
<1>2. ClientInv' /\ ApproverEntitled' /\ AnswersAgree' /\ NoStrayWaiter' /\
      Untouched'
    BY DEF handleCancel, Inv, ClientInv, ApproverEntitled, AnswersAgree,
           NoStrayWaiter, Untouched, MayResolve
<1>3. TaskInv'
    BY DEF handleCancel, Checked, Inv, TypeOK, TaskInv, ClientInv,
           NoStrayWaiter, Overdue, Resolved, FourEyes, MayResolve,
           isFleetApproval
<1>4. ExpiryExact'
    BY DEF handleCancel, Checked, Inv, TypeOK, TaskInv, ExpiryExact, Overdue,
           Resolved
<1> QED BY <1>1, <1>2, <1>3, <1>4 DEF Inv

\* The conditional UPDATE of Approve, Deny and Cancel keeps the invariant.
LEMMA ResolveInv ==
    ASSUME NEW t \in Handlers, Inv, Resolve(t)
    PROVE  Inv'
<1>1. TypeOK'
    BY ResolveType DEF Inv
<1>2. NoStrayWaiter'
    BY DEF Resolve, Inv, NoStrayWaiter
<1>3. TaskInv'
  <2>1. PICK d \in task[t].ids : UpdatePending(d, task[t].op, task[t].by)
      BY DEF Resolve
  <2>2. /\ d \in Approvals /\ row'[d].status \in Resolutions
        /\ \A a \in Approvals :
             /\ row'[a].kind = row[a].kind /\ row'[a].requestedBy = row[a].requestedBy
             /\ row'[a].expiresAt = row[a].expiresAt
             /\ row[a].status # "absent" => row'[a].status # "absent"
             /\ Resolved(a) => row'[a].status \in Resolutions
             /\ a # d => row'[a].status = row[a].status
      BY <2>1 DEF UpdatePending, Inv, TypeOK, Resolved
  <2>3. /\ task[t].pc = "checked" /\ t # Sweeper /\ task[t].chans = {} /\ task[t].ids = {d}
        /\ task'[t] = [task[t] EXCEPT !.pc = "notify"]
        /\ task'[t].pc = "notify" /\ task'[t].ids = {d} /\ task'[t].chans = {}
        /\ task'[t].cur = {}
        /\ \A u \in Tasks \ {t} : task'[u] = task[u]
        /\ UNCHANGED <<client, clock>>
      BY <2>1 DEF Resolve, Inv, TypeOK, TaskInv
  <2>10. ASSUME NEW u \in Handlers
         PROVE  /\ task'[u].pc # "selected"
                /\ task'[u].pc = "checked" =>
                     /\ task'[u].op \in {"approved", "denied", "cancelled"}
                     /\ task'[u].by \in People \cup {System}
                     /\ \A a, b \in task'[u].ids : a = b
                     /\ task'[u].op = "approved" =>
                          \A a \in task'[u].ids :
                            /\ row'[a].status # "absent"
                            /\ task'[u].by \in People
                            /\ FourEyes(task'[u].by, row'[a])
                            /\ MayResolve(task'[u].by, row'[a])
    <3>1. CASE u = t
        BY <3>1, <2>2, <2>3 DEF Inv, TypeOK, TaskInv, FourEyes, MayResolve, isFleetApproval
    <3>2. CASE u # t
        BY <3>2, <2>2, <2>3 DEF Inv, TypeOK, TaskInv, FourEyes, MayResolve, isFleetApproval
    <3> QED BY <3>1, <3>2
  <2>11. /\ task'[Sweeper].pc \in {"idle", "selected", "notify", "deliver"}
         /\ task'[Sweeper].at <= clock'
      BY <2>2, <2>3 DEF Inv, TypeOK, TaskInv
  <2>12. ASSUME NEW u \in Tasks, task'[u].pc \in {"notify", "deliver", "respond"}
         PROVE  /\ \A a \in task'[u].ids \cup task'[u].cur : Resolved(a)'
                /\ \A c \in task'[u].chans : client'[c].id = task'[u].cur
    <3>1. CASE u = t
        BY <3>1, <2>2, <2>3, <2>12 DEF Inv, TypeOK, TaskInv, Resolved
    <3>2. CASE u # t
        BY <3>2, <2>2, <2>3, <2>12 DEF Inv, TypeOK, TaskInv, Resolved
    <3> QED BY <3>1, <3>2
  <2>13. ASSUME NEW u \in Tasks
         PROVE  /\ task'[u].pc = "deliver" => task'[u].cur # {}
                /\ task'[u].pc # "deliver" => task'[u].chans = {}
                /\ task'[u].pc \in {"checked", "selected"} => task'[u].cur = {}
    <3>1. CASE u = t
        BY <3>1, <2>2, <2>3 DEF Inv, TypeOK, TaskInv
    <3>2. CASE u # t
        BY <3>2, <2>2, <2>3 DEF Inv, TypeOK, TaskInv
    <3> QED BY <3>1, <3>2
  <2>14. task'[Sweeper].pc = "selected" =>
           \A a \in task'[Sweeper].ids : Resolved(a)' \/ Overdue(a, task[Sweeper].at)'
      BY <2>2, <2>3 DEF Inv, TypeOK, TaskInv, Resolved, Overdue
  <2> QED BY <2>10, <2>11, <2>12, <2>13, <2>14, <2>2, <2>3 DEF TaskInv
<1>4. ClientInv'
    BY DEF Resolve, UpdatePending, Inv, TypeOK, TaskInv, ClientInv,
           AnswersAgree
<1>5. ApproverEntitled'
    BY DEF Resolve, UpdatePending, Inv, TypeOK, TaskInv, ApproverEntitled,
           Resolved, FourEyes, MayResolve, isFleetApproval
<1>6. ExpiryExact'
    BY DEF Resolve, UpdatePending, Inv, TypeOK, TaskInv, ExpiryExact, Overdue,
           Resolved
<1>7. AnswersAgree'
    BY DEF Resolve, UpdatePending, Inv, TypeOK, TaskInv, ClientInv,
           AnswersAgree, Resolved, NoStrayWaiter
<1>8. Untouched'
    BY DEF Resolve, UpdatePending, Inv, TypeOK, TaskInv, Untouched, Overdue
<1> QED BY <1>1, <1>2, <1>3, <1>4, <1>5, <1>6, <1>7, <1>8 DEF Inv

\* A refused UPDATE keeps the invariant.
LEMMA ResolveRefusedInv ==
    ASSUME NEW t \in Handlers, Inv, ResolveRefused(t)
    PROVE  Inv'
<1>1. TypeOK'
    BY ResolveRefusedType DEF Inv
<1>2. ClientInv' /\ ApproverEntitled' /\ AnswersAgree' /\ NoStrayWaiter' /\
      Untouched'
    BY DEF ResolveRefused, Inv, ClientInv, ApproverEntitled, AnswersAgree,
           NoStrayWaiter, Untouched, MayResolve
<1>3. TaskInv'
    BY DEF ResolveRefused, Inv, TypeOK, TaskInv, ClientInv, NoStrayWaiter,
           Overdue, Resolved, FourEyes, MayResolve, isFleetApproval
<1>4. ExpiryExact'
    BY DEF ResolveRefused, Inv, TypeOK, TaskInv, ExpiryExact, Overdue, Resolved
<1> QED BY <1>1, <1>2, <1>3, <1>4 DEF Inv

\* The callback keeps the invariant.
LEMMA NotifyResolvedInv ==
    ASSUME NEW t \in Handlers, Inv, NotifyResolved(t)
    PROVE  Inv'
<1>1. TypeOK'
    BY NotifyResolvedType DEF Inv
<1>2. ClientInv' /\ ApproverEntitled' /\ NoStrayWaiter' /\ Untouched'
    BY DEF NotifyResolved, Inv, ClientInv, ApproverEntitled, NoStrayWaiter,
           Untouched, MayResolve
<1>3. TaskInv'
    BY DEF NotifyResolved, Inv, TypeOK, TaskInv, ClientInv, NoStrayWaiter,
           Overdue, Resolved, FourEyes, MayResolve, isFleetApproval
<1>4. ExpiryExact'
    BY DEF NotifyResolved, Inv, TypeOK, TaskInv, ExpiryExact, Overdue, Resolved
<1>5. AnswersAgree'
    BY DEF NotifyResolved, Inv, TypeOK, TaskInv, ClientInv, AnswersAgree,
           Resolved, NoStrayWaiter
<1> QED BY <1>1, <1>2, <1>3, <1>4, <1>5 DEF Inv

\* Taking the waiters' channels keeps the invariant.
LEMMA NotifyTakeInv ==
    ASSUME NEW t \in Tasks, Inv, NotifyTake(t)
    PROVE  Inv'
<1>1. TypeOK'
    BY NotifyTakeType DEF Inv
<1>2. ClientInv' /\ ApproverEntitled' /\ AnswersAgree' /\ Untouched'
    BY DEF NotifyTake, Inv, ClientInv, ApproverEntitled, AnswersAgree,
           Untouched, MayResolve
<1>3. TaskInv'
  <2>1. PICK d \in task[t].ids :
          /\ waiters' = [waiters EXCEPT ![d] = {}]
          /\ task' = [task EXCEPT ![t] =
                IF waiters[d] = {} THEN AfterNotify(t, d, task[t].ids \ {d})
                ELSE [task[t] EXCEPT !.pc = "deliver", !.ids = @ \ {d},
                                     !.cur = {d}, !.chans = waiters[d]]]
      BY DEF NotifyTake
  <2>2. /\ task[t].pc = "notify" /\ d \in Approvals /\ Resolved(d)
        /\ \A u \in Tasks \ {t} : task'[u] = task[u]
        /\ UNCHANGED <<row, client, clock>>
      BY <2>1 DEF NotifyTake, Inv, TypeOK, TaskInv
  <2>3. \A c \in waiters[d] : c \in Clients /\ client[c].id = {d}
      BY <2>2 DEF Inv, TypeOK, NoStrayWaiter
  <2>4. /\ task'[t].pc \in {"notify", "deliver", "respond", "idle"}
        /\ t = Sweeper => task'[t].pc # "respond" /\ task'[t].at \in {0, task[t].at}
        /\ task'[t].ids \subseteq task[t].ids
        /\ task'[t].cur \subseteq {d}
        /\ task'[t].chans # {} => task'[t].pc = "deliver"
        /\ task'[t].pc = "deliver" => task'[t].cur = {d} /\ task'[t].chans = waiters[d]
    <3>1. CASE waiters[d] = {}
        BY <2>1, <2>2, <3>1 DEF AfterNotify, Inv, TypeOK
    <3>2. CASE waiters[d] # {}
      <4>1. task'[t] = [task[t] EXCEPT !.pc = "deliver", !.ids = task[t].ids \ {d},
                                     !.cur = {d}, !.chans = waiters[d]]
          BY <2>1, <3>2 DEF Inv, TypeOK
      <4> QED BY <4>1, <2>2 DEF Inv, TypeOK
    <3> QED BY <3>1, <3>2
  <2>10. ASSUME NEW u \in Handlers
         PROVE  /\ task'[u].pc # "selected"
                /\ task'[u].pc = "checked" =>
                     /\ task'[u].op \in {"approved", "denied", "cancelled"}
                     /\ task'[u].by \in People \cup {System}
                     /\ \A a, b \in task'[u].ids : a = b
                     /\ task'[u].op = "approved" =>
                          \A a \in task'[u].ids :
                            /\ row'[a].status # "absent"
                            /\ task'[u].by \in People
                            /\ FourEyes(task'[u].by, row'[a])
                            /\ MayResolve(task'[u].by, row'[a])
    <3>1. CASE u = t
        BY <3>1, <2>2, <2>3, <2>4 DEF Inv, TypeOK, TaskInv, FourEyes, MayResolve, isFleetApproval
    <3>2. CASE u # t
        BY <3>2, <2>2, <2>3, <2>4 DEF Inv, TypeOK, TaskInv, FourEyes, MayResolve, isFleetApproval
    <3> QED BY <3>1, <3>2
  <2>11. /\ task'[Sweeper].pc \in {"idle", "selected", "notify", "deliver"}
         /\ task'[Sweeper].at <= clock'
      BY <2>2, <2>3, <2>4 DEF Inv, TypeOK, TaskInv
  <2>12. ASSUME NEW u \in Tasks, task'[u].pc \in {"notify", "deliver", "respond"}
         PROVE  /\ \A a \in task'[u].ids \cup task'[u].cur : Resolved(a)'
                /\ \A c \in task'[u].chans : client'[c].id = task'[u].cur
    <3>1. CASE u = t
        BY <3>1, <2>2, <2>3, <2>4, <2>12 DEF Inv, TypeOK, TaskInv, Resolved
    <3>2. CASE u # t
        BY <3>2, <2>2, <2>3, <2>4, <2>12 DEF Inv, TypeOK, TaskInv, Resolved
    <3> QED BY <3>1, <3>2
  <2>13. ASSUME NEW u \in Tasks
         PROVE  /\ task'[u].pc = "deliver" => task'[u].cur # {}
                /\ task'[u].pc # "deliver" => task'[u].chans = {}
                /\ task'[u].pc \in {"checked", "selected"} => task'[u].cur = {}
    <3>1. CASE u = t
        BY <3>1, <2>2, <2>3, <2>4 DEF Inv, TypeOK, TaskInv
    <3>2. CASE u # t
        BY <3>2, <2>2, <2>3, <2>4 DEF Inv, TypeOK, TaskInv
    <3> QED BY <3>1, <3>2
  <2>14. task'[Sweeper].pc = "selected" =>
           \A a \in task'[Sweeper].ids : Resolved(a)' \/ Overdue(a, task[Sweeper].at)'
      BY <2>2, <2>3, <2>4 DEF Inv, TypeOK, TaskInv, Resolved, Overdue
  <2> QED BY <2>10, <2>11, <2>12, <2>13, <2>14, <2>2, <2>3, <2>4 DEF TaskInv
<1>4. ExpiryExact'
    BY DEF NotifyTake, AfterNotify, Inv, TypeOK, TaskInv, ExpiryExact, Overdue,
           Resolved
<1>5. NoStrayWaiter'
    BY DEF NotifyTake, AfterNotify, Inv, TypeOK, TaskInv, ClientInv,
           NoStrayWaiter
<1> QED BY <1>1, <1>2, <1>3, <1>4, <1>5 DEF Inv

\* Waking the waiters keeps the invariant.
LEMMA NotifyDeliverInv ==
    ASSUME NEW t \in Tasks, Inv, NotifyDeliver(t)
    PROVE  Inv'
<1>1. TypeOK'
    BY NotifyDeliverType DEF Inv
<1>2. ApproverEntitled' /\ NoStrayWaiter' /\ Untouched'
    BY DEF NotifyDeliver, Inv, ApproverEntitled, NoStrayWaiter, Untouched,
           MayResolve
<1>3. TaskInv'
    BY DEF NotifyDeliver, AfterNotify, Inv, TypeOK, TaskInv, ClientInv,
           NoStrayWaiter, Overdue, Resolved, FourEyes, MayResolve,
           isFleetApproval
<1>4. ClientInv'
    BY DEF NotifyDeliver, AfterNotify, Inv, TypeOK, TaskInv, ClientInv,
           AnswersAgree
<1>5. ExpiryExact'
    BY DEF NotifyDeliver, AfterNotify, Inv, TypeOK, TaskInv, ExpiryExact,
           Overdue, Resolved
<1>6. AnswersAgree'
    BY DEF NotifyDeliver, AfterNotify, Inv, TypeOK, TaskInv, ClientInv,
           AnswersAgree, Resolved, NoStrayWaiter
<1> QED BY <1>1, <1>2, <1>3, <1>4, <1>5, <1>6 DEF Inv

\* A failed fetch before the wake-up keeps the invariant.
LEMMA NotifyFetchFailedInv ==
    ASSUME NEW t \in Tasks, Inv, NotifyFetchFailed(t)
    PROVE  Inv'
<1>1. TypeOK'
    BY NotifyFetchFailedType DEF Inv
<1>2. ClientInv' /\ ApproverEntitled' /\ AnswersAgree' /\ NoStrayWaiter' /\
      Untouched'
    BY DEF NotifyFetchFailed, Inv, ClientInv, ApproverEntitled, AnswersAgree,
           NoStrayWaiter, Untouched, MayResolve
<1>3. TaskInv'
    BY DEF NotifyFetchFailed, AfterNotify, Inv, TypeOK, TaskInv, ClientInv,
           NoStrayWaiter, Overdue, Resolved, FourEyes, MayResolve,
           isFleetApproval
<1>4. ExpiryExact'
    BY DEF NotifyFetchFailed, AfterNotify, Inv, TypeOK, TaskInv, ExpiryExact,
           Overdue, Resolved
<1> QED BY <1>1, <1>2, <1>3, <1>4 DEF Inv

\* The worker's SELECT keeps the invariant.
LEMMA ExpireSelectInv ==
    ASSUME Inv, ExpireSelect
    PROVE  Inv'
<1>1. TypeOK'
    BY ExpireSelectType DEF Inv
<1>2. ClientInv' /\ ApproverEntitled' /\ AnswersAgree' /\ NoStrayWaiter' /\
      Untouched'
    BY DEF ExpireSelect, Inv, ClientInv, ApproverEntitled, AnswersAgree,
           NoStrayWaiter, Untouched, MayResolve
<1>3. TaskInv'
    BY DEF ExpireSelect, Inv, TypeOK, TaskInv, ClientInv, NoStrayWaiter,
           Overdue, Resolved, FourEyes, MayResolve, isFleetApproval
<1>4. ExpiryExact'
    BY DEF ExpireSelect, Inv, TypeOK, TaskInv, ExpiryExact, Overdue, Resolved
<1> QED BY <1>1, <1>2, <1>3, <1>4 DEF Inv

\* The worker's UPDATE keeps the invariant.
LEMMA ExpireUpdateInv ==
    ASSUME Inv, ExpireUpdate
    PROVE  Inv'
<1>1. TypeOK'
    BY ExpireUpdateType DEF Inv
<1>2. NoStrayWaiter'
    BY DEF ExpireUpdate, Inv, NoStrayWaiter
<1>3. TaskInv'
  <2>2. \A a \in Approvals :
          /\ row'[a].kind = row[a].kind /\ row'[a].requestedBy = row[a].requestedBy
          /\ row'[a].expiresAt = row[a].expiresAt
          /\ row[a].status # "absent" => row'[a].status # "absent"
          /\ Resolved(a) => row'[a].status \in Resolutions
          /\ Overdue(a, task[Sweeper].at) => row'[a].status \in Resolutions
      BY DEF ExpireUpdate, Inv, TypeOK, Overdue, Resolved
  <2>3. /\ task[Sweeper].pc = "selected" /\ task[Sweeper].chans = {}
        /\ task'[Sweeper].pc = "notify" /\ task'[Sweeper].ids = task[Sweeper].ids
        /\ task'[Sweeper].chans = {} /\ task'[Sweeper].cur = {}
        /\ task'[Sweeper].at = task[Sweeper].at
        /\ \A u \in Tasks \ {Sweeper} : task'[u] = task[u]
        /\ UNCHANGED <<client, clock>>
      BY DEF ExpireUpdate, Inv, TypeOK, TaskInv
  <2>10. ASSUME NEW u \in Handlers
         PROVE  /\ task'[u].pc # "selected"
                /\ task'[u].pc = "checked" =>
                     /\ task'[u].op \in {"approved", "denied", "cancelled"}
                     /\ task'[u].by \in People \cup {System}
                     /\ \A a, b \in task'[u].ids : a = b
                     /\ task'[u].op = "approved" =>
                          \A a \in task'[u].ids :
                            /\ row'[a].status # "absent"
                            /\ task'[u].by \in People
                            /\ FourEyes(task'[u].by, row'[a])
                            /\ MayResolve(task'[u].by, row'[a])
      BY <2>2, <2>3 DEF Inv, TypeOK, TaskInv, FourEyes, MayResolve, isFleetApproval
  <2>11. /\ task'[Sweeper].pc \in {"idle", "selected", "notify", "deliver"}
         /\ task'[Sweeper].at <= clock'
      BY <2>2, <2>3 DEF Inv, TypeOK, TaskInv
  <2>12. ASSUME NEW u \in Tasks, task'[u].pc \in {"notify", "deliver", "respond"}
         PROVE  /\ \A a \in task'[u].ids \cup task'[u].cur : Resolved(a)'
                /\ \A c \in task'[u].chans : client'[c].id = task'[u].cur
      BY <2>2, <2>3, <2>12 DEF Inv, TypeOK, TaskInv, Resolved
  <2>13. ASSUME NEW u \in Tasks
         PROVE  /\ task'[u].pc = "deliver" => task'[u].cur # {}
                /\ task'[u].pc # "deliver" => task'[u].chans = {}
                /\ task'[u].pc \in {"checked", "selected"} => task'[u].cur = {}
      BY <2>2, <2>3 DEF Inv, TypeOK, TaskInv
  <2>14. task'[Sweeper].pc = "selected" =>
           \A a \in task'[Sweeper].ids : Resolved(a)' \/ Overdue(a, task[Sweeper].at)'
      BY <2>2, <2>3 DEF Inv, TypeOK, TaskInv, Resolved, Overdue
  <2> QED BY <2>10, <2>11, <2>12, <2>13, <2>14, <2>2, <2>3 DEF TaskInv
<1>4. ClientInv'
    BY DEF ExpireUpdate, Inv, TypeOK, TaskInv, ClientInv, AnswersAgree
<1>5. ApproverEntitled'
    BY DEF ExpireUpdate, Inv, TypeOK, TaskInv, ApproverEntitled, Resolved,
           FourEyes, MayResolve, isFleetApproval
<1>6. ExpiryExact'
    BY DEF ExpireUpdate, Inv, TypeOK, TaskInv, ExpiryExact, Overdue, Resolved
<1>7. AnswersAgree'
  <2>1. /\ \A a \in Approvals : row[a].status \in Resolutions => row'[a].status = row[a].status
        /\ UNCHANGED <<client, chan, posted>>
      BY DEF ExpireUpdate, Inv, TypeOK, Overdue
  <2> QED BY <2>1 DEF Inv, TypeOK, AnswersAgree
<1>8. Untouched'
    BY DEF ExpireUpdate, Inv, TypeOK, TaskInv, Untouched, Overdue
<1> QED BY <1>1, <1>2, <1>3, <1>4, <1>5, <1>6, <1>7, <1>8 DEF Inv

\* A failed sweep keeps the invariant.
LEMMA ExpireFailedInv ==
    ASSUME Inv, ExpireFailed
    PROVE  Inv'
<1>1. TypeOK'
    BY ExpireFailedType DEF Inv
<1>2. ClientInv' /\ ApproverEntitled' /\ AnswersAgree' /\ NoStrayWaiter' /\
      Untouched'
    BY DEF ExpireFailed, Inv, ClientInv, ApproverEntitled, AnswersAgree,
           NoStrayWaiter, Untouched, MayResolve
<1>3. TaskInv'
    BY DEF ExpireFailed, Inv, TypeOK, TaskInv, ClientInv, NoStrayWaiter,
           Overdue, Resolved, FourEyes, MayResolve, isFleetApproval
<1>4. ExpiryExact'
    BY DEF ExpireFailed, Inv, TypeOK, TaskInv, ExpiryExact, Overdue, Resolved
<1> QED BY <1>1, <1>2, <1>3, <1>4 DEF Inv

\* A new WaitForApproval call keeps the invariant.
LEMMA StartWaitInv ==
    ASSUME NEW c \in Clients, NEW a \in Approvals, Inv, StartWait(c, a)
    PROVE  Inv'
<1>1. TypeOK'
    BY StartWaitType DEF Inv
<1>2. ApproverEntitled' /\ ExpiryExact' /\ Untouched'
    BY DEF StartWait, Inv, ApproverEntitled, ExpiryExact, Untouched,
           MayResolve, Overdue
<1>3. TaskInv'
    BY DEF StartWait, Inv, TypeOK, TaskInv, ClientInv, NoStrayWaiter, Overdue,
           Resolved, FourEyes, MayResolve, isFleetApproval
<1>4. ClientInv'
  <2>1. /\ client'[c].pc = "check" /\ client'[c].id = {a}
        /\ client'[c].answer = client[c].answer /\ client'[c].left = client[c].left
        /\ \A d \in Clients \ {c} : client'[d] = client[d]
        /\ UNCHANGED <<row, chan>>
        /\ client[c].pc = "idle" /\ row[a].status # "absent"
      BY DEF StartWait, Inv, TypeOK
  <2>2. client[c].answer = "absent" /\ client[c].left > 0
      BY <2>1 DEF Inv, ClientInv
  <2>3. SUFFICES ASSUME NEW d \in Clients
                 PROVE  /\ client'[d].pc = "idle" <=> client'[d].id = {}
                        /\ \A x, y \in client'[d].id : x = y
                        /\ \A x \in client'[d].id : row'[x].status # "absent"
                        /\ client'[d].pc # "done" => client'[d].answer = "absent"
                        /\ client'[d].pc = "idle" => chan'[d] = "empty"
                        /\ client'[d].pc \in {"idle", "check", "register", "waiting", "reread"} =>
                             client'[d].left > 0
      BY DEF ClientInv
  <2>4. CASE d = c
      BY <2>1, <2>2, <2>4
  <2>5. CASE d # c
      BY <2>1, <2>5 DEF Inv, TypeOK, ClientInv
  <2> QED BY <2>4, <2>5
<1>5. AnswersAgree'
    BY DEF StartWait, Inv, TypeOK, TaskInv, ClientInv, AnswersAgree, Resolved,
           NoStrayWaiter
<1>6. NoStrayWaiter'
    BY DEF StartWait, Inv, TypeOK, TaskInv, ClientInv, NoStrayWaiter
<1> QED BY <1>1, <1>2, <1>3, <1>4, <1>5, <1>6 DEF Inv

\* The first check of a poll keeps the invariant.
LEMMA WaitCheckInv ==
    ASSUME NEW c \in Clients, Inv, WaitCheck(c)
    PROVE  Inv'
<1>1. TypeOK'
    BY WaitCheckType DEF Inv
<1>2. ApproverEntitled' /\ ExpiryExact' /\ Untouched'
    BY DEF WaitCheck, Inv, ApproverEntitled, ExpiryExact, Untouched,
           MayResolve, Overdue
<1>3. TaskInv'
    BY DEF WaitCheck, Answered, Inv, TypeOK, TaskInv, ClientInv, NoStrayWaiter,
           Overdue, Resolved, FourEyes, MayResolve, isFleetApproval
<1>4. ClientInv'
    BY DEF WaitCheck, Answered, Inv, TypeOK, TaskInv, ClientInv, AnswersAgree
<1>5. AnswersAgree'
    BY DEF WaitCheck, Answered, Inv, TypeOK, TaskInv, ClientInv, AnswersAgree,
           Resolved, NoStrayWaiter
<1>6. NoStrayWaiter'
    BY DEF WaitCheck, Answered, Inv, TypeOK, TaskInv, ClientInv, NoStrayWaiter
<1> QED BY <1>1, <1>2, <1>3, <1>4, <1>5, <1>6 DEF Inv

\* Registering a waiter keeps the invariant.
LEMMA WaitRegisterInv ==
    ASSUME NEW c \in Clients, Inv, WaitRegister(c)
    PROVE  Inv'
<1>1. TypeOK'
    BY WaitRegisterType DEF Inv
<1>2. ApproverEntitled' /\ Untouched'
    BY DEF WaitRegister, Inv, ApproverEntitled, Untouched, MayResolve
<1>3. TaskInv'
  <2>2. /\ \A u \in Tasks :
             /\ task'[u].pc = task[u].pc /\ task'[u].op = task[u].op
             /\ task'[u].by = task[u].by /\ task'[u].ids = task[u].ids
             /\ task'[u].cur = task[u].cur /\ task'[u].at = task[u].at
             /\ task'[u].chans = task[u].chans \ {c}
        /\ UNCHANGED <<row, clock>>
    <3>1. ASSUME NEW u \in Tasks
          PROVE  task'[u] = [task[u] EXCEPT !.chans = task[u].chans \ {c}] /\ task[u] \in TaskStates
        BY DEF WaitRegister, Inv, TypeOK
    <3> QED BY <3>1 DEF WaitRegister
  <2>3. \A d \in Clients : client'[d].id = client[d].id
      BY DEF WaitRegister, Inv, TypeOK
  <2>10. ASSUME NEW u \in Handlers
         PROVE  /\ task'[u].pc # "selected"
                /\ task'[u].pc = "checked" =>
                     /\ task'[u].op \in {"approved", "denied", "cancelled"}
                     /\ task'[u].by \in People \cup {System}
                     /\ \A a, b \in task'[u].ids : a = b
                     /\ task'[u].op = "approved" =>
                          \A a \in task'[u].ids :
                            /\ row'[a].status # "absent"
                            /\ task'[u].by \in People
                            /\ FourEyes(task'[u].by, row'[a])
                            /\ MayResolve(task'[u].by, row'[a])
      BY <2>2, <2>3 DEF Inv, TypeOK, TaskInv, FourEyes, MayResolve, isFleetApproval
  <2>11. /\ task'[Sweeper].pc \in {"idle", "selected", "notify", "deliver"}
         /\ task'[Sweeper].at <= clock'
      BY <2>2, <2>3 DEF Inv, TypeOK, TaskInv
  <2>12. ASSUME NEW u \in Tasks, task'[u].pc \in {"notify", "deliver", "respond"}
         PROVE  /\ \A a \in task'[u].ids \cup task'[u].cur : Resolved(a)'
                /\ \A d \in task'[u].chans : client'[d].id = task'[u].cur
      BY <2>2, <2>3, <2>12 DEF Inv, TypeOK, TaskInv, Resolved
  <2>13. ASSUME NEW u \in Tasks
         PROVE  /\ task'[u].pc = "deliver" => task'[u].cur # {}
                /\ task'[u].pc # "deliver" => task'[u].chans = {}
                /\ task'[u].pc \in {"checked", "selected"} => task'[u].cur = {}
      BY <2>2, <2>3 DEF Inv, TypeOK, TaskInv
  <2>14. task'[Sweeper].pc = "selected" =>
           \A a \in task'[Sweeper].ids : Resolved(a)' \/ Overdue(a, task[Sweeper].at)'
      BY <2>2, <2>3 DEF Inv, TypeOK, TaskInv, Resolved, Overdue
  <2> QED BY <2>10, <2>11, <2>12, <2>13, <2>14, <2>2, <2>3 DEF TaskInv
<1>4. ClientInv'
    BY DEF WaitRegister, Inv, TypeOK, TaskInv, ClientInv, AnswersAgree
<1>5. ExpiryExact'
    BY DEF WaitRegister, Inv, TypeOK, TaskInv, ExpiryExact, Overdue, Resolved
<1>6. AnswersAgree'
    BY DEF WaitRegister, Inv, TypeOK, TaskInv, ClientInv, AnswersAgree,
           Resolved, NoStrayWaiter
<1>7. NoStrayWaiter'
    BY DEF WaitRegister, Inv, TypeOK, TaskInv, ClientInv, NoStrayWaiter
<1> QED BY <1>1, <1>2, <1>3, <1>4, <1>5, <1>6, <1>7 DEF Inv

\* A wake-up received keeps the invariant.
LEMMA WaitReceiveInv ==
    ASSUME NEW c \in Clients, Inv, WaitReceive(c)
    PROVE  Inv'
<1>1. TypeOK'
    BY WaitReceiveType DEF Inv, ClientInv, WaitReceive
<1>2. ApproverEntitled' /\ ExpiryExact' /\ Untouched'
    BY DEF WaitReceive, Inv, ApproverEntitled, ExpiryExact, Untouched,
           MayResolve, Overdue
<1>3. TaskInv'
    BY DEF WaitReceive, PollReturns, Answered, Unregister, Inv, TypeOK,
           TaskInv, ClientInv, NoStrayWaiter, Overdue, Resolved, FourEyes,
           MayResolve, isFleetApproval
<1>4. ClientInv'
    BY DEF WaitReceive, PollReturns, Answered, Unregister, Inv, TypeOK,
           TaskInv, ClientInv, AnswersAgree
<1>5. AnswersAgree'
    BY DEF WaitReceive, PollReturns, Answered, Unregister, Inv, TypeOK,
           TaskInv, ClientInv, AnswersAgree, Resolved, NoStrayWaiter
<1>6. NoStrayWaiter'
    BY DEF WaitReceive, PollReturns, Answered, Unregister, Inv, TypeOK,
           TaskInv, ClientInv, NoStrayWaiter
<1> QED BY <1>1, <1>2, <1>3, <1>4, <1>5, <1>6 DEF Inv

\* A poll's timeout keeps the invariant.
LEMMA WaitTimeoutInv ==
    ASSUME NEW c \in Clients, Inv, WaitTimeout(c)
    PROVE  Inv'
<1>1. TypeOK'
    BY WaitTimeoutType DEF Inv
<1>2. ApproverEntitled' /\ ExpiryExact' /\ Untouched'
    BY DEF WaitTimeout, Inv, ApproverEntitled, ExpiryExact, Untouched,
           MayResolve, Overdue
<1>3. TaskInv'
    BY DEF WaitTimeout, Unregister, Inv, TypeOK, TaskInv, ClientInv,
           NoStrayWaiter, Overdue, Resolved, FourEyes, MayResolve,
           isFleetApproval
<1>4. ClientInv'
    BY DEF WaitTimeout, Unregister, Inv, TypeOK, TaskInv, ClientInv,
           AnswersAgree
<1>5. AnswersAgree'
    BY DEF WaitTimeout, Unregister, Inv, TypeOK, TaskInv, ClientInv,
           AnswersAgree, Resolved, NoStrayWaiter
<1>6. NoStrayWaiter'
    BY DEF WaitTimeout, Unregister, Inv, TypeOK, TaskInv, ClientInv,
           NoStrayWaiter
<1> QED BY <1>1, <1>2, <1>3, <1>4, <1>5, <1>6 DEF Inv

\* The read after a timeout keeps the invariant.
LEMMA WaitRereadInv ==
    ASSUME NEW c \in Clients, Inv, WaitReread(c)
    PROVE  Inv'
<1>1. TypeOK'
    BY WaitRereadType DEF Inv, ClientInv, WaitReread
<1>2. ApproverEntitled' /\ ExpiryExact' /\ Untouched'
    BY DEF WaitReread, Inv, ApproverEntitled, ExpiryExact, Untouched,
           MayResolve, Overdue
<1>3. TaskInv'
    BY DEF WaitReread, PollReturns, Answered, Inv, TypeOK, TaskInv, ClientInv,
           NoStrayWaiter, Overdue, Resolved, FourEyes, MayResolve,
           isFleetApproval
<1>4. ClientInv'
    BY DEF WaitReread, PollReturns, Answered, Inv, TypeOK, TaskInv, ClientInv,
           AnswersAgree
<1>5. AnswersAgree'
    BY DEF WaitReread, PollReturns, Answered, Inv, TypeOK, TaskInv, ClientInv,
           AnswersAgree, Resolved, NoStrayWaiter
<1>6. NoStrayWaiter'
    BY DEF WaitReread, PollReturns, Answered, Inv, TypeOK, TaskInv, ClientInv,
           NoStrayWaiter
<1> QED BY <1>1, <1>2, <1>3, <1>4, <1>5, <1>6 DEF Inv

\* The next poll keeps the invariant.
LEMMA PollAgainInv ==
    ASSUME NEW c \in Clients, Inv, PollAgain(c)
    PROVE  Inv'
<1>1. TypeOK'
    BY PollAgainType DEF Inv
<1>2. ApproverEntitled' /\ ExpiryExact' /\ Untouched'
    BY DEF PollAgain, Inv, ApproverEntitled, ExpiryExact, Untouched,
           MayResolve, Overdue
<1>3. TaskInv'
    BY DEF PollAgain, Inv, TypeOK, TaskInv, ClientInv, NoStrayWaiter, Overdue,
           Resolved, FourEyes, MayResolve, isFleetApproval
<1>4. ClientInv'
    BY DEF PollAgain, Inv, TypeOK, TaskInv, ClientInv, AnswersAgree
<1>5. AnswersAgree'
    BY DEF PollAgain, Inv, TypeOK, TaskInv, ClientInv, AnswersAgree, Resolved,
           NoStrayWaiter
<1>6. NoStrayWaiter'
    BY DEF PollAgain, Inv, TypeOK, TaskInv, ClientInv, NoStrayWaiter
<1> QED BY <1>1, <1>2, <1>3, <1>4, <1>5, <1>6 DEF Inv

\* The client's deadline keeps the invariant.
LEMMA GiveUpInv ==
    ASSUME NEW c \in Clients, Inv, GiveUp(c)
    PROVE  Inv'
<1>1. TypeOK'
    BY GiveUpType DEF Inv
<1>2. ApproverEntitled' /\ ExpiryExact' /\ Untouched'
    BY DEF GiveUp, Inv, ApproverEntitled, ExpiryExact, Untouched, MayResolve,
           Overdue
<1>3. TaskInv'
    BY DEF GiveUp, Answered, Inv, TypeOK, TaskInv, ClientInv, NoStrayWaiter,
           Overdue, Resolved, FourEyes, MayResolve, isFleetApproval
<1>4. ClientInv'
    BY DEF GiveUp, Answered, Inv, TypeOK, TaskInv, ClientInv, AnswersAgree
<1>5. AnswersAgree'
    BY DEF GiveUp, Answered, Inv, TypeOK, TaskInv, ClientInv, AnswersAgree,
           Resolved, NoStrayWaiter
<1>6. NoStrayWaiter'
    BY DEF GiveUp, Answered, Inv, TypeOK, TaskInv, ClientInv, NoStrayWaiter
<1> QED BY <1>1, <1>2, <1>3, <1>4, <1>5, <1>6 DEF Inv

\* The passing of time keeps the invariant.
LEMMA TickInv ==
    ASSUME Inv, Tick
    PROVE  Inv'
<1>1. TypeOK'
    BY TickType DEF Inv
<1>2. ClientInv' /\ ApproverEntitled' /\ AnswersAgree' /\ NoStrayWaiter' /\
      Untouched'
    BY DEF Tick, Inv, ClientInv, ApproverEntitled, AnswersAgree, NoStrayWaiter,
           Untouched, MayResolve
<1>3. TaskInv'
    BY DEF Tick, Inv, TypeOK, TaskInv, ClientInv, NoStrayWaiter, Overdue,
           Resolved, FourEyes, MayResolve, isFleetApproval
<1>4. ExpiryExact'
    BY DEF Tick, Inv, TypeOK, TaskInv, ExpiryExact, Overdue, Resolved
<1> QED BY <1>1, <1>2, <1>3, <1>4 DEF Inv

\* A restart keeps the invariant.
LEMMA CrashInv ==
    ASSUME Inv, Crash
    PROVE  Inv'
<1>1. TypeOK'
    BY CrashType DEF Inv
<1>2. ApproverEntitled' /\ Untouched'
    BY DEF Crash, Inv, ApproverEntitled, Untouched, MayResolve
<1>3. TaskInv'
    BY DEF Crash, Inv, TypeOK, TaskInv, ClientInv, NoStrayWaiter, Overdue,
           Resolved, FourEyes, MayResolve, isFleetApproval
<1>4. ClientInv'
    BY DEF Crash, Inv, TypeOK, TaskInv, ClientInv, AnswersAgree
<1>5. ExpiryExact'
    BY DEF Crash, Inv, TypeOK, TaskInv, ExpiryExact, Overdue, Resolved
<1>6. AnswersAgree'
    BY DEF Crash, Inv, TypeOK, TaskInv, ClientInv, AnswersAgree, Resolved,
           NoStrayWaiter
<1>7. NoStrayWaiter'
    BY DEF Crash, Inv, TypeOK, TaskInv, ClientInv, NoStrayWaiter
<1> QED BY <1>1, <1>2, <1>3, <1>4, <1>5, <1>6, <1>7 DEF Inv

-----------------------------------------------------------------------------
(* The theorems. *)

\* The empty table satisfies the invariant.
LEMMA InitInv == Init => Inv
BY DEF Init, IdleClient, Inv, TypeOK, TaskInv, ClientInv, ApproverEntitled,
       ExpiryExact, AnswersAgree, NoStrayWaiter, Untouched, Overdue

\* So does a state that only repeats.
LEMMA StutterInv == Inv /\ UNCHANGED vars => Inv'
BY DEF vars, Inv, TypeOK, TaskInv, ClientInv, ApproverEntitled, ExpiryExact,
       AnswersAgree, NoStrayWaiter, Untouched, Overdue, Resolved, MayResolve, FourEyes

\* One action of one goroutine or client, or an environment step.
LEMMA NextInv == Inv /\ [Next]_vars => Inv'
<1> SUFFICES ASSUME Inv, [Next]_vars PROVE Inv'
    OBVIOUS
<1>1. ASSUME NEW t \in Handlers, Request(t) PROVE Inv'
    BY <1>1, CreateRequestInv, handleApproveInv, handleDenyInv, handleCancelInv DEF Request
<1>2. ASSUME NEW t \in Handlers, HandlerStep(t) PROVE Inv'
    BY <1>2, NotifyCreatedInv, ResolveInv, ResolveRefusedInv, NotifyResolvedInv,
       NotifyTakeInv, NotifyDeliverInv, NotifyFetchFailedInv DEF HandlerStep
<1>3. CASE SweeperStep
    BY <1>3, ExpireSelectInv, ExpireUpdateInv, ExpireFailedInv,
       NotifyTakeInv, NotifyDeliverInv, NotifyFetchFailedInv DEF SweeperStep
<1>4. ASSUME NEW c \in Clients, ClientStep(c) PROVE Inv'
    BY <1>4, WaitCheckInv, WaitRegisterInv, WaitReceiveInv, WaitTimeoutInv,
       WaitRereadInv, PollAgainInv, GiveUpInv DEF ClientStep
<1>5. ASSUME NEW c \in Clients, NEW a \in Approvals, StartWait(c, a) PROVE Inv'
    BY <1>5, StartWaitInv
<1>6. CASE Tick \/ Crash
    BY <1>6, TickInv, CrashInv
<1>7. CASE UNCHANGED vars
    BY <1>7, StutterInv
<1> QED BY <1>1, <1>2, <1>3, <1>4, <1>5, <1>6, <1>7 DEF Next

\* Inv is an inductive invariant of the service.
THEOREM Invariance == SafeSpec => []Inv
BY InitInv, NextInv, PTL DEF SafeSpec

\* Every variable keeps its type, for every choice of the constants.
THEOREM TypeCorrect == SafeSpec => []TypeOK
BY Invariance, PTL DEF Inv

\* No approval is ever recorded for its own requester or for somebody without
\* the role its type calls for, however handlers interleave (handleApprove).
THEOREM ApproversEntitled == SafeSpec => []ApproverEntitled
BY Invariance, PTL DEF Inv

\* Only overdue requests expire, and the worker's UPDATE leaves none behind
\* (ExpireRequests).
THEOREM ExpiryIsExact == SafeSpec => []ExpiryExact
BY Invariance, PTL DEF Inv

\* Whatever a client, a wake-up or a callback reports as a resolution is the
\* resolution in the table (notifyWaiters, handleWaitForApproval).
THEOREM AnswersAreTrue == SafeSpec => []AnswersAgree
BY Invariance, PTL DEF Inv

\* The waiters map holds no channel of a poll that is over
\* (WaitForResolution's deferred cleanup).
THEOREM WaitersAreWaiting == SafeSpec => []NoStrayWaiter
BY Invariance, PTL DEF Inv

-----------------------------------------------------------------------------
(* Finality, and the refinement of ApprovalDecision. *)

\* The rows an action can write: none that is resolved.
LEMMA NextFinal ==
    ASSUME Inv, [Next]_vars, NEW a \in Approvals, Resolved(a)
    PROVE  row'[a] = row[a]
<1>1. ASSUME NEW t \in Handlers, Request(t) PROVE row'[a] = row[a]
    BY <1>1 DEF Request, CreateRequest, handleApprove, handleDeny, handleCancel,
                Inv, TypeOK, Resolved
<1>2. ASSUME NEW t \in Handlers, HandlerStep(t) PROVE row'[a] = row[a]
    BY <1>2 DEF HandlerStep, NotifyCreated, Resolve, UpdatePending, ResolveRefused,
                NotifyResolved, NotifyTake, NotifyDeliver, NotifyFetchFailed,
                Inv, TypeOK, Resolved
<1>3. CASE SweeperStep
  <2>1. CASE ExpireUpdate
    <3>1. ~Overdue(a, task[Sweeper].at)
        BY DEF Overdue, Resolved
    <3> QED BY <2>1, <3>1 DEF ExpireUpdate
  <2>2. CASE ~ExpireUpdate
      BY <1>3, <2>2 DEF SweeperStep, ExpireSelect, ExpireFailed, NotifyTake,
                        NotifyDeliver, NotifyFetchFailed
  <2> QED BY <2>1, <2>2
<1>4. ASSUME NEW c \in Clients, ClientStep(c) \/ \E b \in Approvals : StartWait(c, b)
      PROVE  row'[a] = row[a]
    BY <1>4 DEF ClientStep, WaitCheck, WaitRegister, WaitReceive, WaitTimeout,
                WaitReread, PollAgain, GiveUp, StartWait
<1>5. CASE Tick \/ Crash \/ UNCHANGED vars
    BY <1>5 DEF Tick, Crash, vars
<1> QED BY <1>1, <1>2, <1>3, <1>4, <1>5 DEF Next

\* A resolved request is never written again, by any number of approvers,
\* cancellers, sweeps and restarts (UPDATE ... AND status = 'pending').
THEOREM ResolutionsAreFinal == SafeSpec => ResolutionIsFinal
<1>1. Inv /\ [Next]_vars => [\A a \in Approvals : Resolved(a) => row'[a] = row[a]]_vars
    BY NextFinal
<1> QED BY <1>1, Invariance, PTL DEF SafeSpec, ResolutionIsFinal

\* The abstract variables see only the table and the clients' answers.
LEMMA HiddenStep ==
    ASSUME UNCHANGED <<row, client>>
    PROVE  UNCHANGED Decision!vars
BY DEF Decision!vars

\* The INSERT opens a request.
LEMMA CreateOpens ==
    ASSUME Inv, NEW t \in Handlers, NEW a \in Approvals, NEW p \in People,
           NEW k \in Kinds, NEW cb \in BOOLEAN, CreateRequest(t, a, p, k, cb)
    PROVE  Decision!Open(a, p)
<1>1. PICK e \in ExpiryFor(k) :
         row' = [row EXCEPT ![a] = [NoRow EXCEPT !.status = "pending", !.kind = k,
                        !.requestedBy = p, !.expiresAt = e, !.callback = cb]]
    BY DEF CreateRequest
<1>2. /\ row[a].status = "absent" /\ row'[a].status = "pending"
      /\ row'[a].requestedBy = p /\ row'[a].resolvedBy = NoOne
      /\ \A b \in Approvals \ {a} : row'[b] = row[b]
      /\ UNCHANGED client
    BY <1>1 DEF CreateRequest, Inv, TypeOK
<1>3. row[a].resolvedBy = NoOne
    BY <1>2 DEF Inv, Untouched
<1> QED BY <1>2, <1>3 DEF Decision!Open

\* The conditional UPDATE of a vetted resolver decides one request.
LEMMA ResolveDecides ==
    ASSUME Inv, NEW t \in Handlers, Resolve(t)
    PROVE  \E a \in Approvals, d \in {"approved", "denied", "cancelled"},
              p \in People \cup {System} : Decision!Decide(a, d, p)
<1>1. PICK a \in task[t].ids : UpdatePending(a, task[t].op, task[t].by)
    BY DEF Resolve
<1>2. /\ a \in Approvals /\ row[a] \in Rows
      /\ row' = [row EXCEPT ![a] = [row[a] EXCEPT !.status = task[t].op,
                                                 !.resolvedBy = task[t].by]]
    BY <1>1 DEF UpdatePending, Resolve, Inv, TypeOK
<1>3. /\ row[a].status = "pending" /\ a \in Approvals
      /\ task[t].op \in {"approved", "denied", "cancelled"}
      /\ task[t].by \in People \cup {System}
      /\ task[t].op = "approved" => task[t].by \in People \ {row[a].requestedBy}
      /\ UNCHANGED client
    BY <1>1 DEF UpdatePending, Resolve, Inv, TypeOK, TaskInv, FourEyes
<1>4. PICK d \in {"approved", "denied", "cancelled"}, p \in People \cup {System} :
         d = task[t].op /\ p = task[t].by
    BY <1>3
<1>5. /\ row'[a].status = d /\ row'[a].resolvedBy = p
      /\ row'[a].requestedBy = row[a].requestedBy
      /\ \A b \in Approvals \ {a} : row'[b] = row[b]
    BY <1>2, <1>4 DEF Inv, TypeOK
<1>6. Decision!Decide(a, d, p)
    BY <1>3, <1>4, <1>5 DEF Decision!Decide
<1> QED BY <1>3, <1>6

\* The worker's UPDATE expires the overdue requests together.
LEMMA UpdateExpires ==
    ASSUME Inv, ExpireUpdate
    PROVE  \E S \in SUBSET Approvals : Decision!Expire(S)
<1>0. PICK S \in SUBSET Approvals : S = {a \in Approvals : Overdue(a, task[Sweeper].at)}
    OBVIOUS
<1>1. /\ \A a \in S : row[a].status = "pending" /\ row'[a].status = "expired"
      /\ \A a \in Approvals \ S : row'[a].status = row[a].status
      /\ \A a \in Approvals : /\ row'[a].requestedBy = row[a].requestedBy
                              /\ row'[a].resolvedBy = row[a].resolvedBy
      /\ UNCHANGED client
    BY <1>0 DEF ExpireUpdate, Overdue, Inv, TypeOK
<1>2. Decision!Expire(S)
    BY <1>1 DEF Decision!Expire
<1> QED BY <1>2

\* A new WaitForApproval call asks.
LEMMA StartAsks ==
    ASSUME Inv, NEW c \in Clients, NEW a \in Approvals, StartWait(c, a)
    PROVE  Decision!Ask(c, a)
<1>1. /\ client[c].id = {} /\ client'[c].id = {a} /\ row[a].status # "absent"
      /\ client'[c].answer = client[c].answer
      /\ \A d \in Clients \ {c} : client'[d] = client[d]
      /\ UNCHANGED row
    BY DEF StartWait, Inv, TypeOK, ClientInv
<1> QED BY <1>1 DEF Decision!Ask

\* A client's step leaves its answer alone or sets it to the row's resolution.
LEMMA ClientTells ==
    ASSUME Inv, NEW c \in Clients, ClientStep(c)
    PROVE  (\E a \in Approvals : Decision!Tell(c, a)) \/ UNCHANGED Decision!vars
<1>1. /\ \A d \in Clients \ {c} : client'[d] = client[d]
      /\ client'[c].id = client[c].id /\ UNCHANGED row
  <2>1. CASE WaitCheck(c)
      BY <2>1 DEF WaitCheck, Answered, Inv, TypeOK
  <2>2. CASE WaitReceive(c) \/ WaitReread(c)
    <3>1. PICK s : PollReturns(c, s)
        BY <2>2 DEF WaitReceive, WaitReread
    <3>2. client[c] \in ClientStates /\ UNCHANGED row
        BY <2>2 DEF WaitReceive, WaitReread, Inv, TypeOK
    <3>3. CASE s # "pending"
        BY <3>1, <3>2, <3>3 DEF PollReturns, Answered, Inv, TypeOK
    <3>4. CASE s = "pending"
        BY <3>1, <3>2, <3>4 DEF PollReturns, Inv, TypeOK
    <3> QED BY <3>3, <3>4
  <2>3. CASE WaitRegister(c) \/ WaitTimeout(c) \/ PollAgain(c)
      BY <2>3 DEF WaitRegister, WaitTimeout, PollAgain, Inv, TypeOK
  <2>4. CASE GiveUp(c)
      BY <2>4 DEF GiveUp, Answered, Inv, TypeOK
  <2> QED BY <2>1, <2>2, <2>3, <2>4 DEF ClientStep
<1>2. /\ client[c].answer = "absent"
      /\ \A a, b \in client[c].id : a = b
      /\ client[c].id # {} /\ client[c].id \subseteq Approvals
    BY DEF ClientStep, WaitCheck, WaitRegister, WaitReceive, WaitTimeout, WaitReread,
           PollAgain, GiveUp, Inv, TypeOK, ClientInv
<1>3. client'[c].answer \in Resolutions =>
        \E a \in client[c].id : client'[c].answer = row[a].status
  <2>1. AnswersAgree'
      BY NextInv DEF Next, Inv
  <2> QED BY <2>1, <1>1, <1>2 DEF AnswersAgree
<1>4. CASE client'[c].answer \in Resolutions
  <2>1. PICK a \in client[c].id : client'[c].answer = row[a].status
      BY <1>3, <1>4
  <2>2. client[c].id = {a} /\ a \in Approvals
      BY <1>2
  <2>3. Decision!Tell(c, a)
      BY <1>1, <1>2, <1>4, <2>1, <2>2 DEF Decision!Tell
  <2> QED BY <2>2, <2>3
<1>5. CASE client'[c].answer \notin Resolutions
    BY <1>1, <1>2, <1>5 DEF Decision!vars
<1> QED BY <1>4, <1>5

\* A restart fails calls; it answers none.
LEMMA CrashHides == ASSUME Inv, Crash PROVE UNCHANGED Decision!vars
<1>1. /\ \A c \in Clients : client'[c].id = client[c].id /\ client'[c].answer = client[c].answer
      /\ UNCHANGED row
    BY DEF Crash, Inv, TypeOK
<1> QED BY <1>1 DEF Decision!vars

\* The approval service implements ApprovalDecision: each request is decided
\* at most once, under four eyes, and every client is told that decision.
THEOREM StoreImplementsDecision == SafeSpec => ImplementsDecision
<1>1. Init => Decision!Init
    BY DEF Init, IdleClient, Decision!Init
<1>2. ASSUME Inv, [Next]_vars PROVE [Decision!Next]_(Decision!vars)
  <2>1. ASSUME NEW t \in Handlers, Request(t) PROVE [Decision!Next]_(Decision!vars)
    <3>1. CASE UNCHANGED <<row, client>>
        BY <3>1, HiddenStep
    <3>2. ASSUME NEW a \in Approvals, NEW p \in People, NEW k \in Kinds, NEW cb \in BOOLEAN,
                 CreateRequest(t, a, p, k, cb)
          PROVE  Decision!Next
        BY <3>2, <1>2, CreateOpens DEF Decision!Next
    <3> QED BY <2>1, <3>1, <3>2 DEF Request, handleApprove, handleDeny, handleCancel
  <2>2. ASSUME NEW t \in Handlers, HandlerStep(t) PROVE [Decision!Next]_(Decision!vars)
    <3>1. CASE UNCHANGED <<row, client>>
        BY <3>1, HiddenStep
    <3>2. CASE Resolve(t)
        BY <3>2, <1>2, ResolveDecides DEF Decision!Next
    <3> QED BY <2>2, <3>1, <3>2 DEF HandlerStep, NotifyCreated, ResolveRefused,
            NotifyResolved, NotifyTake, NotifyDeliver, NotifyFetchFailed
  <2>3. CASE SweeperStep
    <3>1. CASE UNCHANGED <<row, client>>
        BY <3>1, HiddenStep
    <3>2. CASE ExpireUpdate
        BY <3>2, <1>2, UpdateExpires DEF Decision!Next
    <3> QED BY <2>3, <3>1, <3>2 DEF SweeperStep, ExpireSelect, ExpireFailed,
            NotifyTake, NotifyDeliver, NotifyFetchFailed
  <2>4. ASSUME NEW c \in Clients, ClientStep(c) PROVE [Decision!Next]_(Decision!vars)
      BY <2>4, <1>2, ClientTells DEF Decision!Next
  <2>5. ASSUME NEW c \in Clients, NEW a \in Approvals, StartWait(c, a) PROVE Decision!Next
      BY <2>5, <1>2, StartAsks DEF Decision!Next
  <2>6. CASE Tick \/ UNCHANGED vars
      BY <2>6, HiddenStep DEF Tick, vars
  <2>7. CASE Crash
      BY <2>7, <1>2, CrashHides
  <2> QED BY <1>2, <2>1, <2>2, <2>3, <2>4, <2>5, <2>6, <2>7 DEF Next
<1> QED BY <1>1, <1>2, Invariance, PTL DEF SafeSpec, ImplementsDecision, Decision!Spec
=============================================================================
