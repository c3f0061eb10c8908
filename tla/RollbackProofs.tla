---------------------------- MODULE RollbackProofs ----------------------------
(***************************************************************************)
(* The rollback records' safety for every set of events, jobs, records and *)
(* request goroutines, any captured pre-states and any number of restarts. *)
(* At the end, the tools whose calls those pre-states come from            *)
(* (MutationTools), for any number of calls, of replicas and  *)
(* of changes from outside.                                                *)
(***************************************************************************)
EXTENDS Rollback, MutationTools, TLAPS

Working == {"dispatch", "persist"}
Holding == PCs \ {"idle", "insert", "fleet"}

\* A record that was not active when a duplicate check saw it is still not
\* active, or a stale writer revived it.
Settled(r) == Stored(r) /\ (row[r].status \in Closed \/ r \in revived)

\* What a goroutine between two of its statements may rely on.
CallOK(k) ==
    /\ k.pc = "insert" => k.original \in Events
    /\ k.pc = "fleet" => k.original \in Jobs
    /\ k.pc \in {"insert", "fleet"} => \A r \in k.known : Settled(r)
    /\ k.pc \in Holding => k.rec \in Records /\ Stored(k.rec) /\ row[k.rec].original \in Events
    /\ k.pc = "link" => k.rec \in approvals

CallInv == \A c \in Calls : CallOK(call[c])

\* What the duplicate check of a stored record saw.
KnownInv == \A s \in Records : Stored(s) => \A r \in row[s].known : Settled(r)

Inv ==
    /\ TypeOK /\ CallInv /\ KnownInv
    /\ ApprovalsBelong /\ ExecutingExplained

USE ConstantsAssumption DEF Originals

-----------------------------------------------------------------------------
(* Rows and goroutines. *)

\* A stored record is a row of a table, and its original is known.
LEMMA StoredRow ==
    ASSUME TypeOK, NEW r \in Records
    PROVE  Stored(r) <=> row[r] \in Rows
<1>1. NoRow \notin Rows
    BY DEF NoRow, Rows
<1> QED BY <1>1 DEF TypeOK, Stored

\* A goroutine without a request is well typed and relies on nothing.
LEMMA IdleTyped == Idle \in CallStates /\ CallOK(Idle)
BY DEF Idle, CallStates, PCs, CallOK, Holding

\* The fields of a goroutine's state.
LEMMA CallFields ==
    ASSUME TypeOK, NEW c \in Calls
    PROVE  /\ call[c].pc \in PCs /\ call[c].original \in Originals \cup {None}
           /\ call[c].rec \in Records \cup {None} /\ call[c].known \in SUBSET Records
           /\ call[c].outcome \in {"success", "failed"}
<1>1. call[c] \in CallStates
    BY DEF TypeOK
<1> QED BY <1>1 DEF CallStates

\* A goroutine that moves on, with the tables as they were, keeps the invariant
\* when what it relies on next holds and it does not give up an execution.
LEMMA CallOnly ==
    ASSUME Inv, NEW c \in Calls, NEW new \in CallStates, CallOK(new),
           Step(c, new),
           call[c].pc \in Working => new.pc \in Working /\ new.rec = call[c].rec,
           UNCHANGED <<executed, row, approvals, applied, revived, orphaned, shared, restarts>>
    PROVE  Inv'
<1>1. /\ call' \in [Calls -> CallStates]
      /\ call'[c] = new /\ \A d \in Calls \ {c} : call'[d] = call[d]
    BY DEF Inv, TypeOK, Step
<1>2. TypeOK'
    BY <1>1 DEF Inv, TypeOK
<1>3. CallInv'
    BY <1>1 DEF Inv, CallInv, CallOK, Settled, Stored
<1>4. KnownInv' /\ ApprovalsBelong'
    BY DEF Inv, KnownInv, ApprovalsBelong, Settled, Stored
<1>5. ExecutingExplained'
    BY <1>1 DEF Inv, ExecutingExplained, Working
<1> QED BY <1>2, <1>3, <1>4, <1>5 DEF Inv

-----------------------------------------------------------------------------
(* Steps that only move a goroutine. *)

\* A goroutine that ends its request, having no execution in hand, keeps the
\* invariant.
LEMMA FinishInv ==
    ASSUME Inv, NEW c \in Calls, call[c].pc \notin Working, Finish(c),
           UNCHANGED <<executed, row, approvals, applied, revived, orphaned, shared, restarts>>
    PROVE  Inv'
BY CallOnly, IdleTyped DEF Finish

\* The duplicate check of handleInitiateRollback keeps the invariant: what it
\* saw of the same event is settled.
LEMMA InitiateCheckInv ==
    ASSUME Inv, NEW c \in Calls, NEW o \in Events, InitiateCheck(c, o)
    PROVE  Inv'
<1> DEFINE new == [Idle EXCEPT !.pc = "insert", !.original = o, !.known = Of(o)]
<1>1. new \in CallStates
    BY DEF Idle, CallStates, PCs, Of
<1>2. \A r \in Of(o) : Settled(r)
    BY DEF InitiateCheck, GetRollbackByEventID, Of, Settled
<1>3. CallOK(new)
    BY <1>2 DEF CallOK, Idle, Holding
<1>4. call[c].pc \notin Working
    BY DEF InitiateCheck, Idle, Working
<1> HIDE DEF new
<1> QED BY <1>1, <1>3, <1>4, CallOnly DEF InitiateCheck, new

\* So does that of handleInitiateFleetRollback.
LEMMA InitiateFleetCheckInv ==
    ASSUME Inv, NEW c \in Calls, NEW j \in Jobs, InitiateFleetCheck(c, j)
    PROVE  Inv'
<1> DEFINE new == [Idle EXCEPT !.pc = "fleet", !.original = j, !.known = Of(j)]
<1>1. new \in CallStates
    BY DEF Idle, CallStates, PCs, Of
<1>2. \A r \in Of(j) : Settled(r)
    BY DEF InitiateFleetCheck, GetFleetRollbackByJobID, Of, Settled
<1>3. CallOK(new)
    BY <1>2 DEF CallOK, Idle, Holding
<1>4. call[c].pc \notin Working
    BY DEF InitiateFleetCheck, Idle, Working
<1> HIDE DEF new
<1> QED BY <1>1, <1>3, <1>4, CallOnly DEF InitiateFleetCheck, new

\* A failed INSERT and the audit event at the end keep the invariant.
LEMMA InitiateEndsInv ==
    ASSUME Inv, NEW c \in Calls, InitiateInsertFailed(c) \/ InitiateEmit(c)
    PROVE  Inv'
BY FinishInv DEF InitiateInsertFailed, InitiateEmit, Working

\* handleCancelRollback's read keeps the invariant.
LEMMA CancelReadInv ==
    ASSUME Inv, NEW c \in Calls, NEW r \in Records, CancelRead(c, r)
    PROVE  Inv'
<1> DEFINE new == [Idle EXCEPT !.pc = "cancel", !.rec = r]
<1>1. new \in CallStates
    BY DEF Idle, CallStates, PCs
<1>2. CallOK(new)
    BY DEF CancelRead, CallOK, Idle
<1>3. call[c].pc \notin Working
    BY DEF CancelRead, Idle, Working
<1> HIDE DEF new
<1> QED BY <1>1, <1>2, <1>3, CallOnly DEF CancelRead, new

\* Loading a record for Execute keeps the invariant.
LEMMA ExecuteLoadInv ==
    ASSUME Inv, NEW c \in Calls, NEW r \in Records, ExecuteLoad(c, r)
    PROVE  Inv'
<1> DEFINE new == [Idle EXCEPT !.pc = "start", !.rec = r]
<1>1. new \in CallStates
    BY DEF Idle, CallStates, PCs
<1>2. CallOK(new)
    BY DEF ExecuteLoad, CallOK, Idle
<1>3. call[c].pc \notin Working
    BY DEF ExecuteLoad, Idle, Working
<1> HIDE DEF new
<1>4. UNCHANGED <<executed, row, approvals, applied, revived, orphaned, restarts>>
    BY DEF ExecuteLoad
<1>5. /\ call' \in [Calls -> CallStates]
      /\ call'[c] = new /\ \A d \in Calls \ {c} : call'[d] = call[d]
    BY <1>1 DEF ExecuteLoad, Inv, TypeOK, Step, new
<1>6. TypeOK'
    BY <1>4, <1>5 DEF ExecuteLoad, Inv, TypeOK
<1>7. CallInv'
    BY <1>2, <1>4, <1>5 DEF Inv, CallInv, CallOK, Settled, Stored
<1>8. KnownInv' /\ ApprovalsBelong'
    BY <1>4 DEF Inv, KnownInv, ApprovalsBelong, Settled, Stored
<1>9. ExecutingExplained'
    BY <1>3, <1>4, <1>5 DEF Inv, ExecutingExplained, Working
<1> QED BY <1>6, <1>7, <1>8, <1>9 DEF Inv

-----------------------------------------------------------------------------
(* Steps that write to a table. *)

\* A new record: nothing stored before has seen it, and what it saw is settled.
LEMMA InsertInv ==
    ASSUME Inv, NEW c \in Calls, NEW r \in Records, NEW new \in CallStates,
           call[c].pc \in {"insert", "fleet"}, ~Stored(r),
           row' = [row EXCEPT ![r] = NewRow(c)], Step(c, new),
           new = Idle \/ (call[c].pc = "insert" /\ new.pc = "approve" /\ new.rec = r),
           UNCHANGED <<executed, approvals, applied, revived, orphaned, shared, restarts>>
    PROVE  Inv'
<1>1. CallOK(call[c])
    BY DEF Inv, CallInv
<1>2. /\ call' \in [Calls -> CallStates]
      /\ call'[c] = new /\ \A d \in Calls \ {c} : call'[d] = call[d]
    BY DEF Inv, TypeOK, Step
<1>3. NewRow(c) \in Rows
  <2>1. call[c].original \in Originals
      BY <1>1 DEF CallOK
  <2>2. call[c].known \in SUBSET Records
      BY CallFields DEF Inv
  <2> QED BY <2>1, <2>2 DEF NewRow, Rows, Statuses
<1>4. /\ row' \in [Records -> Rows \cup {NoRow}] /\ row'[r] = NewRow(c)
      /\ \A q \in Records \ {r} : row'[q] = row[q]
    BY <1>3 DEF Inv, TypeOK
<1>5. TypeOK'
    BY <1>2, <1>4 DEF Inv, TypeOK
<1>6. /\ \A q \in Records : Stored(q) => Stored(q)' /\ row'[q] = row[q]
      /\ Stored(r)' /\ \A q \in Records \ {r} : Stored(q)' => Stored(q)
  <2>1. Stored(r)'
      BY <1>3, <1>4, <1>5, StoredRow DEF Stored, NoRow, Rows
  <2> QED BY <1>4, <2>1 DEF Stored
<1>7. \A q \in Records : Settled(q) => Settled(q)'
    BY <1>6 DEF Settled
<1>8. CallOK(new)'
  <2>1. CASE new = Idle
      BY <2>1 DEF CallOK, Idle, Holding
  <2>2. CASE call[c].pc = "insert" /\ new.pc = "approve" /\ new.rec = r
    <3>1. row'[r].original \in Events
        BY <1>1, <1>4, <2>2 DEF CallOK, NewRow
    <3> QED BY <1>6, <2>2, <3>1 DEF CallOK, Holding
  <2> QED BY <2>1, <2>2
<1>9. CallInv'
  <2>1. SUFFICES ASSUME NEW d \in Calls \ {c} PROVE CallOK(call[d])'
      BY <1>2, <1>8 DEF CallInv, CallOK
  <2>2. CallOK(call[d]) /\ call'[d] = call[d] /\ call[d].known \in SUBSET Records
      BY <1>2, CallFields DEF Inv, CallInv
  <2> QED BY <1>6, <1>7, <2>2 DEF CallOK
<1>10. KnownInv'
  <2>1. \A q \in call[c].known : Settled(q) /\ q \in Records
      BY <1>1, CallFields DEF CallOK, Inv
  <2>2. row'[r].known = call[c].known
      BY <1>4 DEF NewRow
  <2>3. ASSUME NEW s \in Records \ {r}, Stored(s)' PROVE \A q \in row'[s].known : Settled(q)'
    <3>1. Stored(s) /\ row'[s] = row[s] /\ row[s].known \in SUBSET Records
        BY <1>4, <1>6, <2>3, StoredRow DEF Inv, Rows
    <3> QED BY <1>7, <3>1 DEF Inv, KnownInv
  <2> QED BY <1>7, <2>1, <2>2, <2>3 DEF KnownInv
<1>11. ApprovalsBelong'
  <2>1. row'[r].approval = FALSE
      BY <1>4 DEF NewRow
  <2> QED BY <1>4, <1>6, <2>1 DEF Inv, ApprovalsBelong, TypeOK
<1>12. ExecutingExplained'
  <2>1. row'[r].status = "pending_approval"
      BY <1>4 DEF NewRow
  <2> QED BY <1>2, <1>4, <2>1 DEF Inv, ExecutingExplained
<1> QED BY <1>5, <1>9, <1>10, <1>11, <1>12 DEF Inv

\* CreateRollback keeps the invariant.
LEMMA InitiateInsertInv ==
    ASSUME Inv, NEW c \in Calls, NEW r \in Records, InitiateInsert(c, r)
    PROVE  Inv'
<1> DEFINE new == [call[c] EXCEPT !.pc = "approve", !.rec = r, !.known = {}]
<1>1. call[c] \in CallStates
    BY DEF Inv, TypeOK
<1>2. new \in CallStates /\ new.pc = "approve" /\ new.rec = r
    BY <1>1 DEF CallStates, PCs
<1> HIDE DEF new
<1> QED BY <1>2, InsertInv DEF InitiateInsert, new

\* CreateFleetRollback keeps the invariant.
LEMMA InitiateFleetInsertInv ==
    ASSUME Inv, NEW c \in Calls, NEW r \in Records, InitiateFleetInsert(c, r)
    PROVE  Inv'
BY InsertInv, IdleTyped DEF InitiateFleetInsert, Finish

\* Storing the approval request, or failing to, keeps the invariant.
LEMMA InitiateApprovalInv ==
    ASSUME Inv, NEW c \in Calls, InitiateApproval(c)
    PROVE  Inv'
<1>1. call[c] \in CallStates /\ CallOK(call[c]) /\ call[c].pc = "approve"
    BY DEF Inv, TypeOK, CallInv, InitiateApproval
<1>2. call[c].rec \in Records /\ Stored(call[c].rec) /\ row[call[c].rec].original \in Events
    BY <1>1 DEF CallOK, Holding, PCs
<1>3. CASE Step(c, [call[c] EXCEPT !.pc = "initiated"]) /\ UNCHANGED approvals
  <2> DEFINE new == [call[c] EXCEPT !.pc = "initiated"]
  <2>1. new \in CallStates /\ CallOK(new)
      BY <1>1, <1>2 DEF CallStates, PCs, CallOK, Holding
  <2>2. call[c].pc \notin Working
      BY <1>1 DEF Working
  <2> HIDE DEF new
  <2> QED BY <1>3, <2>1, <2>2, CallOnly DEF InitiateApproval, new
<1>4. CASE approvals' = approvals \cup {call[c].rec} /\ Step(c, [call[c] EXCEPT !.pc = "link"])
  <2> DEFINE new == [call[c] EXCEPT !.pc = "link"]
  <2>1. /\ call' \in [Calls -> CallStates] /\ call'[c] = new
        /\ \A d \in Calls \ {c} : call'[d] = call[d]
        /\ new.pc = "link" /\ new.rec = call[c].rec
      BY <1>1, <1>4 DEF Inv, TypeOK, Step, CallStates, PCs
  <2> HIDE DEF new
  <2>2. UNCHANGED <<executed, row, applied, revived, orphaned, shared, restarts>>
      BY DEF InitiateApproval
  <2>3. TypeOK'
      BY <1>2, <1>4, <2>1, <2>2 DEF Inv, TypeOK
  <2>4. CallInv'
      BY <1>2, <1>4, <2>1, <2>2 DEF Inv, CallInv, CallOK, Settled, Stored, Holding
  <2>5. KnownInv'
      BY <2>2 DEF Inv, KnownInv, Settled, Stored
  <2>6. ApprovalsBelong'
      BY <1>2, <1>4, <2>2 DEF Inv, ApprovalsBelong, Stored
  <2>7. ExecutingExplained'
      BY <1>1, <2>1, <2>2 DEF Inv, ExecutingExplained
  <2> QED BY <2>3, <2>4, <2>5, <2>6, <2>7 DEF Inv
<1> QED BY <1>3, <1>4 DEF InitiateApproval

\* A row rewritten in place, by a status of any kind or by its approval id:
\* what others rely on stays, and what leaves "failed" or "cancelled" is noted.
LEMMA RewriteKeeps ==
    ASSUME Inv, NEW r \in Records, Stored(r), NEW s \in Statuses, NEW b \in BOOLEAN,
           row' = [row EXCEPT ![r] = [row[r] EXCEPT !.status = s, !.approval = b]],
           revived \subseteq revived', revived' \subseteq Records,
           row[r].status \in Closed => s \in Closed \/ r \in revived'
    PROVE  /\ row' \in [Records -> Rows \cup {NoRow}]
           /\ row'[r].status = s /\ row'[r].approval = b
           /\ \A q \in Records : /\ Stored(q)' <=> Stored(q)
                                 /\ row'[q].original = row[q].original
                                 /\ row'[q].known = row[q].known
                                 /\ Settled(q) => Settled(q)'
           /\ \A q \in Records \ {r} : row'[q] = row[q]
           /\ KnownInv'
<1>1. row[r] \in Rows
    BY StoredRow DEF Inv
<1> DEFINE new == [row[r] EXCEPT !.status = s, !.approval = b]
<1>2. /\ new \in Rows /\ new.status = s /\ new.approval = b
      /\ new.original = row[r].original /\ new.known = row[r].known
    BY <1>1 DEF Rows
<1>3. /\ row' \in [Records -> Rows \cup {NoRow}] /\ row'[r] = new
      /\ \A q \in Records \ {r} : row'[q] = row[q]
    BY <1>2 DEF Inv, TypeOK
<1> HIDE DEF new
<1>4. new # NoRow
    BY <1>2 DEF Rows, NoRow
<1>5. \A q \in Records : /\ Stored(q)' <=> Stored(q)
                         /\ row'[q].original = row[q].original
                         /\ row'[q].known = row[q].known
    BY <1>2, <1>3, <1>4 DEF Stored
<1>6. \A q \in Records : Settled(q) => Settled(q)'
    BY <1>2, <1>3, <1>5 DEF Settled
<1>7. KnownInv'
  <2>1. SUFFICES ASSUME NEW q \in Records, Stored(q)', NEW p \in row'[q].known
                 PROVE  Settled(p)'
      BY DEF KnownInv
  <2>2. Stored(q) /\ p \in row[q].known /\ row[q].known \in SUBSET Records
      BY <1>5, <2>1, StoredRow DEF Inv, Rows
  <2> QED BY <1>6, <2>2 DEF Inv, KnownInv
<1> QED BY <1>2, <1>3, <1>5, <1>6, <1>7

\* The goroutines rely on nothing else of the tables.
LEMMA OthersKeep ==
    ASSUME Inv, NEW d \in Calls,
           \A q \in Records : /\ Stored(q) => Stored(q)'
                              /\ row'[q].original = row[q].original
                              /\ Settled(q) => Settled(q)',
           approvals \subseteq approvals',
           call'[d] = call[d]
    PROVE  CallOK(call[d])'
<1>1. CallOK(call[d]) /\ call[d].known \in SUBSET Records
    BY CallFields DEF Inv, CallInv
<1> QED BY <1>1 DEF CallOK

\* UpdateRollbackStatus is such a rewriting.
LEMMA UpdateIsRewrite ==
    ASSUME Inv, NEW r \in Records, Stored(r), NEW s \in Statuses, UpdateRollbackStatus(r, s)
    PROVE  /\ row[r].approval \in BOOLEAN
           /\ row' = [row EXCEPT ![r] = [row[r] EXCEPT !.status = s, !.approval = row[r].approval]]
           /\ revived \subseteq revived' /\ revived' \subseteq Records
           /\ row[r].status \in Closed => s \in Closed \/ r \in revived'
<1>1. row[r] \in Rows
    BY StoredRow DEF Inv
<1>2. [row[r] EXCEPT !.status = s, !.approval = row[r].approval] = [row[r] EXCEPT !.status = s]
    BY <1>1 DEF Rows
<1>3. row' = [row EXCEPT ![r] = [row[r] EXCEPT !.status = s]]
    BY DEF UpdateRollbackStatus, Inv, TypeOK
<1>4. row' = [row EXCEPT ![r] = [row[r] EXCEPT !.status = s, !.approval = row[r].approval]]
    BY <1>2, <1>3
<1>5. row[r].approval \in BOOLEAN
    BY <1>1 DEF Rows
<1>6. revived \subseteq revived' /\ revived' \subseteq Records
    BY DEF UpdateRollbackStatus, Inv, TypeOK
<1>7. row[r].status \in Closed => s \in Closed \/ r \in revived'
    BY DEF UpdateRollbackStatus
<1> QED BY <1>4, <1>5, <1>6, <1>7

\* A status update, with the goroutine that made it moving on, keeps the
\* invariant when what the goroutine relies on next holds and a status of
\* "executing" has its executor.
LEMMA UpdateInv ==
    ASSUME Inv, NEW c \in Calls, NEW r \in Records, Stored(r), NEW s \in Statuses,
           UpdateRollbackStatus(r, s),
           NEW new \in CallStates, Step(c, new), CallOK(new)',
           s = "executing" => new.pc \in Working /\ new.rec = r,
           call[c].pc \in Working => call[c].rec = r,
           UNCHANGED <<executed, approvals, applied, orphaned, shared, restarts>>
    PROVE  Inv'
<1>1. /\ row' \in [Records -> Rows \cup {NoRow}]
      /\ row'[r].status = s /\ row'[r].approval = row[r].approval
      /\ \A q \in Records : /\ Stored(q)' <=> Stored(q)
                            /\ row'[q].original = row[q].original
                            /\ Settled(q) => Settled(q)'
      /\ \A q \in Records \ {r} : row'[q] = row[q]
      /\ KnownInv'
  <2> DEFINE b == row[r].approval
  <2>1. /\ b \in BOOLEAN
        /\ row' = [row EXCEPT ![r] = [row[r] EXCEPT !.status = s, !.approval = b]]
        /\ revived \subseteq revived' /\ revived' \subseteq Records
        /\ row[r].status \in Closed => s \in Closed \/ r \in revived'
      BY UpdateIsRewrite
  <2> HIDE DEF b
  <2>2. /\ row' \in [Records -> Rows \cup {NoRow}]
        /\ row'[r].status = s /\ row'[r].approval = b
        /\ \A q \in Records : /\ Stored(q)' <=> Stored(q)
                              /\ row'[q].original = row[q].original
                              /\ Settled(q) => Settled(q)'
        /\ \A q \in Records \ {r} : row'[q] = row[q]
        /\ KnownInv'
      BY <2>1, RewriteKeeps
  <2> QED BY <2>2 DEF b
<1>2. revived' \subseteq Records
    BY UpdateIsRewrite
<1>3. /\ call' \in [Calls -> CallStates]
      /\ call'[c] = new /\ \A d \in Calls \ {c} : call'[d] = call[d]
    BY DEF Inv, TypeOK, Step
<1>4. TypeOK'
    BY <1>1, <1>2, <1>3 DEF Inv, TypeOK
<1>5. CallInv'
  <2>1. \A d \in Calls \ {c} : CallOK(call[d])'
      BY <1>1, <1>3, OthersKeep
  <2> QED BY <1>3, <2>1 DEF CallInv, CallOK
<1>6. ApprovalsBelong'
    BY <1>1 DEF Inv, ApprovalsBelong, TypeOK
<1>7. ExecutingExplained'
  <2>1. SUFFICES ASSUME NEW q \in Records, row'[q].status = "executing"
                 PROVE  \/ q \in orphaned'
                        \/ \E d \in Calls : call'[d].rec = q /\ call'[d].pc \in Working
      BY DEF ExecutingExplained, Working
  <2>2. CASE q = r
      BY <1>1, <1>3, <2>1, <2>2
  <2>3. CASE q # r
    <3>1. row[q].status = "executing"
        BY <1>1, <2>1, <2>3
    <3>2. CASE q \in orphaned
        BY <3>2
    <3>3. CASE \E d \in Calls : call[d].rec = q /\ call[d].pc \in Working
        BY <1>3, <2>3, <3>3
    <3> QED BY <3>1, <3>2, <3>3 DEF Inv, ExecutingExplained, Working
  <2> QED BY <2>2, <2>3
<1> QED BY <1>1, <1>4, <1>5, <1>6, <1>7 DEF Inv

\* SetRollbackApprovalID keeps the invariant: the approval is stored by then.
LEMMA InitiateLinkInv ==
    ASSUME Inv, NEW c \in Calls, InitiateLink(c)
    PROVE  Inv'
<1>1. call[c] \in CallStates /\ CallOK(call[c]) /\ call[c].pc = "link"
    BY DEF Inv, TypeOK, CallInv, InitiateLink
<1> DEFINE r == call[c].rec
           new == [call[c] EXCEPT !.pc = "initiated"]
<1>2. r \in Records /\ Stored(r) /\ row[r].original \in Events /\ r \in approvals
    BY <1>1 DEF CallOK, Holding, PCs
<1>3. new \in CallStates /\ CallOK(new) /\ new.pc = "initiated" /\ new.rec = r
    BY <1>1, <1>2 DEF CallStates, PCs, CallOK, Holding
<1>4. Step(c, new) /\ UNCHANGED <<executed, approvals, applied, revived, orphaned, shared, restarts>>
    BY DEF InitiateLink
<1>5. CASE UNCHANGED row
  <2>1. call[c].pc \notin Working
      BY <1>1 DEF Working
  <2> HIDE DEF new, r
  <2> QED BY <1>3, <1>4, <1>5, <2>1, CallOnly
<1>6. CASE row' = [row EXCEPT ![r].approval = TRUE]
  <2>1. row[r] \in Rows
      BY <1>2, StoredRow DEF Inv
  <2>2. row[r].status \in Statuses
      BY <2>1 DEF Rows
  <2>3. [row[r] EXCEPT !.status = row[r].status, !.approval = TRUE] = [row[r] EXCEPT !.approval = TRUE]
      BY <2>1 DEF Rows
  <2>4. row' = [row EXCEPT ![r] = [row[r] EXCEPT !.approval = TRUE]]
      BY <1>2, <1>6 DEF Inv, TypeOK
  <2>5. row' = [row EXCEPT ![r] = [row[r] EXCEPT !.status = row[r].status, !.approval = TRUE]]
      BY <2>3, <2>4
  <2>6. revived \subseteq revived' /\ revived' \subseteq Records
        /\ (row[r].status \in Closed => row[r].status \in Closed \/ r \in revived')
      BY <1>4 DEF Inv, TypeOK
  <2> HIDE DEF new, r
  <2>7. /\ row' \in [Records -> Rows \cup {NoRow}]
        /\ row'[r].status = row[r].status /\ row'[r].approval = TRUE
        /\ \A q \in Records : /\ Stored(q)' <=> Stored(q)
                              /\ row'[q].original = row[q].original
                              /\ Settled(q) => Settled(q)'
        /\ \A q \in Records \ {r} : row'[q] = row[q]
        /\ KnownInv'
      BY <1>2, <2>2, <2>5, <2>6, RewriteKeeps
  <2>8. /\ call' \in [Calls -> CallStates]
        /\ call'[c] = new /\ \A d \in Calls \ {c} : call'[d] = call[d]
      BY <1>3, <1>4 DEF Inv, TypeOK, Step
  <2>9. TypeOK'
      BY <1>4, <2>7, <2>8 DEF Inv, TypeOK
  <2>10. CallInv'
    <3>1. \A d \in Calls \ {c} : CallOK(call[d])'
        BY <1>4, <2>7, <2>8, OthersKeep
    <3>2. CallOK(call[c])'
        BY <1>2, <1>3, <2>7, <2>8 DEF CallOK
    <3> QED BY <3>1, <3>2 DEF CallInv
  <2>11. ApprovalsBelong'
      BY <1>2, <1>4, <2>7 DEF Inv, ApprovalsBelong, TypeOK
  <2>12. ExecutingExplained'
    <3>1. \A q \in Records : row'[q].status = row[q].status
        BY <2>7
    <3>2. call[c].pc \notin Working
        BY <1>1 DEF Working
    <3> QED BY <1>4, <2>8, <3>1, <3>2 DEF Inv, ExecutingExplained, Working
  <2> QED BY <2>7, <2>9, <2>10, <2>11, <2>12 DEF Inv
<1> QED BY <1>5, <1>6 DEF InitiateLink

\* An update leaves the record in its table, with its original.
LEMMA UpdateStores ==
    ASSUME Inv, NEW r \in Records, Stored(r), NEW s, UpdateRollbackStatus(r, s)
    PROVE  row'[r].original = row[r].original /\ Stored(r)'
<1>1. row[r] \in Rows /\ row[r].original \in Originals
    BY StoredRow DEF Inv, Rows
<1>2. row'[r] = [row[r] EXCEPT !.status = s]
    BY DEF UpdateRollbackStatus, Inv, TypeOK
<1>3. row'[r].original = row[r].original
    BY <1>1, <1>2 DEF Rows
<1> QED BY <1>1, <1>3 DEF Stored, NoRow

\* handleCancelRollback's UPDATE keeps the invariant, whatever the status has
\* become since the read.
LEMMA CancelUpdateInv ==
    ASSUME Inv, NEW c \in Calls, CancelUpdate(c)
    PROVE  Inv'
<1>1. CallOK(call[c]) /\ call[c].pc = "cancel"
    BY DEF Inv, CallInv, CancelUpdate
<1>2. call[c].rec \in Records /\ Stored(call[c].rec) /\ call[c].pc \notin Working
    BY <1>1 DEF CallOK, Holding, PCs, Working
<1>3. CASE UNCHANGED <<row, revived>>
    BY <1>2, <1>3, FinishInv DEF CancelUpdate
<1>4. CASE UpdateRollbackStatus(call[c].rec, "cancelled")
  <2>1. CallOK(Idle)'
      BY DEF CallOK, Idle, Holding
  <2>2. Step(c, Idle) /\ "cancelled" \in Statuses
      BY DEF CancelUpdate, Finish, Statuses
  <2>3. UNCHANGED <<executed, approvals, applied, orphaned, shared, restarts>>
      BY DEF CancelUpdate
  <2> QED BY <1>2, <1>4, <2>1, <2>2, <2>3, UpdateInv, IdleTyped
<1> QED BY <1>3, <1>4 DEF CancelUpdate

\* The transition to executing keeps the invariant, cancelled meanwhile or not.
LEMMA ExecuteStartInv ==
    ASSUME Inv, NEW c \in Calls, ExecuteStart(c)
    PROVE  Inv'
<1>1. CallOK(call[c]) /\ call[c].pc = "start" /\ call[c] \in CallStates
    BY DEF Inv, TypeOK, CallInv, ExecuteStart
<1>2. PICK r \in Records : r = call[c].rec
    BY <1>1 DEF CallOK, Holding, PCs
<1>3. Stored(r) /\ row[r].original \in Events /\ call[c].pc \notin Working
    BY <1>1, <1>2 DEF CallOK, Holding, PCs, Working
<1>4. PICK new \in CallStates : new = [call[c] EXCEPT !.pc = "dispatch"]
    BY <1>1 DEF CallStates, PCs
<1>5. new.pc = "dispatch" /\ new.rec = r
    BY <1>1, <1>2, <1>4 DEF CallStates
<1>6. CASE UpdateRollbackStatus(r, "executing") /\ Step(c, new)
  <2>1. UNCHANGED <<executed, approvals, applied, orphaned, shared, restarts>>
      BY DEF ExecuteStart
  <2>2. row'[r].original \in Events /\ Stored(r)'
      BY <1>3, <1>6, UpdateStores
  <2>3. CallOK(new)'
      BY <1>5, <2>2 DEF CallOK
  <2>4. "executing" \in Statuses /\ "dispatch" \in Working
      BY DEF Statuses, Working
  <2> QED BY <1>3, <1>5, <1>6, <2>1, <2>3, <2>4, UpdateInv
<1>7. CASE Finish(c) /\ UNCHANGED <<row, revived>>
    BY <1>3, <1>7, FinishInv DEF ExecuteStart
<1> QED BY <1>2, <1>4, <1>6, <1>7 DEF ExecuteStart

\* Dispatch: the executor goes on with its record.
LEMMA DispatchInv ==
    ASSUME Inv, NEW c \in Calls, Dispatch(c)
    PROVE  Inv'
<1>1. CallOK(call[c]) /\ call[c].pc = "dispatch" /\ call[c] \in CallStates
    BY DEF Inv, TypeOK, CallInv, Dispatch
<1>2. PICK r \in Records : r = call[c].rec
    BY <1>1 DEF CallOK, Holding, PCs
<1>3. Stored(r) /\ row[r].original \in Events
    BY <1>1, <1>2 DEF CallOK, Holding, PCs
<1>4. PICK did \in BOOLEAN, outcome \in {"success", "failed"} :
        /\ did => applied[r] < MaxApplied
        /\ applied' = [applied EXCEPT ![r] = IF did THEN @ + 1 ELSE @]
        /\ Step(c, [call[c] EXCEPT !.pc = "persist", !.outcome = outcome])
    BY <1>2 DEF Dispatch
<1>5. PICK new \in CallStates : new = [call[c] EXCEPT !.pc = "persist", !.outcome = outcome]
    BY <1>1 DEF CallStates, PCs
<1>6. new.pc = "persist" /\ new.rec = r /\ new.outcome = outcome
    BY <1>1, <1>2, <1>5 DEF CallStates
<1>7. UNCHANGED <<executed, row, approvals, revived, orphaned, shared, restarts>>
    BY DEF Dispatch
<1>8. applied' \in [Records -> 0..MaxApplied]
    BY <1>4 DEF Inv, TypeOK
<1>9. /\ call' \in [Calls -> CallStates]
      /\ call'[c] = new /\ \A d \in Calls \ {c} : call'[d] = call[d]
    BY <1>4, <1>5 DEF Inv, TypeOK, Step
<1>10. TypeOK'
    BY <1>7, <1>8, <1>9 DEF Inv, TypeOK
<1>11. CallInv'
  <2>1. \A q \in Records : /\ Stored(q) => Stored(q)'
                           /\ row'[q].original = row[q].original
                           /\ Settled(q) => Settled(q)'
      BY <1>7 DEF Stored, Settled
  <2>2. \A d \in Calls \ {c} : CallOK(call[d])'
      BY <1>7, <1>9, <2>1, OthersKeep
  <2>3. CallOK(call[c])'
      BY <1>3, <1>6, <1>7, <1>9 DEF CallOK, Stored
  <2> QED BY <2>2, <2>3 DEF CallInv
<1>12. KnownInv' /\ ApprovalsBelong'
    BY <1>7 DEF Inv, KnownInv, ApprovalsBelong, Settled, Stored
<1>13. ExecutingExplained'
    BY <1>1, <1>2, <1>6, <1>7, <1>9 DEF Inv, ExecutingExplained
<1> QED BY <1>10, <1>11, <1>12, <1>13 DEF Inv

\* Storing the result, or losing it, keeps the invariant.
LEMMA ExecutePersistInv ==
    ASSUME Inv, NEW c \in Calls, ExecutePersist(c)
    PROVE  Inv'
<1>1. CallOK(call[c]) /\ call[c].pc = "persist" /\ call[c] \in CallStates
    BY DEF Inv, TypeOK, CallInv, ExecutePersist
<1>2. PICK r \in Records : r = call[c].rec
    BY <1>1 DEF CallOK, Holding, PCs
<1>3. PICK s \in {"success", "failed"} : s = call[c].outcome
    BY <1>1 DEF CallStates
<1>4. Stored(r) /\ row[r].original \in Events
    BY <1>1, <1>2 DEF CallOK, Holding, PCs
<1>5. PICK new \in CallStates : new = [call[c] EXCEPT !.pc = "executed"]
    BY <1>1 DEF CallStates, PCs
<1>6. new.pc = "executed" /\ new.rec = r /\ new.outcome = s
    BY <1>1, <1>2, <1>3, <1>5 DEF CallStates
<1>7. Step(c, new) /\ UNCHANGED <<executed, approvals, applied, shared, restarts>>
    BY <1>5 DEF ExecutePersist
<1>8. CASE UpdateRollbackStatus(r, s) /\ UNCHANGED orphaned
  <2>1. row'[r].original \in Events /\ Stored(r)'
      BY <1>4, <1>8, UpdateStores
  <2>2. CallOK(new)'
      BY <1>4, <1>6, <1>7, <2>1 DEF CallOK
  <2>3. s \in Statuses /\ s # "executing"
      BY DEF Statuses
  <2> QED BY <1>2, <1>4, <1>7, <1>8, <2>2, <2>3, UpdateInv
<1>9. CASE orphaned' = orphaned \cup {r} /\ UNCHANGED <<row, revived>>
  <2>1. /\ call' \in [Calls -> CallStates]
        /\ call'[c] = new /\ \A d \in Calls \ {c} : call'[d] = call[d]
      BY <1>7 DEF Inv, TypeOK, Step
  <2>2. TypeOK'
      BY <1>7, <1>9, <2>1 DEF Inv, TypeOK
  <2>3. CallInv'
    <3>1. \A q \in Records : /\ Stored(q) => Stored(q)'
                             /\ row'[q].original = row[q].original
                             /\ Settled(q) => Settled(q)'
        BY <1>9 DEF Stored, Settled
    <3>2. \A d \in Calls \ {c} : CallOK(call[d])'
        BY <1>7, <2>1, <3>1, OthersKeep
    <3>3. CallOK(call[c])'
        BY <1>4, <1>6, <1>7, <1>9, <2>1 DEF CallOK, Stored
    <3> QED BY <3>2, <3>3 DEF CallInv
  <2>4. KnownInv' /\ ApprovalsBelong'
      BY <1>7, <1>9 DEF Inv, KnownInv, ApprovalsBelong, Settled, Stored
  <2>5. ExecutingExplained'
      BY <1>2, <1>9, <2>1 DEF Inv, ExecutingExplained
  <2> QED BY <2>2, <2>3, <2>4, <2>5 DEF Inv
<1> QED BY <1>2, <1>3, <1>8, <1>9 DEF ExecutePersist

\* The audit events of an execution keep the invariant.
LEMMA ExecuteEmitInv ==
    ASSUME Inv, NEW c \in Calls, ExecuteEmit(c)
    PROVE  Inv'
BY FinishInv DEF ExecuteEmit, Working

\* A restart forgets every goroutine and counts the executions it cut short.
LEMMA RestartInv ==
    ASSUME Inv, Restart
    PROVE  Inv'
<1>1. UNCHANGED <<executed, row, approvals, applied, revived, shared>>
      /\ \A c \in Calls : call'[c] = Idle
    BY DEF Restart
<1>2. \A c \in Calls : call[c].pc \in Working => call[c].rec \in Records /\ call[c].rec \in orphaned'
    BY DEF Restart, Inv, CallInv, CallOK, Holding, PCs, Working
<1>3. orphaned \subseteq orphaned' /\ orphaned' \subseteq Records
    BY <1>2 DEF Restart, Inv, TypeOK, Working
<1>4. call' \in [Calls -> CallStates] /\ restarts' \in 0..MaxRestarts
    BY IdleTyped DEF Restart, Inv, TypeOK
<1>5. TypeOK'
    BY <1>1, <1>3, <1>4 DEF Inv, TypeOK
<1>6. CallInv'
    BY <1>1 DEF CallInv, CallOK, Idle, Holding
<1>7. KnownInv' /\ ApprovalsBelong'
    BY <1>1 DEF Inv, KnownInv, ApprovalsBelong, Settled, Stored
<1>8. ExecutingExplained'
    BY <1>1, <1>2, <1>3 DEF Inv, ExecutingExplained, Working
<1> QED BY <1>5, <1>6, <1>7, <1>8 DEF Inv

-----------------------------------------------------------------------------
(* The specification. *)

\* The empty tables satisfy the invariant.
LEMMA InitInv == Init => Inv
<1> SUFFICES ASSUME Init PROVE Inv
    OBVIOUS
<1>1. /\ row = [r \in Records |-> NoRow] /\ call = [c \in Calls |-> Idle]
      /\ applied = [r \in Records |-> 0]
      /\ approvals = {} /\ revived = {} /\ orphaned = {} /\ shared = {} /\ restarts = 0
    BY DEF Init
<1>2. TypeOK
    BY <1>1, IdleTyped DEF Init, TypeOK
<1>3. CallInv
    BY <1>1, IdleTyped DEF CallInv
<1>4. KnownInv /\ ApprovalsBelong /\ ExecutingExplained
    BY <1>1 DEF KnownInv, ApprovalsBelong, ExecutingExplained, Stored, NoRow
<1> QED BY <1>2, <1>3, <1>4 DEF Inv

\* So does a state that only repeats.
LEMMA StutterInv == Inv /\ UNCHANGED vars => Inv'
BY DEF vars, Inv, TypeOK, CallInv, CallOK, KnownInv, ApprovalsBelong, ExecutingExplained,
       Settled, Stored

\* One statement of one goroutine, or a restart.
LEMMA NextInv == Inv /\ [Next]_vars => Inv'
<1> SUFFICES ASSUME Inv, [Next]_vars PROVE Inv'
    OBVIOUS
<1>1. ASSUME NEW c \in Calls, Initiate(c) PROVE Inv'
    BY <1>1, InitiateCheckInv, InitiateFleetCheckInv, InitiateInsertInv, InitiateFleetInsertInv,
       InitiateEndsInv, InitiateApprovalInv, InitiateLinkInv DEF Initiate
<1>2. ASSUME NEW c \in Calls, Cancel(c) PROVE Inv'
    BY <1>2, CancelReadInv, CancelUpdateInv DEF Cancel
<1>3. ASSUME NEW c \in Calls, Execute(c) PROVE Inv'
    BY <1>3, ExecuteLoadInv, ExecuteStartInv, DispatchInv, ExecutePersistInv, ExecuteEmitInv
       DEF Execute
<1> QED BY <1>1, <1>2, <1>3, RestartInv, StutterInv DEF Next

\* A record whose duplicate check saw another one saw it closed, so two active
\* records of one original did not see each other or one was revived.
LEMMA KnownExplains == Inv => DuplicatesExplained
BY DEF Inv, KnownInv, DuplicatesExplained, Settled

\* The inductive invariant holds in every state of the rollback handlers and
\* the executor.
THEOREM RollbackInvariance == Spec => []Inv
BY InitInv, NextInv, PTL DEF Spec

\* Every variable of the rollback model keeps its type.
THEOREM RollbackTypes == Spec => []TypeOK
<1>1. Inv => TypeOK
    BY DEF Inv
<1> QED BY <1>1, RollbackInvariance, PTL

\* Requests that follow one another never produce two active rollbacks of one
\* event or job (handleInitiateRollback's 409).
THEOREM DuplicatesAreExplained == Spec => []DuplicatesExplained
BY RollbackInvariance, KnownExplains, PTL

\* Every approval of a rollback has its record, and every approval_id its
\* approval (handleInitiateRollback).
THEOREM ApprovalsHaveRecords == Spec => []ApprovalsBelong
<1>1. Inv => ApprovalsBelong
    BY DEF Inv
<1> QED BY <1>1, RollbackInvariance, PTL

\* A record is "executing" only while an executor works on it or after one was
\* lost (Execute).
THEOREM ExecutionsAreExplained == Spec => []ExecutingExplained
<1>1. Inv => ExecutingExplained
    BY DEF Inv
<1> QED BY <1>1, RollbackInvariance, PTL

-----------------------------------------------------------------------------
(* How often an inverse operation is carried out. *)

Holds(c, r) == call[c].rec = r /\ call[c].pc \in {"start", "dispatch", "persist"}

\* A record that never had two executors and lost none has at most one now; once
\* its inverse was carried out, that one is about to store the result, or the record
\* is terminal and nobody works on it.
OnceInv ==
    \A r \in Records :
        /\ applied[r] > 0 => Stored(r)
        /\ r \notin orphaned \cup shared =>
             /\ \A c, d \in Calls : Holds(c, r) /\ Holds(d, r) => c = d
             /\ applied[r] <= 1
             /\ applied[r] = 1 =>
                  \/ \E c \in Calls : Holds(c, r) /\ call[c].pc = "persist"
                  \/ row[r].status \in Terminal /\ \A c \in Calls : ~Holds(c, r)

\* A step that gives no record a new executor and carries nothing out keeps this,
\* when an executor leaves behind a terminal status and a terminal record without an
\* executor stays terminal.
LEMMA OnceKept ==
    ASSUME Inv, OnceInv, applied' = applied,
           orphaned \subseteq orphaned', shared \subseteq shared',
           \A r \in Records : Stored(r) => Stored(r)',
           \A c \in Calls, r \in Records : Holds(c, r)' => Holds(c, r),
           \A c \in Calls, r \in Records : Holds(c, r) /\ call[c].pc = "persist" =>
               \/ r \in orphaned'
               \/ Holds(c, r)' /\ call'[c].pc = "persist"
               \/ row'[r].status \in Terminal /\ ~Holds(c, r)',
           \A r \in Records : Stored(r) /\ row[r].status \in Terminal /\ (\A c \in Calls : ~Holds(c, r))
               => row'[r].status \in Terminal
    PROVE  OnceInv'
<1>1. ASSUME NEW r \in Records, r \notin orphaned' \cup shared'
      PROVE  /\ \A c, d \in Calls : Holds(c, r)' /\ Holds(d, r)' => c = d
             /\ applied[r] <= 1
    BY <1>1 DEF OnceInv
<1>2. ASSUME NEW r \in Records, r \notin orphaned' \cup shared', applied[r] = 1
      PROVE  \/ \E c \in Calls : Holds(c, r)' /\ call'[c].pc = "persist"
             \/ row'[r].status \in Terminal /\ \A c \in Calls : ~Holds(c, r)'
  <2>1. CASE \E c \in Calls : Holds(c, r) /\ call[c].pc = "persist"
    <3>1. PICK c \in Calls : Holds(c, r) /\ call[c].pc = "persist"
        BY <2>1
    <3>2. \A d \in Calls : Holds(d, r) => d = c
        BY <1>2, <3>1 DEF OnceInv
    <3> QED BY <1>2, <3>1, <3>2
  <2>2. CASE row[r].status \in Terminal /\ \A c \in Calls : ~Holds(c, r)
    <3>1. Stored(r)
        BY <1>2 DEF OnceInv
    <3> QED BY <2>2, <3>1
  <2> QED BY <1>2, <2>1, <2>2 DEF OnceInv
<1>3. ASSUME NEW r \in Records, applied'[r] > 0 PROVE Stored(r)'
    BY <1>3 DEF OnceInv
<1> QED BY <1>1, <1>2, <1>3 DEF OnceInv

\* A goroutine without an execution in hand that moves on.
LEMMA OnceMoves ==
    ASSUME Inv, OnceInv, NEW c \in Calls, NEW new,
           Step(c, new), call[c].pc \notin {"start", "dispatch", "persist"},
           new.pc \notin {"start", "dispatch", "persist"},
           applied' = applied, orphaned' = orphaned, shared' = shared,
           \A r \in Records : Stored(r) => Stored(r)',
           \A r \in Records : Stored(r) /\ row[r].status \in Terminal => row'[r].status \in Terminal
    PROVE  OnceInv'
<1>1. call'[c] = new /\ \A d \in Calls \ {c} : call'[d] = call[d]
    BY DEF Inv, TypeOK, Step
<1>2. \A d \in Calls, r \in Records : Holds(d, r)' <=> Holds(d, r)
    BY <1>1 DEF Holds
<1>3. \A d \in Calls, r \in Records : Holds(d, r) /\ call[d].pc = "persist" => call'[d].pc = "persist"
    BY <1>1 DEF Holds
<1> QED BY <1>2, <1>3, OnceKept

\* Initiating a rollback.
LEMMA OnceInitiate ==
    ASSUME Inv, OnceInv, NEW c \in Calls, Initiate(c)
    PROVE  OnceInv'
<1>1. \A r \in Records : row[r] = NoRow \/ row[r] \in Rows
    BY DEF Inv, TypeOK
<1>2. ASSUME NEW o \in Events, InitiateCheck(c, o) PROVE OnceInv'
  <2> DEFINE new == [Idle EXCEPT !.pc = "insert", !.original = o, !.known = Of(o)]
  <2>1. new.pc = "insert" /\ call[c].pc = "idle" /\ Step(c, new) /\ UNCHANGED row
        /\ applied' = applied /\ orphaned' = orphaned /\ shared' = shared
      BY <1>2 DEF InitiateCheck, Idle
  <2> HIDE DEF new
  <2> QED BY <2>1, OnceMoves DEF Stored
<1>3. ASSUME NEW j \in Jobs, InitiateFleetCheck(c, j) PROVE OnceInv'
  <2> DEFINE new == [Idle EXCEPT !.pc = "fleet", !.original = j, !.known = Of(j)]
  <2>1. new.pc = "fleet" /\ call[c].pc = "idle" /\ Step(c, new) /\ UNCHANGED row
        /\ applied' = applied /\ orphaned' = orphaned /\ shared' = shared
      BY <1>3 DEF InitiateFleetCheck, Idle
  <2> HIDE DEF new
  <2> QED BY <2>1, OnceMoves DEF Stored
<1>4. ASSUME NEW r \in Records, InitiateInsert(c, r) \/ InitiateFleetInsert(c, r) PROVE OnceInv'
  <2>1. \A q \in Records \ {r} : row'[q] = row[q]
      BY <1>4 DEF InitiateInsert, InitiateFleetInsert, Inv, TypeOK
  <2>2. \A q \in Records : Stored(q) => q # r /\ Stored(q)' /\ row'[q] = row[q]
      BY <1>4, <2>1 DEF InitiateInsert, InitiateFleetInsert, Stored
  <2>3. call[c] \in CallStates
      BY DEF Inv, TypeOK
  <2>4. CASE InitiateInsert(c, r)
    <3> DEFINE new == [call[c] EXCEPT !.pc = "approve", !.rec = r, !.known = {}]
    <3>1. new.pc = "approve"
        BY <2>3 DEF CallStates
    <3> QED BY <2>2, <2>4, <3>1, OnceMoves DEF InitiateInsert
  <2>5. CASE InitiateFleetInsert(c, r)
      BY <2>2, <2>5, OnceMoves DEF InitiateFleetInsert, Finish, Idle
  <2> QED BY <1>4, <2>4, <2>5
<1>5. ASSUME InitiateInsertFailed(c) \/ InitiateEmit(c) PROVE OnceInv'
    BY <1>5, OnceMoves DEF InitiateInsertFailed, InitiateEmit, Finish, Idle, Stored
<1>6. ASSUME InitiateApproval(c) PROVE OnceInv'
  <2>1. call[c] \in CallStates
      BY DEF Inv, TypeOK
  <2>2. PICK pc \in {"link", "initiated"} : Step(c, [call[c] EXCEPT !.pc = pc])
      BY <1>6 DEF InitiateApproval
  <2>3. [call[c] EXCEPT !.pc = pc].pc = pc
      BY <2>1 DEF CallStates
  <2> QED BY <1>6, <2>2, <2>3, OnceMoves DEF InitiateApproval, Stored
<1>7. ASSUME InitiateLink(c) PROVE OnceInv'
  <2>1. call[c] \in CallStates /\ call[c].pc = "link" /\ CallOK(call[c])
      BY <1>7 DEF InitiateLink, Inv, TypeOK, CallInv
  <2>2. call[c].rec \in Records /\ row[call[c].rec] \in Rows
      BY <1>1, <2>1 DEF CallOK, Holding, PCs, Stored
  <2>3. /\ \A q \in Records : Stored(q) => Stored(q)'
        /\ \A q \in Records : Stored(q) /\ row[q].status \in Terminal => row'[q].status \in Terminal
    <3>1. CASE UNCHANGED row
        BY <3>1 DEF Stored
    <3>2. CASE row' = [row EXCEPT ![call[c].rec].approval = TRUE]
      <4>1. row'[call[c].rec] = [row[call[c].rec] EXCEPT !.approval = TRUE]
          BY <2>2, <3>2 DEF Inv, TypeOK
      <4>2. /\ row'[call[c].rec].status = row[call[c].rec].status
            /\ row'[call[c].rec].original = row[call[c].rec].original
            /\ row[call[c].rec].original # None
          BY <2>2, <4>1 DEF Rows
      <4>3. \A q \in Records \ {call[c].rec} : row'[q] = row[q]
          BY <3>2 DEF Inv, TypeOK
      <4> QED BY <4>2, <4>3 DEF Stored, NoRow
    <3> QED BY <1>7, <3>1, <3>2 DEF InitiateLink
  <2> DEFINE new == [call[c] EXCEPT !.pc = "initiated"]
  <2>4. new.pc = "initiated" /\ Step(c, new)
        /\ applied' = applied /\ orphaned' = orphaned /\ shared' = shared
      BY <1>7, <2>1 DEF CallStates, InitiateLink
  <2> HIDE DEF new
  <2> QED BY <2>1, <2>3, <2>4, OnceMoves
<1> QED BY <1>2, <1>3, <1>4, <1>5, <1>6, <1>7 DEF Initiate

\* Cancelling one: "cancelled" is terminal.
LEMMA OnceCancel ==
    ASSUME Inv, OnceInv, NEW c \in Calls, Cancel(c)
    PROVE  OnceInv'
<1>1. ASSUME NEW r \in Records, CancelRead(c, r) PROVE OnceInv'
  <2> DEFINE new == [Idle EXCEPT !.pc = "cancel", !.rec = r]
  <2>1. new.pc = "cancel" /\ call[c].pc = "idle" /\ Step(c, new) /\ UNCHANGED row
        /\ applied' = applied /\ orphaned' = orphaned /\ shared' = shared
      BY <1>1 DEF CancelRead, Idle
  <2> HIDE DEF new
  <2> QED BY <2>1, OnceMoves DEF Stored
<1>2. ASSUME CancelUpdate(c) PROVE OnceInv'
  <2>1. PICK r \in Records : r = call[c].rec
      BY <1>2 DEF CancelUpdate, Inv, CallInv, CallOK, Holding, PCs
  <2>2. call[c].pc = "cancel" /\ Stored(r)
      BY <1>2, <2>1 DEF CancelUpdate, Inv, CallInv, CallOK, Holding, PCs
  <2>3. /\ \A q \in Records : Stored(q) => Stored(q)'
        /\ \A q \in Records : Stored(q) /\ row[q].status \in Terminal => row'[q].status \in Terminal
    <3>1. CASE UNCHANGED row
        BY <3>1 DEF Stored
    <3>2. CASE UpdateRollbackStatus(r, "cancelled")
      <4>1. Stored(r)'
          BY <2>2, <3>2, UpdateStores
      <4>2. row[r] \in Rows
          BY <2>2, StoredRow DEF Inv
      <4>3. /\ \A q \in Records \ {r} : row'[q] = row[q]
            /\ row'[r].status = "cancelled"
          BY <3>2, <4>2 DEF UpdateRollbackStatus, Inv, TypeOK, Rows
      <4> QED BY <4>1, <4>3 DEF Stored, Terminal
    <3> QED BY <1>2, <2>1, <3>1, <3>2 DEF CancelUpdate
  <2>4. /\ Step(c, Idle) /\ Idle.pc = "idle"
        /\ applied' = applied /\ orphaned' = orphaned /\ shared' = shared
      BY <1>2 DEF CancelUpdate, Finish, Idle
  <2> QED BY <2>2, <2>3, <2>4, OnceMoves
<1> QED BY <1>1, <1>2 DEF Cancel

\* Loading a record that is not terminal: either somebody is at work on it, and it
\* is shared from now on, or its inverse has not been carried out.
LEMMA OnceLoad ==
    ASSUME Inv, OnceInv, NEW c \in Calls, NEW r \in Records, ExecuteLoad(c, r)
    PROVE  OnceInv'
<1>1. /\ call[c].pc = "idle" /\ Stored(r) /\ row[r].status \notin Terminal
      /\ applied' = applied /\ row' = row /\ orphaned' = orphaned
      /\ shared' = IF Executing(r) THEN shared \cup {r} ELSE shared
    BY DEF ExecuteLoad, Idle
<1>2. /\ call'[c].pc = "start" /\ call'[c].rec = r
      /\ \A d \in Calls \ {c} : call'[d] = call[d]
    BY DEF ExecuteLoad, Step, Idle, Inv, TypeOK
<1>3. \A q \in Records : applied'[q] > 0 => Stored(q)'
    BY <1>1 DEF OnceInv, Stored
<1>4. ASSUME NEW q \in Records, q \notin orphaned' \cup shared'
      PROVE  /\ \A d, e \in Calls : Holds(d, q)' /\ Holds(e, q)' => d = e
             /\ applied'[q] <= 1
             /\ applied'[q] = 1 =>
                  \/ \E d \in Calls : Holds(d, q)' /\ call'[d].pc = "persist"
                  \/ row'[q].status \in Terminal /\ \A d \in Calls : ~Holds(d, q)'
  <2>1. q \notin orphaned \cup shared
      BY <1>1, <1>4
  <2>2. CASE q = r
    <3>1. \A d \in Calls : ~Holds(d, r)
        BY <1>1, <1>4, <2>2 DEF Executing, Holds
    <3>2. applied[r] <= 1 /\ applied[r] # 1
        BY <1>1, <2>1, <2>2, <3>1 DEF OnceInv
    <3> QED BY <1>1, <1>2, <2>2, <3>1, <3>2 DEF Holds
  <2>3. CASE q # r
    <3>1. \A d \in Calls : Holds(d, q)' <=> Holds(d, q)
        BY <1>1, <1>2, <2>3 DEF Holds
    <3>2. \A d \in Calls : Holds(d, q) => call'[d] = call[d]
        BY <1>1, <1>2 DEF Holds
    <3> QED BY <1>1, <2>1, <3>1, <3>2 DEF OnceInv
  <2> QED BY <2>2, <2>3
<1> QED BY <1>3, <1>4 DEF OnceInv

\* Starting: the executor keeps its record or gives it up.
LEMMA OnceStart ==
    ASSUME Inv, OnceInv, NEW c \in Calls, ExecuteStart(c)
    PROVE  OnceInv'
<1>1. PICK r \in Records : r = call[c].rec
    BY DEF ExecuteStart, Inv, CallInv, CallOK, Holding, PCs
<1>2. /\ call[c].pc = "start" /\ Stored(r) /\ call[c] \in CallStates
      /\ applied' = applied /\ orphaned' = orphaned /\ shared' = shared
    BY <1>1 DEF ExecuteStart, Inv, CallInv, CallOK, Holding, PCs, TypeOK
<1>3. CASE UpdateRollbackStatus(r, "executing") /\ Step(c, [call[c] EXCEPT !.pc = "dispatch"])
  <2>1. /\ call'[c].pc = "dispatch" /\ call'[c].rec = r
        /\ \A d \in Calls \ {c} : call'[d] = call[d]
      BY <1>1, <1>2, <1>3 DEF Step, CallStates, Inv, TypeOK
  <2>2. \A d \in Calls, q \in Records : Holds(d, q)' <=> Holds(d, q)
      BY <1>1, <1>2, <2>1 DEF Holds
  <2>3. \A d \in Calls : call[d].pc = "persist" => call'[d].pc = "persist"
      BY <1>2, <2>1
  <2>4. \A q \in Records \ {r} : row'[q] = row[q]
      BY <1>3 DEF UpdateRollbackStatus, Inv, TypeOK
  <2>5. Stored(r)'
      BY <1>2, <1>3, UpdateStores
  <2>6. Holds(c, r)
      BY <1>1, <1>2 DEF Holds
  <2>7. \A q \in Records : Stored(q) => Stored(q)'
      BY <2>4, <2>5 DEF Stored
  <2> QED BY <1>2, <2>2, <2>3, <2>4, <2>6, <2>7, OnceKept
<1>4. CASE Finish(c) /\ UNCHANGED row
  <2>1. call'[c] = Idle /\ \A d \in Calls \ {c} : call'[d] = call[d]
      BY <1>4 DEF Finish, Step, Inv, TypeOK
  <2>2. \A d \in Calls, q \in Records : Holds(d, q)' => Holds(d, q)
      BY <2>1 DEF Holds, Idle
  <2>3. \A d \in Calls, q \in Records : Holds(d, q) /\ call[d].pc = "persist" =>
            Holds(d, q)' /\ call'[d].pc = "persist"
      BY <1>2, <2>1 DEF Holds
  <2>4. \A q \in Records : Stored(q) => Stored(q)'
      BY <1>4 DEF Stored
  <2> QED BY <1>2, <1>4, <2>2, <2>3, <2>4, OnceKept
<1> QED BY <1>1, <1>3, <1>4 DEF ExecuteStart

\* The dispatch: the only executor of a record carries out what was not.
LEMMA OnceDispatch ==
    ASSUME Inv, OnceInv, NEW c \in Calls, Dispatch(c)
    PROVE  OnceInv'
<1>1. PICK r \in Records : r = call[c].rec
    BY DEF Dispatch, Inv, CallInv, CallOK, Holding, PCs
<1>2. /\ call[c].pc = "dispatch" /\ Stored(r) /\ call[c] \in CallStates
      /\ row' = row /\ orphaned' = orphaned /\ shared' = shared
    BY <1>1 DEF Dispatch, Inv, CallInv, CallOK, Holding, PCs, TypeOK
<1>3. PICK did \in BOOLEAN, outcome \in {"success", "failed"} :
        /\ applied' = [applied EXCEPT ![r] = IF did THEN @ + 1 ELSE @]
        /\ Step(c, [call[c] EXCEPT !.pc = "persist", !.outcome = outcome])
    BY <1>1 DEF Dispatch
<1>4. /\ call'[c].pc = "persist" /\ call'[c].rec = r
      /\ \A d \in Calls \ {c} : call'[d] = call[d]
    BY <1>1, <1>2, <1>3 DEF Step, CallStates, Inv, TypeOK
<1>5. \A d \in Calls, q \in Records : Holds(d, q)' <=> Holds(d, q)
    BY <1>1, <1>2, <1>4 DEF Holds
<1>6. applied \in [Records -> Nat] /\ \A q \in Records \ {r} : applied'[q] = applied[q]
    BY <1>3 DEF Inv, TypeOK
<1>7. \A q \in Records : applied'[q] > 0 => Stored(q)'
    BY <1>2, <1>6 DEF OnceInv, Stored
<1>8. ASSUME NEW q \in Records, q \notin orphaned' \cup shared'
      PROVE  /\ \A d, e \in Calls : Holds(d, q)' /\ Holds(e, q)' => d = e
             /\ applied'[q] <= 1
             /\ applied'[q] = 1 =>
                  \/ \E d \in Calls : Holds(d, q)' /\ call'[d].pc = "persist"
                  \/ row'[q].status \in Terminal /\ \A d \in Calls : ~Holds(d, q)'
  <2>1. q \notin orphaned \cup shared
      BY <1>2, <1>8
  <2>2. CASE q = r
    <3>1. Holds(c, r) /\ \A d \in Calls : Holds(d, r) => d = c
        BY <1>1, <1>2, <2>1, <2>2 DEF Holds, OnceInv
    <3>2. applied[r] = 0
        BY <1>2, <1>6, <2>1, <2>2, <3>1 DEF OnceInv
    <3>3. applied'[r] <= 1
        BY <1>3, <1>6, <3>2
    <3> QED BY <1>4, <1>5, <2>2, <3>1, <3>3
  <2>3. CASE q # r
    <3>1. \A d \in Calls : Holds(d, q) => call'[d] = call[d]
        BY <1>1, <1>4, <2>3 DEF Holds
    <3> QED BY <1>2, <1>5, <1>6, <2>1, <2>3, <3>1 DEF OnceInv
  <2> QED BY <2>2, <2>3
<1> QED BY <1>7, <1>8 DEF OnceInv

\* Storing the result: the record is terminal, or its executor counts as lost.
LEMMA OncePersist ==
    ASSUME Inv, OnceInv, NEW c \in Calls, ExecutePersist(c)
    PROVE  OnceInv'
<1>1. PICK r \in Records : r = call[c].rec
    BY DEF ExecutePersist, Inv, CallInv, CallOK, Holding, PCs
<1>2. /\ call[c].pc = "persist" /\ Stored(r) /\ call[c] \in CallStates
      /\ applied' = applied /\ shared' = shared
    BY <1>1 DEF ExecutePersist, Inv, CallInv, CallOK, Holding, PCs, TypeOK
<1>3. call'[c].pc = "executed" /\ \A d \in Calls \ {c} : call'[d] = call[d]
    BY <1>2 DEF ExecutePersist, Step, CallStates, Inv, TypeOK
<1>4. \A d \in Calls, q \in Records : Holds(d, q)' => Holds(d, q)
    BY <1>3 DEF Holds
<1>5. CASE UpdateRollbackStatus(r, call[c].outcome) /\ UNCHANGED orphaned
  <2>1. call[c].outcome \in Terminal
      BY <1>2 DEF CallStates, Terminal
  <2>2. /\ row'[r].status \in Terminal
        /\ \A q \in Records \ {r} : row'[q] = row[q]
    <3>1. row[r] \in Rows
        BY <1>2, StoredRow DEF Inv
    <3> QED BY <1>5, <2>1, <3>1 DEF UpdateRollbackStatus, Inv, TypeOK, Rows
  <2>3. Stored(r)'
      BY <1>2, <1>5, UpdateStores
  <2>4. \A q \in Records : Stored(q) => Stored(q)'
      BY <2>2, <2>3 DEF Stored
  <2>5. \A q \in Records : row[q].status \in Terminal => row'[q].status \in Terminal
      BY <2>2
  <2>6. \A d \in Calls, q \in Records : Holds(d, q) /\ call[d].pc = "persist" =>
            \/ Holds(d, q)' /\ call'[d].pc = "persist"
            \/ row'[q].status \in Terminal /\ ~Holds(d, q)'
      BY <1>1, <1>3, <2>2 DEF Holds
  <2> QED BY <1>2, <1>4, <1>5, <2>4, <2>5, <2>6, OnceKept
<1>6. CASE orphaned' = orphaned \cup {r} /\ UNCHANGED row
  <2>1. \A d \in Calls, q \in Records : Holds(d, q) /\ call[d].pc = "persist" =>
            q \in orphaned' \/ (Holds(d, q)' /\ call'[d].pc = "persist")
      BY <1>1, <1>3, <1>6 DEF Holds
  <2>2. \A q \in Records : Stored(q) => Stored(q)'
      BY <1>6 DEF Stored
  <2> QED BY <1>2, <1>4, <1>6, <2>1, <2>2, OnceKept
<1> QED BY <1>1, <1>5, <1>6 DEF ExecutePersist

\* A restart: executors about to store a result are lost, the others did nothing.
LEMMA OnceRestart ==
    ASSUME Inv, OnceInv, Restart
    PROVE  OnceInv'
<1>1. /\ UNCHANGED <<row, applied, shared>> /\ orphaned \subseteq orphaned'
      /\ \A d \in Calls : call'[d] = Idle
      /\ \A d \in Calls : call[d].pc = "persist" => call[d].rec \in orphaned'
    BY DEF Restart
<1>2. \A d \in Calls, q \in Records : ~Holds(d, q)'
    BY <1>1 DEF Holds, Idle
<1>3. \A d \in Calls, q \in Records : Holds(d, q) /\ call[d].pc = "persist" => q \in orphaned'
    BY <1>1 DEF Holds
<1>4. \A q \in Records : Stored(q) => Stored(q)'
    BY <1>1 DEF Stored
<1> QED BY <1>1, <1>2, <1>3, <1>4, OnceKept

\* The inverse operation of a record is carried out at most once, unless two executors
\* worked on it at once or one was lost (Execute, dispatchInverseOp).
THEOREM InversesOnce == Spec => []InverseOnce
<1>1. Init => OnceInv
    BY DEF Init, OnceInv, Holds, Idle
<1>2. Inv /\ OnceInv /\ [Next]_vars => OnceInv'
  <2> SUFFICES ASSUME Inv, OnceInv, [Next]_vars PROVE OnceInv'
      OBVIOUS
  <2>1. ASSUME NEW c \in Calls, Execute(c) PROVE OnceInv'
    <3>1. ASSUME ExecuteEmit(c) PROVE OnceInv'
        BY <3>1, OnceMoves DEF ExecuteEmit, Finish, Idle, Stored
    <3> QED BY <2>1, <3>1, OnceLoad, OnceStart, OnceDispatch, OncePersist DEF Execute
  <2>2. CASE UNCHANGED vars
      BY <2>2 DEF vars, OnceInv, Holds, Stored
  <2> QED BY <2>1, <2>2, OnceInitiate, OnceCancel, OnceRestart DEF Next
<1>3. Inv /\ OnceInv => InverseOnce
    BY DEF Inv, TypeOK, OnceInv, InverseOnce
<1> QED BY <1>1, <1>2, <1>3, RollbackInvariance, PTL DEF Spec

HIDE ConstantsAssumption DEF Originals

-----------------------------------------------------------------------------
(* The tools that change something (MutationTools), one of which captures  *)
(* the pre-state a rollback is derived from.                               *)

\* What a call may rely on: d is the deployment, st the setting, tch the calls during
\* which another one scaled.
ToolCallOK(t, x, d, st, tch) ==
    /\ x \in ToolCallStates
    /\ x.pc \notin {"verify", "done"} => x.tries = 0
    /\ x.pc \in {"idle", "look", "policy", "execute"} => x.replaced = -1
    /\ x.pc # "done" => x.verify = "none" /\ x.answer = "none"
    /\ x.pc = "look" => x.tool \in OnSession \cup {"scale_deployment"}
    /\ x.pc \in {"post", "verify"} => x.tool \in OnSession \cup Kubernetes
    /\ x.pc = "verify" => x.tries < Attempts(x.tool)
    /\ x.pc = "second" => st # "changed"
    /\ x.tool = "reset_pg_setting" /\ x.answer = "output" => st # "changed"
    /\ x.tool = "restart_deployment" /\ (x.pc \in {"post", "verify"} \/ x.verify = "ok") => d.restarted
    /\ x.pre # -1 => x.tool = "scale_deployment" /\ x.pc \in {"execute", "post", "verify", "done"}
    /\ x.pre # -1 /\ t \notin tch => x.pre = IF x.pc = "execute" THEN d.replicas ELSE x.replaced

\* Work w is in a transaction that x inspected, or in one begun since; the inspected one
\* was within the limit if it had written.
Inspected(x, w, lim) ==
    /\ w.tx # "none" =>
           \/ w.began > x.seen
           \/ w.id = x.found.id /\ w.began = x.found.began /\ x.found.tx # "none"
    /\ lim /\ x.found.tx = "writes" => x.seen - x.found.began <= MaxXactAge

\* Work w was within the limit when x inspected, or had only read.
Bounded(x, w, lim) ==
    lim /\ w.tx = "writes" /\ ~(x.found.tx = "reads" /\ x.found.id = w.id /\ x.found.began = w.began)
        => x.seen - w.began <= MaxXactAge

\* What the signal s of call x has come to, with ses the session that has the process id.
SignalOK(s, x, ses, lim) ==
    /\ x.pc \notin {"idle", "look", "policy", "execute"}
    /\ s.to.id <= ses.work.id
    /\ Bounded(x, s.to, lim)
    /\ x.tool = "terminate_connection" /\ x.verify = "ok" /\ ~x.blind => ses.work.id # s.to.id \/ ses.state = "gone"

\* How a call stands to what it acts on: ses is the session, p the pod, sg the signals
\* sent, now the time.
TargetOK(t, x, ses, p, sg, now, lim) ==
    /\ x.seen <= now
    /\ x.pc \in {"policy", "execute"} /\ x.tool \in OnSession => Inspected(x, ses.work, lim)
    /\ x.on <= p.id
    /\ x.tool = "delete_pod" /\ x.verify = "ok" /\ ~x.blind => p.id # x.on \/ p.state = "gone"
    /\ \A s \in sg : s.call = t => SignalOK(s, x, ses, lim)

Signals == [call : ToolCalls, to : Work]

\* The types of the deployment, of the pod and of the setting.
Deployments == [replicas : Replicas, restarted : BOOLEAN]
Pods == [id : Nat, state : {"running", "terminating", "gone"}]
Settings == {"changed", "reset", "loaded"}

\* What the tools act on.
WorldOK ==
    /\ MaxXactAge \in Nat /\ MaxReplicas \in Nat /\ MaxChanges \in Nat
    /\ ageLimit \in BOOLEAN /\ session \in Sessions /\ setting \in Settings /\ pod \in Pods
    /\ deployment \in Deployments /\ touched \subseteq ToolCalls /\ changes \in 0..MaxChanges

\* The inductive invariant of the tools.
ToolsInv ==
    /\ WorldOK
    /\ calls \in [ToolCalls -> ToolCallStates]
    /\ signalled \subseteq Signals
    /\ \A t \in ToolCalls : /\ ToolCallOK(t, calls[t], deployment, setting, touched)
                            /\ TargetOK(t, calls[t], session, pod, signalled, changes, ageLimit)

-----------------------------------------------------------------------------
(* Facts about the operators. *)

\* The types of the state.
LEMMA ToolTypes ==
    ASSUME ToolsInv, NEW t \in ToolCalls
    PROVE  /\ WorldOK /\ calls \in [ToolCalls -> ToolCallStates] /\ calls[t] \in ToolCallStates
           /\ ToolCallOK(t, calls[t], deployment, setting, touched)
           /\ TargetOK(t, calls[t], session, pod, signalled, changes, ageLimit)
BY DEF ToolsInv

\* What a call relies on outlives the steps of the others.
LEMMA ToolFrame ==
    ASSUME NEW u, NEW x, NEW d, NEW d2, NEW st, NEW st2, NEW tch, NEW tch2,
           ToolCallOK(u, x, d, st, tch),
           st # "changed" => st2 # "changed",
           d.restarted => d2.restarted,
           u \in tch => u \in tch2,
           x.pc = "execute" /\ x.tool = "scale_deployment" => d2.replicas = d.replicas \/ u \in tch2
    PROVE  ToolCallOK(u, x, d2, st2, tch2)
BY DEF ToolCallOK

\* So does how it stands to its target, while the session stays, the pod is the same one
\* and gone if it was, and the others' signals are none of its.
LEMMA TargetFrame ==
    ASSUME NEW u, NEW x, NEW ses, NEW p, NEW p2, NEW sg, NEW sg2, NEW now, NEW lim,
           TargetOK(u, x, ses, p, sg, now, lim),
           p2.id = p.id, p.state = "gone" => p2.state = "gone",
           \A s \in sg2 : s.call = u => s \in sg
    PROVE  TargetOK(u, x, ses, p2, sg2, now, lim)
BY DEF TargetOK

\* And while the call goes on, as long as it neither inspects nor verifies.
LEMMA TargetKept ==
    ASSUME NEW t, NEW x, NEW y, NEW ses, NEW p, NEW sg, NEW now, NEW lim,
           TargetOK(t, x, ses, p, sg, now, lim),
           y.seen = x.seen, y.found = x.found, y.on = x.on, y.verify # "ok",
           y.pc \in {"policy", "execute"} /\ y.tool \in OnSession => x.pc \in {"policy", "execute"} /\ x.tool \in OnSession,
           y.pc \in {"idle", "look", "policy", "execute"} => x.pc \in {"idle", "look", "policy", "execute"}
    PROVE  TargetOK(t, y, ses, p, sg, now, lim)
BY DEF TargetOK, SignalOK, Inspected, Bounded

\* One call goes on. It may scale the deployment, and then the calls that are about to are
\* touched; it may restart it, delete the pod, send a signal and take the setting further.
LEMMA OneCallInv ==
    ASSUME ToolsInv, NEW t \in ToolCalls, NEW y, calls' = [calls EXCEPT ![t] = y],
           WorldOK', ageLimit' = ageLimit, session' = session, changes' = changes,
           signalled' \subseteq Signals,
           ToolCallOK(t, y, deployment', setting', touched'),
           TargetOK(t, y, session, pod', signalled', changes, ageLimit),
           setting # "changed" => setting' # "changed",
           deployment.restarted => deployment'.restarted,
           deployment'.replicas = deployment.replicas \/ Others(t) \subseteq touched',
           touched \ {t} \subseteq touched',
           pod'.id = pod.id, pod.state = "gone" => pod'.state = "gone",
           \A s \in signalled' : s.call # t => s \in signalled
    PROVE  ToolsInv'
<1>1. calls \in [ToolCalls -> ToolCallStates] /\ y \in ToolCallStates
  BY DEF ToolsInv, ToolCallOK
<1>2. \A u \in ToolCalls : calls'[u] = IF u = t THEN y ELSE calls[u]
  BY <1>1
<1>3. calls' \in [ToolCalls -> ToolCallStates]
  BY <1>1
<1>4. ASSUME NEW u \in ToolCalls
      PROVE  /\ ToolCallOK(u, calls'[u], deployment', setting', touched')
             /\ TargetOK(u, calls'[u], session', pod', signalled', changes', ageLimit')
  <2>1. CASE u = t
    BY <1>2, <2>1
  <2>2. CASE u # t
    <3>1. /\ ToolCallOK(u, calls[u], deployment, setting, touched) /\ calls'[u] = calls[u]
          /\ TargetOK(u, calls[u], session, pod, signalled, changes, ageLimit)
      BY <1>2, <2>2 DEF ToolsInv
    <3>2. calls[u].pc = "execute" /\ calls[u].tool = "scale_deployment" => u \in Others(t)
      BY <2>2 DEF Others
    <3>3. ToolCallOK(u, calls[u], deployment', setting', touched')
      BY <2>2, <3>1, <3>2, ToolFrame
    <3>4. TargetOK(u, calls[u], session, pod', signalled', changes, ageLimit)
      BY <2>2, <3>1, TargetFrame
    <3> QED BY <3>1, <3>3, <3>4
  <2> QED BY <2>1, <2>2
<1> QED BY <1>3, <1>4 DEF ToolsInv

\* A call that goes on and leaves the world alone.
LEMMA QuietInv ==
    ASSUME ToolsInv, NEW t \in ToolCalls, NEW y, calls' = [calls EXCEPT ![t] = y],
           UNCHANGED <<ageLimit, world, signalled, touched, changes>>,
           ToolCallOK(t, y, deployment, setting, touched),
           TargetOK(t, y, session, pod, signalled, changes, ageLimit)
    PROVE  ToolsInv'
<1>1. WorldOK' /\ signalled' \subseteq Signals
  BY DEF ToolsInv, WorldOK, world
<1>2. UNCHANGED <<deployment, setting, session, pod, signalled, touched, changes, ageLimit>>
  BY DEF world
<1> QED BY <1>1, <1>2, OneCallInv

\* An answer ends the call.
LEMMA FinishIs ==
    ASSUME ToolsInv, NEW t \in ToolCalls, NEW a \in {"output", "failure", "error"}, Reply(t, a),
           calls[t].pc \notin {"done"}, calls[t].pc = "execute" => calls[t].tool # "scale_deployment",
           calls[t].tool = "reset_pg_setting" /\ a = "output" => setting' # "changed"
    PROVE  \E y : /\ calls' = [calls EXCEPT ![t] = y] /\ ToolCallOK(t, y, deployment, setting', touched)
                 /\ TargetOK(t, y, session, pod, signalled, changes, ageLimit)
<1> DEFINE x == calls[t]
<1> DEFINE y == [x EXCEPT !.pc = "done", !.answer = a]
<1>1. /\ calls \in [ToolCalls -> ToolCallStates] /\ x \in ToolCallStates
      /\ ToolCallOK(t, x, deployment, setting, touched)
      /\ TargetOK(t, x, session, pod, signalled, changes, ageLimit)
  BY ToolTypes
<1>2. calls' = [calls EXCEPT ![t] = y]
  BY <1>1 DEF Reply
<1>3. /\ y \in ToolCallStates /\ y.pc = "done" /\ y.answer = a /\ y.tool = x.tool /\ y.found = x.found
      /\ y.pre = x.pre /\ y.replaced = x.replaced /\ y.tries = x.tries /\ y.verify = x.verify
      /\ y.seen = x.seen /\ y.on = x.on /\ y.blind = x.blind
  BY <1>1 DEF ToolCallStates
<1> HIDE DEF y
<1>4. ToolCallOK(t, y, deployment, setting', touched) /\ y.verify = "none"
  BY <1>1, <1>3 DEF ToolCallOK
<1>5. TargetOK(t, y, session, pod, signalled, changes, ageLimit)
  BY <1>1, <1>3, <1>4, TargetKept
<1> QED BY <1>2, <1>4, <1>5

\* So does an error, which is a failure in the output or an error.
LEMMA ErrorIs ==
    ASSUME ToolsInv, NEW t \in ToolCalls, CommandError(t) \/ Denied(t),
           calls[t].pc \notin {"done"}, calls[t].pc = "execute" => calls[t].tool # "scale_deployment"
    PROVE  \E y : /\ calls' = [calls EXCEPT ![t] = y] /\ ToolCallOK(t, y, deployment, setting', touched)
                 /\ TargetOK(t, y, session, pod, signalled, changes, ageLimit)
<1>1. PICK a \in {"failure", "error"} : Reply(t, a)
  BY DEF CommandError, Denied
<1> QED BY <1>1, FinishIs

-----------------------------------------------------------------------------
(* Steps. *)

\* The call is made.
LEMMA StartInv ==
    ASSUME ToolsInv, NEW t \in ToolCalls, Start(t)
    PROVE  ToolsInv'
<1> DEFINE x == calls[t]
<1>1. PICK tool \in Tools, want \in Replicas :
        calls' = [calls EXCEPT ![t].tool = tool, ![t].want = want,
                               ![t].pc = IF tool \in OnSession THEN "look" ELSE "policy"]
  BY DEF Start
<1> DEFINE y == [x EXCEPT !.tool = tool, !.want = want, !.pc = IF tool \in OnSession THEN "look" ELSE "policy"]
<1>2. /\ calls \in [ToolCalls -> ToolCallStates] /\ x \in ToolCallStates
      /\ ToolCallOK(t, x, deployment, setting, touched)
      /\ TargetOK(t, x, session, pod, signalled, changes, ageLimit)
      /\ x.pc = "idle"
  BY ToolTypes DEF Start
<1>3. calls' = [calls EXCEPT ![t] = y]
  BY <1>1, <1>2
<1>4. /\ y \in ToolCallStates /\ y.pc \in {"look", "policy"} /\ y.tool = tool
      /\ (y.pc = "look" <=> tool \in OnSession)
      /\ y.found = x.found /\ y.answer = x.answer
      /\ y.pre = x.pre /\ y.replaced = x.replaced /\ y.tries = x.tries /\ y.verify = x.verify
      /\ y.seen = x.seen /\ y.on = x.on /\ y.blind = x.blind
  BY <1>2 DEF ToolCallStates
<1> HIDE DEF y
<1>5. ToolCallOK(t, y, deployment, setting, touched) /\ y.verify = "none"
  BY <1>2, <1>4 DEF ToolCallOK
<1>6. UNCHANGED <<ageLimit, world, signalled, touched, changes>>
  BY DEF Start
<1>7. TargetOK(t, y, session, pod, signalled, changes, ageLimit)
  BY <1>2, <1>4, <1>5, TargetKept
<1> QED BY <1>3, <1>5, <1>6, <1>7, QuietInv

\* The session is inspected.
LEMMA InspectInv ==
    ASSUME ToolsInv, NEW t \in ToolCalls, inspectConnection(t)
    PROVE  ToolsInv'
<1> DEFINE x == calls[t]
<1>1. /\ calls \in [ToolCalls -> ToolCallStates] /\ x \in ToolCallStates
      /\ ToolCallOK(t, x, deployment, setting, touched)
      /\ TargetOK(t, x, session, pod, signalled, changes, ageLimit)
      /\ x.pc = "look" /\ x.tool \in OnSession /\ session \in Sessions
      /\ MaxXactAge \in Nat /\ changes \in 0..MaxChanges /\ MaxChanges \in Nat
  BY ToolTypes DEF inspectConnection, WorldOK
<1>2. UNCHANGED <<ageLimit, world, signalled, touched, changes>> /\ setting' = setting
  BY DEF inspectConnection, world
<1>3. CASE CommandError(t) \/ Denied(t)
  BY <1>1, <1>2, <1>3, ErrorIs, QuietInv
<1>4. CASE /\ ~TooOld(session.work)
           /\ calls' = [calls EXCEPT ![t].pc = "policy", ![t].found = session.work, ![t].seen = changes]
  <2> DEFINE y == [x EXCEPT !.pc = "policy", !.found = session.work, !.seen = changes]
  <2>1. calls' = [calls EXCEPT ![t] = y]
    BY <1>1, <1>4
  <2>2. session.work \in Work /\ changes \in Nat /\ MaxXactAge \in Nat
    BY <1>1 DEF Sessions
  <2>3. /\ y \in ToolCallStates /\ y.pc = "policy" /\ y.tool = x.tool
        /\ y.found = session.work /\ y.seen = changes /\ y.answer = x.answer
        /\ y.pre = x.pre /\ y.replaced = x.replaced /\ y.tries = x.tries /\ y.verify = x.verify
        /\ y.on = x.on /\ y.blind = x.blind
    BY <1>1, <2>2 DEF ToolCallStates
  <2> HIDE DEF y
  <2>4. ToolCallOK(t, y, deployment, setting, touched) /\ y.verify = "none"
    BY <1>1, <2>3 DEF ToolCallOK
  <2>5. Inspected(y, session.work, ageLimit)
    BY <1>4, <2>2, <2>3 DEF Inspected, TooOld, Work
  <2>6. \A s \in signalled : s.call # t
    BY <1>1 DEF TargetOK, SignalOK
  <2>7. y.seen <= changes /\ y.on <= pod.id
    BY <1>1, <2>2, <2>3 DEF TargetOK
  <2>8. TargetOK(t, y, session, pod, signalled, changes, ageLimit)
    BY <2>4, <2>5, <2>6, <2>7 DEF TargetOK
  <2> QED BY <1>2, <2>1, <2>4, <2>8, QuietInv
<1> QED BY <1>3, <1>4 DEF inspectConnection

\* The policy answers, before the command or after it.
LEMMA PolicyInv ==
    ASSUME ToolsInv, NEW t \in ToolCalls, checkPolicy(t) \/ checkResult(t)
    PROVE  ToolsInv'
<1> DEFINE x == calls[t]
<1>1. /\ calls \in [ToolCalls -> ToolCallStates] /\ x \in ToolCallStates
      /\ ToolCallOK(t, x, deployment, setting, touched)
      /\ TargetOK(t, x, session, pod, signalled, changes, ageLimit)
      /\ x.pc \in {"policy", "post"}
  BY ToolTypes DEF checkPolicy, checkResult
<1>2. UNCHANGED <<ageLimit, world, signalled, touched, changes>> /\ setting' = setting
  BY DEF checkPolicy, checkResult, world
<1>3. CASE Denied(t)
  BY <1>1, <1>2, <1>3, ErrorIs, QuietInv
<1>4. ASSUME NEW pc, Goto(t, pc),
             \/ x.pc = "policy" /\ pc = IF x.tool = "scale_deployment" THEN "look" ELSE "execute"
             \/ x.pc = "post" /\ pc = "verify"
      PROVE  ToolsInv'
  <2> DEFINE y == [x EXCEPT !.pc = pc]
  <2>1. calls' = [calls EXCEPT ![t] = y]
    BY <1>1, <1>4 DEF Goto
  <2>2. /\ y \in ToolCallStates /\ y.pc = pc /\ y.tool = x.tool
        /\ y.found = x.found /\ y.answer = x.answer
        /\ y.pre = x.pre /\ y.replaced = x.replaced /\ y.tries = x.tries /\ y.verify = x.verify
        /\ y.seen = x.seen /\ y.on = x.on /\ y.blind = x.blind
    BY <1>1, <1>4 DEF ToolCallStates
  <2> HIDE DEF y
  <2>3. CASE x.pc = "policy"
    <3>1. ToolCallOK(t, y, deployment, setting, touched) /\ y.verify = "none"
      BY <1>1, <1>4, <2>2, <2>3 DEF ToolCallOK
    <3>2. TargetOK(t, y, session, pod, signalled, changes, ageLimit)
      BY <1>1, <1>4, <2>2, <2>3, <3>1, TargetKept
    <3> QED BY <1>2, <2>1, <3>1, <3>2, QuietInv
  <2>4. CASE x.pc = "post"
    <3>1. ToolCallOK(t, y, deployment, setting, touched) /\ y.verify = "none"
      BY <1>1, <1>4, <2>2, <2>4 DEF ToolCallOK, Attempts
    <3>2. TargetOK(t, y, session, pod, signalled, changes, ageLimit)
      BY <1>1, <1>4, <2>2, <2>4, <3>1, TargetKept
    <3> QED BY <1>2, <2>1, <3>1, <3>2, QuietInv
  <2> QED BY <1>1, <2>3, <2>4
<1> QED BY <1>3, <1>4 DEF checkPolicy, checkResult

\* The scale reads what it will replace.
LEMMA PreStateInv ==
    ASSUME ToolsInv, NEW t \in ToolCalls, readPreState(t)
    PROVE  ToolsInv'
<1> DEFINE x == calls[t]
<1>1. /\ calls \in [ToolCalls -> ToolCallStates] /\ x \in ToolCallStates
      /\ ToolCallOK(t, x, deployment, setting, touched)
      /\ TargetOK(t, x, session, pod, signalled, changes, ageLimit)
      /\ x.pc = "look" /\ x.tool = "scale_deployment" /\ deployment \in Deployments
  BY ToolTypes DEF readPreState, WorldOK
<1>2. UNCHANGED <<ageLimit, world, signalled, changes>> /\ touched' = touched \ {t}
      /\ UNCHANGED <<deployment, setting, session, pod>>
  BY DEF readPreState, world
<1>3. WorldOK' /\ signalled' \subseteq Signals
  BY <1>2 DEF ToolsInv, WorldOK, world
<1>4. deployment.replicas \in Replicas
  BY <1>1 DEF Deployments
<1>5. PICK y : /\ calls' = [calls EXCEPT ![t] = y]
               /\ y \in ToolCallStates /\ y.pc = "execute" /\ y.tool = x.tool
               /\ y.found = x.found /\ y.answer = x.answer
               /\ y.pre = x.pre \/ y.pre = deployment.replicas
               /\ y.replaced = x.replaced /\ y.tries = x.tries /\ y.verify = x.verify
               /\ y.seen = x.seen /\ y.on = x.on /\ y.blind = x.blind
  <2>1. CASE calls' = [calls EXCEPT ![t].pc = "execute"]
    <3> DEFINE y == [x EXCEPT !.pc = "execute"]
    <3>1. calls' = [calls EXCEPT ![t] = y]
      BY <1>1, <2>1
    <3>2. /\ y \in ToolCallStates /\ y.pc = "execute" /\ y.tool = x.tool /\ y.found = x.found
          /\ y.answer = x.answer /\ y.pre = x.pre /\ y.replaced = x.replaced /\ y.tries = x.tries
          /\ y.verify = x.verify /\ y.seen = x.seen /\ y.on = x.on /\ y.blind = x.blind
      BY <1>1 DEF ToolCallStates
    <3> HIDE DEF y
    <3> QED BY <3>1, <3>2
  <2>2. CASE calls' = [calls EXCEPT ![t].pc = "execute", ![t].pre = deployment.replicas]
    <3> DEFINE y == [x EXCEPT !.pc = "execute", !.pre = deployment.replicas]
    <3>1. calls' = [calls EXCEPT ![t] = y]
      BY <1>1, <2>2
    <3>2. /\ y \in ToolCallStates /\ y.pc = "execute" /\ y.tool = x.tool /\ y.found = x.found
          /\ y.answer = x.answer /\ y.pre = deployment.replicas /\ y.replaced = x.replaced
          /\ y.tries = x.tries /\ y.verify = x.verify /\ y.seen = x.seen /\ y.on = x.on /\ y.blind = x.blind
      BY <1>1, <1>4 DEF ToolCallStates
    <3> HIDE DEF y
    <3> QED BY <3>1, <3>2
  <2> QED BY <2>1, <2>2 DEF readPreState
<1>6. x.pre = -1
  BY <1>1 DEF ToolCallOK
<1>7. ToolCallOK(t, y, deployment, setting, touched') /\ y.verify = "none"
  BY <1>1, <1>5, <1>6 DEF ToolCallOK
<1>8. TargetOK(t, y, session, pod, signalled, changes, ageLimit)
  BY <1>1, <1>5, <1>7, TargetKept DEF OnSession
<1> QED BY <1>2, <1>3, <1>5, <1>7, <1>8, OneCallInv

\* A command was run and answered, or not. A signal that it sent went to the session that
\* has the process id now.
LEMMA OutcomeIs ==
    ASSUME ToolsInv, NEW t \in ToolCalls, calls[t].pc = "execute", NEW works \in BOOLEAN, NEW lost \in BOOLEAN,
           NEW pc \in {"post", "second"}, Outcome(t, pc, works, lost), NEW d2, NEW st2, NEW tch2, NEW p2, NEW sg2,
           pc = "post" => /\ calls[t].tool \in OnSession \cup Kubernetes
                          /\ calls[t].tool = "restart_deployment" /\ works => d2.restarted,
           pc = "second" => calls[t].tool = "reset_pg_setting" /\ (works => st2 # "changed"),
           t \in touched => t \in tch2, p2.id = pod.id,
           \A s \in sg2 : s.call = t => s \in signalled \/ (calls[t].tool \in OnSession /\ s.to = session.work)
    PROVE  \E y : /\ calls' = [calls EXCEPT ![t] = y] /\ ToolCallOK(t, y, d2, st2, tch2)
                 /\ TargetOK(t, y, session, p2, sg2, changes, ageLimit)
<1> DEFINE x == calls[t]
<1>1. /\ calls \in [ToolCalls -> ToolCallStates] /\ x \in ToolCallStates
      /\ ToolCallOK(t, x, deployment, setting, touched)
      /\ TargetOK(t, x, session, pod, signalled, changes, ageLimit)
      /\ x.verify = "none"
  BY ToolTypes DEF ToolCallOK
<1>2. /\ deployment.replicas \in Replicas /\ pod.id \in Nat /\ MaxXactAge \in Nat
      /\ session.work \in Work /\ x.found \in Work /\ x.seen \in Nat
  BY <1>1 DEF ToolsInv, WorldOK, Deployments, Pods, Sessions, ToolCallStates
<1> DEFINE npc == IF works /\ ~lost THEN pc ELSE "done"
<1> DEFINE a == IF works /\ ~lost THEN "none" ELSE IF x.tool \in Kubernetes THEN "failure" ELSE "error"
<1> DEFINE rp == IF x.tool = "scale_deployment" THEN deployment.replicas ELSE -1
<1> DEFINE on == IF x.tool = "delete_pod" THEN pod.id ELSE 0
<1> DEFINE y == [x EXCEPT !.pc = npc, !.answer = a, !.replaced = rp, !.on = on]
<1>3. calls' = [calls EXCEPT ![t].pc = npc, ![t].answer = a, ![t].replaced = rp, ![t].on = on]
  BY DEF Outcome
<1>4. /\ npc \in {"post", "second", "done"} /\ a \in {"none", "failure", "error"}
      /\ (npc # "done" => npc = pc /\ a = "none" /\ works)
  <2>1. CASE works /\ ~lost
    BY <2>1
  <2>2. CASE ~(works /\ ~lost)
    BY <2>2
  <2> QED BY <2>1, <2>2
<1>5. rp \in {-1} \cup Replicas /\ on \in Nat /\ on <= pod.id
  BY <1>2
<1>6. x.tool = "scale_deployment" => rp = deployment.replicas
  OBVIOUS
<1> HIDE DEF npc, a, rp, on
<1>7. /\ y \in ToolCallStates /\ y.pc = npc /\ y.tool = x.tool /\ y.found = x.found /\ y.seen = x.seen
      /\ y.answer = a /\ y.pre = x.pre /\ y.replaced = rp /\ y.on = on
      /\ y.tries = x.tries /\ y.verify = x.verify /\ y.blind = x.blind
  BY <1>1, <1>2, <1>4, <1>5 DEF ToolCallStates
<1>8. calls' = [calls EXCEPT ![t] = y]
  BY <1>1, <1>3
<1> HIDE DEF y
<1>9. ToolCallOK(t, y, d2, st2, tch2)
  <2>1. CASE npc = "done"
    BY <1>1, <1>4, <1>6, <1>7, <2>1 DEF ToolCallOK
  <2>2. CASE npc = "post"
    BY <1>1, <1>4, <1>6, <1>7, <2>2 DEF ToolCallOK
  <2>3. CASE npc = "second"
    BY <1>1, <1>4, <1>6, <1>7, <2>3 DEF ToolCallOK
  <2> QED BY <1>4, <2>1, <2>2, <2>3
<1>10. ASSUME NEW s \in sg2, s.call = t PROVE SignalOK(s, y, session, ageLimit)
  <2>1. s \notin signalled
    BY <1>1, <1>10 DEF TargetOK, SignalOK
  <2>2. x.tool \in OnSession /\ s.to = session.work /\ Inspected(x, session.work, ageLimit)
    BY <1>1, <1>10, <2>1 DEF TargetOK
  <2>3. Bounded(y, s.to, ageLimit)
    BY <1>2, <1>7, <2>2 DEF Inspected, Bounded, Work
  <2>4. s.to.id <= session.work.id
    BY <1>2, <2>2 DEF Work
  <2> QED BY <1>1, <1>4, <1>7, <2>3, <2>4 DEF SignalOK
<1>11. TargetOK(t, y, session, p2, sg2, changes, ageLimit)
  BY <1>1, <1>4, <1>5, <1>7, <1>10 DEF TargetOK
<1> QED BY <1>9, <1>11, <1>8

\* The session gets its signal, or not.
LEMMA SignalInv ==
    ASSUME ToolsInv, NEW t \in ToolCalls, signalSession(t)
    PROVE  ToolsInv'
<1>1. calls[t].pc = "execute" /\ calls[t].tool \in OnSession /\ UNCHANGED <<ageLimit, world, touched, changes>>
      /\ UNCHANGED <<deployment, setting, session, pod>>
  BY DEF signalSession, world
<1>2. calls[t].tool \notin {"scale_deployment", "reset_pg_setting", "restart_deployment"}
  BY <1>1 DEF OnSession
<1>3. WorldOK' /\ session \in Sessions /\ calls[t].tool \in Tools
  BY <1>1, ToolTypes DEF WorldOK, world, ToolCallStates
<1>4. signalled' \subseteq Signals
      /\ \A s \in signalled' : s \in signalled \/ (s.call = t /\ s.to = session.work)
  <2>1. [call |-> t, to |-> session.work] \in Signals
    BY <1>3 DEF Signals, Sessions
  <2>2. signalled' \subseteq signalled \cup {[call |-> t, to |-> session.work]}
    BY DEF signalSession
  <2> QED BY <2>1, <2>2 DEF ToolsInv
<1>5. PICK y : /\ calls' = [calls EXCEPT ![t] = y] /\ ToolCallOK(t, y, deployment, setting, touched)
               /\ TargetOK(t, y, session, pod, signalled', changes, ageLimit)
  <2>1. CASE (CommandError(t) \/ Denied(t)) /\ UNCHANGED signalled
    BY <1>1, <1>2, <2>1, ErrorIs
  <2>2. CASE (Reply(t, "output") \/ Reply(t, "failure")) /\ UNCHANGED signalled
    BY <1>1, <1>2, <2>2, FinishIs
  <2>3. CASE \E lost \in BOOLEAN : Outcome(t, "post", TRUE, lost)
    BY <1>1, <1>2, <1>4, <2>3, OutcomeIs
  <2> QED BY <2>1, <2>2, <2>3 DEF signalSession
<1> QED BY <1>1, <1>3, <1>4, <1>5, OneCallInv

\* The setting is reset, then loaded.
LEMMA ResetInv ==
    ASSUME ToolsInv, NEW t \in ToolCalls, resetSetting(t)
    PROVE  ToolsInv'
<1>1. calls[t].tool = "reset_pg_setting" /\ UNCHANGED <<ageLimit, session, pod, deployment, signalled, touched, changes>>
  BY DEF resetSetting
<1>2. setting \in Settings /\ signalled' \subseteq Signals
  BY <1>1 DEF ToolsInv, WorldOK
<1>3. ASSUME setting' \in Settings, setting # "changed" => setting' # "changed",
             \E y : /\ calls' = [calls EXCEPT ![t] = y] /\ ToolCallOK(t, y, deployment, setting', touched)
                   /\ TargetOK(t, y, session, pod, signalled, changes, ageLimit)
      PROVE  ToolsInv'
  <2>1. WorldOK'
    BY <1>1, <1>3 DEF ToolsInv, WorldOK
  <2> QED BY <1>1, <1>2, <1>3, <2>1, OneCallInv
<1>4. CASE calls[t].pc = "execute"
  <2>1. PICK works \in BOOLEAN, lost \in BOOLEAN :
          /\ setting' = IF works /\ setting = "changed" THEN "reset" ELSE setting
          /\ Outcome(t, "second", works, lost)
    BY <1>4 DEF resetSetting
  <2>2. works => setting' # "changed"
    BY <1>2, <2>1
  <2>3. \E y : /\ calls' = [calls EXCEPT ![t] = y] /\ ToolCallOK(t, y, deployment, setting', touched)
              /\ TargetOK(t, y, session, pod, signalled, changes, ageLimit)
    BY <1>1, <1>4, <2>1, <2>2, OutcomeIs
  <2> QED BY <1>2, <1>3, <2>1, <2>3 DEF Settings
<1>5. CASE calls[t].pc = "second"
  <2>1. setting # "changed"
    BY <1>5, ToolTypes DEF ToolCallOK
  <2>2. CASE Denied(t) /\ UNCHANGED setting
    BY <1>2, <1>3, <1>5, <2>2, ErrorIs
  <2>3. ASSUME NEW works \in BOOLEAN, NEW lost \in BOOLEAN, NEW loads \in BOOLEAN,
               setting' = IF works /\ loads /\ setting = "reset" THEN "loaded" ELSE setting,
               IF works /\ ~lost THEN Reply(t, "output") ELSE CommandError(t)
        PROVE  ToolsInv'
    <3>1. setting' \in Settings /\ setting' # "changed"
      BY <1>2, <2>1, <2>3 DEF Settings
    <3>2. CASE works /\ ~lost
      BY <1>3, <1>5, <2>3, <3>1, <3>2, FinishIs
    <3>3. CASE ~(works /\ ~lost)
      BY <1>3, <1>5, <2>3, <3>1, <3>3, ErrorIs
    <3> QED BY <3>2, <3>3
  <2> QED BY <1>5, <2>2, <2>3 DEF resetSetting
<1> QED BY <1>4, <1>5 DEF resetSetting

\* kubectl is run.
LEMMA KubectlInv ==
    ASSUME ToolsInv, NEW t \in ToolCalls, runKubectl(t)
    PROVE  ToolsInv'
<1>1. calls[t].pc = "execute" /\ calls[t].tool \in Kubernetes /\ UNCHANGED <<ageLimit, session, setting, signalled, changes>>
  BY DEF runKubectl
<1>2. PICK works \in BOOLEAN, lost \in BOOLEAN :
        /\ Outcome(t, "post", works, lost)
        /\ pod' = IF works /\ calls[t].tool = "delete_pod" /\ pod.state = "running"
                  THEN [pod EXCEPT !.state = "terminating"] ELSE pod
        /\ deployment' =
               CASE works /\ calls[t].tool = "scale_deployment" -> [deployment EXCEPT !.replicas = calls[t].want]
                 [] works /\ calls[t].tool = "restart_deployment" -> [deployment EXCEPT !.restarted = TRUE]
                 [] OTHER -> deployment
        /\ touched' = IF works /\ calls[t].tool = "scale_deployment" THEN touched \cup Others(t) ELSE touched
  BY DEF runKubectl
<1>3. /\ WorldOK /\ deployment \in Deployments /\ pod \in Pods /\ touched \subseteq ToolCalls /\ calls[t].want \in Replicas
  BY ToolTypes DEF WorldOK, ToolCallStates
<1>4. /\ deployment' \in Deployments
      /\ deployment'.replicas = deployment.replicas \/ Others(t) \subseteq touched'
      /\ deployment.restarted => deployment'.restarted
      /\ works /\ calls[t].tool = "restart_deployment" => deployment'.restarted
  <2>1. CASE works /\ calls[t].tool = "scale_deployment"
    <3>1. deployment' = [deployment EXCEPT !.replicas = calls[t].want]
      BY <1>2, <2>1
    <3> QED BY <1>2, <1>3, <2>1, <3>1 DEF Deployments
  <2>2. CASE works /\ calls[t].tool = "restart_deployment"
    <3>1. deployment' = [deployment EXCEPT !.restarted = TRUE]
      BY <1>2, <2>2
    <3> QED BY <1>3, <3>1 DEF Deployments
  <2>3. CASE ~(works /\ calls[t].tool \in {"scale_deployment", "restart_deployment"})
    BY <1>2, <1>3, <2>3
  <2> QED BY <2>1, <2>2, <2>3
<1>5. pod' \in Pods /\ pod'.id = pod.id /\ (pod.state = "gone" => pod'.state = "gone")
  BY <1>2, <1>3 DEF Pods
<1>6. touched' \subseteq ToolCalls /\ touched \subseteq touched'
  BY <1>2, <1>3 DEF Others
<1>7. WorldOK' /\ signalled' \subseteq Signals
  BY <1>1, <1>3, <1>4, <1>5, <1>6 DEF ToolsInv, WorldOK
<1>8. PICK y : /\ calls' = [calls EXCEPT ![t] = y] /\ ToolCallOK(t, y, deployment', setting', touched')
               /\ TargetOK(t, y, session, pod', signalled', changes, ageLimit)
  BY <1>1, <1>2, <1>4, <1>5, <1>6, OutcomeIs
<1> QED BY <1>1, <1>4, <1>5, <1>6, <1>7, <1>8, OneCallInv

\* A container or a service is restarted.
LEMMA ServiceInv ==
    ASSUME ToolsInv, NEW t \in ToolCalls, restartService(t)
    PROVE  ToolsInv'
<1>1. calls[t].pc = "execute" /\ calls[t].tool = "restart_service" /\ setting' = setting
      /\ UNCHANGED <<ageLimit, world, signalled, touched, changes>>
  BY DEF restartService, world
<1>2. \E y : /\ calls' = [calls EXCEPT ![t] = y] /\ ToolCallOK(t, y, deployment, setting', touched)
            /\ TargetOK(t, y, session, pod, signalled, changes, ageLimit)
  BY <1>1, FinishIs, ErrorIs DEF restartService
<1> QED BY <1>1, <1>2, QuietInv

\* The check ends with success: what it looked for was there, or its command failed.
LEMMA ResolvedIs ==
    ASSUME ToolsInv, NEW t \in ToolCalls, calls[t].pc = "verify", NEW blind \in BOOLEAN, Resolved(t, blind),
           blind \/ Visible(t)
    PROVE  \E y : /\ calls' = [calls EXCEPT ![t] = y] /\ ToolCallOK(t, y, deployment, setting, touched)
                 /\ TargetOK(t, y, session, pod, signalled, changes, ageLimit)
<1> DEFINE x == calls[t]
<1> DEFINE none == 0
<1> DEFINE y == [x EXCEPT !.pc = "done", !.tries = none, !.blind = blind, !.verify = "ok", !.answer = "output"]
<1>1. /\ calls \in [ToolCalls -> ToolCallStates] /\ x \in ToolCallStates
      /\ ToolCallOK(t, x, deployment, setting, touched)
      /\ TargetOK(t, x, session, pod, signalled, changes, ageLimit)
  BY ToolTypes
<1>2. calls' = [calls EXCEPT ![t] = y]
  BY <1>1 DEF Resolved
<1>3. x.tool # "reset_pg_setting"
  BY <1>1 DEF ToolCallOK, OnSession, Kubernetes
<1>4. none \in 0..3
  OBVIOUS
<1> HIDE DEF none
<1>5. /\ y \in ToolCallStates /\ y.pc = "done" /\ y.tool = x.tool /\ y.found = x.found /\ y.seen = x.seen
      /\ y.answer = "output" /\ y.pre = x.pre /\ y.replaced = x.replaced /\ y.on = x.on
      /\ y.verify = "ok" /\ y.blind = blind
  BY <1>1, <1>4 DEF ToolCallStates
<1> HIDE DEF y
<1>6. ToolCallOK(t, y, deployment, setting, touched)
  BY <1>1, <1>3, <1>5 DEF ToolCallOK
<1>7. x.tool = "terminate_connection" /\ ~blind => session.state = "gone"
  BY DEF Visible
<1>8. x.tool = "delete_pod" /\ ~blind => pod.state = "gone"
  BY DEF Visible
<1>9. TargetOK(t, y, session, pod, signalled, changes, ageLimit)
  BY <1>1, <1>5, <1>7, <1>8 DEF TargetOK, SignalOK, Bounded
<1> QED BY <1>2, <1>6, <1>9

\* It ends without, or goes on, perhaps with the command repeated.
LEMMA UnresolvedIs ==
    ASSUME ToolsInv, NEW t \in ToolCalls, calls[t].pc = "verify", Unresolved(t) \/ TryAgain(t), NEW d2, NEW tch2,
           deployment.restarted => d2.restarted, t \in touched => t \in tch2
    PROVE  \E y : /\ calls' = [calls EXCEPT ![t] = y] /\ ToolCallOK(t, y, d2, setting, tch2)
                 /\ TargetOK(t, y, session, pod, signalled, changes, ageLimit)
<1> DEFINE x == calls[t]
<1>1. /\ calls \in [ToolCalls -> ToolCallStates] /\ x \in ToolCallStates
      /\ ToolCallOK(t, x, deployment, setting, touched)
      /\ TargetOK(t, x, session, pod, signalled, changes, ageLimit)
      /\ x.tool # "reset_pg_setting" /\ x.verify = "none"
  BY ToolTypes DEF ToolCallOK, OnSession, Kubernetes
<1>2. CASE Unresolved(t)
  <2> DEFINE v == Unverified(x.tool)
  <2> DEFINE none == 0
  <2> DEFINE y == [x EXCEPT !.pc = "done", !.tries = none, !.verify = v, !.answer = "failure"]
  <2>1. v \in {"escalation_required", "failed", "warning"} /\ none \in 0..3
    BY DEF Unverified
  <2>2. calls' = [calls EXCEPT ![t] = y]
    BY <1>1, <1>2 DEF Unresolved
  <2> HIDE DEF v, none
  <2>3. /\ y \in ToolCallStates /\ y.pc = "done" /\ y.tool = x.tool /\ y.found = x.found /\ y.answer = "failure"
        /\ y.pre = x.pre /\ y.replaced = x.replaced /\ y.verify = v /\ y.seen = x.seen /\ y.on = x.on
    BY <1>1, <2>1 DEF ToolCallStates
  <2> HIDE DEF y
  <2>4. ToolCallOK(t, y, d2, setting, tch2)
    BY <1>1, <2>1, <2>3 DEF ToolCallOK
  <2>5. TargetOK(t, y, session, pod, signalled, changes, ageLimit)
    BY <1>1, <2>1, <2>3, TargetKept
  <2> QED BY <2>2, <2>4, <2>5
<1>3. CASE x.tries + 1 < Attempts(x.tool) /\ calls' = [calls EXCEPT ![t].tries = @ + 1]
  <2> DEFINE y == [x EXCEPT !.tries = @ + 1]
  <2>1. calls' = [calls EXCEPT ![t] = y]
    BY <1>1, <1>3
  <2>2. x.tries + 1 \in 0..3
    <3>1. x.tries \in 0..3
      BY <1>1 DEF ToolCallStates
    <3> QED BY <1>3, <3>1 DEF Attempts
  <2>3. /\ y \in ToolCallStates /\ y.pc = x.pc /\ y.tool = x.tool /\ y.found = x.found /\ y.answer = x.answer
        /\ y.pre = x.pre /\ y.replaced = x.replaced /\ y.verify = x.verify /\ y.tries = x.tries + 1
        /\ y.seen = x.seen /\ y.on = x.on
    BY <1>1, <2>2 DEF ToolCallStates
  <2> HIDE DEF y
  <2>4. ToolCallOK(t, y, d2, setting, tch2)
    BY <1>1, <1>3, <2>3 DEF ToolCallOK
  <2>5. TargetOK(t, y, session, pod, signalled, changes, ageLimit)
    BY <1>1, <2>3, TargetKept
  <2> QED BY <2>1, <2>4, <2>5
<1> QED BY <1>2, <1>3 DEF TryAgain

\* The effect is looked for.
LEMMA EffectInv ==
    ASSUME ToolsInv, NEW t \in ToolCalls, checkEffect(t)
    PROVE  ToolsInv'
<1>1. calls[t].pc = "verify" /\ UNCHANGED <<ageLimit, session, setting, pod, signalled, changes>>
  BY DEF checkEffect
<1>2. CASE UNCHANGED <<deployment, touched>>
  <2>1. UNCHANGED <<ageLimit, world, signalled, touched, changes>>
    BY <1>1, <1>2 DEF world
  <2>2. CASE Unresolved(t) \/ TryAgain(t)
    BY <1>1, <2>1, <2>2, UnresolvedIs, QuietInv
  <2>3. CASE Resolved(t, TRUE)
    BY <1>1, <2>1, <2>3, ResolvedIs, QuietInv
  <2>4. CASE Visible(t) /\ Resolved(t, FALSE)
    BY <1>1, <2>1, <2>4, ResolvedIs, QuietInv
  <2> QED BY <2>2, <2>3, <2>4 DEF checkEffect
<1>3. CASE /\ TryAgain(t) /\ deployment' = [deployment EXCEPT !.replicas = calls[t].want]
           /\ touched' = touched \cup Others(t)
  <2>1. WorldOK /\ deployment \in Deployments /\ touched \subseteq ToolCalls /\ calls[t].want \in Replicas
    BY ToolTypes DEF WorldOK, ToolCallStates
  <2>2. deployment' \in Deployments /\ deployment'.restarted = deployment.restarted
    BY <1>3, <2>1 DEF Deployments
  <2>3. touched' \subseteq ToolCalls /\ touched \subseteq touched' /\ Others(t) \subseteq touched'
    BY <1>3, <2>1 DEF Others
  <2>4. WorldOK' /\ signalled' \subseteq Signals
    BY <1>1, <2>1, <2>2, <2>3 DEF ToolsInv, WorldOK
  <2>5. \E y : /\ calls' = [calls EXCEPT ![t] = y] /\ ToolCallOK(t, y, deployment', setting, touched')
              /\ TargetOK(t, y, session, pod, signalled, changes, ageLimit)
    BY <1>1, <1>3, <2>2, <2>3, UnresolvedIs
  <2> QED BY <1>1, <2>2, <2>3, <2>4, <2>5, OneCallInv
<1> QED BY <1>2, <1>3 DEF checkEffect

\* What a session can do next leaves it a session, the same one, and in a transaction only
\* if it begins now or was open before.
LEMMA NextSession ==
    ASSUME NEW ses \in Sessions, changes \in Nat, NEW ses2 \in SessionChanges(ses)
    PROVE  /\ ses2 \in Sessions /\ ses2.work.id = ses.work.id
           /\ \/ ses2.work.tx = "none"
              \/ ses2.work.began = changes + 1
              \/ ses2.work.began = ses.work.began /\ ses.work.tx # "none"
<1> DEFINE w == ses.work
<1>1. w \in Work /\ ses.state \in {"active", "idle", "gone"} /\ w.id \in Nat /\ changes + 1 \in Nat
  BY DEF Sessions, Work
<1>2. NoWork(w.id) \in Work /\ NoWork(w.id).tx = "none" /\ NoWork(w.id).id = w.id
  BY <1>1 DEF NoWork, Work
<1>3. CASE ses2 = [ses EXCEPT !.state = IF @ = "active" THEN "idle" ELSE "active"]
  <2> DEFINE st == IF ses.state = "active" THEN "idle" ELSE "active"
  <2>1. ses2 = [ses EXCEPT !.state = st] /\ st \in {"active", "idle", "gone"}
    BY <1>3
  <2> HIDE DEF st
  <2>2. ses2 \in Sessions /\ ses2.work = w
    BY <2>1 DEF Sessions
  <2>3. ses2.work.tx # "none" => w.tx # "none"
    BY <2>2
  <2> QED BY <2>2, <2>3
<1>4. CASE ses2 = [state |-> "gone", work |-> NoWork(w.id)]
  BY <1>2, <1>4 DEF Sessions
<1>5. CASE \E v \in NextWork(w) : ses2 = [ses EXCEPT !.work = v]
  <2>1. PICK v \in NextWork(w) : ses2 = [ses EXCEPT !.work = v]
    BY <1>5
  <2>2. v \in Work /\ v.id = w.id
        /\ (v.tx = "none" \/ v.began = changes + 1 \/ (v.began = w.began /\ w.tx # "none"))
    <3>1. CASE w.tx = "none"
      <4>1. PICK tx \in {"reads", "writes"} : v = [w EXCEPT !.tx = tx, !.began = changes + 1]
        BY <2>1, <3>1 DEF NextWork
      <4> QED BY <1>1, <4>1 DEF Work
    <3>2. CASE w.tx # "none"
      <4>1. v = [w EXCEPT !.tx = "writes"] \/ v = NoWork(w.id)
        BY <2>1, <3>2 DEF NextWork
      <4> QED BY <1>1, <1>2, <3>2, <4>1 DEF Work
    <3> QED BY <3>1, <3>2
  <2>3. ses2 \in Sessions /\ ses2.work = v
    BY <1>1, <2>1, <2>2 DEF Sessions
  <2> QED BY <2>2, <2>3
<1> QED BY <1>3, <1>4, <1>5 DEF SessionChanges

\* What a call stands to when the session does something, or another has its process id.
LEMMA SessionMoves ==
    ASSUME ToolsInv, NEW t \in ToolCalls, NEW ses2 \in Sessions, changes \in Nat, session \in Sessions,
           \/ ses2 = session
           \/ session.state # "gone" /\ ses2 \in SessionChanges(session)
           \/ session.state = "gone" /\ ses2 = [state |-> "active", work |-> NoWork(session.work.id + 1)]
    PROVE  /\ calls[t].pc \in {"policy", "execute"} /\ calls[t].tool \in OnSession
                   => Inspected(calls[t], ses2.work, ageLimit)
           /\ \A s \in signalled : s.call = t => SignalOK(s, calls[t], ses2, ageLimit)
<1> DEFINE x == calls[t]
<1>1. x \in ToolCallStates /\ TargetOK(t, x, session, pod, signalled, changes, ageLimit)
  BY ToolTypes
<1>2. x.seen \in Nat /\ x.seen <= changes /\ session.work \in Work /\ ses2.work \in Work
  BY <1>1 DEF ToolCallStates, TargetOK, Sessions
<1>3. /\ \/ ses2.work.tx = "none"
         \/ ses2.work.began = changes + 1
         \/ ses2.work.id = session.work.id /\ ses2.work.began = session.work.began /\ session.work.tx # "none"
      /\ \/ ses2.work.id = session.work.id /\ (session.state = "gone" => ses2 = session)
         \/ ses2.work.id = session.work.id + 1
  <2>1. CASE ses2 = session
    BY <2>1
  <2>2. CASE session.state # "gone" /\ ses2 \in SessionChanges(session)
    BY <1>2, <2>2, NextSession
  <2>3. CASE session.state = "gone" /\ ses2 = [state |-> "active", work |-> NoWork(session.work.id + 1)]
    BY <2>3 DEF NoWork
  <2> QED BY <2>1, <2>2, <2>3
<1>5. ASSUME x.pc \in {"policy", "execute"}, x.tool \in OnSession PROVE Inspected(x, ses2.work, ageLimit)
  <2>1. Inspected(x, session.work, ageLimit)
    BY <1>1, <1>5 DEF TargetOK
  <2> QED BY <1>2, <1>3, <2>1 DEF Inspected
<1>6. ASSUME NEW s \in signalled, s.call = t PROVE SignalOK(s, x, ses2, ageLimit)
  <2>1. SignalOK(s, x, session, ageLimit) /\ s.to.id \in Nat
    BY <1>1, <1>6 DEF TargetOK, ToolsInv, Signals, Work
  <2>2. session.work.id \in Nat /\ ses2.work.id \in Nat
    BY <1>2 DEF Work
  <2>3. CASE ses2.work.id = session.work.id /\ (session.state = "gone" => ses2 = session)
    BY <2>1, <2>2, <2>3 DEF SignalOK
  <2>4. CASE ses2.work.id = session.work.id + 1
    BY <2>1, <2>2, <2>4 DEF SignalOK
  <2> QED BY <1>3, <2>3, <2>4
<1> QED BY <1>5, <1>6

\* The outside world moves.
LEMMA EnvironmentInv ==
    ASSUME ToolsInv, Environment
    PROVE  ToolsInv'
<1>1. UNCHANGED <<ageLimit, setting, deployment, calls, signalled, touched>>
      /\ changes < MaxChanges /\ changes' = changes + 1
  BY DEF Environment
<1>2. session \in Sessions /\ pod \in Pods /\ changes \in 0..MaxChanges /\ MaxChanges \in Nat
  BY DEF ToolsInv, WorldOK
<1>3. changes' \in 0..MaxChanges /\ changes \in Nat /\ changes + 1 \in Nat
  BY <1>1, <1>2
<1>4. /\ session' \in Sessions
      /\ \/ session' = session
         \/ session.state # "gone" /\ session' \in SessionChanges(session)
         \/ session.state = "gone" /\ session' = [state |-> "active", work |-> NoWork(session.work.id + 1)]
  <2>1. [state |-> "active", work |-> NoWork(session.work.id + 1)] \in Sessions
    BY <1>2 DEF Sessions, NoWork, Work
  <2> QED BY <1>2, <1>3, <2>1, NextSession DEF Environment
<1>5. /\ pod' \in Pods
      /\ \/ pod'.id = pod.id /\ (pod.state = "gone" => pod'.state = "gone")
         \/ pod'.id = pod.id + 1
  BY <1>2 DEF Environment, Pods
<1>6. WorldOK'
  BY <1>1, <1>3, <1>4, <1>5 DEF ToolsInv, WorldOK
<1>7. ASSUME NEW t \in ToolCalls PROVE TargetOK(t, calls[t], session', pod', signalled, changes', ageLimit)
  <2>1. /\ TargetOK(t, calls[t], session, pod, signalled, changes, ageLimit)
        /\ calls[t].seen \in Nat /\ calls[t].on \in Nat /\ pod.id \in Nat
    BY <1>2, ToolTypes DEF ToolCallStates, Pods
  <2>2. calls[t].seen <= changes' /\ calls[t].on <= pod'.id
    BY <1>1, <1>3, <1>5, <2>1 DEF TargetOK
  <2>3. calls[t].tool = "delete_pod" /\ calls[t].verify = "ok" /\ ~calls[t].blind
          => pod'.id # calls[t].on \/ pod'.state = "gone"
    BY <1>5, <2>1 DEF TargetOK
  <2>4. /\ calls[t].pc \in {"policy", "execute"} /\ calls[t].tool \in OnSession
               => Inspected(calls[t], session'.work, ageLimit)
        /\ \A s \in signalled : s.call = t => SignalOK(s, calls[t], session', ageLimit)
    BY <1>2, <1>3, <1>4, SessionMoves
  <2> QED BY <2>2, <2>3, <2>4 DEF TargetOK
<1> QED BY <1>1, <1>6, <1>7 DEF ToolsInv

-----------------------------------------------------------------------------
(* The theorems. *)

\* No call has been made.
LEMMA ToolsInitInv ==
    ASSUME ToolInit PROVE ToolsInv
<1>1. NoWork(1) \in Work
  BY DEF NoWork, Work
<1>2. /\ IdleCall \in ToolCallStates /\ IdleCall.pc = "idle" /\ IdleCall.tries = 0 /\ IdleCall.seen = 0
      /\ IdleCall.verify = "none" /\ IdleCall.answer = "none" /\ IdleCall.pre = -1 /\ IdleCall.replaced = -1
      /\ IdleCall.on = 0
  BY <1>1, ToolAssumption DEF IdleCall, ToolCallStates, Tools, Replicas
<1>3. ASSUME NEW t \in ToolCalls PROVE ToolCallOK(t, IdleCall, deployment, setting, touched)
  BY <1>2 DEF ToolCallOK
<1>4. pod \in Pods /\ setting \in Settings /\ session \in Sessions
  <2>1. pod \in Pods /\ setting \in Settings
    BY DEF ToolInit, Pods, Settings
  <2>2. PICK tx \in {"none", "reads"} : session = [state |-> "active", work |-> [id |-> 1, tx |-> tx, began |-> 0]]
    <3>1. session \in [state : {"active"}, work : [id : {1}, tx : {"none", "reads"}, began : {0}]]
      BY DEF ToolInit
    <3>2. session.work \in [id : {1}, tx : {"none", "reads"}, began : {0}] /\ session.state = "active"
      BY <3>1
    <3>3. session.work = [id |-> 1, tx |-> session.work.tx, began |-> 0] /\ session.work.tx \in {"none", "reads"}
      BY <3>2
    <3> QED BY <3>1, <3>2, <3>3
  <2>3. session \in Sessions
    BY <2>2 DEF Sessions, Work
  <2> QED BY <2>1, <2>3
<1>5. WorldOK
  <2>1. deployment \in Deployments
    <3>1. {0, MaxReplicas} \subseteq Replicas /\ {FALSE} \subseteq BOOLEAN
      BY ToolAssumption DEF Replicas
    <3> QED BY <3>1 DEF ToolInit, Deployments
  <2>2. changes \in 0..MaxChanges
    BY ToolAssumption DEF ToolInit
  <2> QED BY <1>4, <2>1, <2>2, ToolAssumption DEF ToolInit, WorldOK
<1>6. ASSUME NEW t \in ToolCalls PROVE TargetOK(t, IdleCall, session, pod, signalled, changes, ageLimit)
  BY <1>2 DEF TargetOK, ToolInit
<1>7. calls \in [ToolCalls -> ToolCallStates] /\ \A t \in ToolCalls : calls[t] = IdleCall
  BY <1>2 DEF ToolInit
<1> QED BY <1>3, <1>5, <1>6, <1>7 DEF ToolInit, ToolsInv

\* The invariant of the tools is one.
THEOREM ToolsInvariance == ToolSpec => []ToolsInv
<1>1. ToolInit => ToolsInv
  BY ToolsInitInv
<1>2. ASSUME ToolsInv, [ToolNext]_toolVars PROVE ToolsInv'
  <2>1. CASE \E t \in ToolCalls : ToolStep(t)
    <3>1. PICK t \in ToolCalls : ToolStep(t)
      BY <2>1
    <3> QED BY <1>2, <3>1, StartInv, InspectInv, PolicyInv, PreStateInv, SignalInv, ResetInv,
               KubectlInv, ServiceInv, EffectInv DEF ToolStep
  <2>2. CASE Environment
    BY <1>2, <2>2, EnvironmentInv
  <2>3. CASE UNCHANGED toolVars
    BY <1>2, <2>3 DEF toolVars, ToolsInv, WorldOK
  <2> QED BY <1>2, <2>1, <2>2, <2>3 DEF ToolNext, Done
<1> QED BY <1>1, <1>2, PTL DEF ToolSpec

\* The state of the tools keeps its type.
THEOREM ToolTypeCorrect == ToolSpec => []ToolTypeOK
<1>1. ToolsInv => ToolTypeOK
  BY DEF ToolsInv, WorldOK, ToolTypeOK, Deployments, Settings
<1> QED BY <1>1, ToolsInvariance, PTL

\* A terminated session, a deleted pod and a restarted deployment that were verified stay
\* so, and a setting reported reset is reset in the configuration, unless the check's own
\* command failed (WaitUntilResolved, resetPgSettingImpl).
THEOREM Verified == ToolSpec => []VerifiedLasts
<1>1. ASSUME ToolsInv PROVE VerifiedLasts
  <2> SUFFICES ASSUME NEW t \in ToolCalls
               PROVE  /\ calls[t].verify = "ok" /\ ~calls[t].blind =>
                             /\ calls[t].tool = "terminate_connection" =>
                                    \A s \in signalled : s.call = t => session.work.id # s.to.id \/ session.state = "gone"
                             /\ calls[t].tool = "delete_pod" => pod.id # calls[t].on \/ pod.state = "gone"
                             /\ calls[t].tool = "restart_deployment" => deployment.restarted
                      /\ calls[t].tool = "reset_pg_setting" /\ calls[t].answer = "output" => setting # "changed"
    BY DEF VerifiedLasts
  <2>1. /\ ToolCallOK(t, calls[t], deployment, setting, touched)
        /\ TargetOK(t, calls[t], session, pod, signalled, changes, ageLimit)
    BY <1>1 DEF ToolsInv
  <2> QED BY <2>1 DEF ToolCallOK, TargetOK, SignalOK
<1> QED BY <1>1, ToolsInvariance, PTL

\* Where the age of transactions is limited, a session signalled in a transaction that has
\* written was within the limit when the process id was inspected, unless that transaction
\* had only read then (inspectConnection, CheckDatabaseSessionAge).
THEOREM AgeLimit == ToolSpec => []AgeBounded
<1>1. ASSUME ToolsInv PROVE AgeBounded
  <2>1. ASSUME NEW s \in signalled PROVE Bounded(calls[s.call], s.to, ageLimit)
    <3>1. s.call \in ToolCalls
      BY <1>1, <2>1 DEF ToolsInv, Signals
    <3>2. TargetOK(s.call, calls[s.call], session, pod, signalled, changes, ageLimit)
      BY <1>1, <3>1 DEF ToolsInv
    <3> QED BY <2>1, <3>2 DEF TargetOK, SignalOK
  <2> QED BY <2>1 DEF AgeBounded, Bounded
<1> QED BY <1>1, ToolsInvariance, PTL

\* The pre-state a rollback is derived from is what the scale replaced, unless another
\* scale came between reading and scaling (scaleDeploymentImpl).
THEOREM PreState == ToolSpec => []PreStateExact
<1>1. ASSUME ToolsInv PROVE PreStateExact
  <2> SUFFICES ASSUME NEW t \in ToolCalls, t \notin touched, calls[t].pre # -1, calls[t].replaced # -1
               PROVE  calls[t].pre = calls[t].replaced
    BY DEF PreStateExact
  <2>1. ToolCallOK(t, calls[t], deployment, setting, touched)
    BY <1>1 DEF ToolsInv
  <2> QED BY <2>1 DEF ToolCallOK
<1> QED BY <1>1, ToolsInvariance, PTL
=============================================================================
