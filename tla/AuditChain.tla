------------------------------ MODULE AuditChain ------------------------------
(***************************************************************************)
(* The hash-chained audit log: Store.Record and its mutex, the restart of  *)
(* a recording process, chain verification (internal/audit/store.go,       *)
(* internal/audit/hash.go), the socket fan-out to a listener, and the      *)
(* auditor that checks the chain as events arrive (cmd/auditor/main.go).   *)
(*                                                                         *)
(* Processes share the audit_events table.  In a deployment with auditd it *)
(* is the only recorder; in local mode the gateway, the orchestrator and   *)
(* every agent open the table themselves, each with a lastHash of its own. *)
(***************************************************************************)
EXTENDS Integers, Sequences, FiniteSets

CONSTANTS
    Processes,    \* processes that opened a Store on the table
    Recorders,    \* goroutines inside Record
    ProcessOf,    \* the process each recorder belongs to
    SocketOwner,  \* the process whose Store was given a socket path
    EventIds,     \* event ids
    Nobody,       \* no event, no recorder
    LegacyCounts, \* how many rows without hashes the table may start with
    MaxLost,      \* bound: INSERTs committed whose acknowledgement is lost
    MaxRestarts   \* bound: restarts of a process

ChainConfigured ==
    /\ ProcessOf \in [Recorders -> Processes] /\ SocketOwner \in Processes
    /\ Nobody \notin EventIds /\ Nobody \notin Recorders
    /\ LegacyCounts \subseteq Nat
    /\ MaxLost \in Nat /\ MaxRestarts \in Nat

ASSUME ChainAssumption == ChainConfigured

\* SHA-256 as an injective function of the event and its prev_hash: the ids
\* hashed along the chain.  A legacy row's hash is computed, never stored.
GenesisHash == <<>>
ComputeEventHash(e, prev) == Append(prev, e)
Hashes == Seq(EventIds \cup {Nobody})

\* A row of audit_events; by and acked are not columns: they say which process
\* wrote it and whether that process learned of it.
Rows == [event : EventIds \cup {Nobody}, prev : Hashes, hashed : BOOLEAN,
         by : Processes \cup {Nobody}, acked : BOOLEAN]
LegacyRow == [event |-> Nobody, prev |-> GenesisHash, hashed |-> FALSE,
              by |-> Nobody, acked |-> TRUE]
HashOf(r) == ComputeEventHash(r.event, r.prev)

VARIABLES
    trail,        \* audit_events in id order
    lastHash,     \* Store.lastHash of each process
    hashMu,       \* holder of each process's hashMu
    rec,          \* what each recorder is writing: event and prev_hash
    sending,      \* notifyListeners goroutines: positions in trail still to send
    connected,    \* the auditor's connection is in the listener list
    seen,         \* Auditor.lastEventHash: a set, empty before the first event
    chainAlarms,  \* positions in trail at which the auditor cried "link broken"
    lost, restarts

chainVars == <<trail, lastHash, hashMu, rec, sending, connected, seen, chainAlarms, lost, restarts>>
listener == <<connected, seen, chainAlarms>>

IdleRecorder == [event |-> Nobody, prev |-> GenesisHash]
Recorded == {trail[i].event : i \in 1..Len(trail)}

\* initLastHash: the newest row's event_hash, the genesis hash when the table
\* is empty or that row has none.
initLastHash(rows) ==
    IF rows # <<>> /\ rows[Len(rows)].hashed THEN HashOf(rows[Len(rows)]) ELSE GenesisHash

ChainInit ==
    /\ \E n \in LegacyCounts : trail = [i \in 1..n |-> LegacyRow]
    /\ lastHash = [p \in Processes |-> initLastHash(trail)]
    /\ hashMu = [p \in Processes |-> Nobody]
    /\ rec = [g \in Recorders |-> IdleRecorder]
    /\ sending = {} /\ connected = FALSE /\ seen = {} /\ chainAlarms = {}
    /\ lost = 0 /\ restarts = 0

-----------------------------------------------------------------------------
(* Record: lock, link, INSERT, advance lastHash, unlock. *)

\* Mutant: hashMu is not held through the write.
LinkUnlocked(g, e) ==
    /\ rec[g] = IdleRecorder
    /\ e \notin Recorded /\ \A h \in Recorders : rec[h].event # e
    /\ rec' = [rec EXCEPT ![g] = [event |-> e, prev |-> lastHash[ProcessOf[g]]]]
    /\ UNCHANGED <<trail, lastHash, hashMu, sending, listener, lost, restarts>>

Link(g, e) ==
    /\ rec[g] = IdleRecorder /\ hashMu[ProcessOf[g]] = Nobody
    /\ e \notin Recorded /\ \A h \in Recorders : rec[h].event # e
    /\ hashMu' = [hashMu EXCEPT ![ProcessOf[g]] = g]
    /\ rec' = [rec EXCEPT ![g] = [event |-> e, prev |-> lastHash[ProcessOf[g]]]]
    /\ UNCHANGED <<trail, lastHash, sending, listener, lost, restarts>>

RowOf(g, ack) == [event |-> rec[g].event, prev |-> rec[g].prev, hashed |-> TRUE,
                  by |-> ProcessOf[g], acked |-> ack]

Unlock(g) ==
    /\ hashMu' = [hashMu EXCEPT ![ProcessOf[g]] = Nobody]
    /\ rec' = [rec EXCEPT ![g] = IdleRecorder]

\* The INSERT succeeds: lastHash moves on and, if anybody listens, a goroutine
\* is started to send the row.
Insert(g) ==
    /\ rec[g] # IdleRecorder
    /\ trail' = Append(trail, RowOf(g, TRUE))
    /\ lastHash' = [lastHash EXCEPT ![ProcessOf[g]] =
                        ComputeEventHash(rec[g].event, rec[g].prev)]
    /\ sending' = IF connected /\ ProcessOf[g] = SocketOwner
                  THEN sending \cup {Len(trail) + 1} ELSE sending
    /\ Unlock(g)
    /\ UNCHANGED <<listener, lost, restarts>>

\* The INSERT fails: nothing is written and lastHash stays.
InsertFailed(g) ==
    /\ rec[g] # IdleRecorder
    /\ Unlock(g)
    /\ UNCHANGED <<trail, lastHash, sending, listener, lost, restarts>>

\* The row is committed but ExecContext reports an error (the caller's context
\* ends, the connection drops): lastHash stays behind the table.
InsertUnacknowledged(g) ==
    /\ rec[g] # IdleRecorder /\ lost < MaxLost
    /\ trail' = Append(trail, RowOf(g, FALSE))
    /\ lost' = lost + 1
    /\ Unlock(g)
    /\ UNCHANGED <<lastHash, sending, listener, restarts>>

\* The socket, the goroutines writing to it and the connection go with their
\* process; the auditor at the other end stops.
CloseSocket(p) ==
    IF p = SocketOwner THEN sending' = {} /\ connected' = FALSE /\ seen' = {}
                       ELSE UNCHANGED <<sending, connected, seen>>

\* A process restarts, at any point of its recorders' work: NewStore reads the
\* newest row of the table.
Restart(p) ==
    /\ restarts < MaxRestarts /\ restarts' = restarts + 1
    /\ lastHash' = [lastHash EXCEPT ![p] = initLastHash(trail)]
    /\ hashMu' = [hashMu EXCEPT ![p] = Nobody]
    /\ rec' = [g \in Recorders |-> IF ProcessOf[g] = p THEN IdleRecorder ELSE rec[g]]
    /\ CloseSocket(p)
    /\ UNCHANGED <<trail, chainAlarms, lost>>

-----------------------------------------------------------------------------
(* The socket and the auditor. *)

\* The auditor (re)starts and its connection is accepted.
ConnectAuditor ==
    /\ ~connected /\ connected' = TRUE
    /\ seen' = {}
    /\ UNCHANGED <<trail, lastHash, hashMu, rec, sending, chainAlarms, lost, restarts>>

checkChainIntegrity(i) ==
    /\ chainAlarms' = IF seen # {} /\ trail[i].prev \notin seen THEN chainAlarms \cup {i} ELSE chainAlarms
    /\ seen' = {HashOf(trail[i])}

\* One of the sending goroutines writes its row, in whatever order they run,
\* and the auditor checks it.
Send(i) ==
    /\ i \in sending
    /\ sending' = sending \ {i}
    /\ checkChainIntegrity(i)
    /\ UNCHANGED <<trail, lastHash, hashMu, rec, connected, lost, restarts>>

\* A write misses its deadline: the connection is closed and pruned, and the
\* auditor at its other end stops.
SendFailed ==
    /\ sending # {} /\ sending' = {}
    /\ connected' = FALSE /\ seen' = {}
    /\ UNCHANGED <<trail, lastHash, hashMu, rec, chainAlarms, lost, restarts>>

ChainNext ==
    \/ \E g \in Recorders :
         \/ \E e \in EventIds : Link(g, e)
         \/ Insert(g) \/ InsertFailed(g) \/ InsertUnacknowledged(g)
    \/ \E p \in Processes : Restart(p)
    \/ ConnectAuditor \/ \E i \in sending : Send(i)
    \/ SendFailed

ChainSpec == ChainInit /\ [][ChainNext]_chainVars
-----------------------------------------------------------------------------
(* VerifyChain. *)

\* The link check for row i: a legacy row has no prev_hash to check; after one,
\* the expected hash is computed.
Linked(rows, i) ==
    \/ ~rows[i].hashed
    \/ IF i = 1 THEN rows[i].prev = GenesisHash ELSE rows[i].prev = HashOf(rows[i - 1])

VerifyChain(rows) == \A i \in 1..Len(rows) : Linked(rows, i)
-----------------------------------------------------------------------------
(* Properties. *)

\* Every variable keeps its type: listeners and alarms name rows of the table
\* (Store's and Auditor's fields).
ChainTypeOK ==
    /\ trail \in Seq(Rows)
    /\ lastHash \in [Processes -> Hashes]
    /\ hashMu \in [Processes -> Recorders \cup {Nobody}]
    /\ rec \in [Recorders -> [event : EventIds \cup {Nobody}, prev : Hashes]]
    /\ sending \subseteq 1..Len(trail)
    /\ connected \in BOOLEAN
    /\ seen \subseteq Hashes
    /\ chainAlarms \subseteq 1..Len(trail)
    /\ lost \in 0..MaxLost /\ restarts \in 0..MaxRestarts

\* A chain is broken only where the process could not know the row before: it
\* was another process's, its acknowledgement was lost, or it carries no hash.
\* One recording process, whatever its goroutines and restarts do, keeps the
\* chain that VerifyIntegrity checks unbroken (Record's hashMu, initLastHash).
BreaksExplained ==
    \A i \in 1..Len(trail) : ~Linked(trail, i) =>
        /\ i > 1
        /\ \/ trail[i - 1].by # trail[i].by
           \/ ~trail[i - 1].acked
           \/ ~trail[i - 1].hashed

\* The log is a tree rooted at the genesis hash even when it forks: no row
\* names a predecessor that is not in the table before it.
NoDanglingLink ==
    \A i \in 1..Len(trail) : trail[i].hashed =>
        \/ trail[i].prev = GenesisHash
        \/ \E j \in 1..(i - 1) : trail[j].hashed /\ trail[i].prev = HashOf(trail[j])
=============================================================================
