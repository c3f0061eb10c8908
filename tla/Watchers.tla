------------------------------- MODULE Watchers -------------------------------
(***************************************************************************)
(* The programs that watch the audit trail, each alone with auditd: the    *)
(* auditor (cmd/auditor/main.go) or secbot (cmd/secbot/main.go), fed by    *)
(* the Unix socket or by polling GET /v1/events, and the incidents secbot  *)
(* asks the incident agent for. Which rule an event meets is in Detectors, *)
(* the agent in Incidents.                                                 *)
(*                                                                         *)
(* The two programs only read the trail, so one runs at a time. An event's *)
(* id is its place in the log; requests are recorded when they end, with   *)
(* the time at which they began.                                           *)
(***************************************************************************)
EXTENDS Detectors, Incidents, SequencesExt

CONSTANTS
    Deployments,   \* the watchers that run, how each is fed and whether secbot only logs; with
                   \* the kinds of events recorded and the bounds on their number and on time
    Durations,     \* how long before its record an event may have begun
    FirstLimit,    \* events fetched at the start (50)
    PollLimit,     \* events fetched by a poll (200)
    MaxSeen,       \* ids remembered before the set is dropped (2000)
    Buffer         \* secbot's eventCh (64)

\* The skew that is tolerated is at least the second to which a poll rounds.
Configured ==
    /\ \A p \in Deployments : /\ p.kinds \subseteq EventKinds /\ p.events \in Nat /\ p.until \in Nat
                              /\ p.name \in {"auditor", "secbot"} /\ p.mode \in {"poll", "socket"}
    /\ Durations \subseteq Nat
    /\ FirstLimit \in Nat \ {0} /\ PollLimit \in Nat \ {0} /\ Buffer \in Nat \ {0}
    /\ Rules.second \in Nat \ {0} /\ Rules.minute \in Nat /\ Rules.cooldown \in Nat
    /\ Rules.skew \in Nat /\ Rules.second <= Rules.skew

ASSUME RulesAssumption == Configured

VARIABLES
    now,       \* the clock
    log,       \* audit_events, in the order of insertion
    program,   \* which watcher runs, and how it is fed
    feed,      \* its place in the trail: latestSeen (-1 is zero), seenIDs, whether it runs
    wire,      \* events written to its socket and not read
    batch,     \* events read and not handled
    auditor,   \* the auditor's state
    tracker,   \* secbot's volumeTracker
    last,      \* secbot's lastIncidentTime; the zero time is a cooldown ago
    post,      \* its POST of an incident in progress
    handled,   \* how often each event was analysed
    alarms,    \* events with a timestamp_anomaly
    overtaken, \* events analysed after one that was recorded later
    excused,   \* events that no later poll or delivery can bring
    again,     \* events that a poll may bring a second time
    alerts,    \* what became of each of secbot's alerts
    posts      \* its POSTs that ended: when the agent began a bundle and when an answer
               \* came (-1 for never)

feedVars == <<feed, wire, batch, excused, again>>
watchVars == <<auditor, handled, alarms, overtaken>>
secbotVars == <<tracker, last, post, alerts, posts>>
vars == <<now, log, program, feedVars, watchVars, secbotVars, incidentVars>>

Ids == 1..Len(log)
Idle == [alert |-> 0, made |-> {}, madeAt |-> -1]

Init ==
    /\ now = 0 /\ log = <<>>
    /\ program \in Deployments
    /\ feed = [started |-> FALSE, up |-> TRUE, latestSeen |-> -1, seenIDs |-> {}]
    /\ wire = {} /\ batch = <<>> /\ excused = {} /\ again = {}
    /\ auditor = NewAuditor(0) /\ tracker = NewVolumeTracker(0)
    /\ handled = [i \in 1..program.events |-> 0] /\ alarms = {} /\ overtaken = {}
    /\ last = -Rules.cooldown /\ post = Idle
    /\ alerts = {} /\ posts = {}
    /\ IncidentsInit

Tick ==
    /\ now < program.until /\ now' = now + 1
    /\ UNCHANGED <<log, program, feedVars, watchVars, secbotVars, incidentVars>>

-----------------------------------------------------------------------------
\* The trail.

\* fetchEventsHTTP sends whole seconds.
Truncate(t) == t - (t % Rules.second)

\* An event is recorded; timestamps are in nanoseconds and differ. The socket carries it to
\* a watcher that is connected. To a poller it is late when it began before the second up
\* to which the trail was read.
Record(kind, dur) ==
    /\ Len(log) < program.events /\ dur <= now
    /\ kind.outcome = None => dur = 0
    /\ \A i \in Ids : log[i].ts # now - dur
    /\ log' = Append(log, [kind |-> kind, ts |-> now - dur, dur |-> dur])
    /\ LET id == Len(log) + 1
           heard == program.mode = "socket" /\ feed.started /\ feed.up
           late == program.mode = "poll" /\ feed.latestSeen # -1
                   /\ now - dur < Truncate(feed.latestSeen)
       IN /\ wire' = IF heard THEN wire \cup {id} ELSE wire
          /\ excused' = IF late \/ (program.mode = "socket" /\ ~heard)
                        THEN excused \cup {id} ELSE excused
    /\ UNCHANGED <<now, program, feed, batch, again, watchVars, secbotVars, incidentVars>>

\* Mutant of Query: since is exclusive.
QueryAfter(since, limit) ==
    LET matching == {i \in Ids : log[i].ts > since}
    IN {i \in matching : Cardinality({j \in matching : log[j].ts > log[i].ts}) < limit}

\* Query: the newest events, by timestamp, that are not older than since.
Query(since, limit) ==
    LET matching == {i \in Ids : log[i].ts >= since}
    IN {i \in matching : Cardinality({j \in matching : log[j].ts > log[i].ts}) < limit}

\* In the order of their timestamps, as both programs reverse what they fetched.
Chronological(ids) ==
    CHOOSE s \in SetToSeqs(ids) : \A i, j \in DOMAIN s : i < j => log[s[i]].ts < log[s[j]].ts

Newest(ids, latest) ==
    LET times == {log[i].ts : i \in ids} \cup {latest}
    IN CHOOSE t \in times : \A u \in times : u <= t

-----------------------------------------------------------------------------
\* Polling (runHTTPPollingMode of both). A fetch that fails changes nothing but the log.

\* Events pushed out of an answer for ever by newer ones.
Crowded(limit) == {i \in Ids : Cardinality({j \in Ids : log[j].ts > log[i].ts}) >= limit}

\* The first fetch: the auditor analyses what it brings, secbot does not.
FirstFetch ==
    /\ program.mode = "poll" /\ ~feed.started
    /\ \/ LET ids == Query(0, FirstLimit)
          IN /\ feed' = [feed EXCEPT !.started = TRUE, !.seenIDs = ids,
                                     !.latestSeen = Newest(ids, -1)]
             /\ batch' = IF program.name = "auditor" THEN Chronological(ids) ELSE <<>>
             /\ excused' = IF program.name = "auditor" THEN Crowded(FirstLimit) ELSE Ids
       \/ /\ feed' = [feed EXCEPT !.started = TRUE]
          /\ UNCHANGED <<batch, excused>>
    /\ UNCHANGED <<now, log, program, wire, again, watchVars, secbotVars, incidentVars>>

Since == IF feed.latestSeen = -1 THEN Truncate(now - Rules.minute) ELSE Truncate(feed.latestSeen)

\* The ids remembered after a poll. The set is dropped when it has grown too large.
Remember(ids) == IF Cardinality(ids) > MaxSeen THEN {} ELSE ids

\* Events begun more than a minute ago while nothing had been seen yet.
Stale == IF feed.latestSeen = -1 THEN {i \in Ids : log[i].ts < Truncate(now - Rules.minute)} ELSE {}

\* A tick of the poller. The batch is handled before the next.
Poll ==
    /\ program.mode = "poll" /\ feed.started /\ batch = <<>> /\ post = Idle
    /\ LET ids == Query(Since, PollLimit)
           latest == Newest(ids, feed.latestSeen)
           known == feed.seenIDs \cup ids
       IN /\ batch' = Chronological(ids \ feed.seenIDs)
          /\ feed' = [feed EXCEPT !.latestSeen = latest, !.seenIDs = Remember(known)]
          /\ excused' = excused \cup Crowded(PollLimit) \cup Stale
          /\ again' = again \cup (IF Remember(known) = known THEN {}
                                  ELSE {i \in known : log[i].ts >= Truncate(latest)})
    /\ UNCHANGED <<now, log, program, wire, watchVars, secbotVars, incidentVars>>

-----------------------------------------------------------------------------
\* The socket. auditd writes each event from its own goroutine, so they arrive in any order.

Connect ==
    /\ program.mode = "socket" /\ feed.up /\ ~feed.started
    /\ feed' = [feed EXCEPT !.started = TRUE]
    /\ excused' = excused \cup Ids
    /\ UNCHANGED <<now, log, program, wire, batch, again, watchVars, secbotVars, incidentVars>>

\* auditd restarts, or drops a listener that does not read. The auditor stops; secbot
\* handles what it has read and connects again.
Disconnected ==
    /\ feed' = [feed EXCEPT !.started = FALSE, !.up = program.name = "secbot"]
    /\ excused' = excused \cup wire
    /\ wire' = {}

Disconnect ==
    /\ program.mode = "socket" /\ feed.started
    /\ Disconnected
    /\ UNCHANGED <<now, log, program, batch, again, watchVars, secbotVars, incidentVars>>

\* The auditor reads when it has handled the last event, secbot's reader while there is
\* room. The scanner gives up on a line longer than its buffer.
ReadSocket ==
    /\ \E i \in wire :
         /\ Len(batch) < (IF program.name = "auditor" THEN 1 ELSE Buffer)
         /\ IF log[i].kind.big THEN Disconnected /\ UNCHANGED batch
            ELSE /\ batch' = Append(batch, i) /\ wire' = wire \ {i}
                 /\ UNCHANGED <<feed, excused>>
    /\ UNCHANGED <<now, log, program, again, watchVars, secbotVars, incidentVars>>

-----------------------------------------------------------------------------
\* The auditor. alert, the notifiers and the incident webhook report and change nothing.

Handled(i) ==
    /\ batch # <<>> /\ i = Head(batch)
    /\ batch' = Tail(batch)
    /\ handled' = [handled EXCEPT ![i] = @ + 1]
    /\ overtaken' = IF \E j \in Ids : j > i /\ handled[j] > 0 THEN overtaken \cup {i} ELSE overtaken

analyzeNext ==
    /\ program.name = "auditor"
    /\ \E i \in Ids :
         /\ Handled(i)
         /\ LET found == Analyze(auditor, log[i], now)
            IN /\ auditor' = found.state
               /\ alarms' = IF \E a \in found.alerts : a.type = "timestamp_anomaly"
                            THEN alarms \cup {i} ELSE alarms
    /\ UNCHANGED <<now, log, program, feed, wire, excused, again, secbotVars, incidentVars>>

-----------------------------------------------------------------------------
\* secbot.

\* processAlert, up to the POST: within the cooldown, whatever the alert, and in a dry run
\* it is only logged.
processAlert(i, type) ==
    IF type = None THEN UNCHANGED <<post, alerts>>
    ELSE LET fate == IF now - last < Rules.cooldown THEN "cooldown"
                     ELSE IF program.dryRun THEN "dry run" ELSE "posted"
         IN /\ alerts' = alerts \cup {[event |-> i, at |-> now, fate |-> fate]}
            /\ post' = IF fate = "posted" THEN [Idle EXCEPT !.alert = i] ELSE post

processNext ==
    /\ program.name = "secbot" /\ post = Idle
    /\ \E i \in Ids :
         /\ Handled(i)
         /\ tracker' = recordAndCheck(tracker, now).state
         /\ processAlert(i, AlertOf(tracker, log[i].kind, now))
    /\ UNCHANGED <<now, log, program, feed, wire, excused, again, auditor, alarms, last, posts,
                   incidentVars>>

\* handleCreateIncident hands the request to the incident agent, whose model calls the tool.
createIncident(b) ==
    /\ post # Idle /\ post.made = {}
    /\ Begin(b)
    /\ post' = [post EXCEPT !.made = {b}, !.madeAt = now]
    /\ UNCHANGED <<now, log, program, feedVars, watchVars, tracker, last, alerts, posts>>

\* gatewayPOST returns: any answer below 300 counts as an incident, also one in which the
\* agent only talks, or says that the bundle failed.
postAnswered ==
    /\ post # Idle /\ post' = Idle
    /\ \A b \in post.made : bundle[b].pc \in {"done", "failed"}
    /\ last' = now
    /\ posts' = posts \cup {[made |-> post.madeAt, answered |-> now]}
    /\ UNCHANGED <<now, log, program, feedVars, watchVars, tracker, alerts, incidentVars>>

\* Mutant of postFailed: a failure starts the cooldown too.
postFailedTimed ==
    /\ post # Idle /\ post' = Idle
    /\ last' = now
    /\ posts' = posts \cup {[made |-> post.madeAt, answered |-> -1]}
    /\ UNCHANGED <<now, log, program, feedVars, watchVars, tracker, alerts, incidentVars>>

\* It fails, or times out with the agent still at work: lastIncidentTime stays.
postFailed ==
    /\ post # Idle /\ post' = Idle
    /\ posts' = posts \cup {[made |-> post.madeAt, answered |-> -1]}
    /\ UNCHANGED <<now, log, program, feedVars, watchVars, tracker, last, alerts, incidentVars>>

Agent == AgentStep /\ UNCHANGED <<now, log, program, feedVars, watchVars, secbotVars>>

Next ==
    \/ Tick \/ (\E kind \in program.kinds, dur \in Durations : Record(kind, dur))
    \/ FirstFetch \/ Poll \/ Connect \/ Disconnect \/ ReadSocket
    \/ analyzeNext \/ processNext
    \/ (\E b \in Bundles : createIncident(b))
    \/ postAnswered \/ postFailed \/ Agent

Spec == Init /\ [][Next]_vars
-----------------------------------------------------------------------------
\* Properties.

\* Type invariant.
TypeOK ==
    /\ now \in 0..program.until /\ log \in Seq(Events) /\ program \in Deployments
    /\ feed \in [started : BOOLEAN, up : BOOLEAN, latestSeen : Nat \cup {-1}, seenIDs : SUBSET Ids]
    /\ wire \subseteq Ids /\ batch \in Seq(Ids) /\ excused \subseteq Ids /\ again \subseteq Ids
    /\ auditor \in AuditorStates /\ tracker \in VolumeTrackers
    /\ alarms \subseteq Ids /\ overtaken \subseteq Ids
    /\ last \in -Rules.cooldown..program.until
    /\ bundle \in [Bundles -> BundleStates] /\ index \subseteq Bundles

\* No poll or delivery to come will bring event i.
Past(i) ==
    IF program.mode = "poll"
    THEN feed.latestSeen # -1 /\ (log[i].ts < Since \/ i \in feed.seenIDs)
    ELSE i \notin wire

\* A watcher analyses every event once. It misses one only when it was recorded after the
\* second in which it began had been read, when more newer events than a fetch brings had
\* been recorded, before the watcher started or while it was not connected, as it is after
\* a line of more than 64 KB, which ends the connection unread; and analyses one
\* again only when it lay in the last second read while the set of known ids was dropped
\* (runHTTPPollingMode: since is inclusive, "so the boundary event reappears").
WatchedOnce ==
    \A i \in Ids :
        /\ Past(i) /\ i \notin Range(batch) => handled[i] > 0 \/ i \in excused
        /\ handled[i] > 1 => i \in again

\* The auditor reports a timestamp that runs backwards only for an event that another one,
\* recorded later, overtook in the socket's goroutines; polling never makes it do so, for
\* all the requests that are recorded when they end under the time at which they began
\* (checkTimestampGap: "Gap fully explained by how long this event ran").
AnomaliesExplained ==
    /\ alarms \subseteq overtaken
    /\ program.mode = "poll" => alarms = {}

\* The cooldown is neither cut short nor drawn out (processAlert; "Minimum time between
\* incident creations"): the agent begins two bundles for secbot within a cooldown only
\* when secbot never had an answer for the first, and an alert is passed over only within
\* a cooldown of a POST that was answered, however many alerts and failures come between.
CooldownKept ==
    /\ \A p, q \in posts :
          p.made # -1 /\ p.made < q.made /\ q.made - p.made < Rules.cooldown => p.answered = -1
    /\ \A a \in alerts : a.fate = "cooldown" =>
          \E p \in posts : p.answered # -1 /\ a.at \in p.answered..(p.answered + Rules.cooldown - 1)
=============================================================================
