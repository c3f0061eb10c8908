------------------------------ MODULE Incidents ------------------------------
(***************************************************************************)
(* The incident agent (agents/incident/tools.go, bundle.go): calls of      *)
(* create_incident_bundle that run at once, for a requester who waits and  *)
(* may give up, and the index file they all rewrite. The file is read,     *)
(* truncated and written in three steps and by nobody's lock.              *)
(***************************************************************************)
EXTENDS Naturals, FiniteSets

CONSTANT Bundles      \* calls of create_incident_bundle

VARIABLES
    bundle,    \* the calls: how far each is and the entries it read from the index
    index,     \* incidents.json: the bundles listed, none while it is truncated
    raced,     \* bundles that were between reading and writing the index with another one
    harmed     \* bundles that were listed when something happened to the whole list

incidentVars == <<bundle, index, raced, harmed>>

BundleStates ==
    [pc : {"idle", "collect", "assemble", "append", "truncate", "write", "report", "done", "failed"},
     entries : SUBSET Bundles,   \* read from the index
     over : BOOLEAN,             \* another call has written since this one truncated the file
     listed : BOOLEAN]           \* its append has succeeded

IncidentsInit ==
    /\ bundle = [b \in Bundles |-> [pc |-> "idle", entries |-> {}, over |-> FALSE, listed |-> FALSE]]
    /\ index = {}
    /\ raced = {} /\ harmed = {}

Goto(b, pc) == bundle' = [bundle EXCEPT ![b].pc = pc]

\* The model of the agent calls the tool.
Begin(b) ==
    /\ bundle[b].pc = "idle"
    /\ Goto(b, "collect")
    /\ UNCHANGED <<index, raced, harmed>>

\* The layers are collected; the failure of a command is only noted in the manifest.
collectLayers(b) ==
    /\ bundle[b].pc = "collect"
    /\ Goto(b, "assemble")
    /\ UNCHANGED <<index, raced, harmed>>

\* A tarball that cannot be written ends the call.
assembleTarball(b) ==
    /\ bundle[b].pc = "assemble"
    /\ Goto(b, "append") \/ Goto(b, "failed")
    /\ UNCHANGED <<index, raced, harmed>>

Appending == {b \in Bundles : bundle[b].pc \in {"truncate", "write"}}
Writing == {b \in Bundles : bundle[b].pc = "write"}
Listed == {b \in Bundles : bundle[b].listed}

\* Something happens to the whole list, or nothing does.
HarmIf(condition) == harmed' = IF condition THEN harmed \cup Listed ELSE harmed

\* appendToIndex reads the file; one that cannot be read, or does not parse, is taken for
\* an empty list.
ReadIndex(b) ==
    /\ bundle[b].pc = "append"
    /\ \E fails \in BOOLEAN :
           /\ bundle' = [bundle EXCEPT ![b].pc = "truncate", ![b].entries = IF fails THEN {} ELSE index]
           /\ HarmIf(fails \/ Writing # {})
    /\ raced' = IF Appending = {} THEN raced ELSE raced \cup Appending \cup {b}
    /\ UNCHANGED index

\* A call that has left appendToIndex, or died.
Returned(pc, listed) == [pc |-> pc, entries |-> {}, over |-> FALSE, listed |-> listed]

\* os.WriteFile opens and truncates the file. An error is logged and the call goes on.
TruncateIndex(b) ==
    /\ bundle[b].pc = "truncate"
    /\ \/ /\ bundle' = [bundle EXCEPT ![b].pc = "write", ![b].over = FALSE]
          /\ index' = {}
          /\ HarmIf(Writing # {})
       \/ bundle' = [bundle EXCEPT ![b] = Returned("report", FALSE)] /\ UNCHANGED <<index, harmed>>
    /\ UNCHANGED raced

\* Mutant of Rewritten: the entries read are dropped.
RewrittenAlone(b) == {b}

\* What the file holds after b's write: the entries it read and its own.
Rewritten(b) == bundle[b].entries \cup {b}

\* b leaves the file, which others that have it open will write over.
Written(b, listed) ==
    bundle' = [u \in Bundles |->
        CASE u = b -> Returned("report", listed)
          [] u # b /\ u \in Writing -> [bundle[u] EXCEPT !.over = TRUE]
          [] OTHER -> bundle[u]]

\* The write. One that goes over what another call wrote may leave the end of that, and then
\* the file does not parse; one that fails (no space) leaves the file empty or cut short.
\* The error is logged and the call goes on.
WriteIndex(b) ==
    /\ bundle[b].pc = "write"
    /\ \/ Written(b, TRUE) /\ index' = Rewritten(b) /\ UNCHANGED harmed
       \/ bundle[b].over /\ Written(b, TRUE) /\ index' = {} /\ UNCHANGED harmed
       \/ Written(b, FALSE) /\ index' = {} /\ HarmIf(TRUE)
    /\ UNCHANGED raced

\* The tool execution is recorded, a draft may be asked of the gateway, the result is posted
\* to the callback URL, whose receiver only logs it, and returned.
Report(b) ==
    /\ bundle[b].pc = "report"
    /\ Goto(b, "done")
    /\ UNCHANGED <<index, raced, harmed>>

\* The agent stops; its calls are gone.
AgentCrash ==
    /\ \E b \in Bundles : bundle[b].pc \notin {"idle", "done", "failed"}
    /\ bundle' = [b \in Bundles |-> IF bundle[b].pc \in {"idle", "done"} THEN bundle[b]
                                    ELSE Returned("failed", bundle[b].listed)]
    /\ HarmIf(Writing # {})
    /\ UNCHANGED <<index, raced>>

AgentStep ==
    \/ \E b \in Bundles : \/ collectLayers(b) \/ assembleTarball(b) \/ ReadIndex(b)
                          \/ TruncateIndex(b) \/ WriteIndex(b) \/ Report(b)
    \/ AgentCrash

\* incidents.json, "append-only log" of the bundles (IndexEntry), lists every bundle whose
\* append succeeded. Excepted are a bundle whose append overlapped with another's, and one
\* that was listed when a call could not read the file or read it truncated, when two calls
\* wrote it at once, when a write failed, or when the agent died before it wrote
\* (appendToIndex): what was listed then may be gone, and what is listed later is kept
\* again. While a file is being rewritten it lists none.
IndexKeeps == Writing # {} \/ Listed \ (raced \cup harmed) \subseteq index
=============================================================================
