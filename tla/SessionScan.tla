---------------------------- MODULE SessionScan ----------------------------
(***************************************************************************)
(* The scan a staff member starts for a session on the web page: the view  *)
(* active_session_scan, the command run_active_rfid_session_scan, the      *)
(* ingestion of the reads and their assignment to the reader's session.    *)
(*                                                                         *)
(* The web application has several processes, each executes one request at *)
(* a time.  A request that lasts is reported as failed to the browser by   *)
(* the proxy, so that the same scan may be asked for again while it runs.  *)
(* Every query is a transaction of its own, except an assignment.          *)
(***************************************************************************)
EXTENDS Naturals, FiniteSets

CONSTANTS
    Scans,        \* the scans asked for; each has a token of its own
    Sessions,     \* the sessions of the reader
    Tags,         \* EPCs
    Compatible,   \* the sessions whose operation is that of the reader's role
    Shared,       \* the reader has shared_operations
    NoSession     \* NULL

ASSUME ScanAssumption ==
    /\ IsFiniteSet(Scans) /\ IsFiniteSet(Tags)
    /\ Compatible \subseteq Sessions
    /\ NoSession \notin Sessions
    /\ Shared \in BOOLEAN

VARIABLES
    status,   \* status[x]: "none" before session x is opened
    event,    \* event[<<s, t>>]: the row scan s stores for tag t
    scan,     \* scan[s]: the process that executes scan s
    beside    \* beside[s]: the scans that ran at some time while s did

vars == <<status, event, scan, beside>>

\* The reader_event_key is a digest of the scan token and the EPC.
Keys == Scans \X Tags

NoEvent == [state |-> "none", session |-> NoSession]

\* What the scan remembers: the session it found, the tags read, those still to
\* be stored or assigned, the tags stored, and what became of the assignments.
NotAsked ==
    [step |-> "off", session |-> NoSession, read |-> {}, todo |-> {}, created |-> {},
     assigned |-> {}, unassigned |-> {}, failed |-> {}]

Running == {"asked", "reading", "filtering", "storing", "assigning"}
Over == {"passed", "failed", "killed"}

Init ==
    /\ status = [x \in Sessions |-> "none"]
    /\ event = [k \in Keys |-> NoEvent]
    /\ scan = [s \in Scans |-> NotAsked]
    /\ beside = [s \in Scans |-> {}]

EventsOf(x) == {k \in Keys : event[k].session = x}

-----------------------------------------------------------------------------
(* Sessions are opened and ended by others.                                *)

\* One ACTIVE session for a reader, and none is opened twice.
OpenSession(x) ==
    /\ status[x] = "none"
    /\ \A y \in Sessions : status[y] # "ACTIVE"
    /\ status' = [status EXCEPT ![x] = "ACTIVE"]
    /\ UNCHANGED <<event, scan, beside>>

EndSession(x) ==
    /\ status[x] = "ACTIVE"
    /\ status' = [status EXCEPT ![x] = "CLOSED"]
    /\ UNCHANGED <<event, scan, beside>>

-----------------------------------------------------------------------------
(* The scan.                                                               *)

\* Scan s begins to run beside those that are running.
Overlap(s) ==
    LET running == {r \in Scans : scan[r].step \in Running}
    IN  beside' = [r \in Scans |-> IF r = s THEN running
                                   ELSE IF r \in running THEN beside[r] \cup {s}
                                   ELSE beside[r]]

\* The view finds the session of the page ACTIVE and calls the command.
Ask(s) ==
    /\ scan[s].step = "off"
    /\ \E x \in Sessions : status[x] = "ACTIVE"
    /\ scan' = [scan EXCEPT ![s].step = "asked"]
    /\ Overlap(s)
    /\ UNCHANGED <<status, event>>

\* The command takes the session that is ACTIVE for the reader.
Begin(s) ==
    /\ scan[s].step = "asked"
    /\ \E x \in Compatible :
           /\ status[x] = "ACTIVE"
           /\ scan' = [scan EXCEPT ![s].step = "reading", ![s].session = x]
    /\ UNCHANGED <<status, event, beside>>

\* There is none, or its operation is not that of the reader's role.
BeginFails(s) ==
    /\ scan[s].step = "asked"
    /\ \A x \in Compatible : status[x] # "ACTIVE"
    /\ scan' = [scan EXCEPT ![s].step = "failed"]
    /\ UNCHANGED <<status, event, beside>>

\* The reader reports each tag once.
Read(s) ==
    /\ scan[s].step = "reading"
    /\ \E read \in SUBSET Tags :
           scan' = [scan EXCEPT ![s].step = "filtering", ![s].read = read]
    /\ UNCHANGED <<status, event, beside>>

ReadFails(s) ==
    /\ scan[s].step = "reading"
    /\ scan' = [scan EXCEPT ![s].step = "failed"]
    /\ UNCHANGED <<status, event, beside>>

\* Mutant: all tags read are stored.
FilterNothing(s) ==
    /\ scan[s].step = "filtering"
    /\ scan' = [scan EXCEPT ![s].step = "storing", ![s].todo = scan[s].read]
    /\ UNCHANGED <<status, event, beside>>

\* Tags the session already has are left out.
Filter(s) ==
    /\ scan[s].step = "filtering"
    /\ LET known == {k[2] : k \in EventsOf(scan[s].session)}
       IN  scan' = [scan EXCEPT ![s].step = "storing", ![s].todo = scan[s].read \ known]
    /\ UNCHANGED <<status, event, beside>>

\* ingest_technical_reads: one tag after the other is stored if its key is new.
Store(s) ==
    /\ scan[s].step = "storing"
    /\ \E t \in scan[s].todo :
           /\ event' = [event EXCEPT ![<<s, t>>] =
                            IF @ = NoEvent THEN [NoEvent EXCEPT !.state = "UNASSIGNED"] ELSE @]
           /\ scan' = [scan EXCEPT ![s].todo = @ \ {t},
                                   ![s].created = IF event[<<s, t>>] = NoEvent
                                                  THEN @ \cup {t} ELSE @]
    /\ UNCHANGED <<status, beside>>

\* The database refuses one: those before it stay.
StoreFails(s) ==
    /\ scan[s].step = "storing"
    /\ scan[s].todo # {}
    /\ scan' = [scan EXCEPT ![s].step = "failed"]
    /\ UNCHANGED <<status, event, beside>>

Stored(s) ==
    /\ scan[s].step = "storing"
    /\ scan[s].todo = {}
    /\ scan' = [scan EXCEPT ![s].step = "assigning", ![s].todo = scan[s].created]
    /\ UNCHANGED <<status, event, beside>>

\* assign_event_to_active_session does not raise for session x.
Assignable(k, x) ==
    /\ event[k] = [state |-> "UNASSIGNED", session |-> NoSession]
    /\ status[x] = "ACTIVE"
    /\ Shared \/ x \in Compatible

\* Mutant: the event goes to the session the command found.
AssignRemembered(s) ==
    /\ scan[s].step = "assigning"
    /\ \E t \in scan[s].todo :
           /\ event' = [event EXCEPT ![<<s, t>>] =
                            [state |-> "QUEUED", session |-> scan[s].session]]
           /\ scan' = [scan EXCEPT ![s].todo = @ \ {t}, ![s].assigned = @ \cup {t}]
    /\ UNCHANGED <<status, beside>>

\* The event goes to the session that is ACTIVE for the reader now.
Assign(s) ==
    /\ scan[s].step = "assigning"
    /\ \E t \in scan[s].todo, x \in Sessions :
           /\ Assignable(<<s, t>>, x)
           /\ event' = [event EXCEPT ![<<s, t>>] = [state |-> "QUEUED", session |-> x]]
           /\ scan' = [scan EXCEPT ![s].todo = @ \ {t}, ![s].assigned = @ \cup {t}]
    /\ UNCHANGED <<status, beside>>

\* Mutant: an event without a session counts as assigned.
NoSessionCounted(s) ==
    /\ scan[s].step = "assigning"
    /\ \A x \in Sessions : status[x] # "ACTIVE"
    /\ \E t \in scan[s].todo :
           scan' = [scan EXCEPT ![s].todo = @ \ {t}, ![s].assigned = @ \cup {t}]
    /\ UNCHANGED <<status, event, beside>>

\* RFIDSession.DoesNotExist: the event stays as it is.
NoSessionActive(s) ==
    /\ scan[s].step = "assigning"
    /\ \A x \in Sessions : status[x] # "ACTIVE"
    /\ \E t \in scan[s].todo :
           scan' = [scan EXCEPT ![s].todo = @ \ {t}, ![s].unassigned = @ \cup {t}]
    /\ UNCHANGED <<status, event, beside>>

\* Any other exception, of the checks or of the database.
AssignFails(s) ==
    /\ scan[s].step = "assigning"
    /\ \E t \in scan[s].todo :
           scan' = [scan EXCEPT ![s].todo = @ \ {t}, ![s].failed = @ \cup {t}]
    /\ UNCHANGED <<status, event, beside>>

\* The command ends with PASS if every event it stored was assigned.
Report(s) ==
    /\ scan[s].step = "assigning"
    /\ scan[s].todo = {}
    /\ LET complete == /\ scan[s].failed = {}
                       /\ scan[s].unassigned = {}
                       /\ Cardinality(scan[s].assigned) = Cardinality(scan[s].created)
       IN  scan' = [scan EXCEPT ![s].step = IF complete THEN "passed" ELSE "failed"]
    /\ UNCHANGED <<status, event, beside>>

\* The server kills the process of a request that takes too long.
Kill(s) ==
    /\ scan[s].step \in Running
    /\ scan' = [scan EXCEPT ![s].step = "killed"]
    /\ UNCHANGED <<status, event, beside>>

ScanStep(s) ==
    \/ Ask(s)
    \/ Begin(s) \/ BeginFails(s)
    \/ Read(s) \/ ReadFails(s)
    \/ Filter(s)
    \/ Store(s) \/ StoreFails(s) \/ Stored(s)
    \/ Assign(s) \/ NoSessionActive(s) \/ AssignFails(s)
    \/ Report(s)
    \/ Kill(s)

Next ==
    \/ \E x \in Sessions : OpenSession(x) \/ EndSession(x)
    \/ \E s \in Scans : ScanStep(s)

Spec == Init /\ [][Next]_vars

-----------------------------------------------------------------------------
(* Correctness.                                                            *)

ScanRecord ==
    [step : {"off"} \cup Running \cup Over, session : Sessions \cup {NoSession},
     read : SUBSET Tags, todo : SUBSET Tags, created : SUBSET Tags,
     assigned : SUBSET Tags, unassigned : SUBSET Tags, failed : SUBSET Tags]

\* Two events of one session are of the same tag.
Double(j, k) ==
    j # k /\ j[2] = k[2] /\ event[j].session # NoSession /\ event[j].session = event[k].session

\* A session has no two events of one tag, whatever scans were made for it.
UniqueInSession == \A j, k \in Keys : ~Double(j, k)

\* It has only if the two scans that stored them ran at the same time: a scan
\* sees what every scan before it has stored, failed and killed ones included.
DoubleNeedsOverlap == \A j, k \in Keys : Double(j, k) => j[1] \in beside[k[1]]

\* A scan that passed lost nothing: each tag it read is an event it stored and
\* attached to a session, or one its session had before.
PassedMeansStored ==
    \A s \in Scans : scan[s].step = "passed" =>
        \A t \in scan[s].read :
            \/ event[<<s, t>>].session # NoSession
            \/ \E k \in EventsOf(scan[s].session) : k[2] = t

\* An event gets its session once, while that session is ACTIVE, and keeps it:
\* a session that was closed gets no more events from a scan that began before.
AttachedWhileActive ==
    [][\A k \in Keys : event'[k].session # event[k].session =>
           /\ event[k].session = NoSession
           /\ status[event'[k].session] = "ACTIVE"]_vars

=============================================================================
