------------------------- MODULE SessionScanProofs -------------------------
(***************************************************************************)
(* The scan of a session for every number of scans, sessions and tags.     *)
(*                                                                         *)
(* Of two scans that did not overlap, one was over before the other began. *)
(* What the earlier one attached to a session the later one has seen, or   *)
(* that session is closed and takes nothing from the later one.            *)
(***************************************************************************)
EXTENDS SessionScan, TLAPS

EventRows == [state : {"none", "UNASSIGNED", "QUEUED"}, session : Sessions \cup {NoSession}]

TypeInv ==
    /\ status \in [Sessions -> {"none", "ACTIVE", "CLOSED"}]
    /\ event \in [Keys -> EventRows]
    /\ scan \in [Scans -> ScanRecord]
    /\ beside \in [Scans -> SUBSET Scans]

\* One session is ACTIVE at a time, and only opened ones have events.
SessionsSound ==
    /\ \A x, y \in Sessions : status[x] = "ACTIVE" /\ status[y] = "ACTIVE" => x = y
    /\ \A k \in Keys : event[k].session # NoSession => status[event[k].session] # "none"

\* What scan s remembers agrees with the rows it stored.
ScanSound(s) ==
    /\ \A t \in Tags : event[<<s, t>>] # NoEvent => t \in scan[s].created
    /\ \A t \in Tags : event[<<s, t>>].session # NoSession => event[<<s, t>>].state = "QUEUED"
    /\ scan[s].step \in {"off", "asked", "reading", "filtering"} =>
         scan[s].todo = {} /\ scan[s].created = {}
    /\ scan[s].step \in {"off", "asked", "reading", "filtering", "storing"} =>
         scan[s].assigned = {} /\ scan[s].unassigned = {} /\ scan[s].failed = {}
    /\ scan[s].step \in {"reading", "filtering", "storing", "assigning", "passed"} =>
         scan[s].session \in Sessions
    /\ scan[s].step = "storing" => scan[s].todo \cap scan[s].created = {}
    /\ scan[s].step = "assigning" => scan[s].created =
         scan[s].todo \cup scan[s].assigned \cup scan[s].unassigned \cup scan[s].failed

\* Each tag read is still to be stored, stored, or one the session had.
ReadAccounted(s) ==
    scan[s].step \in {"storing", "assigning", "passed"} =>
        \A t \in scan[s].read :
            \/ scan[s].step = "storing" /\ t \in scan[s].todo
            \/ t \in scan[s].created
            \/ \E k \in EventsOf(scan[s].session) : k[2] = t

\* An assigned tag is an event of a session; a scan that passed assigned all.
AssignedHasSession(s) ==
    /\ \A t \in scan[s].assigned : event[<<s, t>>].session # NoSession
    /\ scan[s].step = "passed" => scan[s].created = scan[s].assigned

\* Scans that run at the same time know of each other.
OverlapKnown ==
    \A a, b \in Scans :
        a # b /\ scan[a].step \in Running /\ scan[b].step \in Running => a \in beside[b]

\* Scan a was over before scan b began.
Before(a, b) ==
    /\ scan[a].step \in Over
    /\ scan[b].step \in {"reading", "filtering", "storing", "assigning"} =>
         \A t \in Tags : event[<<a, t>>].session # NoSession =>
             event[<<a, t>>].session = scan[b].session \/ status[event[<<a, t>>].session] = "CLOSED"
    /\ scan[b].step \in {"storing", "assigning"} =>
         \A t \in Tags : event[<<a, t>>].session = scan[b].session =>
             t \notin scan[b].todo \cup scan[b].created
    /\ \A t \in Tags : event[<<b, t>>].session # NoSession =>
         event[<<a, t>>].session # event[<<b, t>>].session

Ordered ==
    \A a, b \in Scans :
        a # b /\ scan[a].step # "off" /\ scan[b].step # "off" /\ a \notin beside[b]
        => Before(a, b) \/ Before(b, a)

IInv ==
    /\ TypeInv
    /\ SessionsSound
    /\ \A s \in Scans : ScanSound(s) /\ ReadAccounted(s) /\ AssignedHasSession(s)
    /\ OverlapKnown
    /\ Ordered

-----------------------------------------------------------------------------
(* The invariant is inductive.                                             *)

\* At the beginning there are no events, and no scan was asked for.
LEMMA InvInit == Init => IInv
<1> SUFFICES ASSUME Init PROVE IInv
  OBVIOUS
<1> USE ScanAssumption DEF Init
<1>1. NoEvent \in EventRows /\ NotAsked \in ScanRecord
  BY DEF NoEvent, EventRows, NotAsked, ScanRecord
<1>2. TypeInv
  BY <1>1 DEF TypeInv
<1>3. SessionsSound
  BY DEF SessionsSound, NoEvent
<1>4. ASSUME NEW s \in Scans PROVE ScanSound(s) /\ ReadAccounted(s) /\ AssignedHasSession(s)
  <2>1. scan[s] = NotAsked /\ \A t \in Tags : event[<<s, t>>] = NoEvent
    BY DEF Keys
  <2> QED
    BY <2>1 DEF ScanSound, ReadAccounted, AssignedHasSession, NotAsked, NoEvent
<1>5. OverlapKnown /\ Ordered
  BY DEF OverlapKnown, Ordered, NotAsked, Running
<1> QED
  BY <1>2, <1>3, <1>4, <1>5 DEF IInv

\* A step of scan s other than its beginning: what it must keep of its own, and
\* of what an earlier scan did.
LEMMA OwnStep ==
  ASSUME IInv, NEW s \in Scans, NEW r \in ScanRecord,
         scan' = [scan EXCEPT ![s] = r], UNCHANGED <<status, beside>>,
         event' \in [Keys -> EventRows],
         scan[s].step \in Running, r.step \in Running \cup Over,
         \A k \in Keys : k[1] # s \/ event[k].session # NoSession => event'[k] = event[k],
         SessionsSound', ScanSound(s)', ReadAccounted(s)', AssignedHasSession(s)',
         \A a \in Scans : a # s /\ Before(a, s) => Before(a, s)'
  PROVE  IInv'
<1> USE DEF TypeInv
<1>1. TypeInv'
  BY DEF IInv
<1>2. \A b \in Scans : b # s => scan'[b] = scan[b]
  BY DEF IInv
<1>3. scan'[s] = r
  BY DEF IInv
<1>4. \A b \in Scans, t \in Tags : b # s => event'[<<b, t>>] = event[<<b, t>>]
  BY DEF Keys
<1>5. ASSUME NEW b \in Scans, b # s
      PROVE  ScanSound(b)' /\ ReadAccounted(b)' /\ AssignedHasSession(b)'
  <2>1. ScanSound(b) /\ ReadAccounted(b) /\ AssignedHasSession(b)
    BY DEF IInv
  <2>2. ScanSound(b)'
    BY <1>2, <1>4, <1>5, <2>1 DEF ScanSound
  <2>3. AssignedHasSession(b)'
    <3>1. scan[b].assigned \subseteq Tags
      BY DEF IInv, ScanRecord
    <3> QED
      BY <1>2, <1>4, <1>5, <2>1, <3>1 DEF AssignedHasSession
  <2>4. ReadAccounted(b)'
    <3> SUFFICES ASSUME scan[b].step \in {"storing", "assigning", "passed"},
                        NEW t \in scan[b].read, NEW k \in EventsOf(scan[b].session), k[2] = t,
                        ~(scan[b].step = "storing" /\ t \in scan[b].todo), t \notin scan[b].created
                 PROVE  \E j \in EventsOf(scan[b].session)' : j[2] = t
      BY <1>2, <1>5, <2>1 DEF ReadAccounted
    <3>1. scan[b].session # NoSession /\ scan'[b].session = scan[b].session
      BY <1>2, <1>5, <2>1, ScanAssumption DEF ScanSound
    <3>2. event'[k] = event[k] /\ k \in Keys
      BY <3>1 DEF EventsOf
    <3> QED
      BY <3>1, <3>2 DEF EventsOf
  <2> QED
    BY <2>2, <2>3, <2>4
<1>6. OverlapKnown'
  BY <1>2, <1>3 DEF IInv, OverlapKnown
<1>7. Ordered'
  <2> SUFFICES ASSUME NEW a \in Scans, NEW b \in Scans, a # b, a \notin beside[b],
                      scan'[a].step # "off", scan'[b].step # "off"
               PROVE  Before(a, b)' \/ Before(b, a)'
    BY DEF Ordered
  <2>1. scan[a].step # "off" /\ scan[b].step # "off"
    BY <1>2 DEF Running
  <2>2. Before(a, b) \/ Before(b, a)
    BY <2>1 DEF IInv, Ordered
  <2>3. \A x \in Scans : ~Before(s, x)
    BY DEF Before, Running, Over
  <2>4. CASE a # s /\ b # s
    <3>1. ASSUME NEW c \in Scans, NEW d \in Scans, c # s, d # s, Before(c, d) PROVE Before(c, d)'
      BY <1>2, <1>4, <3>1 DEF Before
    <3> QED
      BY <2>2, <2>4, <3>1
  <2>5. CASE a = s \/ b = s
    BY <2>2, <2>3, <2>5
  <2> QED
    BY <2>4, <2>5
<1> QED
  BY <1>1, <1>5, <1>6, <1>7 DEF IInv

\* A step of scan s that touches no row.
LEMMA LocalStep ==
  ASSUME IInv, NEW s \in Scans, NEW r \in ScanRecord,
         scan' = [scan EXCEPT ![s] = r], UNCHANGED <<status, event, beside>>,
         scan[s].step \in Running, r.step \in Running \cup Over,
         ScanSound(s)', ReadAccounted(s)', AssignedHasSession(s)',
         \A a \in Scans : a # s /\ Before(a, s) => Before(a, s)'
  PROVE  IInv'
<1>1. event' \in [Keys -> EventRows]
  BY DEF IInv, TypeInv
<1>2. SessionsSound'
  BY DEF IInv, SessionsSound
<1> QED
  BY <1>1, <1>2, OwnStep

\* A step that ends scan s short of PASS.
LEMMA EndStep ==
  ASSUME IInv, NEW s \in Scans, NEW step \in {"failed", "killed"},
         scan[s].step \in Running, scan' = [scan EXCEPT ![s].step = step],
         UNCHANGED <<status, event, beside>>
  PROVE  IInv'
<1> DEFINE r == [scan[s] EXCEPT !.step = step]
<1>1. scan[s] \in ScanRecord
  BY DEF IInv, TypeInv
<1>2. r \in ScanRecord /\ scan' = [scan EXCEPT ![s] = r]
  BY <1>1 DEF ScanRecord, Over
<1>3. scan'[s] = r
  BY <1>2 DEF IInv, TypeInv
<1>4. /\ r.step = step /\ r.created = scan[s].created /\ r.assigned = scan[s].assigned
  BY <1>1 DEF ScanRecord
<1> HIDE DEF r
<1>5. ScanSound(s)' /\ ReadAccounted(s)' /\ AssignedHasSession(s)'
  BY <1>3, <1>4 DEF IInv, ScanSound, ReadAccounted, AssignedHasSession
<1>6. ASSUME NEW a \in Scans, a # s, Before(a, s) PROVE Before(a, s)'
  <2>1. scan'[a] = scan[a]
    BY <1>2, <1>6 DEF IInv, TypeInv
  <2> QED
    BY <1>3, <1>4, <1>6, <2>1 DEF Before
<1> QED
  BY <1>2, <1>4, <1>5, <1>6, LocalStep DEF Over

\* The scan is asked for: what is over now was over before it.
LEMMA AskKeepsInv ==
  ASSUME IInv, NEW s \in Scans, Ask(s)
  PROVE  IInv'
<1> DEFINE running == {r \in Scans : scan[r].step \in Running}
<1> USE DEF TypeInv
<1>1. /\ scan[s].step = "off" /\ UNCHANGED <<status, event>>
      /\ scan' = [scan EXCEPT ![s].step = "asked"]
      /\ beside' = [r \in Scans |-> IF r = s THEN running
                                   ELSE IF r \in running THEN beside[r] \cup {s}
                                   ELSE beside[r]]
  BY DEF Ask, Overlap
<1>2. scan[s] \in ScanRecord /\ \A b \in Scans : b # s => scan'[b] = scan[b]
  BY <1>1 DEF IInv
<1>3. scan'[s] = [scan[s] EXCEPT !.step = "asked"]
  BY <1>1 DEF IInv
<1>4. /\ scan'[s].step = "asked" /\ scan'[s].todo = scan[s].todo /\ scan'[s].created = scan[s].created
      /\ scan'[s].assigned = scan[s].assigned /\ scan'[s].unassigned = scan[s].unassigned
      /\ scan'[s].failed = scan[s].failed
  BY <1>2, <1>3 DEF ScanRecord
<1>5. TypeInv'
  <2>1. scan' \in [Scans -> ScanRecord]
    BY <1>1, <1>2 DEF IInv, ScanRecord, Running
  <2>2. beside' \in [Scans -> SUBSET Scans]
    BY <1>1 DEF IInv
  <2> QED
    BY <1>1, <2>1, <2>2 DEF IInv
<1>6. SessionsSound'
  BY <1>1 DEF IInv, SessionsSound
<1>7. ASSUME NEW b \in Scans PROVE ScanSound(b)' /\ ReadAccounted(b)' /\ AssignedHasSession(b)'
  <2>1. CASE b = s
    BY <1>1, <1>4, <2>1 DEF IInv, ScanSound, ReadAccounted, AssignedHasSession
  <2>2. CASE b # s
    BY <1>1, <1>2, <2>2 DEF IInv, ScanSound, ReadAccounted, AssignedHasSession, EventsOf
  <2> QED
    BY <2>1, <2>2
<1>8. OverlapKnown'
  BY <1>1, <1>2, <1>4 DEF IInv, OverlapKnown, Running
<1>9. Ordered'
  <2> SUFFICES ASSUME NEW a \in Scans, NEW b \in Scans, a # b, a \notin beside'[b],
                      scan'[a].step # "off", scan'[b].step # "off"
               PROVE  Before(a, b)' \/ Before(b, a)'
    BY DEF Ordered
  <2>1. ASSUME NEW c \in Scans, c # s, scan[c].step \in Over PROVE Before(c, s)'
    <3>1. \A t \in Tags : event'[<<s, t>>].session = NoSession
      BY <1>1 DEF IInv, ScanSound, NoEvent
    <3> QED
      BY <1>2, <1>4, <2>1, <3>1 DEF Before
  <2>2. \A c \in Scans : scan[c].step \in {"off"} \cup Running \cup Over
    BY DEF IInv, ScanRecord
  <2>3. CASE b = s
    BY <1>1, <1>2, <2>1, <2>2, <2>3
  <2>4. CASE a = s
    BY <1>1, <1>2, <2>1, <2>2, <2>4
  <2>5. CASE a # s /\ b # s
    <3>1. a \notin beside[b]
      BY <1>1, <2>5
    <3>2. Before(a, b) \/ Before(b, a)
      BY <1>2, <2>5, <3>1 DEF IInv, Ordered
    <3> QED
      BY <1>1, <1>2, <2>5, <3>2 DEF Before
  <2> QED
    BY <2>3, <2>4, <2>5
<1> QED
  BY <1>5, <1>6, <1>7, <1>8, <1>9 DEF IInv

\* Sessions are opened once: none that has events becomes ACTIVE.
LEMMA SessionsKeepInv ==
  ASSUME IInv, NEW x \in Sessions, OpenSession(x) \/ EndSession(x)
  PROVE  IInv'
<1> USE DEF OpenSession, EndSession
<1>1. /\ UNCHANGED <<event, scan, beside>>
      /\ status' \in [Sessions -> {"none", "ACTIVE", "CLOSED"}]
      /\ \A y \in Sessions : status[y] = "CLOSED" => status'[y] = "CLOSED"
      /\ \A y \in Sessions : status[y] # "none" => status'[y] # "none"
  BY DEF IInv, TypeInv
<1>2. TypeInv'
  BY <1>1 DEF IInv, TypeInv
<1>3. \A k \in Keys : event[k].session \in Sessions \cup {NoSession}
  BY DEF IInv, TypeInv, EventRows
<1>4. SessionsSound'
  <2>1. \A y, z \in Sessions : status'[y] = "ACTIVE" /\ status'[z] = "ACTIVE" => y = z
    BY DEF IInv, TypeInv, SessionsSound
  <2> QED
    BY <1>1, <1>3, <2>1 DEF IInv, SessionsSound
<1>5. ASSUME NEW s \in Scans PROVE ScanSound(s)' /\ ReadAccounted(s)' /\ AssignedHasSession(s)'
  BY <1>1 DEF IInv, ScanSound, ReadAccounted, AssignedHasSession, EventsOf
<1>6. OverlapKnown'
  BY <1>1 DEF IInv, OverlapKnown
<1>7. ASSUME NEW a \in Scans, NEW b \in Scans, Before(a, b) PROVE Before(a, b)'
  <2>1. \A t \in Tags : event[<<a, t>>].session \in Sessions \cup {NoSession}
    BY <1>3 DEF Keys
  <2> QED
    BY <1>1, <1>7, <2>1 DEF Before
<1>8. Ordered'
  BY <1>1, <1>7 DEF IInv, Ordered
<1> QED
  BY <1>2, <1>4, <1>5, <1>6, <1>8 DEF IInv

-----------------------------------------------------------------------------
(* The steps of a scan.                                                    *)

\* Steps that only say how the scan ended.
LEMMA FailuresKeepInv ==
  ASSUME IInv, NEW s \in Scans, BeginFails(s) \/ ReadFails(s) \/ StoreFails(s) \/ Kill(s)
  PROVE  IInv'
  BY EndStep DEF BeginFails, ReadFails, StoreFails, Kill, Running

\* The session the command takes is ACTIVE: those an earlier scan attached
\* events to are it or CLOSED.
LEMMA BeginKeepsInv ==
  ASSUME IInv, NEW s \in Scans, Begin(s)
  PROVE  IInv'
<1> PICK x \in Compatible :
      /\ status[x] = "ACTIVE"
      /\ scan' = [scan EXCEPT ![s].step = "reading", ![s].session = x]
  BY DEF Begin
<1> DEFINE r == [scan[s] EXCEPT !.step = "reading", !.session = x]
<1>1. scan[s] \in ScanRecord /\ x \in Sessions /\ scan[s].step = "asked"
  BY ScanAssumption DEF IInv, TypeInv, Begin
<1>2. r \in ScanRecord /\ scan' = [scan EXCEPT ![s] = r]
  BY <1>1 DEF IInv, TypeInv, ScanRecord, Running
<1>3. scan'[s] = r /\ \A a \in Scans : a # s => scan'[a] = scan[a]
  BY <1>2 DEF IInv, TypeInv
<1>4. /\ r.step = "reading" /\ r.session = x /\ r.todo = scan[s].todo /\ r.created = scan[s].created
      /\ r.assigned = scan[s].assigned /\ r.unassigned = scan[s].unassigned /\ r.failed = scan[s].failed
  BY <1>1 DEF ScanRecord
<1> HIDE DEF r
<1>5. UNCHANGED <<status, event, beside>>
  BY DEF Begin
<1>6. ScanSound(s)' /\ ReadAccounted(s)' /\ AssignedHasSession(s)'
  BY <1>1, <1>3, <1>4, <1>5 DEF IInv, ScanSound, ReadAccounted, AssignedHasSession
<1>7. ASSUME NEW a \in Scans, a # s, Before(a, s) PROVE Before(a, s)'
  <2>1. ASSUME NEW t \in Tags, event[<<a, t>>].session # NoSession
        PROVE  event[<<a, t>>].session = x \/ status[event[<<a, t>>].session] = "CLOSED"
    <3>1. <<a, t>> \in Keys
      BY DEF Keys
    <3>2. event[<<a, t>>].session \in Sessions /\ status[event[<<a, t>>].session] # "none"
      BY <2>1, <3>1 DEF IInv, TypeInv, EventRows, SessionsSound
    <3> QED
      BY <1>1, <3>2 DEF IInv, TypeInv, SessionsSound
  <2> QED
    BY <1>3, <1>4, <1>5, <1>7, <2>1 DEF Before
<1> QED
  BY <1>1, <1>2, <1>4, <1>5, <1>6, <1>7, LocalStep DEF Running

\* The reader's report.
LEMMA ReadKeepsInv ==
  ASSUME IInv, NEW s \in Scans, Read(s)
  PROVE  IInv'
<1> PICK read \in SUBSET Tags :
      scan' = [scan EXCEPT ![s].step = "filtering", ![s].read = read]
  BY DEF Read
<1> DEFINE r == [scan[s] EXCEPT !.step = "filtering", !.read = read]
<1>1. scan[s] \in ScanRecord /\ scan[s].step = "reading"
  BY DEF IInv, TypeInv, Read
<1>2. r \in ScanRecord /\ scan' = [scan EXCEPT ![s] = r]
  BY <1>1 DEF IInv, TypeInv, ScanRecord, Running
<1>3. scan'[s] = r /\ \A a \in Scans : a # s => scan'[a] = scan[a]
  BY <1>2 DEF IInv, TypeInv
<1>4. /\ r.step = "filtering" /\ r.session = scan[s].session /\ r.todo = scan[s].todo /\ r.created = scan[s].created
      /\ r.assigned = scan[s].assigned /\ r.unassigned = scan[s].unassigned /\ r.failed = scan[s].failed
  BY <1>1 DEF ScanRecord
<1> HIDE DEF r
<1>5. UNCHANGED <<status, event, beside>>
  BY DEF Read
<1>6. ScanSound(s)' /\ ReadAccounted(s)' /\ AssignedHasSession(s)'
  BY <1>1, <1>3, <1>4, <1>5 DEF IInv, ScanSound, ReadAccounted, AssignedHasSession
<1>7. ASSUME NEW a \in Scans, a # s, Before(a, s) PROVE Before(a, s)'
  BY <1>1, <1>3, <1>4, <1>5, <1>7 DEF Before
<1> QED
  BY <1>1, <1>2, <1>4, <1>5, <1>6, <1>7, LocalStep DEF Running

\* What an earlier scan attached to the session is left out.
LEMMA FilterKeepsInv ==
  ASSUME IInv, NEW s \in Scans, Filter(s)
  PROVE  IInv'
<1> DEFINE known == {k[2] : k \in EventsOf(scan[s].session)}
           r == [scan[s] EXCEPT !.step = "storing", !.todo = scan[s].read \ known]
<1>1. scan[s] \in ScanRecord /\ scan[s].step = "filtering"
  BY DEF IInv, TypeInv, Filter
<1>2. r \in ScanRecord /\ scan' = [scan EXCEPT ![s] = r]
  BY <1>1 DEF IInv, TypeInv, ScanRecord, Running, Filter
<1>3. scan'[s] = r /\ \A a \in Scans : a # s => scan'[a] = scan[a]
  BY <1>2 DEF IInv, TypeInv
<1>4. /\ r.step = "storing" /\ r.session = scan[s].session /\ r.todo = scan[s].read \ known
      /\ r.read = scan[s].read /\ r.created = scan[s].created
      /\ r.assigned = scan[s].assigned /\ r.unassigned = scan[s].unassigned /\ r.failed = scan[s].failed
  BY <1>1 DEF ScanRecord
<1> HIDE DEF r
<1>5. UNCHANGED <<status, event, beside>>
  BY DEF Filter
<1>6. ScanSound(s)' /\ AssignedHasSession(s)'
  BY <1>1, <1>3, <1>4, <1>5 DEF IInv, ScanSound, AssignedHasSession
<1>7. ReadAccounted(s)'
  <2>1. EventsOf(scan[s].session)' = EventsOf(scan[s].session) /\ scan'[s].session = scan[s].session
    BY <1>3, <1>4, <1>5 DEF EventsOf
  <2> QED
    BY <1>3, <1>4, <2>1 DEF ReadAccounted, EventsOf
<1>8. ASSUME NEW a \in Scans, a # s, Before(a, s) PROVE Before(a, s)'
  <2>1. ASSUME NEW t \in Tags, event[<<a, t>>].session = scan[s].session PROVE t \notin r.todo \cup r.created
    <3>1. <<a, t>> \in EventsOf(scan[s].session)
      BY <2>1 DEF EventsOf, Keys
    <3>2. t \in known
      BY <3>1
    <3>3. scan[s].created = {}
      BY <1>1 DEF IInv, ScanSound
    <3> QED
      BY <1>4, <3>2, <3>3
  <2> QED
    BY <1>1, <1>3, <1>4, <1>5, <1>8, <2>1 DEF Before
<1> QED
  BY <1>1, <1>2, <1>4, <1>5, <1>6, <1>7, <1>8, LocalStep DEF Running

\* All tags are stored, the assignments begin.
LEMMA StoredKeepsInv ==
  ASSUME IInv, NEW s \in Scans, Stored(s)
  PROVE  IInv'
<1> DEFINE r == [scan[s] EXCEPT !.step = "assigning", !.todo = scan[s].created]
<1>1. scan[s] \in ScanRecord /\ scan[s].step = "storing" /\ scan[s].todo = {}
  BY DEF IInv, TypeInv, Stored
<1>2. r \in ScanRecord /\ scan' = [scan EXCEPT ![s] = r]
  BY <1>1 DEF IInv, TypeInv, ScanRecord, Running, Stored
<1>3. scan'[s] = r /\ \A a \in Scans : a # s => scan'[a] = scan[a]
  BY <1>2 DEF IInv, TypeInv
<1>4. /\ r.step = "assigning" /\ r.session = scan[s].session /\ r.todo = scan[s].created
      /\ r.read = scan[s].read /\ r.created = scan[s].created
      /\ r.assigned = scan[s].assigned /\ r.unassigned = scan[s].unassigned /\ r.failed = scan[s].failed
  BY <1>1 DEF ScanRecord
<1> HIDE DEF r
<1>5. UNCHANGED <<status, event, beside>>
  BY DEF Stored
<1>6. ScanSound(s)' /\ AssignedHasSession(s)'
  BY <1>1, <1>3, <1>4, <1>5 DEF IInv, ScanSound, AssignedHasSession
<1>7. ReadAccounted(s)'
  BY <1>1, <1>3, <1>4, <1>5 DEF IInv, ReadAccounted, EventsOf
<1>8. ASSUME NEW a \in Scans, a # s, Before(a, s) PROVE Before(a, s)'
  BY <1>1, <1>3, <1>4, <1>5, <1>8 DEF Before
<1> QED
  BY <1>1, <1>2, <1>4, <1>5, <1>6, <1>7, <1>8, LocalStep DEF Running

\* An event that is not assigned stays as it is.
LEMMA UnassignedKeepsInv ==
  ASSUME IInv, NEW s \in Scans, NoSessionActive(s) \/ AssignFails(s)
  PROVE  IInv'
<1> PICK t \in scan[s].todo :
      \/ scan' = [scan EXCEPT ![s].todo = @ \ {t}, ![s].unassigned = @ \cup {t}]
      \/ scan' = [scan EXCEPT ![s].todo = @ \ {t}, ![s].failed = @ \cup {t}]
  BY DEF NoSessionActive, AssignFails
<1> DEFINE r == scan'[s]
<1>1. scan[s] \in ScanRecord /\ scan[s].step = "assigning"
  BY DEF IInv, TypeInv, NoSessionActive, AssignFails
<1>2. r \in ScanRecord /\ scan' = [scan EXCEPT ![s] = r]
  BY <1>1 DEF IInv, TypeInv, ScanRecord, Running
<1>3. \A a \in Scans : a # s => scan'[a] = scan[a]
  BY <1>2 DEF IInv, TypeInv
<1>4. /\ r.step = "assigning" /\ r.session = scan[s].session /\ r.todo = scan[s].todo \ {t}
      /\ r.read = scan[s].read /\ r.created = scan[s].created /\ r.assigned = scan[s].assigned
      /\ r.unassigned \cup r.failed = scan[s].unassigned \cup scan[s].failed \cup {t}
  BY <1>1 DEF IInv, TypeInv, ScanRecord
<1>5. UNCHANGED <<status, event, beside>>
  BY DEF NoSessionActive, AssignFails
<1>6. ScanSound(s)' /\ AssignedHasSession(s)'
  BY <1>1, <1>3, <1>4, <1>5 DEF IInv, ScanSound, AssignedHasSession
<1>7. ReadAccounted(s)'
  BY <1>1, <1>3, <1>4, <1>5 DEF IInv, ReadAccounted, EventsOf
<1>8. ASSUME NEW a \in Scans, a # s, Before(a, s) PROVE Before(a, s)'
  BY <1>1, <1>3, <1>4, <1>5, <1>8 DEF Before
<1> HIDE DEF r
<1> QED
  BY <1>1, <1>2, <1>4, <1>5, <1>6, <1>7, <1>8, LocalStep DEF Running

\* PASS is reported when every event stored was assigned.
LEMMA ReportKeepsInv ==
  ASSUME IInv, NEW s \in Scans, Report(s)
  PROVE  IInv'
<1>1. /\ scan[s] \in ScanRecord /\ scan[s].step = "assigning" /\ scan[s].todo = {}
      /\ UNCHANGED <<status, event, beside>>
  BY DEF IInv, TypeInv, Report
<1>2. CASE scan' = [scan EXCEPT ![s].step = "failed"]
  BY <1>1, <1>2, EndStep DEF Running
<1>3. CASE /\ scan' = [scan EXCEPT ![s].step = "passed"]
           /\ scan[s].failed = {} /\ scan[s].unassigned = {}
  <2> DEFINE r == [scan[s] EXCEPT !.step = "passed"]
  <2>1. r \in ScanRecord /\ scan' = [scan EXCEPT ![s] = r]
    BY <1>1, <1>3 DEF IInv, TypeInv, ScanRecord, Over
  <2>2. scan'[s] = r /\ \A a \in Scans : a # s => scan'[a] = scan[a]
    BY <2>1 DEF IInv, TypeInv
  <2>3. /\ r.step = "passed" /\ r.session = scan[s].session /\ r.read = scan[s].read
        /\ r.created = scan[s].created /\ r.assigned = scan[s].assigned
    BY <1>1 DEF ScanRecord
  <2> HIDE DEF r
  <2>4. scan[s].created = scan[s].assigned
    BY <1>1, <1>3 DEF IInv, ScanSound
  <2>5. ScanSound(s)' /\ AssignedHasSession(s)'
    BY <1>1, <2>2, <2>3, <2>4 DEF IInv, ScanSound, AssignedHasSession
  <2>6. ReadAccounted(s)'
    BY <1>1, <2>2, <2>3 DEF IInv, ReadAccounted, EventsOf
  <2>7. ASSUME NEW a \in Scans, a # s, Before(a, s) PROVE Before(a, s)'
    BY <1>1, <2>2, <2>3, <2>7 DEF Before
  <2> QED
    BY <1>1, <2>1, <2>3, <2>5, <2>6, <2>7, LocalStep DEF Running, Over
<1> QED
  BY <1>2, <1>3 DEF Report

\* A tag is stored under a key of the scan's own, without a session.
LEMMA StoreKeepsInv ==
  ASSUME IInv, NEW s \in Scans, Store(s)
  PROVE  IInv'
<1>0. PICK t \in scan[s].todo :
      /\ event' = [event EXCEPT ![<<s, t>>] =
                       IF @ = NoEvent THEN [NoEvent EXCEPT !.state = "UNASSIGNED"] ELSE @]
      /\ scan' = [scan EXCEPT ![s].todo = @ \ {t},
                              ![s].created = IF event[<<s, t>>] = NoEvent
                                             THEN @ \cup {t} ELSE @]
  BY DEF Store
<1> DEFINE new == [state |-> "UNASSIGNED", session |-> NoSession]
           r   == [scan[s] EXCEPT !.todo = @ \ {t}, !.created = @ \cup {t}]
<1>1. scan[s] \in ScanRecord /\ scan[s].step = "storing" /\ t \in Tags
  BY DEF IInv, TypeInv, Store, ScanRecord
<1>2. <<s, t>> \in Keys /\ event[<<s, t>>] = NoEvent
  BY <1>1 DEF Keys, IInv, ScanSound
<1>3. event' = [event EXCEPT ![<<s, t>>] = new]
  <2>1. [NoEvent EXCEPT !.state = "UNASSIGNED"] = new
    BY DEF NoEvent
  <2> QED
    BY <1>0, <1>2, <2>1 DEF IInv, TypeInv
<1>4. scan' = [scan EXCEPT ![s] = r] /\ r \in ScanRecord
  BY <1>0, <1>1, <1>2 DEF IInv, TypeInv, ScanRecord
<1>5. scan'[s] = r /\ \A a \in Scans : a # s => scan'[a] = scan[a]
  BY <1>4 DEF IInv, TypeInv
<1>6. /\ r.step = "storing" /\ r.session = scan[s].session /\ r.read = scan[s].read
      /\ r.todo = scan[s].todo \ {t} /\ r.created = scan[s].created \cup {t}
      /\ r.assigned = scan[s].assigned /\ r.unassigned = scan[s].unassigned /\ r.failed = scan[s].failed
  BY <1>1 DEF ScanRecord
<1> HIDE DEF r
<1>7. /\ event' \in [Keys -> EventRows]
      /\ \A k \in Keys : k # <<s, t>> => event'[k] = event[k]
      /\ event'[<<s, t>>] = new /\ event[<<s, t>>].session = NoSession
      /\ \A k \in Keys : event'[k].session = event[k].session
  <2>1. new \in EventRows /\ new.session = NoSession /\ NoEvent.session = NoSession
    BY DEF EventRows, NoEvent
  <2> HIDE DEF new
  <2> QED
    BY <1>2, <1>3, <2>1 DEF IInv, TypeInv
<1> HIDE DEF new
<1>8. UNCHANGED <<status, beside>>
  BY DEF Store
<1>9. SessionsSound'
  BY <1>7, <1>8 DEF IInv, SessionsSound
<1>10. ScanSound(s)'
  <2>1. \A u \in Tags : u # t => event'[<<s, u>>] = event[<<s, u>>]
    BY <1>7 DEF Keys
  <2> QED
    BY <1>1, <1>2, <1>5, <1>6, <1>7, <2>1 DEF IInv, ScanSound
<1>11. ReadAccounted(s)'
  BY <1>1, <1>5, <1>6, <1>7 DEF IInv, ReadAccounted, EventsOf
<1>12. AssignedHasSession(s)'
  BY <1>1, <1>5, <1>6 DEF IInv, ScanSound, AssignedHasSession
<1>13. ASSUME NEW a \in Scans, a # s, Before(a, s) PROVE Before(a, s)'
  <2>1. \A u \in Tags : /\ event'[<<a, u>>].session = event[<<a, u>>].session
                        /\ event'[<<s, u>>].session = event[<<s, u>>].session
    BY <1>7 DEF Keys
  <2>2. /\ scan'[a] = scan[a] /\ status' = status
        /\ scan'[s].step = "storing" /\ scan'[s].session = scan[s].session
        /\ scan'[s].todo \cup scan'[s].created \subseteq scan[s].todo \cup scan[s].created
    <3>1. (scan[s].todo \ {t}) \cup (scan[s].created \cup {t}) \subseteq scan[s].todo \cup scan[s].created
      OBVIOUS
    <3> QED
      BY <1>5, <1>6, <1>8, <1>13, <3>1
  <2>3. scan'[a].step \in Over
    BY <1>13, <2>2 DEF Before
  <2>4. \A u \in Tags : event'[<<a, u>>].session # NoSession =>
          event'[<<a, u>>].session = scan'[s].session \/ status'[event'[<<a, u>>].session] = "CLOSED"
    BY <1>1, <1>13, <2>1, <2>2 DEF Before
  <2>5. \A u \in Tags : event'[<<a, u>>].session = scan'[s].session =>
          u \notin scan'[s].todo \cup scan'[s].created
    <3>1. \A u \in Tags : event[<<a, u>>].session = scan[s].session =>
            u \notin scan[s].todo \cup scan[s].created
      BY <1>1, <1>13 DEF Before
    <3> QED
      BY <2>1, <2>2, <3>1
  <2>6. \A u \in Tags : event'[<<s, u>>].session # NoSession =>
          event'[<<a, u>>].session # event'[<<s, u>>].session
    <3>1. \A u \in Tags : event[<<s, u>>].session # NoSession =>
            event[<<a, u>>].session # event[<<s, u>>].session
      BY <1>13 DEF Before
    <3> QED
      BY <2>1, <3>1
  <2> QED
    BY <2>3, <2>4, <2>5, <2>6 DEF Before
<1>14. \A k \in Keys : k[1] # s \/ event[k].session # NoSession => event'[k] = event[k]
  BY <1>7
<1>15. scan[s].step \in Running /\ r.step \in Running \cup Over
  BY <1>1, <1>6 DEF Running
<1> QED
  BY <1>4, <1>7, <1>8, <1>9, <1>10, <1>11, <1>12, <1>13, <1>14, <1>15, OwnStep

\* An event is attached to the ACTIVE session: what an earlier scan attached to
\* the same one was left out, and into a CLOSED one nothing is attached.
LEMMA AssignKeepsInv ==
  ASSUME IInv, NEW s \in Scans, Assign(s)
  PROVE  IInv'
<1>0. PICK t \in scan[s].todo, x \in Sessions :
      /\ Assignable(<<s, t>>, x)
      /\ event' = [event EXCEPT ![<<s, t>>] = [state |-> "QUEUED", session |-> x]]
      /\ scan' = [scan EXCEPT ![s].todo = @ \ {t}, ![s].assigned = @ \cup {t}]
  BY DEF Assign
<1> DEFINE new == [state |-> "QUEUED", session |-> x]
           r   == [scan[s] EXCEPT !.todo = @ \ {t}, !.assigned = @ \cup {t}]
<1>1. scan[s] \in ScanRecord /\ scan[s].step = "assigning" /\ t \in Tags
  BY DEF IInv, TypeInv, Assign, ScanRecord
<1>2. <<s, t>> \in Keys /\ event[<<s, t>>].session = NoSession /\ status[x] = "ACTIVE" /\ x # NoSession
  BY <1>0, <1>1, ScanAssumption DEF Keys, Assignable
<1>4. scan' = [scan EXCEPT ![s] = r] /\ r \in ScanRecord
  BY <1>0, <1>1, <1>2 DEF IInv, TypeInv, ScanRecord
<1>5. scan'[s] = r /\ \A a \in Scans : a # s => scan'[a] = scan[a]
  BY <1>4 DEF IInv, TypeInv
<1>6. /\ r.step = "assigning" /\ r.session = scan[s].session /\ r.read = scan[s].read
      /\ r.todo = scan[s].todo \ {t} /\ r.created = scan[s].created
      /\ r.assigned = scan[s].assigned \cup {t}
      /\ r.unassigned = scan[s].unassigned /\ r.failed = scan[s].failed
  BY <1>1 DEF ScanRecord
<1> HIDE DEF r
<1>7. /\ event' \in [Keys -> EventRows]
      /\ \A k \in Keys : k # <<s, t>> => event'[k] = event[k]
      /\ event'[<<s, t>>] = new
  BY <1>0, <1>2 DEF IInv, TypeInv, EventRows
<1>8. UNCHANGED <<status, beside>>
  BY DEF Assign
<1>9. SessionsSound'
  BY <1>0, <1>2, <1>7, <1>8 DEF IInv, SessionsSound
<1>10. ScanSound(s)' /\ AssignedHasSession(s)'
  <2>1. \A u \in Tags : u # t => event'[<<s, u>>] = event[<<s, u>>]
    BY <1>7 DEF Keys
  <2>2. t \in scan[s].created
    BY <1>1 DEF IInv, ScanSound
  <2> QED
    <3>1. ScanSound(s)'
      BY <1>1, <1>2, <1>5, <1>6, <1>7, <2>1, <2>2 DEF IInv, ScanSound
    <3>2. AssignedHasSession(s)'
      <4>1. scan[s].assigned \subseteq Tags
        BY <1>1 DEF ScanRecord
      <4>2. event'[<<s, t>>].session # NoSession
        BY <1>2, <1>7
      <4> QED
        BY <1>5, <1>6, <2>1, <4>1, <4>2 DEF IInv, AssignedHasSession
    <3> QED
      BY <3>1, <3>2
<1>11. ReadAccounted(s)'
  <2>1. scan[s].session # NoSession
    BY <1>1, ScanAssumption DEF IInv, ScanSound
  <2>2. EventsOf(scan[s].session) \subseteq EventsOf(scan[s].session)'
    BY <1>2, <1>5, <1>6, <1>7, <2>1 DEF EventsOf
  <2> QED
    BY <1>1, <1>5, <1>6, <2>2 DEF IInv, ReadAccounted
<1>13. ASSUME NEW a \in Scans, a # s, Before(a, s) PROVE Before(a, s)'
  <2>1. \A u \in Tags : /\ event'[<<a, u>>] = event[<<a, u>>]
                        /\ u # t => event'[<<s, u>>] = event[<<s, u>>]
    BY <1>7, <1>13 DEF Keys
  <2>2. event[<<a, t>>].session # x
    BY <1>1, <1>2, <1>13 DEF Before
  <2> QED
    <3>1. scan'[a] = scan[a] /\ scan'[s].todo \cup scan'[s].created \subseteq scan[s].todo \cup scan[s].created
      BY <1>5, <1>6, <1>13
    <3>2. scan'[s].step = "assigning" /\ scan'[s].session = scan[s].session
      BY <1>5, <1>6
    <3> QED
      <4>1. event'[<<s, t>>].session = x
        BY <1>7
      <4>2. \A u \in Tags : event'[<<s, u>>].session # NoSession =>
              event'[<<a, u>>].session # event'[<<s, u>>].session
        BY <1>13, <2>1, <2>2, <4>1 DEF Before
      <4> QED
        BY <1>1, <1>8, <1>13, <2>1, <3>1, <3>2, <4>2 DEF Before
<1>14. \A k \in Keys : k[1] # s \/ event[k].session # NoSession => event'[k] = event[k]
  BY <1>2, <1>7
<1>15. scan[s].step \in Running /\ r.step \in Running \cup Over
  BY <1>1, <1>6 DEF Running
<1> QED
  BY <1>4, <1>7, <1>8, <1>9, <1>10, <1>11, <1>13, <1>14, <1>15, OwnStep

\* Every step keeps the invariant.
LEMMA InvStep == IInv /\ [Next]_vars => IInv'
<1> SUFFICES ASSUME IInv, [Next]_vars PROVE IInv'
  OBVIOUS
<1>1. ASSUME NEW x \in Sessions, OpenSession(x) \/ EndSession(x) PROVE IInv'
  BY <1>1, SessionsKeepInv
<1>2. ASSUME NEW s \in Scans, ScanStep(s) PROVE IInv'
  BY <1>2, AskKeepsInv, BeginKeepsInv, ReadKeepsInv, FilterKeepsInv, StoreKeepsInv, StoredKeepsInv,
     AssignKeepsInv, UnassignedKeepsInv, ReportKeepsInv, FailuresKeepInv DEF ScanStep
<1>3. CASE UNCHANGED vars
  <2>1. UNCHANGED <<status, event, scan, beside>>
    BY <1>3 DEF vars
  <2> QED
    BY <2>1 DEF IInv, TypeInv, SessionsSound, ScanSound, ReadAccounted, AssignedHasSession, EventsOf,
       OverlapKnown, Ordered, Before
<1> QED
  BY <1>1, <1>2, <1>3 DEF Next

\* The inductive invariant holds in every reachable state.
THEOREM Invariance == Spec => []IInv
  BY InvInit, InvStep, PTL DEF Spec

-----------------------------------------------------------------------------
(* What it says.                                                           *)

\* Two events of a tag in a session come from scans that overlapped.
THEOREM OverlapNeeded == Spec => []DoubleNeedsOverlap
<1>1. IInv => DoubleNeedsOverlap
  <2> SUFFICES ASSUME IInv, NEW j \in Keys, NEW k \in Keys, Double(j, k), j[1] \notin beside[k[1]]
               PROVE  FALSE
    BY DEF DoubleNeedsOverlap
  <2> PICK a \in Scans, b \in Scans, t \in Tags : j = <<a, t>> /\ k = <<b, t>>
    BY DEF Keys, Double
  <2>1. a # b /\ event[<<a, t>>].session # NoSession /\ event[<<a, t>>].session = event[<<b, t>>].session
    BY DEF Double
  <2>2. \A c \in Scans : event[<<c, t>>].session # NoSession => scan[c].step # "off"
    BY DEF IInv, ScanSound, NoEvent
  <2>3. Before(a, b) \/ Before(b, a)
    BY <2>1, <2>2 DEF IInv, Ordered
  <2> QED
    BY <2>1, <2>3 DEF Before
<1> QED
  BY <1>1, Invariance, PTL

\* A scan that reported PASS has lost no tag.
THEOREM PassCorrect == Spec => []PassedMeansStored
<1>1. IInv => PassedMeansStored
  BY DEF IInv, ReadAccounted, AssignedHasSession, PassedMeansStored
<1> QED
  BY <1>1, Invariance, PTL

\* Events are attached once, to the session that is ACTIVE at that moment.
THEOREM AttachmentCorrect == Spec => AttachedWhileActive
<1> DEFINE Attached ==
      \A k \in Keys : event'[k].session # event[k].session =>
           /\ event[k].session = NoSession
           /\ status[event'[k].session] = "ACTIVE"
<1>1. IInv /\ [Next]_vars => Attached
  <2> SUFFICES ASSUME IInv, [Next]_vars, NEW k \in Keys, event'[k].session # event[k].session
               PROVE  event[k].session = NoSession /\ status[event'[k].session] = "ACTIVE"
    OBVIOUS
  <2>1. event # event'
    OBVIOUS
  <2>2. PICK s \in Scans : Store(s) \/ Assign(s)
    BY <2>1 DEF Next, vars, OpenSession, EndSession, ScanStep, Ask, Begin, BeginFails, Read, ReadFails,
       Filter, StoreFails, Stored, NoSessionActive, AssignFails, Report, Kill
  <2>3. CASE Store(s)
    BY <2>3 DEF Store, IInv, TypeInv, NoEvent
  <2>4. CASE Assign(s)
    BY <2>4 DEF Assign, Assignable, IInv, TypeInv
  <2> QED
    BY <2>2, <2>3, <2>4
<1> QED
  BY <1>1, Invariance, PTL DEF Spec, AttachedWhileActive

=============================================================================
