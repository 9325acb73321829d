------------------------ MODULE InventoryScanProofs ------------------------
(***************************************************************************)
(* The active inventory for any tags, bounds and number of reports.        *)
(*                                                                         *)
(* The confirmation of STOP is the last thing the reader sends for the     *)
(* requests of the run: whoever has it has a reader that is off.           *)
(***************************************************************************)
EXTENDS InventoryScan, SequenceTheorems, WellFoundedInduction, TLAPS

Steps == {"new", "sent", "loop", "receive", "finally", "confirm", "done", "failed"}

Clients ==
    [step : Steps, reads : Nat, error : BOOLEAN, started : BOOLEAN, asked : BOOLEAN,
     tags : [Tags -> Nat]]

TypeInv ==
    /\ client \in Clients
    /\ late \in BOOLEAN
    /\ interrupted \in {"no", "loop", "elsewhere"}
    /\ inbox \in Seq({"START", "STOP"})
    /\ wire \in Seq(FrameRecords) /\ taken \in Seq(FrameRecords)
    /\ up \in BOOLEAN /\ reading \in BOOLEAN

\* STOP was sent unless the run ended by an exception outside of the try.
Asked ==
    /\ client.step \in {"confirm", "done"} => client.asked
    /\ client.step = "failed" /\ up /\ interrupted # "elsewhere" => client.asked

\* Nothing follows STOP on its way to the reader.
StopIsLast ==
    \A i \in 1 .. Len(inbox) :
        inbox[i] = "STOP" => i = Len(inbox) /\ client.step \in {"confirm"} \cup Over

\* The reader says that it stopped.
Confirms(f) == f.command = "stop" /\ f.accepted

\* Who confirms STOP has obeyed it and has nothing else to obey.
ConfirmedIsOff ==
    /\ (\E i \in 1 .. Len(wire) : Confirms(wire[i])) =>
         inbox = <<>> /\ ~reading /\ client.step \in {"confirm"} \cup Over
    /\ client.step = "done" => inbox = <<>> /\ ~reading

\* What the client has made of the frames it took.
TagsComplete ==
    /\ ~client.error => client.tags = [t \in Tags |-> FirstOf(t, taken)]
    /\ client.started => \E i \in 1 .. Len(taken) : taken[i] = Frame("start", TRUE)
    /\ client.step = "done" => ~client.error /\ client.started

IInv == TypeInv /\ Asked /\ StopIsLast /\ ConfirmedIsOff /\ TagsComplete

-----------------------------------------------------------------------------
(* First reports.                                                          *)

\* A set of positions has a first one.
LEMMA Least ==
  ASSUME NEW T \in SUBSET Nat, T # {}
  PROVE  \E x \in T : \A y \in T : x <= y
<1> DEFINE R == {ss \in Nat \X Nat : ss[1] < ss[2]}
<1>1. IsWellFoundedOn(R, Nat)
  BY NatLessThanWellFounded DEF OpToRel
<1>2. \A x, y \in Nat : y < x => <<y, x>> \in R
  OBVIOUS
<1> HIDE DEF R
<1>3. PICK x \in T : \A y \in T : ~(<<y, x>> \in R)
  BY <1>1, WFMin
<1>4. ASSUME NEW y \in T PROVE x <= y
  <2>1. x \in Nat /\ y \in Nat
    OBVIOUS
  <2>2. ~(y < x)
    BY <1>2, <1>3, <2>1
  <2> QED  BY <2>1, <2>2
<1> QED  BY <1>4

\* FirstOf is 0 without a report of the tag, and the position of the first one
\* with it.
LEMMA FirstOfIs ==
  ASSUME NEW frames \in Seq(FrameRecords), NEW t \in Tags
  PROVE  \/ /\ FirstOf(t, frames) = 0
            /\ \A i \in 1 .. Len(frames) : frames[i] # TagFrame(t)
         \/ /\ FirstOf(t, frames) \in 1 .. Len(frames)
            /\ frames[FirstOf(t, frames)] = TagFrame(t)
            /\ \A i \in 1 .. Len(frames) : frames[i] = TagFrame(t) => FirstOf(t, frames) <= i
<1> DEFINE at == {i \in 1 .. Len(frames) : frames[i] = TagFrame(t)}
           first == CHOOSE i \in at : \A j \in at : i <= j
<1>1. CASE at = {}
  BY <1>1 DEF FirstOf
<1>2. CASE at # {}
  <2>1. at \in SUBSET Nat
    BY LenProperties
  <2>2. \E i \in at : \A j \in at : i <= j
    <3> HIDE DEF at
    <3> QED  BY <1>2, <2>1, Least
  <2>3. first \in at /\ \A j \in at : first <= j
    BY <2>2
  <2>4. FirstOf(t, frames) = first
    BY <1>2 DEF FirstOf
  <2> HIDE DEF first
  <2> QED  BY <2>3, <2>4
<1> QED  BY <1>1, <1>2

\* The first report in a longer sequence.
LEMMA FirstOfConcat ==
  ASSUME NEW a \in Seq(FrameRecords), NEW b \in Seq(FrameRecords), NEW t \in Tags
  PROVE  FirstOf(t, a \o b) = IF FirstOf(t, a) # 0 \/ FirstOf(t, b) = 0 THEN FirstOf(t, a)
                              ELSE Len(a) + FirstOf(t, b)
<1>1. /\ a \o b \in Seq(FrameRecords) /\ Len(a \o b) = Len(a) + Len(b)
      /\ Len(a) \in Nat /\ Len(b) \in Nat
      /\ \A i \in 1 .. Len(a) + Len(b) :
             (a \o b)[i] = IF i <= Len(a) THEN a[i] ELSE b[i - Len(a)]
  BY ConcatProperties, LenProperties
<1> DEFINE c == a \o b
           A == FirstOf(t, a)
           B == FirstOf(t, b)
           C == FirstOf(t, c)
<1>2. \/ A = 0 /\ \A i \in 1 .. Len(a) : a[i] # TagFrame(t)
      \/ A \in 1 .. Len(a) /\ a[A] = TagFrame(t) /\ \A i \in 1 .. Len(a) : a[i] = TagFrame(t) => A <= i
  BY FirstOfIs
<1>3. \/ B = 0 /\ \A i \in 1 .. Len(b) : b[i] # TagFrame(t)
      \/ B \in 1 .. Len(b) /\ b[B] = TagFrame(t) /\ \A i \in 1 .. Len(b) : b[i] = TagFrame(t) => B <= i
  BY FirstOfIs
<1>4. \/ C = 0 /\ \A i \in 1 .. Len(c) : c[i] # TagFrame(t)
      \/ C \in 1 .. Len(c) /\ c[C] = TagFrame(t) /\ \A i \in 1 .. Len(c) : c[i] = TagFrame(t) => C <= i
  BY <1>1, FirstOfIs
<1>5. /\ Len(c) = Len(a) + Len(b)
      /\ \A i \in 1 .. Len(a) : i \in 1 .. Len(c) /\ c[i] = a[i]
      /\ \A i \in 1 .. Len(b) : Len(a) + i \in 1 .. Len(c) /\ c[Len(a) + i] = b[i]
      /\ \A i \in 1 .. Len(c) : i \in 1 .. Len(a) \/ (i - Len(a) \in 1 .. Len(b) /\ c[i] = b[i - Len(a)])
  BY <1>1
<1> SUFFICES C = IF A # 0 \/ B = 0 THEN A ELSE Len(a) + B
  OBVIOUS
<1> HIDE DEF A, B, C, c
<1>6. CASE A # 0
  <2>1. A \in 1 .. Len(c) /\ c[A] = TagFrame(t)
    BY <1>2, <1>5, <1>6
  <2>2. C \in 1 .. Len(c) /\ c[C] = TagFrame(t) /\ C <= A
    BY <1>4, <2>1
  <2>3. C \in 1 .. Len(a)
    BY <1>1, <1>2, <1>5, <1>6, <2>2
  <2>4. a[C] = TagFrame(t)
    BY <1>5, <2>2, <2>3
  <2>5. A <= C
    BY <1>2, <1>6, <2>3, <2>4
  <2> QED  BY <1>1, <1>2, <1>6, <2>2, <2>3, <2>5
<1>7. CASE A = 0 /\ B = 0
  <2>1. \A i \in 1 .. Len(a) : a[i] # TagFrame(t)
    BY <1>2, <1>7
  <2>2. \A i \in 1 .. Len(b) : b[i] # TagFrame(t)
    BY <1>3, <1>7
  <2>3. \A i \in 1 .. Len(c) : c[i] # TagFrame(t)
    BY <1>5, <2>1, <2>2
  <2> QED  BY <1>4, <1>7, <2>3
<1>8. CASE A = 0 /\ B # 0
  <2>1. \A i \in 1 .. Len(a) : a[i] # TagFrame(t)
    BY <1>2, <1>8
  <2>2. B \in 1 .. Len(b) /\ b[B] = TagFrame(t)
    BY <1>3, <1>8
  <2>3. Len(a) + B \in 1 .. Len(c) /\ c[Len(a) + B] = TagFrame(t)
    BY <1>5, <2>2
  <2>4. C \in 1 .. Len(c) /\ c[C] = TagFrame(t) /\ C <= Len(a) + B
    BY <1>4, <2>3
  <2>5. C - Len(a) \in 1 .. Len(b) /\ b[C - Len(a)] = TagFrame(t)
    BY <1>5, <2>1, <2>4
  <2>6. B <= C - Len(a)
    BY <1>3, <1>8, <2>5
  <2>7. C \in Nat /\ B \in Nat /\ Len(a) \in Nat
    BY <1>1, <1>5, <2>2, <2>4
  <2>8. C = Len(a) + B
    BY <2>4, <2>6, <2>7
  <2> QED  BY <1>8, <2>8
<1> QED  BY <1>6, <1>7, <1>8

-----------------------------------------------------------------------------
(* The invariant is inductive.                                             *)

\* The client has taken nothing and sent nothing.
LEMMA InvInit == InventoryInit => IInv
<1> SUFFICES ASSUME InventoryInit PROVE IInv
  OBVIOUS
<1>1. TypeInv
  <2>1. client \in Clients
    BY DEF InventoryInit, Clients, Steps
  <2> QED
    BY <2>1, EmptySeq DEF InventoryInit, TypeInv
<1>2. \A t \in Tags : FirstOf(t, taken) = 0
  <2>1. Len(taken) = 0 /\ taken \in Seq(FrameRecords)
    BY <1>1, EmptySeq DEF InventoryInit, TypeInv
  <2>2. ASSUME NEW t \in Tags PROVE FirstOf(t, taken) = 0
    <3>1. ~(FirstOf(t, taken) \in 1 .. 0)
      OBVIOUS
    <3> QED
      BY <2>1, <3>1, FirstOfIs
  <2> QED
    BY <2>2
<1> QED
  BY <1>1, <1>2 DEF InventoryInit, IInv, Asked, StopIsLast, ConfirmedIsOff, TagsComplete

\* Steps that change nothing but the client's step, or keep an error for later.
LEMMA ClientMoves ==
  ASSUME IInv, NEW step \in Steps, client.step \notin Over,
         \/ client' = [client EXCEPT !.step = step, !.reads = 0]
         \/ client' = [client EXCEPT !.step = step, !.reads = 0, !.error = TRUE],
         UNCHANGED <<late, inbox, wire, up, reading, taken, reports>>,
         interrupted' \in {"no", "loop", "elsewhere"},
         step # "done", step # "confirm",
         client.step = "confirm" => step = "failed",
         step = "failed" => client.asked \/ ~up \/ interrupted' = "elsewhere"
  PROVE  IInv'
<1> USE DEF IInv, TypeInv
<1>1. /\ client' \in Clients /\ client'.step = step /\ client'.tags = client.tags
      /\ client'.started = client.started /\ client'.asked = client.asked
      /\ client.error => client'.error
  <2>1. CASE client' = [client EXCEPT !.step = step, !.reads = 0]
    BY <2>1 DEF Clients
  <2>2. CASE client' = [client EXCEPT !.step = step, !.reads = 0, !.error = TRUE]
    BY <2>2 DEF Clients
  <2> QED
    BY <2>1, <2>2
<1>2. TypeInv'
  BY <1>1
<1>3. Asked'
  BY <1>1 DEF Asked
<1>4. StopIsLast'
  BY <1>1 DEF StopIsLast, Over
<1>5. ConfirmedIsOff'
  BY <1>1 DEF ConfirmedIsOff, Over
<1>6. TagsComplete'
  BY <1>1 DEF TagsComplete, Clients
<1> QED
  BY <1>2, <1>3, <1>4, <1>5, <1>6

\* The moves of the client that take nothing from the wire.
LEMMA MovesKeepInv ==
  ASSUME IInv,
         \/ SendStartFails \/ EnterLoop \/ Receive \/ LoopEnds
         \/ CollectTimeout \/ CollectFails \/ SendStopFails \/ ConfirmFails \/ Interrupt
  PROVE  IInv'
<1>1. CASE SendStartFails
  BY <1>1, ClientMoves DEF SendStartFails, Fail, Goto, Quiet, Steps, Over, IInv, TypeInv
<1>2. CASE EnterLoop \/ Receive \/ LoopEnds
  BY <1>2, ClientMoves DEF EnterLoop, Receive, LoopEnds, Goto, Quiet, Steps, Over, IInv, TypeInv
<1>3. CASE CollectTimeout \/ CollectFails
  BY <1>3, ClientMoves DEF CollectTimeout, CollectFails, Goto, Raise, Quiet, Steps, Over, IInv, TypeInv
<1>4. CASE SendStopFails \/ ConfirmFails
  BY <1>4, ClientMoves DEF SendStopFails, ConfirmFails, Fail, Goto, Quiet, Steps, Over, IInv, TypeInv, Asked
<1>5. CASE Interrupt
  BY <1>5, ClientMoves DEF Interrupt, Fail, Raise, Goto, Steps, Over, IInv, TypeInv
<1> QED
  BY <1>1, <1>2, <1>3, <1>4, <1>5

\* START is sent while nothing of STOP is under way.
LEMMA SendStartKeepsInv ==
  ASSUME IInv, SendStart
  PROVE  IInv'
<1> USE DEF IInv, TypeInv
<1>1. /\ client.step = "new" /\ client' = [client EXCEPT !.step = "sent", !.reads = 0]
      /\ inbox' = (IF up THEN Append(inbox, "START") ELSE inbox)
      /\ UNCHANGED <<late, interrupted, wire, up, reading, taken, reports>>
  BY DEF SendStart, Goto, Quiet
<1>2. /\ client' \in Clients /\ client'.step = "sent" /\ client'.tags = client.tags
      /\ client'.started = client.started /\ client'.error = client.error
  BY <1>1 DEF Clients, Steps
<1>3. inbox' \in Seq({"START", "STOP"}) /\ \A i \in 1 .. Len(inbox') : inbox'[i] # "STOP"
  <2>1. \A i \in 1 .. Len(inbox) : inbox[i] # "STOP"
    BY <1>1 DEF StopIsLast, Over
  <2> QED
    BY <1>1, <2>1, AppendProperties
<1>4. ~(\E i \in 1 .. Len(wire) : Confirms(wire[i]))
  BY <1>1 DEF ConfirmedIsOff, Over
<1> QED
  BY <1>1, <1>2, <1>3, <1>4 DEF Asked, StopIsLast, ConfirmedIsOff, TagsComplete

\* STOP is sent once, behind whatever is under way.
LEMMA SendStopKeepsInv ==
  ASSUME IInv, SendStop
  PROVE  IInv'
<1> USE DEF IInv, TypeInv
<1>1. /\ client.step = "finally" /\ client' = [client EXCEPT !.step = "confirm", !.asked = TRUE]
      /\ inbox' = (IF up THEN Append(inbox, "STOP") ELSE inbox)
      /\ UNCHANGED <<late, interrupted, wire, up, reading, taken, reports>>
  BY DEF SendStop, Quiet
<1>2. /\ client' \in Clients /\ client'.step = "confirm" /\ client'.tags = client.tags /\ client'.asked
      /\ client'.started = client.started /\ client'.error = client.error
  BY <1>1 DEF Clients, Steps
<1>3. inbox' \in Seq({"START", "STOP"}) /\ \A i \in 1 .. Len(inbox') : inbox'[i] = "STOP" => i = Len(inbox')
  <2>1. \A i \in 1 .. Len(inbox) : inbox[i] # "STOP"
    BY <1>1 DEF StopIsLast, Over
  <2> QED
    BY <1>1, <2>1, AppendProperties
<1>4. ~(\E i \in 1 .. Len(wire) : Confirms(wire[i]))
  BY <1>1 DEF ConfirmedIsOff, Over
<1> QED
  BY <1>1, <1>2, <1>3, <1>4 DEF Asked, StopIsLast, ConfirmedIsOff, TagsComplete, Over

-----------------------------------------------------------------------------
(* Frames taken from the wire.                                             *)

\* The responses of the reader are frames.
LEMMA Responses ==
  ASSUME NEW command \in {"start", "stop"}, NEW a \in BOOLEAN
  PROVE  Frame(command, a) \in FrameRecords /\ (Confirms(Frame(command, a)) <=> command = "stop" /\ a)
BY DEF Frame, FrameRecords, Confirms

\* What the reader reports is no confirmation of STOP.
LEMMA Reported ==
  ASSUME NEW f \in {TagFrame(t) : t \in Tags} \cup {Frame("tag", FALSE), Frame("other", TRUE)}
  PROVE  f \in FrameRecords /\ ~Confirms(f)
<1>1. CASE f \in {TagFrame(t) : t \in Tags}
  <2>1. PICK t \in Tags : f = TagFrame(t)
    BY <1>1
  <2> QED
    BY <2>1 DEF TagFrame, FrameRecords, Confirms
<1>2. CASE f = Frame("tag", FALSE)
  BY <1>2 DEF Frame, FrameRecords, Confirms
<1>3. CASE f = Frame("other", TRUE)
  BY <1>3 DEF Frame, FrameRecords, Confirms
<1> QED
  BY <1>1, <1>2, <1>3

\* A frame more on the wire.
LEMMA WireAppend ==
  ASSUME TypeInv, NEW f \in FrameRecords, wire' = Append(wire, f)
  PROVE  /\ wire' \in Seq(FrameRecords)
         /\ (\E i \in 1 .. Len(wire') : Confirms(wire'[i])) =>
               Confirms(f) \/ \E i \in 1 .. Len(wire) : Confirms(wire[i])
<1>1. wire \in Seq(FrameRecords)
  BY DEF TypeInv
<1>2. Len(wire) \in Nat
  BY <1>1, LenProperties
<1>3. /\ wire' \in Seq(FrameRecords) /\ Len(wire') = Len(wire) + 1
      /\ \A i \in 1 .. Len(wire) : wire'[i] = wire[i]
      /\ wire'[Len(wire) + 1] = f
  BY <1>1, AppendProperties
<1>4. \A i \in 1 .. Len(wire') : i \in 1 .. Len(wire) \/ i = Len(wire) + 1
  BY <1>2, <1>3
<1> QED
  BY <1>3, <1>4

\* A chunk is the front of the wire.
LEMMA ChunkIs ==
  ASSUME TypeInv, NEW n \in 0 .. Len(wire)
  PROVE  /\ Chunk(n) \in Seq(FrameRecords) /\ Len(Chunk(n)) = n
         /\ \A i \in 1 .. n : Chunk(n)[i] = wire[i]
         /\ SubSeq(wire, n + 1, Len(wire)) \in Seq(FrameRecords)
         /\ Len(SubSeq(wire, n + 1, Len(wire))) = Len(wire) - n
         /\ \A i \in 1 .. Len(wire) - n : SubSeq(wire, n + 1, Len(wire))[i] = wire[n + i]
<1>1. wire \in Seq(FrameRecords) /\ Len(wire) \in Nat
  BY LenProperties DEF TypeInv
<1>2. /\ Chunk(n) \in Seq(FrameRecords) /\ Len(Chunk(n)) = n
      /\ \A i \in 1 .. n : Chunk(n)[i] = wire[i]
  BY <1>1, SubSeqProperties DEF Chunk
<1>3. /\ SubSeq(wire, n + 1, Len(wire)) \in Seq(FrameRecords)
      /\ Len(SubSeq(wire, n + 1, Len(wire))) = Len(wire) - n
      /\ \A i \in 1 .. Len(wire) - n : SubSeq(wire, n + 1, Len(wire))[i] = wire[n + i]
  BY <1>1, SubSeqProperties
<1> QED
  BY <1>2, <1>3

\* What is left on the wire was there before.
LEMMA RestOfWire ==
  ASSUME IInv, NEW n \in 0 .. Len(wire), Recv(n)
  PROVE  /\ wire' \in Seq(FrameRecords)
         /\ \A i \in 1 .. Len(wire') : \E j \in 1 .. Len(wire) : wire'[i] = wire[j]
         /\ UNCHANGED <<late, interrupted, inbox, up, reading, reports>>
<1>1. wire \in Seq(FrameRecords) /\ Len(wire) \in Nat
  BY LenProperties DEF IInv, TypeInv
<1>2. /\ wire' \in Seq(FrameRecords) /\ Len(wire') = Len(wire) - n
      /\ \A i \in 1 .. Len(wire) - n : wire'[i] = wire[n + i]
  BY ChunkIs DEF Recv, IInv
<1>3. \A i \in 1 .. Len(wire') : n + i \in 1 .. Len(wire)
  BY <1>1, <1>2
<1> QED
  BY <1>1, <1>2, <1>3 DEF Recv

\* The tags after a chunk are the first reports in everything taken.
LEMMA TagsAfterIs ==
  ASSUME IInv, NEW n \in 0 .. Len(wire), ~client.error
  PROVE  TagsAfter(n) = [t \in Tags |-> FirstOf(t, taken \o Chunk(n))]
<1>1. taken \in Seq(FrameRecords) /\ Chunk(n) \in Seq(FrameRecords)
  BY ChunkIs DEF IInv, TypeInv
<1>2. client.tags = [t \in Tags |-> FirstOf(t, taken)]
  BY DEF IInv, TagsComplete
<1>3. ASSUME NEW t \in Tags
      PROVE  FirstOf(t, taken \o Chunk(n)) =
               IF client.tags[t] # 0 \/ FirstOf(t, Chunk(n)) = 0 THEN client.tags[t]
               ELSE Len(taken) + FirstOf(t, Chunk(n))
  BY <1>1, <1>2, FirstOfConcat
<1> QED
  BY <1>3 DEF TagsAfter

\* A chunk without an expected frame has no report.
LEMMA NoReport ==
  ASSUME IInv, NEW n \in 0 .. Len(wire), ~client.error, Expected(n, {"start", "tag"}) = {}
  PROVE  client.tags = [t \in Tags |-> FirstOf(t, taken \o Chunk(n))]
<1>1. taken \in Seq(FrameRecords) /\ Chunk(n) \in Seq(FrameRecords)
  BY ChunkIs DEF IInv, TypeInv
<1>2. client.tags = [t \in Tags |-> FirstOf(t, taken)]
  BY DEF IInv, TagsComplete
<1>3. ASSUME NEW t \in Tags PROVE FirstOf(t, Chunk(n)) = 0
  <2>1. \A i \in 1 .. n : wire[i] # TagFrame(t)
    BY DEF Expected, TagFrame
  <2>2. \A i \in 1 .. Len(Chunk(n)) : Chunk(n)[i] # TagFrame(t)
    BY <2>1, ChunkIs DEF IInv
  <2> QED
    BY <1>1, <2>2, FirstOfIs
<1>4. ASSUME NEW t \in Tags PROVE FirstOf(t, taken \o Chunk(n)) = FirstOf(t, taken)
  BY <1>1, <1>3, FirstOfConcat
<1> QED
  BY <1>2, <1>4

\* While the client collects, no confirmation of STOP can be on the wire.
LEMMA CollectKeepsInv ==
  ASSUME IInv, NEW n \in 0 .. Len(wire), CollectChunk(n)
  PROVE  IInv'
<1>1. client.step = "receive" /\ taken' = taken \o Chunk(n) /\ client \in Clients
  BY DEF CollectChunk, IInv, TypeInv
<1>2. /\ wire' \in Seq(FrameRecords)
      /\ \A i \in 1 .. Len(wire') : \E j \in 1 .. Len(wire) : wire'[i] = wire[j]
      /\ UNCHANGED <<late, interrupted, inbox, up, reading, reports>>
  BY RestOfWire DEF CollectChunk
<1>3. /\ taken \in Seq(FrameRecords) /\ Chunk(n) \in Seq(FrameRecords) /\ Len(Chunk(n)) = n
      /\ \A i \in 1 .. n : Chunk(n)[i] = wire[i]
  BY ChunkIs DEF IInv, TypeInv
<1>4. /\ taken' \in Seq(FrameRecords) /\ Len(taken') = Len(taken) + n /\ Len(taken) \in Nat
      /\ \A i \in 1 .. Len(taken) : taken'[i] = taken[i]
      /\ \A i \in 1 .. n : taken'[Len(taken) + i] = wire[i]
  <2>1. ASSUME NEW b \in Seq(FrameRecords), Len(b) = n, taken' = taken \o b,
               \A i \in 1 .. n : b[i] = wire[i]
        PROVE  /\ taken' \in Seq(FrameRecords) /\ Len(taken') = Len(taken) + n /\ Len(taken) \in Nat
               /\ \A i \in 1 .. Len(taken) : taken'[i] = taken[i]
               /\ \A i \in 1 .. n : taken'[Len(taken) + i] = wire[i]
    <3>1. /\ taken' \in Seq(FrameRecords) /\ Len(taken') = Len(taken) + Len(b)
          /\ \A i \in 1 .. Len(taken) + Len(b) :
                 taken'[i] = IF i <= Len(taken) THEN taken[i] ELSE b[i - Len(taken)]
      BY <1>3, <2>1, ConcatProperties
    <3>2. Len(taken) \in Nat /\ n \in Nat
      BY <1>3, <2>1, LenProperties
    <3>3. \A i \in 1 .. Len(taken) : taken'[i] = taken[i]
      BY <3>1, <3>2, <2>1
    <3>4. \A i \in 1 .. n : taken'[Len(taken) + i] = b[i]
      BY <3>1, <3>2, <2>1
    <3> QED
      BY <2>1, <3>1, <3>2, <3>3, <3>4
  <2> QED
    BY <1>1, <1>3, <2>1
<1>5. /\ \A i \in 1 .. Len(taken) : i \in 1 .. Len(taken')
      /\ \A i \in 1 .. n : Len(taken) + i \in 1 .. Len(taken')
  BY <1>4
<1>6. /\ client' \in Clients /\ client'.step \in {"receive", "loop", "finally"}
      /\ ~client'.error => client'.tags = [t \in Tags |-> FirstOf(t, taken')]
      /\ client'.started => \E i \in 1 .. Len(taken') : taken'[i] = Frame("start", TRUE)
  <2>1. client.started => \E i \in 1 .. Len(taken') : taken'[i] = Frame("start", TRUE)
    BY <1>4, <1>5 DEF IInv, TagsComplete
  <2>2. CASE NothingExpected(n, {"start", "tag"})
    <3>1. /\ client' \in Clients /\ client'.step = "receive" /\ client'.error = client.error
          /\ client'.tags = client.tags /\ client'.started = client.started
      BY <1>1, <2>2 DEF NothingExpected, Clients
    <3>2. ~client.error => client.tags = [t \in Tags |-> FirstOf(t, taken')]
      BY <1>1, <2>2, NoReport DEF NothingExpected
    <3> QED
      BY <2>1, <3>1, <3>2
  <2>3. CASE Raise
    <3>1. /\ client' \in Clients /\ client'.step = "finally" /\ client'.error
          /\ client'.started = client.started
      BY <1>1, <2>3 DEF Raise, Clients, Steps
    <3> QED
      BY <2>1, <3>1
  <2>4. ASSUME NEW at, at = Expected(n, {"start", "tag"}),
               client' = [client EXCEPT !.step = "loop", !.reads = 0, !.tags = TagsAfter(n),
                               !.started = @ \/ \E i \in at : wire[i] = Frame("start", TRUE)]
        PROVE  <1>6!1 /\ <1>6!2 /\ <1>6!3
    <3> DEFINE began == \E i \in at : wire[i] = Frame("start", TRUE)
    <3>1. TagsAfter(n) \in [Tags -> Nat]
      <4>1. client.tags \in [Tags -> Nat]
        BY <1>1 DEF Clients
      <4>2. \A t \in Tags : FirstOf(t, Chunk(n)) \in Nat
        BY <1>3, FirstOfIs
      <4> QED
        BY <1>4, <4>1, <4>2 DEF TagsAfter
    <3>2. began \in BOOLEAN
      OBVIOUS
    <3>3. began => \E i \in 1 .. Len(taken') : taken'[i] = Frame("start", TRUE)
      <4> SUFFICES ASSUME NEW i \in 1 .. n, wire[i] = Frame("start", TRUE)
                   PROVE  \E j \in 1 .. Len(taken') : taken'[j] = Frame("start", TRUE)
        BY <2>4 DEF Expected
      <4> QED
        BY <1>4, <1>5
    <3> HIDE DEF began
    <3>4. /\ client' \in Clients /\ client'.step = "loop" /\ client'.error = client.error
          /\ client'.tags = TagsAfter(n) /\ client'.started = (client.started \/ began)
      BY <1>1, <2>4, <3>1, <3>2 DEF Clients, Steps, began
    <3>5. ~client.error => TagsAfter(n) = [t \in Tags |-> FirstOf(t, taken')]
      BY <1>1, TagsAfterIs
    <3> QED
      BY <2>1, <3>3, <3>4, <3>5
  <2> QED
    BY <2>2, <2>3, <2>4 DEF CollectChunk, Process
<1>7. ~(\E i \in 1 .. Len(wire) : Confirms(wire[i]))
  BY <1>1 DEF IInv, ConfirmedIsOff, Over
<1>8. TypeInv'
  BY <1>2, <1>4, <1>6 DEF IInv, TypeInv
<1>9. Asked' /\ StopIsLast'
  BY <1>1, <1>2, <1>6 DEF IInv, Asked, StopIsLast, Over
<1>10. ConfirmedIsOff' /\ TagsComplete'
  BY <1>2, <1>6, <1>7 DEF ConfirmedIsOff, TagsComplete
<1> QED
  BY <1>8, <1>9, <1>10 DEF IInv

\* A run that returns a result has the confirmation in its hands.
LEMMA ConfirmKeepsInv ==
  ASSUME IInv, NEW n \in 0 .. Len(wire), ConfirmChunk(n)
  PROVE  IInv'
<1>1. client.step = "confirm" /\ UNCHANGED taken /\ client \in Clients
  BY DEF ConfirmChunk, IInv, TypeInv
<1>2. /\ wire' \in Seq(FrameRecords)
      /\ \A i \in 1 .. Len(wire') : \E j \in 1 .. Len(wire) : wire'[i] = wire[j]
      /\ UNCHANGED <<late, interrupted, inbox, up, reading, reports>>
  BY RestOfWire DEF ConfirmChunk
<1>3. /\ client' \in Clients /\ client'.step \in {"confirm", "failed", "done"}
      /\ client'.tags = client.tags /\ client'.started = client.started
      /\ client'.error = client.error /\ client'.asked = client.asked
  <2>1. CASE NothingExpected(n, {"stop"})
    BY <1>1, <2>1 DEF NothingExpected, Clients
  <2>2. ASSUME NEW step \in {"failed", "done"}, Goto(step)
        PROVE  /\ client' \in Clients /\ client'.step \in {"confirm", "failed", "done"}
               /\ client'.tags = client.tags /\ client'.started = client.started
               /\ client'.error = client.error /\ client'.asked = client.asked
    BY <1>1, <2>2 DEF Goto, Clients, Steps
  <2>3. CASE Fail
    BY <2>2, <2>3 DEF Fail
  <2>4. CASE Confirmed(n)
    BY <2>2, <2>4 DEF Confirmed
  <2> QED
    BY <2>1, <2>3, <2>4 DEF ConfirmChunk
<1>4. client'.step = "done" => /\ ~client.error /\ client.started
                               /\ \E i \in 1 .. Len(wire) : Confirms(wire[i])
  <2> SUFFICES ASSUME client'.step = "done"
               PROVE  /\ ~client.error /\ client.started
                      /\ \E i \in 1 .. Len(wire) : Confirms(wire[i])
    OBVIOUS
  <2>1. Confirmed(n)
    BY <1>1 DEF ConfirmChunk, NothingExpected, Fail, Goto, Clients
  <2>2. /\ ~client.error /\ client.started
        /\ \E i \in 1 .. n : Expected(n, {"stop"}) = {i} /\ wire[i].accepted
    BY <1>1, <2>1 DEF Confirmed, Goto, Clients
  <2>3. PICK i \in 1 .. n : wire[i].command = "stop" /\ wire[i].accepted
    BY <2>2 DEF Expected
  <2>4. i \in 1 .. Len(wire)
    OBVIOUS
  <2>5. Confirms(wire[i])
    BY <2>3 DEF Confirms
  <2> QED
    BY <2>2, <2>4, <2>5
<1>5. TypeInv'
  BY <1>1, <1>2, <1>3 DEF IInv, TypeInv
<1>6. Asked' /\ StopIsLast' /\ TagsComplete'
  BY <1>1, <1>2, <1>3, <1>4 DEF IInv, Asked, StopIsLast, TagsComplete, Over
<1>7. ConfirmedIsOff'
  BY <1>1, <1>2, <1>3, <1>4 DEF IInv, ConfirmedIsOff, Over
<1> QED
  BY <1>5, <1>6, <1>7 DEF IInv

\* What the reader does, and the connection.
LEMMA OutsideKeepsInv ==
  ASSUME IInv, ReaderStep \/ Tick \/ ConnectionBreaks
  PROVE  IInv'
<1> USE DEF IInv, TypeInv
<1>1. inbox \in Seq({"START", "STOP"}) /\ Len(inbox) \in Nat
  BY LenProperties
<1>2. ASSUME inbox # <<>>
      PROVE  /\ Head(inbox) = inbox[1] /\ Len(inbox) > 0
             /\ Tail(inbox) \in Seq({"START", "STOP"}) /\ Len(Tail(inbox)) = Len(inbox) - 1
             /\ \A i \in 1 .. Len(inbox) - 1 : Tail(inbox)[i] = inbox[i + 1]
  <2>1. /\ Head(inbox) \in {"START", "STOP"} /\ Tail(inbox) \in Seq({"START", "STOP"})
        /\ Head(inbox) = inbox[1] /\ Len(Tail(inbox)) = Len(inbox) - 1
        /\ \A i \in 1 .. Len(Tail(inbox)) : Tail(inbox)[i] = inbox[i + 1]
    BY <1>1, <1>2, HeadTailProperties
  <2>2. Len(inbox) \in Nat \ {0}
    BY <1>1, <1>2, EmptySeq
  <2> QED
    BY <2>1, <2>2
<1>3. ASSUME inbox # <<>>
      PROVE  /\ ~(\E i \in 1 .. Len(wire) : Confirms(wire[i]))
             /\ client.step # "done"
  BY <1>3 DEF ConfirmedIsOff
<1>4. CASE ReaderObeys
  <2>1. UNCHANGED <<client, late, interrupted, up, taken, reports>>
    BY <1>4 DEF ReaderObeys
  <2>2. inbox # <<>> /\ inbox' = Tail(inbox) /\ reading' = (Head(inbox) = "START")
    BY <1>4 DEF ReaderObeys
  <2>3. StopIsLast'
    BY <1>1, <1>2, <2>1, <2>2 DEF StopIsLast
  <2>4. wire' = wire \/ \E f \in FrameRecords : wire' = Append(wire, f) /\ (Confirms(f) => Head(inbox) # "START")
    <3>1. CASE ~up
      BY <1>4, <3>1 DEF ReaderObeys
    <3>2. CASE up /\ Head(inbox) = "START"
      <4>1. wire' = Append(wire, Frame("start", TRUE))
        BY <1>4, <3>2 DEF ReaderObeys
      <4> QED
        BY <4>1, Responses
    <3>3. CASE up /\ Head(inbox) # "START"
      <4>1. wire' = Append(wire, Frame("stop", TRUE))
        BY <1>4, <3>3 DEF ReaderObeys
      <4> QED
        BY <3>3, <4>1, Responses
    <3> QED
      BY <3>1, <3>2, <3>3
  <2>5. Head(inbox) # "START" => Tail(inbox) = <<>> /\ client.step \in {"confirm"} \cup Over /\ ~reading'
    <3> SUFFICES ASSUME Head(inbox) # "START"
                 PROVE  Tail(inbox) = <<>> /\ client.step \in {"confirm"} \cup Over /\ ~reading'
      OBVIOUS
    <3>1. inbox[1] \in {"START", "STOP"}
      BY <1>1, <1>2, <2>2, ElementOfSeq
    <3>2. Len(inbox) = 1 /\ client.step \in {"confirm"} \cup Over
      <4>1. inbox[1] = "STOP" /\ 1 \in 1 .. Len(inbox)
        BY <1>1, <1>2, <2>2, <3>1
      <4> QED
        BY <4>1 DEF StopIsLast
    <3>3. Len(Tail(inbox)) = 0
      BY <1>2, <2>2, <3>2
    <3> QED
      BY <1>2, <2>2, <3>2, <3>3, EmptySeq
  <2>6. ConfirmedIsOff'
    <3>1. client.step # "done"
      BY <1>3, <2>2
    <3>2. (\E i \in 1 .. Len(wire') : Confirms(wire'[i])) => Head(inbox) # "START"
      <4>1. CASE wire' = wire
        BY <1>3, <2>2, <4>1
      <4>2. ASSUME NEW f \in FrameRecords, wire' = Append(wire, f),
                   Confirms(f) => Head(inbox) # "START"
            PROVE  (\E i \in 1 .. Len(wire') : Confirms(wire'[i])) => Head(inbox) # "START"
        BY <1>3, <2>2, <4>2, WireAppend
      <4> QED
        BY <2>4, <4>1, <4>2
    <3> QED
      BY <2>1, <2>2, <2>5, <3>1, <3>2 DEF ConfirmedIsOff
  <2>7. TypeInv'
    <3>1. wire' \in Seq(FrameRecords)
      BY <2>4, WireAppend
    <3> QED
      BY <1>2, <2>1, <2>2, <3>1
  <2> QED
    BY <2>1, <2>3, <2>6, <2>7 DEF Asked, TagsComplete
<1>5. CASE ReaderRefuses
  <2>1. UNCHANGED <<client, late, interrupted, up, reading, taken, reports>>
    BY <1>5 DEF ReaderRefuses
  <2>2. inbox # <<>> /\ inbox' = Tail(inbox)
    BY <1>5 DEF ReaderRefuses
  <2>3. StopIsLast'
    BY <1>1, <1>2, <2>1, <2>2 DEF StopIsLast
  <2>4. wire' = wire \/ \E f \in FrameRecords : wire' = Append(wire, f) /\ ~Confirms(f)
    <3>1. CASE UNCHANGED wire
      BY <3>1
    <3>2. CASE wire' = Append(wire, Frame("start", FALSE)) \/ wire' = Append(wire, Frame("stop", FALSE))
      BY <3>2, Responses
    <3> QED
      BY <1>5, <3>1, <3>2 DEF ReaderRefuses
  <2>5. ConfirmedIsOff'
    <3>1. client.step # "done"
      BY <1>3, <2>2
    <3>2. ~(\E i \in 1 .. Len(wire') : Confirms(wire'[i]))
      <4>1. CASE wire' = wire
        BY <1>3, <2>2, <4>1
      <4>2. ASSUME NEW f \in FrameRecords, wire' = Append(wire, f), ~Confirms(f)
            PROVE  ~(\E i \in 1 .. Len(wire') : Confirms(wire'[i]))
        BY <1>3, <2>2, <4>2, WireAppend
      <4> QED
        BY <2>4, <4>1, <4>2
    <3> QED
      BY <2>1, <3>1, <3>2 DEF ConfirmedIsOff
  <2>6. TypeInv'
    <3>1. wire' \in Seq(FrameRecords)
      BY <2>4, WireAppend
    <3> QED
      BY <1>2, <2>1, <2>2, <3>1
  <2> QED
    BY <2>1, <2>3, <2>5, <2>6 DEF Asked, TagsComplete
<1>6. CASE Report
  <2>1. UNCHANGED <<client, late, interrupted, inbox, up, reading, taken>>
    BY <1>6 DEF Report
  <2>2. PICK f \in FrameRecords : wire' = Append(wire, f) /\ ~Confirms(f)
    BY <1>6, Reported DEF Report
  <2>3. /\ wire' \in Seq(FrameRecords)
        /\ (\E i \in 1 .. Len(wire') : Confirms(wire'[i])) =>
              \E i \in 1 .. Len(wire) : Confirms(wire[i])
    BY <2>2, WireAppend
  <2>4. ConfirmedIsOff'
    BY <2>1, <2>3 DEF ConfirmedIsOff
  <2>5. TypeInv'
    BY <2>1, <2>3
  <2> QED
    BY <2>1, <2>4, <2>5 DEF Asked, StopIsLast, TagsComplete
<1>7. CASE Tick
  BY <1>7 DEF Tick, Asked, StopIsLast, ConfirmedIsOff, TagsComplete
<1>8. CASE ConnectionBreaks
  <2>1. UNCHANGED <<client, late, interrupted, reading, taken, reports>> /\ client.step \notin Over
        /\ up' = FALSE /\ wire' = <<>>
    BY <1>8 DEF ConnectionBreaks
  <2>2. PICK lost \in 0 .. Len(inbox) : inbox' = SubSeq(inbox, 1, Len(inbox) - lost)
    BY <1>8 DEF ConnectionBreaks
  <2>3. Len(inbox) - lost \in 0 .. Len(inbox)
    BY <1>1
  <2>4. /\ inbox' \in Seq({"START", "STOP"}) /\ Len(inbox') = Len(inbox) - lost
        /\ \A i \in 1 .. Len(inbox) - lost : inbox'[i] = inbox[i]
    BY <1>1, <2>2, <2>3, SubSeqProperties
  <2>5. StopIsLast'
    BY <1>1, <2>1, <2>4 DEF StopIsLast
  <2>6. wire' \in Seq(FrameRecords) /\ Len(wire') = 0
    BY <2>1, EmptySeq
  <2>7. TypeInv'
    BY <2>1, <2>4, <2>6
  <2>8. Asked' /\ TagsComplete'
    BY <2>1 DEF Asked, TagsComplete, Over
  <2>9. ~(\E i \in 1 .. Len(wire') : Confirms(wire'[i]))
    BY <2>6
  <2>10. ConfirmedIsOff'
    BY <2>1, <2>9 DEF ConfirmedIsOff, Over
  <2> QED
    BY <2>5, <2>7, <2>8, <2>10
<1> QED
  BY <1>4, <1>5, <1>6, <1>7, <1>8 DEF ReaderStep

\* Every step keeps the invariant.
LEMMA InvStep == IInv /\ [InventoryNext]_inventoryVars => IInv'
<1> SUFFICES ASSUME IInv, [InventoryNext]_inventoryVars PROVE IInv'
  OBVIOUS
<1>1. ASSUME NEW n \in 0 .. Len(wire), CollectChunk(n) \/ ConfirmChunk(n) PROVE IInv'
  BY <1>1, CollectKeepsInv, ConfirmKeepsInv
<1>2. CASE SendStart \/ SendStop
  BY <1>2, SendStartKeepsInv, SendStopKeepsInv
<1>3. CASE UNCHANGED inventoryVars
  BY <1>3 DEF inventoryVars, IInv, TypeInv, Asked, StopIsLast, ConfirmedIsOff, TagsComplete
<1> QED
  BY <1>1, <1>2, <1>3, MovesKeepInv, OutsideKeepsInv DEF InventoryNext, ClientStep

\* The inductive invariant holds in every reachable state.
THEOREM Invariance == InventorySpec => []IInv
  BY InvInit, InvStep, PTL DEF InventorySpec

-----------------------------------------------------------------------------
(* What it says.                                                           *)

\* The reader of a run that returned a result is off.
THEOREM DoneStopped == InventorySpec => []DoneMeansStopped
<1>1. IInv => DoneMeansStopped
  BY DEF IInv, ConfirmedIsOff, DoneMeansStopped
<1> QED
  BY <1>1, Invariance, PTL

\* A result has the first report of every tag that was received.
THEOREM DoneComplete == InventorySpec => []DoneIsComplete
<1>1. IInv => DoneIsComplete
  BY DEF IInv, TagsComplete, DoneIsComplete
<1> QED
  BY <1>1, Invariance, PTL

\* The reader was asked to stop.
THEOREM StopWasAsked == InventorySpec => []StopAsked
<1>1. IInv => StopAsked
  BY DEF IInv, Asked, StopAsked, Over
<1> QED
  BY <1>1, Invariance, PTL

=============================================================================
