--------------------------- MODULE InventoryScan ---------------------------
(***************************************************************************)
(* One active inventory: ActiveTCPPhysicalReaderBackend.read_events with   *)
(* ActiveInventoryReaderClient.run over a TCPReaderSession.                *)
(*                                                                         *)
(* The client turns the reader on, collects what it reports until the time *)
(* is over, turns it off and returns a result only if the reader confirms. *)
(* A frame is its command, whether the client accepts it (address, status, *)
(* payload) and its EPC; recv returns any number of the frames sent.       *)
(***************************************************************************)
EXTENDS Naturals, Sequences

CONSTANTS
    Tags,         \* EPCs
    MaxReads,     \* maximum_reads of a receive
    MaxReports,   \* bound: frames the reader reports
    NoTag

VARIABLES
    client,        \* the client, see Client
    late,          \* the deadline has passed
    interrupted,   \* where an exception from outside hit the client
    inbox,         \* requests on their way to the reader
    wire,          \* frames on their way to the client
    up,            \* the connection works
    reading,       \* the reader is on
    taken,         \* every frame the client took from the wire while it collected
    reports        \* how many frames the reader reported

inventoryVars == <<client, late, interrupted, inbox, wire, up, reading, taken, reports>>

Frame(command, accepted) == [command |-> command, accepted |-> accepted, epc |-> NoTag]
TagFrame(t) == [command |-> "tag", accepted |-> TRUE, epc |-> t]
FrameRecords == [command : {"start", "stop", "tag", "other"}, accepted : BOOLEAN, epc : Tags \cup {NoTag}]

\* error: an exception waits for the end of the finally block; tags: where in
\* taken the frame is that stands for the tag, 0 for none.
Client ==
    [step : {"new", "sent", "loop", "receive", "finally", "confirm", "done", "failed"},
     reads : 0 .. MaxReads, error : BOOLEAN, started : BOOLEAN, asked : BOOLEAN,
     tags : [Tags -> Nat]]

Over == {"done", "failed"}

InventoryInit ==
    /\ client = [step |-> "new", reads |-> 0, error |-> FALSE, started |-> FALSE,
                 asked |-> FALSE, tags |-> [t \in Tags |-> 0]]
    /\ late = FALSE
    /\ interrupted = "no"
    /\ inbox = <<>> /\ wire = <<>> /\ taken = <<>>
    /\ up = TRUE
    /\ reading \in BOOLEAN      \* a run that was killed may have left it on
    /\ reports = 0

Goto(step) == client' = [client EXCEPT !.step = step, !.reads = 0]
Fail == Goto("failed")
Raise == client' = [client EXCEPT !.step = "finally", !.reads = 0, !.error = TRUE]

\* What a send or a failure leaves alone.
Quiet == UNCHANGED <<late, interrupted, wire, up, reading, taken, reports>>

-----------------------------------------------------------------------------
(* The client up to the deadline.                                          *)

\* The connection is opened and START is sent.
SendStart ==
    /\ client.step = "new"
    /\ Goto("sent")
    /\ inbox' = IF up THEN Append(inbox, "START") ELSE inbox
    /\ Quiet

\* It is not: the exception leaves the with block, no STOP is sent.
SendStartFails ==
    /\ client.step = "new"
    /\ ~up
    /\ Fail
    /\ UNCHANGED inbox /\ Quiet

EnterLoop ==
    /\ client.step = "sent"
    /\ Goto("loop")
    /\ UNCHANGED inbox /\ Quiet

\* Mutant: the deadline is not looked at.
ReceiveForever ==
    /\ client.step = "loop"
    /\ Goto("receive")
    /\ UNCHANGED inbox /\ Quiet

Receive ==
    /\ client.step = "loop"
    /\ ~late
    /\ Goto("receive")
    /\ UNCHANGED inbox /\ Quiet

LoopEnds ==
    /\ client.step = "loop"
    /\ late
    /\ Goto("finally")
    /\ UNCHANGED inbox /\ Quiet

\* recv returns a chunk that completes the first n frames of the wire.
Recv(n) ==
    /\ up
    /\ wire' = SubSeq(wire, n + 1, Len(wire))
    /\ UNCHANGED <<late, interrupted, inbox, up, reading, reports>>

Chunk(n) == SubSeq(wire, 1, n)

\* Where in the chunk there are frames with a command the caller expects.
Expected(n, commands) == {i \in 1 .. n : wire[i].command \in commands}

\* No expected frame: the next recv, up to maximum_reads.
NothingExpected(n, commands) ==
    /\ Expected(n, commands) = {}
    /\ client.reads + 1 < MaxReads
    /\ client' = [client EXCEPT !.reads = @ + 1]

ReadsUsedUp(n, commands) ==
    /\ Expected(n, commands) = {}
    /\ client.reads + 1 >= MaxReads

\* The first position of a frame of tag t in the frames taken, 0 if there is none.
FirstOf(t, frames) ==
    LET at == {i \in 1 .. Len(frames) : frames[i] = TagFrame(t)}
    IN  IF at = {} THEN 0 ELSE CHOOSE i \in at : \A j \in at : i <= j

\* Mutant: the tags of the chunk take the place of those before.
TagsOfChunk(n) ==
    [t \in Tags |-> IF FirstOf(t, Chunk(n)) = 0 THEN 0 ELSE Len(taken) + FirstOf(t, Chunk(n))]

\* tags_by_epc.setdefault for every tag frame of the chunk.
TagsAfter(n) ==
    [t \in Tags |-> IF client.tags[t] # 0 \/ FirstOf(t, Chunk(n)) = 0 THEN client.tags[t]
                    ELSE Len(taken) + FirstOf(t, Chunk(n))]

\* Mutant: a frame that is not accepted ends the run at once.
ProcessRaises(n) ==
    LET at == Expected(n, {"start", "tag"})
    IN  /\ at # {}
        /\ IF \A i \in at : wire[i].accepted
           THEN client' = [client EXCEPT !.step = "loop", !.reads = 0, !.tags = TagsAfter(n),
                               !.started = @ \/ \E i \in at : wire[i] = Frame("start", TRUE)]
           ELSE Fail

\* _process_frames: all frames must be accepted.
Process(n) ==
    LET at == Expected(n, {"start", "tag"})
    IN  /\ at # {}
        /\ IF \A i \in at : wire[i].accepted
           THEN client' = [client EXCEPT !.step = "loop", !.reads = 0, !.tags = TagsAfter(n),
                               !.started = @ \/ \E i \in at : wire[i] = Frame("start", TRUE)]
           ELSE Raise

CollectChunk(n) ==
    /\ client.step = "receive"
    /\ Recv(n)
    /\ taken' = taken \o Chunk(n)
    /\ \/ NothingExpected(n, {"start", "tag"})
       \/ ReadsUsedUp(n, {"start", "tag"}) /\ Raise
       \/ Process(n)

\* No bytes for read_timeout_seconds: receive returns nothing.
CollectTimeout ==
    /\ client.step = "receive"
    /\ Goto("loop")
    /\ UNCHANGED inbox /\ Quiet

CollectFails ==
    /\ client.step = "receive"
    /\ ~up
    /\ Raise
    /\ UNCHANGED inbox /\ Quiet

-----------------------------------------------------------------------------
(* The finally block.                                                      *)

\* STOP is sent, over a broken connection in vain.
SendStop ==
    /\ client.step = "finally"
    /\ client' = [client EXCEPT !.step = "confirm", !.asked = TRUE]
    /\ inbox' = IF up THEN Append(inbox, "STOP") ELSE inbox
    /\ Quiet

SendStopFails ==
    /\ client.step = "finally"
    /\ ~up
    /\ Fail
    /\ UNCHANGED inbox /\ Quiet

\* Mutant: the status of the response is not looked at.
AnyConfirmation(n) ==
    LET at == Expected(n, {"stop"})
    IN  /\ at # {}
        /\ Goto(IF (\E i \in 1 .. n : at = {i}) /\ ~client.error /\ client.started
                THEN "done" ELSE "failed")

\* Exactly one STOP response, with success; then the exception that waited is
\* raised, or the result returned if START had been answered.
Confirmed(n) ==
    LET at == Expected(n, {"stop"})
    IN  /\ at # {}
        /\ Goto(IF (\E i \in 1 .. n : at = {i} /\ wire[i].accepted) /\ ~client.error /\ client.started
                THEN "done" ELSE "failed")

ConfirmChunk(n) ==
    /\ client.step = "confirm"
    /\ Recv(n)
    /\ UNCHANGED taken
    /\ \/ NothingExpected(n, {"stop"})
       \/ ReadsUsedUp(n, {"stop"}) /\ Fail
       \/ Confirmed(n)

\* A timeout, or an error of the connection.
ConfirmFails ==
    /\ client.step = "confirm"
    /\ Fail
    /\ UNCHANGED inbox /\ Quiet

-----------------------------------------------------------------------------
(* From outside.                                                           *)

\* The server ends the process with an exception (SIGABRT), or the operator
\* with Ctrl-C: in the loop the finally block is still executed.
Interrupt ==
    /\ interrupted = "no"
    /\ \/ /\ client.step \in {"loop", "receive"}
          /\ Raise
          /\ interrupted' = "loop"
       \/ /\ client.step \in {"sent", "finally", "confirm"}
          /\ Fail
          /\ interrupted' = "elsewhere"
    /\ UNCHANGED <<late, inbox, wire, up, reading, taken, reports>>

Tick ==
    /\ client.step \notin {"new"} \cup Over
    /\ ~late
    /\ late' = TRUE
    /\ UNCHANGED <<client, interrupted, inbox, wire, up, reading, taken, reports>>

ConnectionBreaks ==
    /\ up
    /\ client.step \notin Over
    /\ up' = FALSE
    /\ wire' = <<>>
    /\ \E lost \in 0 .. Len(inbox) : inbox' = SubSeq(inbox, 1, Len(inbox) - lost)
    /\ UNCHANGED <<client, late, interrupted, reading, taken, reports>>

\* The reader obeys, or refuses, or does not react.
ReaderObeys ==
    /\ inbox # <<>>
    /\ inbox' = Tail(inbox)
    /\ reading' = (Head(inbox) = "START")
    /\ wire' = IF up THEN Append(wire, Frame(IF Head(inbox) = "START" THEN "start" ELSE "stop", TRUE))
               ELSE wire
    /\ UNCHANGED <<client, late, interrupted, up, taken, reports>>

ReaderRefuses ==
    /\ inbox # <<>>
    /\ inbox' = Tail(inbox)
    /\ \/ UNCHANGED wire
       \/ /\ up
          /\ wire' = Append(wire, Frame(IF Head(inbox) = "START" THEN "start" ELSE "stop", FALSE))
    /\ UNCHANGED <<client, late, interrupted, up, reading, taken, reports>>

\* A tag, a tag frame the client does not accept, or a frame of another command.
Report ==
    /\ reading
    /\ up
    /\ reports < MaxReports
    /\ \E f \in {TagFrame(t) : t \in Tags} \cup {Frame("tag", FALSE), Frame("other", TRUE)} :
           wire' = Append(wire, f)
    /\ reports' = reports + 1
    /\ UNCHANGED <<client, late, interrupted, inbox, up, reading, taken>>

ClientStep ==
    \/ SendStart \/ SendStartFails \/ EnterLoop \/ Receive \/ LoopEnds
    \/ \E n \in 0 .. Len(wire) : CollectChunk(n) \/ ConfirmChunk(n)
    \/ CollectTimeout \/ CollectFails
    \/ SendStop \/ SendStopFails \/ ConfirmFails

ReaderStep == ReaderObeys \/ ReaderRefuses \/ Report

InventoryNext == ClientStep \/ ReaderStep \/ Interrupt \/ Tick \/ ConnectionBreaks

InventorySpec == InventoryInit /\ [][InventoryNext]_inventoryVars

\* The client's process runs, its socket has a timeout, and time passes.
InventoryFairSpec == InventorySpec /\ WF_inventoryVars(ClientStep) /\ WF_inventoryVars(Tick)

-----------------------------------------------------------------------------
(* Correctness.                                                            *)

\* A result is returned only by a run that left the reader off.
DoneMeansStopped == client.step = "done" => ~reading

\* A result holds every tag the client received before the deadline, each with
\* its first report, however the reports were cut into chunks and whatever
\* timeouts and other frames came between.
DoneIsComplete ==
    client.step = "done" =>
        /\ \E i \in 1 .. Len(taken) : taken[i] = Frame("start", TRUE)
        /\ client.tags = [t \in Tags |-> FirstOf(t, taken)]

\* A run that got as far as the loop asked the reader to stop, whichever frame,
\* timeout or interruption ended the loop.
StopAsked ==
    client.step \in Over /\ up /\ interrupted # "elsewhere" => client.asked

\* A run ends, whatever the reader sends.
RunEnds == client.step = "loop" ~> client.step \in Over

=============================================================================
