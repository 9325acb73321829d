---------------------------- MODULE FrameDecoder ----------------------------
(***************************************************************************)
(* FrameStreamDecoder.feed: frames out of a byte stream that arrives in    *)
(* chunks of any size and holds noise and damaged frames.                  *)
(*                                                                         *)
(* The decoder's buffer is always a piece of the stream: it is represented *)
(* by the number of bytes fed to it and the number deleted from its front. *)
(* A frame is represented by the positions of its first and last byte.     *)
(* Whether parse_frame accepts a piece is a parameter.                     *)
(***************************************************************************)
EXTENDS ProtocolConstants

CONSTANTS
    Streams,     \* the byte streams considered
    Accepts(_)    \* parse_frame returns a frame for these bytes

ASSUME DecoderAssumption == Streams \subseteq Seq(Byte)

VARIABLES
    stream,      \* the bytes the reader sends
    fed,         \* how many of them were passed to feed
    head,        \* how many of those were deleted from the buffer
    frames,      \* the frames returned
    scanning     \* feed is in its loop

vars == <<stream, fed, head, frames, scanning>>

Frames == [first : Nat, last : Nat]

Init ==
    /\ stream \in Streams
    /\ fed = 0
    /\ head = 0
    /\ frames = {}
    /\ scanning = FALSE

-----------------------------------------------------------------------------
(* What feed sees at a position of the stream.                             *)

IsSOF(p) == stream[p] = SOF

\* The length field of a frame that would begin at p has arrived.
HasLength(p) == p + 2 <= fed

DeclaredLength(p) == 256 * stream[p + 1] + stream[p + 2]

\* The last position of the frame that would begin at p.
LastOf(p) == p + DeclaredLength(p) - 1

LengthValid(p) == DeclaredLength(p) >= MinFrameLength

Candidate(p) == SubSeq(stream, p, LastOf(p))

\* The loop ends: the buffer is empty or begins with an incomplete frame.
MustWait(p) ==
    p <= fed => /\ IsSOF(p)
                /\ HasLength(p) => LengthValid(p) /\ LastOf(p) > fed

-----------------------------------------------------------------------------
(* feed.                                                                   *)

\* Mutant: every call begins with an empty buffer.
FeedAfresh(n) ==
    /\ ~scanning
    /\ fed + n <= Len(stream)
    /\ fed' = fed + n
    /\ head' = fed
    /\ scanning' = TRUE
    /\ UNCHANGED <<stream, frames>>

\* A chunk of n bytes is appended.
Feed(n) ==
    /\ ~scanning
    /\ fed + n <= Len(stream)
    /\ fed' = fed + n
    /\ scanning' = TRUE
    /\ UNCHANGED <<stream, head, frames>>

\* Mutant: the byte after the noise is deleted with it, if there is one.
SkipNoiseAndOne ==
    /\ scanning
    /\ head < fed
    /\ ~IsSOF(head + 1)
    /\ \E next \in head + 2 .. fed + 1 :
           /\ \A p \in head + 1 .. next - 1 : ~IsSOF(p)
           /\ next <= fed => IsSOF(next)
           /\ head' = IF next <= fed THEN next ELSE fed
    /\ UNCHANGED <<stream, fed, frames, scanning>>

\* Everything before the next SOF is deleted, or all when there is none.
SkipNoise ==
    /\ scanning
    /\ head < fed
    /\ ~IsSOF(head + 1)
    /\ \E next \in head + 2 .. fed + 1 :
           /\ \A p \in head + 1 .. next - 1 : ~IsSOF(p)
           /\ next <= fed => IsSOF(next)
           /\ head' = next - 1
    /\ UNCHANGED <<stream, fed, frames, scanning>>

\* Mutant: nothing is deleted.
BadLengthKept ==
    /\ scanning
    /\ head < fed
    /\ IsSOF(head + 1)
    /\ HasLength(head + 1)
    /\ ~LengthValid(head + 1)
    /\ UNCHANGED vars

\* A length that no frame has: the SOF is deleted.
BadLength ==
    /\ scanning
    /\ head < fed
    /\ IsSOF(head + 1)
    /\ HasLength(head + 1)
    /\ ~LengthValid(head + 1)
    /\ head' = head + 1
    /\ UNCHANGED <<stream, fed, frames, scanning>>

\* The candidate at the front of the buffer is complete.
Complete ==
    /\ scanning
    /\ head < fed
    /\ IsSOF(head + 1)
    /\ HasLength(head + 1)
    /\ LengthValid(head + 1)
    /\ LastOf(head + 1) <= fed

\* It does not parse: only its SOF is deleted.
BadCandidate ==
    /\ Complete
    /\ ~Accepts(Candidate(head + 1))
    /\ head' = head + 1
    /\ UNCHANGED <<stream, fed, frames, scanning>>

\* Mutant: the SOF is deleted, the rest of the frame stays in the buffer.
GoodFrameKept ==
    /\ Complete
    /\ Accepts(Candidate(head + 1))
    /\ frames' = frames \cup {[first |-> head + 1, last |-> LastOf(head + 1)]}
    /\ head' = head + 1
    /\ UNCHANGED <<stream, fed, scanning>>

GoodFrame ==
    /\ Complete
    /\ Accepts(Candidate(head + 1))
    /\ frames' = frames \cup {[first |-> head + 1, last |-> LastOf(head + 1)]}
    /\ head' = LastOf(head + 1)
    /\ UNCHANGED <<stream, fed, scanning>>

\* feed returns.
Return ==
    /\ scanning
    /\ MustWait(head + 1)
    /\ scanning' = FALSE
    /\ UNCHANGED <<stream, fed, head, frames>>

Scan == SkipNoise \/ BadLength \/ BadCandidate \/ GoodFrame \/ Return

Next == Scan \/ \E n \in 1 .. Len(stream) : Feed(n)

Spec == Init /\ [][Next]_vars

\* feed is a loop of one thread: it goes on.
FairSpec == Spec /\ WF_vars(Scan)

-----------------------------------------------------------------------------
(* Correctness.                                                            *)

\* The value every variable may take.
TypeOK ==
    /\ stream \in Seq(Byte)
    /\ fed \in 0 .. Len(stream)
    /\ head \in 0 .. fed
    /\ frames \in SUBSET Frames
    /\ scanning \in BOOLEAN

\* A frame is where a SOF, a valid length and an intact CRC are.
WellFormed(f) ==
    /\ IsSOF(f.first)
    /\ LengthValid(f.first)
    /\ f.last = LastOf(f.first)
    /\ Accepts(Candidate(f.first))

\* Every frame returned is a whole and intact piece of the bytes deleted from
\* the buffer, and no byte is part of two frames, however the stream was cut
\* into chunks.
FramesSound ==
    /\ \A f \in frames : 0 < f.first /\ f.last <= head /\ WellFormed(f)
    /\ \A f, g \in frames : f # g => f.last < g.first \/ g.last < f.first

Inside(p, f) == f.first <= p /\ p <= f.last

\* No frame can begin at p, whatever arrives later.
Hopeless(p) ==
    \/ ~IsSOF(p)
    \/ HasLength(p) /\ ~LengthValid(p)
    \/ /\ HasLength(p)
       /\ LastOf(p) <= fed
       /\ ~Accepts(Candidate(p))

\* A byte deleted from the buffer belongs to a frame returned, or no frame
\* begins at it: nothing is given up that could still become a frame.
DeletedRightly ==
    \A p \in 1 .. head : Hopeless(p) \/ \E f \in frames : Inside(p, f)

\* Between two calls of feed the buffer is empty or begins with a frame whose
\* end has not arrived.
RestsBeforeFrame == ~scanning => MustWait(head + 1)

\* An intact frame that has arrived is returned by the end of the call that
\* completed it, unless it overlaps a frame returned before or the decoder
\* still waits for the end of a candidate that began earlier.
NoFrameLost ==
    ~scanning => \A p \in 1 .. fed :
        (IsSOF(p) /\ HasLength(p) /\ LengthValid(p) /\ LastOf(p) <= fed /\ Accepts(Candidate(p)))
            => \/ \E f \in frames : Inside(p, f)
               \/ head + 1 < p /\ IsSOF(head + 1)

\* The frames that the first n bytes of the stream hold from each position on.
FramesFrom(n) ==
    LET from[p \in 1 .. Len(stream) + 1] ==
            IF p > n THEN {}
            ELSE IF ~IsSOF(p) THEN from[p + 1]
            ELSE IF p + 2 > n THEN {}
            ELSE IF ~LengthValid(p) THEN from[p + 1]
            ELSE IF LastOf(p) > n THEN {}
            ELSE IF ~Accepts(Candidate(p)) THEN from[p + 1]
            ELSE {[first |-> p, last |-> LastOf(p)]} \cup from[LastOf(p) + 1]
    IN  from

\* The frames of the first n bytes of the stream, in one pass over positions.
Split(n) == FramesFrom(n)[1]

\* How the stream is cut into chunks makes no difference: between two calls the
\* frames returned are those of the bytes fed so far taken at once.
ChunksDoNotMatter == ~scanning => frames = Split(fed)

\* The frames returned are the first of every stream that goes on from here, and
\* the rest of them are found behind the bytes deleted.
OnTheWay ==
    \A n \in fed .. Len(stream) : Split(n) = frames \cup FramesFrom(n)[head + 1]

\* The inductive invariant of the decoder.
IInv == TypeOK /\ FramesSound /\ DeletedRightly /\ RestsBeforeFrame /\ OnTheWay

\* feed returns, whatever bytes it is given.
FeedReturns == scanning ~> ~scanning

=============================================================================
