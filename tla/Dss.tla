--------------------------------- MODULE Dss ---------------------------------
(***************************************************************************)
(* DSS framing, crates/db2-proto/src/dss.rs: DssWriter cuts a message into *)
(* physical segments, DssReader puts the frames together again from        *)
(* whatever part of the byte stream has arrived.                           *)
(*                                                                         *)
(* A message longer than one segment goes out as a segment with length     *)
(* 0xFFFF and continuations that carry a two-byte length; 0xFFFF there     *)
(* says that another follows.  A server may also continue an object in     *)
(* segments with a header each, which the reader recognises by the same-   *)
(* correlation flag and by a payload that does not begin like a DDM object.*)
(*                                                                         *)
(* The stream is a sequence of cells: a header, a continuation length, or  *)
(* one unit of payload.  First and Cont are the units that fit behind each *)
(* (32761 and 32765 bytes).                                                *)
(***************************************************************************)
EXTENDS Integers, Sequences, FiniteSets, SequencesExt

CONSTANTS First, Cont, MaxLen, MaxMessages

ASSUME DssAssumption ==
    /\ {First, Cont} \subseteq Nat \ {0}
    /\ {MaxLen, MaxMessages} \subseteq Nat

VARIABLES
    messages,    \* what the sender wrote
    stream,      \* the cells of all of them
    arrived,     \* cells the transport has delivered
    position,    \* cells DssReader has consumed
    frames       \* what next_frame returned

dssVars == <<messages, stream, arrived, position, frames>>

More == -1                               \* 0xFFFF

\* A message: its length and header flags, and whether its payload begins
\* like a DDM object.  Only objects continue the frame before them.
Messages == [len : 1..MaxLen, same : BOOLEAN, chained : BOOLEAN, ddm : BOOLEAN]

Units(n, from, to) == [i \in 1..(to - from + 1) |-> [cell |-> "unit", of |-> <<n, from + i - 1>>]]

\* The continuations of left units: each but the last is full and says More.
Chunks(left) ==
    [i \in 1..((left + Cont - 1) \div Cont) |->
        IF left > i * Cont THEN [size |-> Cont, len |-> More]
        ELSE [size |-> left - (i - 1) * Cont, len |-> left - (i - 1) * Cont]]

\* DssWriter::write_dss_full: the cells of the n-th message.
Segments(n, m) ==
    LET head(len) == [cell |-> "head", len |-> len, same |-> m.same,
                      chained |-> m.chained, ddm |-> m.ddm]
        chunks == Chunks(m.len - First)
    IN IF m.len <= First THEN <<head(m.len)>> \o Units(n, 1, m.len)
       ELSE <<head(More)>> \o Units(n, 1, First)
            \o FlattenSeq([i \in DOMAIN chunks |->
                 LET from == First + (i - 1) * Cont + 1
                 IN <<[cell |-> "cont", len |-> chunks[i].len]>>
                    \o Units(n, from, from + chunks[i].size - 1)])
-----------------------------------------------------------------------------
(* DssReader over the first arrived cells of the stream *)

\* The units behind a header or a continuation length.  A continuation that
\* is exactly full reads like More.
HeadSize(c) == IF c.len = More THEN First ELSE c.len
IsFull(c) == IF c.cell = "cont" THEN c.len \in {More, Cont} ELSE c.len \in {More, First}
ContSize(c) == IF c.cell = "cont" THEN IF c.len = More THEN Cont ELSE c.len
               ELSE HeadSize(c)

Nowhere == -1                            \* the frame is not complete

\* complete_frame_len_from: the position after the frame at position p.
\* What stands where a continuation length is expected is taken for one; a
\* unit of payload there is as good as an incomplete frame.
ContEnd ==
    LET end[p \in 0..arrived] ==
          IF p >= arrived \/ stream[p + 1].cell = "unit" THEN Nowhere
          ELSE LET next == p + 1 + ContSize(stream[p + 1])
               IN IF next > arrived THEN Nowhere
                  ELSE IF IsFull(stream[p + 1]) THEN end[next] ELSE next
    IN end

FrameEnd(p) ==
    IF p >= arrived THEN Nowhere
    ELSE LET next == p + 1 + HeadSize(stream[p + 1])
         IN IF next > arrived THEN Nowhere
            ELSE IF stream[p + 1].len = More THEN ContEnd[next] ELSE next

MergesAny(p) ==                          \* mutant: DDM objects are merged too
    /\ p < arrived
    /\ LET h == stream[p + 1]
       IN h.cell = "head" /\ h.len # More /\ h.same /\ p + 1 + h.len <= arrived

\* next_frame: the segment at p continues the frame before it.
Merges(p) ==
    /\ p < arrived
    /\ LET h == stream[p + 1]
       IN /\ h.cell = "head" /\ h.len # More
          /\ h.same /\ ~h.ddm
          /\ p + 1 + h.len <= arrived

\* The end of the run of segments that continue a frame which ends at p.
MergeEnd ==
    LET end[p \in 0..arrived] ==
          IF Merges(p) THEN end[p + 1 + stream[p + 1].len] ELSE p
    IN end

\* The payload of some cells.
UnitsOf(cells) ==
    FlattenSeq([i \in DOMAIN cells |-> IF cells[i].cell = "unit" THEN <<cells[i].of>> ELSE <<>>])

\* The frame between two positions; the last header's chained flag counts.
FrameAt(p, end) ==
    LET heads == {i \in (p + 1)..end : stream[i].cell = "head"}
    IN [units |-> UnitsOf(SubSeq(stream, p + 1, end)),
        chained |-> stream[CHOOSE i \in heads : \A j \in heads : j <= i].chained]
-----------------------------------------------------------------------------
DssInit ==
    /\ messages = <<>> /\ stream = <<>>
    /\ arrived = 0 /\ position = 0
    /\ frames = <<>>

Send ==
    /\ Len(messages) < MaxMessages
    /\ arrived = 0
    /\ \E m \in Messages :
         /\ messages = <<>> => m.ddm          \* a stream begins with an object
         /\ messages' = Append(messages, m)
         /\ stream' = stream \o Segments(Len(messages) + 1, m)
    /\ UNCHANGED <<arrived, position, frames>>

\* The transport delivers some more of it, once the reader has taken all the
\* complete frames it had (read_frames).
Arrive ==
    /\ FrameEnd(position) = Nowhere
    /\ \E n \in (arrived + 1)..Len(stream) : arrived' = n
    /\ UNCHANGED <<messages, stream, position, frames>>

\* next_frame; a long frame takes no continuation with a header of its own.
NextFrame ==
    /\ FrameEnd(position) # Nowhere
    /\ LET whole == FrameEnd(position)
           end == IF stream[position + 1].len = More THEN whole ELSE MergeEnd[whole]
       IN /\ frames' = Append(frames, FrameAt(position, end))
          /\ position' = end
    /\ UNCHANGED <<messages, stream, arrived>>

DssNext == Send \/ Arrive \/ NextFrame

DssSpec == DssInit /\ [][DssNext]_dssVars
-----------------------------------------------------------------------------
\* A message whose last continuation is exactly full: its length, 0x7FFF, is
\* the one is_full_continuation_len takes for "more follows".
ExactFill(m) == m.len > First /\ (m.len - First) % Cont = 0

Sent == FlattenSeq([n \in DOMAIN messages |-> [i \in 1..messages[n].len |-> <<n, i>>]])
Got == FlattenSeq([k \in DOMAIN frames |-> frames[k].units])

\* Whatever the reads return, the frames are the messages: nothing is lost,
\* repeated or out of order; a message that begins with a DDM object begins a
\* frame; a frame is chained exactly if its last message is; and when all has
\* arrived all is delivered (DssWriter, DssReader::next_frame).  A message of
\* ExactFill's length is excepted, and the stream after it.
FramesAreTheMessages ==
    (\A n \in DOMAIN messages : ~ExactFill(messages[n])) =>
        /\ IsPrefix(Got, Sent)
        /\ \A k \in DOMAIN frames : \A i \in DOMAIN frames[k].units :
              i > 1 /\ frames[k].units[i][2] = 1
                => ~messages[frames[k].units[i][1]].ddm
        /\ \A k \in DOMAIN frames :
              frames[k].chained = messages[Last(frames[k].units)[1]].chained
        /\ arrived = Len(stream) /\ FrameEnd(position) = Nowhere
              => position = arrived /\ Got = Sent
=============================================================================
