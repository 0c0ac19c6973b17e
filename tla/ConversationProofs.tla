-------------------------- MODULE ConversationProofs --------------------------
(***************************************************************************)
(* Proofs about Conversation for any number of operations, rows, faults    *)
(* and fetches: a session that has not lost its place owes nothing between *)
(* two operations, and has left no cursor open.                            *)
(***************************************************************************)
EXTENDS Conversation, SequenceLemmas

Reads == {"ready", "prepare", "describe", "open", "descriptors", "fetch", "more",
          "closing", "close", "execute", "commit"}
OfCursor == {"open", "descriptors", "fetch", "more", "closing", "close"}
Asked == Kinds \cup {"handle"}
Cmds == {"setup", "prepare", "describe", "open", "fetch", "close", "change", "commit"}

Requests == [op : Nat, cmd : Cmds, kind : Asked, chained : BOOLEAN]
AnyFrame == [op : Nat, body : Bodies, row : Nat, chained : BOOLEAN]
Cursors == [op : Nat, kind : Asked, total : Nat, sent : Nat, lobs : Nat]

Fields == {"op", "kind", "at", "desc", "pending", "rows", "lobs", "fetched", "end",
           "closing", "verified", "stalled", "tries"}

\* What the steps of an operation rely on and keep.
Formed(c) ==
    /\ c = [f \in Fields |-> c[f]]
    /\ c.op \in Nat /\ c.desc \in BOOLEAN /\ c.end \in BOOLEAN /\ c.closing \in BOOLEAN
    /\ c.closing => Zos /\ c.kind = "limited"
    /\ c.at \in {"more", "closing", "close"} => Zos
    /\ c.at = "closing" => c.kind = "limited"

Typed ==
    /\ Formed(call)
    /\ call.at \in Reads \cup {"idle", "cancelling"}
    /\ call.at \in Reads => call.kind \in Asked
    /\ call.at \in {"ready", "prepare", "describe", "open"} => ~call.end
    /\ ops \in Nat
    /\ asked \in Seq(Requests)
    /\ inbox \in Seq(AnyFrame) /\ line \in Seq(AnyFrame)
    /\ cursor = NoCursor \/ cursor \in Cursors
    /\ Zos /\ call.at \notin {"prepare", "describe", "open", "execute"} => inbox = <<>>

\* Between operations, and without a session.
Rested ==
    /\ ~connected => ~Busy /\ causes = {} /\ cursor = NoCursor
    /\ ~Busy /\ causes = {} =>
           /\ inbox = <<>> /\ line = <<>> /\ asked = <<>>
           /\ cursor.kind \in {"none", "limited"}

Due(at) ==
    CASE at = "ready" -> {"setup", "commit"}
      [] at = "prepare" -> {"prepare"}
      [] at = "describe" -> {"describe"}
      [] at = "open" -> {"open"}
      [] at = "descriptors" -> {"fetch"}
      [] at \in {"fetch", "more", "closing"} -> {"fetch", "close"}
      [] at = "close" -> {"close"}
      [] at = "execute" -> {"change", "commit"}
      [] at = "commit" -> {"commit"}

\* What the server has not answered belongs to the operation in progress, and a
\* request that opens a chain finds the line empty.
Waits ==
    /\ Len(asked) <= 2
    /\ \A i \in 1..Len(asked) : /\ asked[i].op = call.op /\ asked[i].kind = call.kind
                                /\ asked[i].cmd \in Due(call.at)
                                /\ ~asked[i].chained <=> i = Len(asked)
    /\ Len(asked) = 2 => asked[2].cmd \in {"close", "commit"}
    /\ asked # <<>> /\ asked[1].cmd \notin {"close", "commit"} => line = <<>> /\ inbox = <<>>

\* LUW: the frame that ends the chain is the last on the line.
Chained ==
    ~Zos => \A i \in 1..Len(line) : ~line[i].chained => asked = <<>> /\ i = Len(line)

Unread == Range(inbox) \cup Range(line)

Descriptor ==
    /\ call.at = "prepare" => \A f \in Unread : f.body \in {"described", "sqlerror"}
    /\ call.at \in OfCursor \cup {"describe"} => call.desc

Final == {"end", "sqlerror", "noquery", "closed", "nocursor"}

\* The cursor of the operation in progress: its end has not been announced.
OpenNow ==
    /\ call.at \in OfCursor /\ cursor.op = call.op /\ cursor.kind = call.kind
    /\ ~call.end
    /\ \A f \in Unread : f.body \notin Final
    /\ asked # <<>> => asked[1].cmd \in {"fetch", "close"}
    /\ call.at = "close" => asked # <<>>

InOrder ==
    causes = {} /\ call.at \in Reads =>
        /\ Waits /\ Chained /\ Descriptor
        /\ cursor.kind \in {"none", "limited"} \/ OpenNow

CInv == Typed /\ Rested /\ InOrder
-----------------------------------------------------------------------------
(* The course of an operation *)

One(c, cmd) == <<Request(c.op, cmd, c.kind, FALSE)>>
FetchAndClose(c) == <<Request(c.op, "fetch", c.kind, TRUE),
                      Request(c.op, "close", c.kind, FALSE)>>

\* A step of a query: what it keeps, what it asks for, and when it is over.
Follows(c, step) ==
    /\ Formed(step.call) /\ step.call.op = c.op /\ step.call.kind = c.kind
    /\ step.call.desc = c.desc
    /\ step.outcome \in {"goes", "ok", "protocol"}
    /\ step.outcome = "goes" =>
           /\ step.call.end = c.end
           /\ \/ step.call.at = "more" /\ step.cmds = <<>>
              \/ step.call.at \in {"descriptors", "fetch"} /\ step.cmds = One(c, "fetch")
              \/ step.call.at = "fetch" /\ step.cmds = FetchAndClose(c)
              \/ step.call.at = "close" /\ step.cmds = One(c, "close")
    /\ step.outcome = "ok" /\ c.desc => c.end \/ c.kind = "limited"

\* Changes of a call that are not about its course.
LEMMA FormedData ==
    ASSUME NEW c, Formed(c), NEW rows, NEW pending, NEW lobs, NEW fetched
    PROVE  /\ Formed([c EXCEPT !.rows = rows])
           /\ Formed([c EXCEPT !.fetched = fetched])
BY DEF Formed, Fields

LEMMA FinishFollows ==
    ASSUME NEW c, Formed(c)
    PROVE  /\ Formed(Finish(c).call) /\ Finish(c).call.op = c.op
           /\ Finish(c).call.kind = c.kind /\ Finish(c).call.desc = c.desc
           /\ Finish(c).outcome \in {"ok", "protocol"}
<1> DEFINE rows == IF c.desc THEN Applied(c.rows, c.lobs) ELSE c.rows
           done == [c EXCEPT !.rows = rows]
<1>1. Formed(done) /\ done.op = c.op /\ done.kind = c.kind /\ done.desc = c.desc
  <2> HIDE DEF rows
  <2> QED
    BY DEF Formed, Fields
<1>2. Finish(c) \in {Ends(done, "protocol"), Ends(done, "ok")}
  BY DEF Finish
<1> HIDE DEF done
<1> QED
  BY <1>1, <1>2 DEF Ends

LEMMA FetchFollows ==
    ASSUME NEW c, Formed(c), ~c.end
    PROVE  Follows(c, Fetch(c))
<1> DEFINE d == [c EXCEPT !.at = "fetch", !.fetched = NoFetch]
<1>1. /\ Formed(d) /\ d.op = c.op /\ d.kind = c.kind /\ d.desc = c.desc
      /\ d.end = c.end /\ d.at = "fetch"
  BY DEF Formed, Fields
<1>2. Fetch(c) \in {Goes(d, FetchAndClose(c)), Goes(d, One(c, "fetch"))}
  BY DEF Fetch, FetchAndClose, One, Ask
<1> HIDE DEF d
<1> QED
  BY <1>1, <1>2 DEF Goes, Follows

LEMMA OpenedFollows ==
    ASSUME NEW c, Formed(c)
    PROVE  Follows(c, Opened(c))
<1>1. CASE c.end
  BY <1>1, FinishFollows DEF Opened, Follows
<1>2. CASE ~c.end /\ Searches(c)
  <2> DEFINE d == [c EXCEPT !.at = "descriptors", !.tries = @ + 1]
  <2>1. /\ Formed(d) /\ d.op = c.op /\ d.kind = c.kind /\ d.desc = c.desc
        /\ d.end = c.end /\ d.at = "descriptors"
    BY DEF Formed, Fields
  <2>2. Opened(c) = Goes(d, One(c, "fetch"))
    BY <1>2 DEF Opened, One, Ask
  <2> HIDE DEF d
  <2> QED
    BY <2>1, <2>2 DEF Goes, Follows
<1>3. CASE ~c.end /\ ~Searches(c) /\ ~c.desc
  <2>1. Opened(c) = Finish(c)
    BY <1>3 DEF Opened
  <2> QED
    BY <1>3, <2>1, FinishFollows DEF Follows
<1>4. CASE ~c.end /\ ~Searches(c) /\ c.desc
  <2>1. CASE /\ Zos /\ c.kind = "limited" /\ c.lobs = <<>>
             /\ Len(c.rows) >= MaxRows
    <3> DEFINE d == [c EXCEPT !.end = TRUE]
    <3>1. Opened(c) = Finish(d)
      BY <1>4, <2>1 DEF Opened
    <3>2. Formed(d) /\ d.op = c.op /\ d.kind = c.kind /\ d.desc = c.desc
      BY DEF Formed, Fields
    <3> HIDE DEF d
    <3> QED
      BY <2>1, <3>1, <3>2, FinishFollows DEF Follows
  <2>2. CASE ~(/\ Zos /\ c.kind = "limited" /\ c.lobs = <<>>
               /\ Len(c.rows) >= MaxRows)
    <3> DEFINE d == [c EXCEPT !.closing = Zos /\ c.kind = "limited" /\ c.rows = <<>>]
    <3>1. Opened(c) = Fetch(d)
      BY <1>4, <2>2 DEF Opened
    <3>2. /\ Formed(d) /\ d.op = c.op /\ d.kind = c.kind /\ d.desc = c.desc
          /\ d.end = c.end
      BY DEF Formed, Fields
    <3> HIDE DEF d
    <3>3. Follows(d, Fetch(d))
      BY <1>4, <3>2, FetchFollows
    <3> QED
      BY <3>1, <3>2, <3>3 DEF Follows, One, FetchAndClose
  <2> QED
    BY <2>1, <2>2
<1> QED
  BY <1>1, <1>2, <1>3, <1>4

LEMMA CollectedFollows ==
    ASSUME NEW c, Formed(c)
    PROVE  Follows(c, Collected(c))
<1> DEFINE f == c.fetched
           rows == IF Zos THEN Applied(c.rows \o f.rows, f.lobs) ELSE c.rows \o f.rows
           moved == f.rows # <<>> \/ f.lobs # <<>> \/ c.end
           d == [c EXCEPT !.rows = rows, !.lobs = @ \o f.lobs, !.fetched = NoFetch,
                          !.closing = FALSE, !.stalled = IF moved THEN 0 ELSE @ + 1]
           e == [d EXCEPT !.at = "close", !.verified = FALSE]
<1>1. /\ Formed(d) /\ d.op = c.op /\ d.kind = c.kind /\ d.desc = c.desc
      /\ d.end = c.end
  <2> HIDE DEF rows, moved
  <2> QED
    BY DEF Formed, Fields
<1>2. Collected(c) = IF c.end THEN Finish(d)
       ELSE IF Zos /\ f.lobs # <<>> /\ ~Unresolved(rows) THEN Goes(e, Ask(c, "close"))
       ELSE IF Stuck(d) THEN Ends(d, "protocol")
       ELSE Fetch(d)
  BY DEF Collected
<1> HIDE DEF d
<1>3. Zos => /\ Formed(e) /\ e.op = c.op /\ e.kind = c.kind /\ e.desc = c.desc
             /\ e.end = c.end /\ e.at = "close"
  BY <1>1 DEF Formed, Fields
<1>4. CASE c.end
  BY <1>1, <1>2, <1>4, FinishFollows DEF Follows
<1>5. CASE ~c.end /\ Zos /\ f.lobs # <<>> /\ ~Unresolved(rows)
  <2>1. Collected(c) = Goes(e, One(c, "close"))
    BY <1>1, <1>2, <1>5 DEF Ask, One
  <2> HIDE DEF e
  <2> QED
    BY <1>3, <1>5, <2>1 DEF Follows, Goes
<1>6. CASE ~c.end /\ ~(Zos /\ f.lobs # <<>> /\ ~Unresolved(rows)) /\ Stuck(d)
  <2>1. Collected(c) = Ends(d, "protocol")
    BY <1>2, <1>6
  <2> QED
    BY <1>1, <2>1 DEF Follows, Ends
<1>7. CASE ~c.end /\ ~(Zos /\ f.lobs # <<>> /\ ~Unresolved(rows)) /\ ~Stuck(d)
  <2>1. Collected(c) = Fetch(d)
    BY <1>2, <1>7
  <2>2. Follows(d, Fetch(d))
    BY <1>1, <1>7, FetchFollows
  <2> QED
    BY <1>1, <2>1, <2>2 DEF Follows, One, FetchAndClose
<1> QED
  BY <1>4, <1>5, <1>6, <1>7

LEMMA CollectedOver ==
    ASSUME NEW c, Formed(c), c.end
    PROVE  Collected(c).outcome # "goes"
<1>1. \A d : Finish(d).outcome # "goes"
  BY DEF Finish, Ends
<1> QED
  BY <1>1 DEF Collected

LEMMA FetchOverFollows ==
    ASSUME NEW c, Formed(c)
    PROVE  Follows(c, FetchOver(c))
<1> DEFINE d == [c EXCEPT !.end = @ \/ (c.closing /\ c.fetched.rows # <<>>)]
<1>1. /\ Formed(d) /\ d.op = c.op /\ d.kind = c.kind /\ d.desc = c.desc
      /\ d.end = (c.end \/ (c.closing /\ c.fetched.rows # <<>>))
  BY DEF Formed, Fields
<1>2. FetchOver(c) = Collected(d)
  BY DEF FetchOver
<1> HIDE DEF d
<1>3. Follows(d, Collected(d))
  BY <1>1, CollectedFollows
<1>4. d.end => Collected(d).outcome # "goes"
  BY <1>1, CollectedOver
<1>5. /\ c.closing => c.kind = "limited"
      /\ c.closing \in BOOLEAN /\ c.end \in BOOLEAN
  BY DEF Formed
<1>6. d.end /\ ~c.end => c.kind = "limited"
  BY <1>1, <1>5
<1>7. One(d, "fetch") = One(c, "fetch") /\ One(d, "close") = One(c, "close")
      /\ FetchAndClose(d) = FetchAndClose(c)
  BY <1>1 DEF One, FetchAndClose
<1>8. ~d.end => d.end = c.end
  BY <1>1, <1>5
<1> DEFINE step == Collected(d)
<1> HIDE DEF step
<1>9. Follows(d, step) /\ FetchOver(c) = step /\ (d.end => step.outcome # "goes")
  BY <1>2, <1>3, <1>4 DEF step
<1> QED
  BY <1>1, <1>5, <1>6, <1>7, <1>8, <1>9 DEF Follows

LEMMA AfterFetchFollows ==
    ASSUME NEW c, Formed(c)
    PROVE  Follows(c, AfterFetch(c))
<1> DEFINE d == [c EXCEPT !.at = "more"]
<1>1. Zos => /\ Formed(d) /\ d.op = c.op /\ d.kind = c.kind /\ d.desc = c.desc
             /\ d.end = c.end /\ d.at = "more"
  BY DEF Formed, Fields
<1>2. CASE WaitsForMore(c)
  <2>1. AfterFetch(c) = Goes(d, <<>>) /\ Zos
    BY <1>2 DEF AfterFetch, WaitsForMore
  <2> HIDE DEF d
  <2> QED
    BY <1>1, <2>1 DEF Follows, Goes
<1>3. CASE ~WaitsForMore(c)
  BY <1>3, FetchOverFollows DEF AfterFetch
<1> QED
  BY <1>2, <1>3
-----------------------------------------------------------------------------
(* What the frames of a complete read bring about *)

\* None of the frames says that the query has ended.
Unended(frames) == \A i \in DOMAIN frames : frames[i].body \notin Final

LEMMA UnendedIsFine ==
    ASSUME NEW frames, Unended(frames), NEW c
    PROVE  /\ FirstFailure(frames) = "none" /\ FetchFailure(c, frames) = "none"
           /\ ~Sees(frames, {"end"}) /\ ~CloseReplySeen(c, frames)
<1>1. \A i \in DOMAIN frames : Failure(frames[i]) = "none"
  BY DEF Unended, Final, Failure
<1>2. FirstFailure(frames) = "none"
  BY <1>1 DEF FirstFailure
<1>3. FetchFailure(c, frames) = "none"
  BY <1>1 DEF FetchFailure
<1>4. ~Sees(frames, {"end"}) /\ ~CloseReplySeen(c, frames)
  BY DEF Unended, Final, Sees, CloseReplySeen, IsCloseReply
<1> QED
  BY <1>2, <1>3, <1>4

LEMMA FailureKinds == \A frames : FirstFailure(frames) \in {"none", "sql", "protocol"}
<1> SUFFICES ASSUME NEW frames
             PROVE  FirstFailure(frames) \in {"none", "sql", "protocol"}
  OBVIOUS
<1>1. \A f : Failure(f) \in {"none", "sql", "protocol"}
  BY DEF Failure
<1> QED
  BY <1>1 DEF FirstFailure

LEMMA FetchFailureKinds ==
    \A c, frames : FetchFailure(c, frames) \in {"none", "sql", "protocol"}
<1> SUFFICES ASSUME NEW c, NEW frames
             PROVE  FetchFailure(c, frames) \in {"none", "sql", "protocol"}
  OBVIOUS
<1>1. \A f : Failure(f) \in {"none", "sql", "protocol"}
  BY DEF Failure
<1> QED
  BY <1>1 DEF FetchFailure

LEMMA ReadKeeps ==
    ASSUME NEW c, Formed(c), NEW frames
    PROVE  LET d == Read(c, frames)
           IN  /\ Formed(d) /\ d.op = c.op /\ d.kind = c.kind /\ d.at = c.at
               /\ d.desc = (c.desc \/ Sees(frames, {"format", "described"}))
               /\ d.end = (c.end \/ Sees(frames, {"end"}))
<1> DEFINE read == QueryReads(c, frames)[Len(frames)]
<1>1. Read(c, frames) =
        [c EXCEPT !.rows = read.rows, !.pending = read.pending, !.lobs = read.lobs,
                  !.desc = @ \/ Sees(frames, {"format", "described"}),
                  !.end = @ \/ Sees(frames, {"end"})]
  BY DEF Read
<1>2. /\ Sees(frames, {"format", "described"}) \in BOOLEAN
      /\ Sees(frames, {"end"}) \in BOOLEAN
  BY DEF Sees
<1> HIDE DEF read
<1> QED
  BY <1>1, <1>2 DEF Formed, Fields

LEMMA FetchedKeeps ==
    ASSUME NEW c, Formed(c), NEW frames
    PROVE  LET d == Fetched(c, frames)
           IN  /\ Formed(d) /\ d.op = c.op /\ d.kind = c.kind /\ d.at = c.at
               /\ d.desc = c.desc /\ d.closing = c.closing
               /\ d.end = (c.end \/ Sees(frames, {"end"}))
<1> DEFINE read == FetchReads(c, frames)[Len(frames)].fetched
<1>1. Fetched(c, frames) =
        [c EXCEPT !.fetched = read, !.end = @ \/ Sees(frames, {"end"})]
  BY DEF Fetched
<1>2. Sees(frames, {"end"}) \in BOOLEAN
  BY DEF Sees
<1> HIDE DEF read
<1> QED
  BY <1>1, <1>2 DEF Formed, Fields

\* Opened always has a request to make when it goes on.
LEMMA OpenedAsks ==
    ASSUME NEW c, Opened(c).outcome = "goes"
    PROVE  Opened(c).cmds # <<>>
<1>1. \A d : Finish(d).outcome # "goes"
  BY DEF Finish, Ends
<1>2. \A d, cmd : Goes(d, Ask(c, cmd)).cmds # <<>>
  BY DEF Goes, Ask
<1>3. \A d : Fetch(d).cmds # <<>>
  BY DEF Fetch, Goes, Ask
<1> QED
  BY <1>1, <1>2, <1>3 DEF Opened

\* The places a step leads to, and what it asks for on the way.
Moves(c, step) ==
    \/ /\ step.cmds = <<>> /\ c.at \in {"fetch", "more", "closing"}
       /\ step.call.at \in {"more", "closing"}
    \/ step.cmds = <<>> /\ c.at = "close" /\ step.call.at = "close"
    \/ /\ c.at \in OfCursor
       /\ \/ step.call.at \in {"descriptors", "fetch"} /\ step.cmds = One(c, "fetch")
          \/ step.call.at = "fetch" /\ step.cmds = FetchAndClose(c)
          \/ step.call.at = "close" /\ step.cmds = One(c, "close")
    \/ /\ c.at \in {"ready", "prepare", "describe"} /\ ~step.call.end
       /\ step.call.at \in {"prepare", "describe", "open"}
       /\ c.at = "ready" <=> step.call.at = "prepare"
       /\ step.cmds = One(c, step.call.at)

\* A step after frames, for every place in the course of an operation.
Course(c, frames, step) ==
    /\ Formed(step.call) /\ step.call.op = c.op /\ step.call.kind = c.kind
    /\ step.outcome \in {"goes", "ok", "protocol", "sql"}
    /\ step.outcome = "goes" => Moves(c, step)
    /\ step.outcome = "goes" /\ step.call.at # "prepare" =>
           \/ step.call.desc
           \/ c.at # "prepare" /\ ~c.desc
           \/ c.at = "prepare" /\ ~Sees(frames, {"described"})
    /\ c.at \in OfCursor /\ c.desc /\ ~c.end /\ Unended(frames) =>
           /\ step.outcome # "sql"
           /\ step.outcome = "ok" => c.kind = "limited"
           /\ step.outcome = "goes" /\ step.call.end => c.kind = "limited"

\* The states in which an operation reads.
Placed(c) ==
    /\ Formed(c) /\ c.at \in Reads
    /\ c.at \in {"ready", "prepare", "describe", "open"} => ~c.end

LEMMA FollowsCourse ==
    ASSUME NEW c, Formed(c), c.at \in OfCursor, NEW d, NEW frames, NEW step,
           d.op = c.op, d.kind = c.kind, c.desc => d.desc, d.desc \in BOOLEAN,
           d.end \in BOOLEAN,
           c.desc /\ ~c.end /\ Unended(frames) => ~d.end \/ c.kind = "limited",
           Follows(d, step),
           step.outcome = "goes" =>
               c.at \in {"fetch", "more", "closing"} \/ step.cmds # <<>>
    PROVE  Course(c, frames, step)
<1>1. /\ One(d, "fetch") = One(c, "fetch") /\ One(d, "close") = One(c, "close")
      /\ FetchAndClose(d) = FetchAndClose(c)
  BY DEF One, FetchAndClose
<1>2. c.desc \in BOOLEAN /\ c.end \in BOOLEAN
  BY DEF Formed
<1>3. step.outcome = "goes" => Moves(c, step)
  BY <1>1 DEF Follows, Moves
<1>4. c.at # "prepare"
  BY DEF OfCursor
<1> QED
  BY <1>2, <1>3, <1>4 DEF Follows, Course

\* An operation that fails at what it has read.
LEMMA EndsCourse ==
    ASSUME NEW c, Formed(c), NEW frames, NEW outcome \in {"sql", "protocol"},
           c.at \in OfCursor => outcome = "protocol" \/ ~Unended(frames)
    PROVE  Course(c, frames, Ends(c, outcome))
BY DEF Course, Ends

LEMMA QueriedCourse ==
    ASSUME NEW c, Placed(c), c.at \in {"open", "descriptors"}, NEW frames
    PROVE  Course(c, frames, Queried(c, frames))
<1>1. CASE FirstFailure(frames) # "none"
  <2>1. FirstFailure(frames) \in {"sql", "protocol"} /\ ~Unended(frames)
    BY <1>1, FailureKinds, UnendedIsFine
  <2> QED
    BY <1>1, <2>1, EndsCourse DEF Queried, Placed
<1>2. CASE FirstFailure(frames) = "none"
  <2> DEFINE d == Read(c, frames)
  <2>1. Queried(c, frames) = Opened(d)
    BY <1>2 DEF Queried
  <2>2. /\ Formed(d) /\ d.op = c.op /\ d.kind = c.kind /\ (c.desc => d.desc)
        /\ d.end = (c.end \/ Sees(frames, {"end"}))
    BY ReadKeeps DEF Placed
  <2>3. Unended(frames) => ~Sees(frames, {"end"})
    BY UnendedIsFine
  <2> HIDE DEF d
  <2>4. Follows(d, Opened(d)) /\ (Opened(d).outcome = "goes" => Opened(d).cmds # <<>>)
    BY <2>2, OpenedFollows, OpenedAsks
  <2>5. Formed(c) /\ c.at \in OfCursor
    BY DEF Placed, OfCursor
  <2>6. d.desc \in BOOLEAN /\ d.end \in BOOLEAN
    BY <2>2 DEF Formed
  <2>7. ~c.end /\ Unended(frames) => ~d.end
    BY <2>2, <2>3
  <2> QED
    BY <2>1, <2>2, <2>4, <2>5, <2>6, <2>7, FollowsCourse
<1> QED
  BY <1>1, <1>2

LEMMA PreparedCourse ==
    ASSUME NEW c, Placed(c), c.at = "prepare", NEW frames
    PROVE  Course(c, frames, Prepared(c, frames))
<1> DEFINE d == [c EXCEPT !.desc = Sees(frames, {"described"})]
           asks == [d EXCEPT !.at = "describe"]
           opens == [d EXCEPT !.at = "open"]
<1>1. CASE FirstFailure(frames) # "none"
  <2>1. FirstFailure(frames) \in {"sql", "protocol"}
    BY <1>1, FailureKinds
  <2> QED
    BY <1>1, <2>1, EndsCourse DEF Prepared, Placed, OfCursor
<1>2. CASE FirstFailure(frames) = "none"
  <2>1. Prepared(c, frames) \in {Goes(asks, One(c, "describe")), Goes(opens, One(c, "open"))}
    BY <1>2 DEF Prepared, Ask, One
  <2>2. Sees(frames, {"described"}) \in BOOLEAN
    BY DEF Sees
  <2>3. /\ Formed(asks) /\ asks.op = c.op /\ asks.kind = c.kind /\ asks.at = "describe"
        /\ asks.desc = Sees(frames, {"described"}) /\ asks.end = c.end
    BY <2>2 DEF Formed, Fields, Placed
  <2>4. /\ Formed(opens) /\ opens.op = c.op /\ opens.kind = c.kind /\ opens.at = "open"
        /\ opens.desc = Sees(frames, {"described"}) /\ opens.end = c.end
    BY <2>2 DEF Formed, Fields, Placed
  <2>5. ~c.end
    BY DEF Placed
  <2> HIDE DEF asks, opens
  <2>6. CASE Prepared(c, frames) = Goes(asks, One(c, "describe"))
    <3>1. Moves(c, Prepared(c, frames))
      BY <2>3, <2>5, <2>6 DEF Moves, Goes
    <3> QED
      BY <2>3, <2>6, <3>1 DEF Course, Goes, OfCursor
  <2>7. CASE Prepared(c, frames) = Goes(opens, One(c, "open"))
    <3>1. Moves(c, Prepared(c, frames))
      BY <2>4, <2>5, <2>7 DEF Moves, Goes
    <3> QED
      BY <2>4, <2>7, <3>1 DEF Course, Goes, OfCursor
  <2> QED
    BY <2>1, <2>6, <2>7
<1> QED
  BY <1>1, <1>2

\* A step that goes on in the same way with another place.
LEMMA OnwardCourse ==
    ASSUME NEW c, Placed(c), NEW at, NEW frames,
           \/ c.at = "ready" /\ at = "prepare"
           \/ c.at = "describe" /\ at = "open"
    PROVE  Course(c, frames, Goes([c EXCEPT !.at = at], Ask(c, at)))
<1> DEFINE d == [c EXCEPT !.at = at]
<1>1. /\ Formed(d) /\ d.op = c.op /\ d.kind = c.kind /\ d.at = at
      /\ d.desc = c.desc /\ d.end = c.end /\ ~c.end /\ c.desc \in BOOLEAN
  BY DEF Formed, Fields, Placed
<1> HIDE DEF d
<1>2. Ask(c, at) = One(c, at)
  BY DEF Ask, One
<1>3. Moves(c, Goes(d, One(c, at)))
  BY <1>1 DEF Moves, Goes
<1>4. Course(c, frames, Goes(d, One(c, at)))
  BY <1>1, <1>3 DEF Course, Goes, OfCursor
<1> QED
  BY <1>2, <1>4 DEF d

LEMMA DescribedCourse ==
    ASSUME NEW c, Placed(c), c.at = "describe", NEW frames
    PROVE  Course(c, frames, Described(c, frames))
<1>1. CASE FirstFailure(frames) # "none"
  <2>1. FirstFailure(frames) \in {"sql", "protocol"}
    BY <1>1, FailureKinds
  <2> QED
    BY <1>1, <2>1, EndsCourse DEF Described, Placed, OfCursor
<1>2. CASE FirstFailure(frames) = "none"
  BY <1>2, OnwardCourse DEF Described
<1> QED
  BY <1>1, <1>2

LEMMA ChangesCourse ==
    ASSUME NEW c, Placed(c), c.at \in {"execute", "commit"}, NEW frames
    PROVE  /\ Course(c, frames, Executed(c, frames))
           /\ Course(c, frames, Committed(c, frames))
<1>1. Course(c, frames, Ends(c, "ok"))
  BY DEF Course, Ends, Placed, OfCursor
<1>2. FirstFailure(frames) # "none" => FirstFailure(frames) \in {"sql", "protocol"}
  BY FailureKinds
<1>3. \A outcome \in {"sql", "protocol"} : Course(c, frames, Ends(c, outcome))
  BY EndsCourse DEF Placed, OfCursor
<1> QED
  BY <1>1, <1>2, <1>3 DEF Executed, Committed

LEMMA AfterFetchCourse ==
    ASSUME NEW c, Placed(c), c.at \in {"fetch", "more", "closing"}, NEW frames,
           NEW d, Formed(d), d.op = c.op, d.kind = c.kind, d.desc = c.desc,
           c.desc /\ ~c.end /\ Unended(frames) => ~d.end \/ c.kind = "limited"
    PROVE  Course(c, frames, AfterFetch(d)) /\ Course(c, frames, FetchOver(d))
<1>1. Follows(d, AfterFetch(d)) /\ Follows(d, FetchOver(d))
  BY AfterFetchFollows, FetchOverFollows
<1>2. /\ Formed(c) /\ c.at \in OfCursor /\ (c.desc => d.desc)
      /\ d.desc \in BOOLEAN /\ d.end \in BOOLEAN
  BY DEF Placed, OfCursor, Formed
<1> QED
  BY <1>1, <1>2, FollowsCourse

LEMMA FetchReadCourse ==
    ASSUME NEW c, Placed(c), c.at \in {"fetch", "more"}, NEW frames
    PROVE  Course(c, frames, FetchRead(c, frames))
<1> DEFINE d == Fetched(c, frames)
           e == IF Zos THEN [d EXCEPT !.fetched.rows = Applied(@, d.fetched.lobs)] ELSE d
           f == [e EXCEPT !.at = "closing"]
<1>1. CASE FetchFailure(c, frames) # "none"
  <2>1. FetchFailure(c, frames) \in {"sql", "protocol"} /\ ~Unended(frames)
    BY <1>1, FetchFailureKinds, UnendedIsFine
  <2> QED
    BY <1>1, <2>1, EndsCourse DEF FetchRead, Placed
<1>2. CASE FetchFailure(c, frames) = "none"
  <2>1. FetchRead(c, frames) =
          IF c.closing /\ c.at = "fetch" /\ ~CloseReplySeen(c, frames)
          THEN Goes(f, <<>>) ELSE AfterFetch(e)
    BY <1>2 DEF FetchRead
  <2>2. /\ Formed(d) /\ d.op = c.op /\ d.kind = c.kind /\ d.desc = c.desc
        /\ d.closing = c.closing /\ d.end = (c.end \/ Sees(frames, {"end"}))
    BY FetchedKeeps DEF Placed
  <2> HIDE DEF d
  <2>3. /\ Formed(e) /\ e.op = c.op /\ e.kind = c.kind /\ e.desc = c.desc
        /\ e.closing = c.closing /\ e.end = d.end
    BY <2>2 DEF Formed, Fields
  <2> HIDE DEF e
  <2>4. c.closing => /\ Formed(f) /\ f.op = c.op /\ f.kind = c.kind /\ f.desc = c.desc
                     /\ f.end = d.end /\ f.at = "closing" /\ c.kind = "limited"
    BY <2>3 DEF Formed, Fields, Placed
  <2> HIDE DEF f
  <2>5. ~c.end /\ Unended(frames) => ~d.end
    BY <2>2, UnendedIsFine
  <2>6. Course(c, frames, AfterFetch(e))
    BY <2>3, <2>5, AfterFetchCourse
  <2>7. c.closing => Course(c, frames, Goes(f, <<>>))
    <3>1. c.closing => Moves(c, Goes(f, <<>>))
      BY <2>4 DEF Moves, Goes
    <3> QED
      BY <2>4, <3>1 DEF Course, Goes, Formed, Placed
  <2> QED
    BY <2>1, <2>6, <2>7
<1> QED
  BY <1>1, <1>2

LEMMA ClosingReadCourse ==
    ASSUME NEW c, Placed(c), c.at = "closing", NEW frames
    PROVE  Course(c, frames, ClosingRead(c, frames))
<1> DEFINE d == [c EXCEPT !.end = TRUE]
           e == Fetched(d, frames)
<1>1. /\ Formed(d) /\ d.op = c.op /\ d.kind = c.kind /\ d.desc = c.desc
  BY DEF Formed, Fields, Placed
<1> HIDE DEF d
<1>2. CASE FetchFailure(d, frames) # "none"
  <2>1. FetchFailure(d, frames) \in {"sql", "protocol"} /\ ~Unended(frames)
    BY <1>2, FetchFailureKinds, UnendedIsFine
  <2>2. ClosingRead(c, frames) = Ends(c, FetchFailure(d, frames))
    BY <1>2 DEF ClosingRead, d
  <2> QED
    BY <2>1, <2>2, EndsCourse DEF Placed
<1>3. CASE FetchFailure(d, frames) = "none"
  <2>1. ClosingRead(c, frames) = AfterFetch(e)
    BY <1>3 DEF ClosingRead, d
  <2>2. /\ Formed(e) /\ e.op = c.op /\ e.kind = c.kind /\ e.desc = c.desc
    BY <1>1, FetchedKeeps
  <2> HIDE DEF e
  <2>3. c.kind = "limited"
    BY DEF Placed, Formed
  <2> QED
    BY <2>1, <2>2, <2>3, AfterFetchCourse
<1> QED
  BY <1>2, <1>3

LEMMA CloseReadCourse ==
    ASSUME NEW c, Placed(c), c.at = "close", NEW frames
    PROVE  Course(c, frames, CloseRead(c, frames))
<1>1. CASE FetchFailure(c, frames) # "none"
  <2>1. FetchFailure(c, frames) \in {"sql", "protocol"} /\ ~Unended(frames)
    BY <1>1, FetchFailureKinds, UnendedIsFine
  <2> QED
    BY <1>1, <2>1, EndsCourse DEF CloseRead, Placed
<1>2. CASE /\ FetchFailure(c, frames) = "none"
           /\ CloseReplySeen(c, frames) \/ Sees(frames, {"end"})
  <2> DEFINE d == [c EXCEPT !.verified = TRUE]
  <2>1. /\ Formed(d) /\ d.op = c.op /\ d.kind = c.kind /\ d.desc = c.desc
    BY DEF Formed, Fields, Placed
  <2>2. CloseRead(c, frames) = Finish(d)
    BY <1>2 DEF CloseRead
  <2> HIDE DEF d
  <2>3. ~Unended(frames)
    BY <1>2, UnendedIsFine
  <2> QED
    BY <2>1, <2>2, <2>3, FinishFollows DEF Course
<1>3. CASE /\ FetchFailure(c, frames) = "none"
           /\ ~(CloseReplySeen(c, frames) \/ Sees(frames, {"end"}))
  <2>1. CloseRead(c, frames) = Goes(c, <<>>)
    BY <1>3 DEF CloseRead
  <2>2. Moves(c, Goes(c, <<>>))
    BY DEF Moves, Goes
  <2> QED
    BY <2>1, <2>2 DEF Course, Goes, Placed, Formed
<1> QED
  BY <1>1, <1>2, <1>3

LEMMA StepCourse ==
    ASSUME NEW c, Placed(c), NEW frames
    PROVE  Course(c, frames, Step(c, frames))
<1>1. CASE c.at = "ready"
  <2>1. Step(c, frames) = Goes([c EXCEPT !.at = "prepare"], Ask(c, "prepare"))
    BY <1>1 DEF Step
  <2>2. Course(c, frames, Goes([c EXCEPT !.at = "prepare"], Ask(c, "prepare")))
    BY <1>1, OnwardCourse
  <2> QED
    BY <2>1, <2>2
<1>2. CASE c.at = "prepare"
  BY <1>2, PreparedCourse DEF Step
<1>3. CASE c.at = "describe"
  BY <1>3, DescribedCourse DEF Step
<1>4. CASE c.at \in {"open", "descriptors"}
  BY <1>4, QueriedCourse DEF Step
<1>5. CASE c.at \in {"fetch", "more"}
  BY <1>5, FetchReadCourse DEF Step
<1>6. CASE c.at = "closing"
  BY <1>6, ClosingReadCourse DEF Step
<1>7. CASE c.at = "close"
  BY <1>7, CloseReadCourse DEF Step
<1>8. CASE c.at \in {"execute", "commit"}
  BY <1>8, ChangesCourse DEF Step
<1> QED
  BY <1>1, <1>2, <1>3, <1>4, <1>5, <1>6, <1>7, <1>8 DEF Placed, Reads

\* A silence: also the end of a cursor that is being closed.
LEMMA QuietCourse ==
    ASSUME NEW c, Placed(c), NEW frames,
           c.at \in {"prepare", "describe", "open", "execute", "closing", "more", "close"}
    PROVE  LET step == QuietStep(c, frames)
           IN  /\ c.at # "close" => Course(c, frames, step)
               /\ c.at = "close" => /\ Formed(step.call) /\ step.call.op = c.op
                                    /\ step.call.kind = c.kind
                                    /\ step.outcome \in {"ok", "protocol"}
<1>1. Formed(c) /\ c.desc = c.desc
  BY DEF Placed
<1>2. CASE c.at \in {"prepare", "describe", "open", "execute"}
  BY <1>2, StepCourse DEF QuietStep
<1>3. CASE c.at \in {"closing", "more"}
  <2>1. Course(c, frames, AfterFetch(c)) /\ Course(c, frames, FetchOver(c))
    BY <1>1, <1>3, AfterFetchCourse
  <2> QED
    BY <1>3, <2>1 DEF QuietStep
<1>4. CASE c.at = "close"
  BY <1>1, <1>4, FinishFollows DEF QuietStep
<1> QED
  BY <1>2, <1>3, <1>4
-----------------------------------------------------------------------------
(* The server *)

LEMMA FrameType ==
    ASSUME NEW op \in Nat, NEW body \in Bodies, NEW row \in Nat
    PROVE  /\ Frame(op, body, row) \in AnyFrame /\ Frame(op, body, row).chained
           /\ Frame(op, body, row).body = body
BY DEF Frame, AnyFrame

\* Frames of a reply before the end of the chain is marked.
Draft(frames) == /\ frames \in Seq(AnyFrame)
                 /\ \A i \in 1..Len(frames) : frames[i].chained

LEMMA DraftConcat ==
    ASSUME NEW f, NEW g, Draft(f), Draft(g)
    PROVE  /\ Draft(f \o g) /\ Len(f \o g) = Len(f) + Len(g)
           /\ Unended(f) /\ Unended(g) => Unended(f \o g)
<1>1. /\ f \o g \in Seq(AnyFrame) /\ Len(f \o g) = Len(f) + Len(g)
      /\ \A i \in 1..(Len(f) + Len(g)) :
            (f \o g)[i] = IF i <= Len(f) THEN f[i] ELSE g[i - Len(f)]
  BY ConcatProperties DEF Draft
<1>2. /\ Len(f) \in Nat /\ Len(g) \in Nat /\ DOMAIN f = 1..Len(f)
      /\ DOMAIN g = 1..Len(g) /\ DOMAIN (f \o g) = 1..(Len(f) + Len(g))
  BY <1>1, LenProperties DEF Draft
<1> QED
  BY <1>1, <1>2 DEF Draft, Unended

LEMMA DraftOne ==
    ASSUME NEW f \in AnyFrame, f.chained
    PROVE  /\ Draft(<<f>>) /\ <<f>> # <<>> /\ Len(<<f>>) = 1
           /\ f.body \notin Final => Unended(<<f>>)
           /\ \A i \in DOMAIN <<f>> : <<f>>[i].body = f.body
BY DEF Draft, Unended

LEMMA DraftTwo ==
    ASSUME NEW f \in AnyFrame, f.chained, NEW g \in AnyFrame, g.chained
    PROVE  /\ Draft(<<f, g>>) /\ <<f, g>> # <<>> /\ Len(<<f, g>>) = 2
           /\ f.body \notin Final /\ g.body \notin Final => Unended(<<f, g>>)
BY DEF Draft, Unended

Run(op, body, first, n) == [i \in 1..n |-> Frame(op, body, first + i)]

LEMMA DraftMany ==
    ASSUME NEW op \in Nat, NEW body \in Bodies, NEW first \in Nat, NEW n \in Nat
    PROVE  /\ Draft(Run(op, body, first, n)) /\ Len(Run(op, body, first, n)) = n
           /\ body \notin Final => Unended(Run(op, body, first, n))
<1> DEFINE f == [i \in 1..n |-> Frame(op, body, first + i)]
<1>1. \A i \in 1..n : /\ f[i] \in AnyFrame /\ f[i].chained /\ f[i].body = body
  <2> SUFFICES ASSUME NEW i \in 1..n
               PROVE  f[i] \in AnyFrame /\ f[i].chained /\ f[i].body = body
    OBVIOUS
  <2>1. first + i \in Nat
    OBVIOUS
  <2> QED
    BY <2>1, FrameType
<1>2. DOMAIN f = 1..n
  OBVIOUS
<1>3. f = [i \in 1..n |-> f[i]]
  OBVIOUS
<1> HIDE DEF f
<1>4. f \in Seq(AnyFrame)
  BY <1>1, <1>3
<1>5. Len(f) = n
  BY <1>2, <1>4, LenProperties
<1>6. Draft(f) /\ Len(f) = n /\ (body \notin Final => Unended(f))
  BY <1>1, <1>2, <1>4, <1>5 DEF Draft, Unended
<1> QED
  BY <1>6 DEF f, Run

LEMMA BlockDraft ==
    ASSUME NEW q \in Cursors, NEW rows \in Nat, NEW lobs \in Nat, NEW ends \in BOOLEAN
    PROVE  /\ Draft(Block(q, rows, lobs, ends))
           /\ rows + lobs > 0 \/ ends => Len(Block(q, rows, lobs, ends)) > 0
           /\ ~ends => Unended(Block(q, rows, lobs, ends))
           /\ \/ After(q, rows, lobs, ends) = NoCursor
              \/ /\ ~ends /\ After(q, rows, lobs, ends) \in Cursors
                 /\ After(q, rows, lobs, ends).op = q.op
                 /\ After(q, rows, lobs, ends).kind = q.kind
<1> DEFINE a == Run(q.op, "row", q.sent, rows)
           b == Run(q.op, "lob", q.lobs, lobs)
           z == IF ends THEN <<Frame(q.op, "end", 0), Frame(q.op, "done", 0)>> ELSE <<>>
<1>1. q.op \in Nat /\ q.sent \in Nat /\ q.lobs \in Nat
  BY DEF Cursors
<1>2. /\ {"row", "lob", "end", "done"} \subseteq Bodies
      /\ "row" \notin Final /\ "lob" \notin Final
  BY DEF Bodies, Final
<1>3. Draft(a) /\ Unended(a) /\ Len(a) = rows
  BY <1>1, <1>2, DraftMany
<1>4. Draft(b) /\ Unended(b) /\ Len(b) = lobs
  BY <1>1, <1>2, DraftMany
<1>5. Draft(z) /\ (~ends => Unended(z)) /\ (ends => Len(z) = 2) /\ Len(z) \in Nat
  <2>1. /\ Frame(q.op, "end", 0) \in AnyFrame /\ Frame(q.op, "end", 0).chained
        /\ Frame(q.op, "done", 0) \in AnyFrame /\ Frame(q.op, "done", 0).chained
    BY <1>1, <1>2, FrameType
  <2>2. CASE ends
    BY <2>1, <2>2, DraftTwo
  <2>3. CASE ~ends
    BY <2>3 DEF Draft, Unended
  <2> QED
    BY <2>2, <2>3
<1>6. Block(q, rows, lobs, ends) = a \o b \o z
  BY DEF Block, Run
<1> HIDE DEF a, b, z
<1>7. Draft(a \o b) /\ Unended(a \o b) /\ Len(a \o b) = rows + lobs
  BY <1>3, <1>4, DraftConcat
<1>8. /\ Draft(a \o b \o z) /\ Len(a \o b \o z) = rows + lobs + Len(z)
      /\ ~ends => Unended(a \o b \o z)
  BY <1>5, <1>7, DraftConcat
<1>9. ~ends => /\ After(q, rows, lobs, ends) \in Cursors
               /\ After(q, rows, lobs, ends).op = q.op
               /\ After(q, rows, lobs, ends).kind = q.kind
  <2> DEFINE s == q.sent + rows
             l == q.lobs + lobs
  <2>1. s \in Nat /\ l \in Nat
    BY <1>1
  <2>2. ~ends => After(q, rows, lobs, ends) = [q EXCEPT !.sent = s, !.lobs = l]
    BY DEF After
  <2> HIDE DEF s, l
  <2>3. [q EXCEPT !.sent = s, !.lobs = l] \in Cursors
    BY <2>1 DEF Cursors
  <2>4. /\ [q EXCEPT !.sent = s, !.lobs = l].op = q.op
        /\ [q EXCEPT !.sent = s, !.lobs = l].kind = q.kind
    BY DEF Cursors
  <2> QED
    BY <2>2, <2>3, <2>4
<1>10. ends => After(q, rows, lobs, ends) = NoCursor
  BY DEF After
<1>11. rows + lobs > 0 \/ ends => rows + lobs + Len(z) > 0
  BY <1>5
<1> QED
  BY <1>6, <1>8, <1>9, <1>10, <1>11

\* A reply on the line, and what it does to the cursor.
Serves(r, frames) ==
    /\ Draft(frames) /\ Len(frames) > 0 /\ Sends(frames)
    /\ r.cmd = "prepare" =>
           \A i \in DOMAIN frames : frames[i].body \in {"described", "sqlerror"}
    /\ \/ /\ cursor' = cursor
          /\ r.cmd = "close" => cursor.op # r.op
          /\ r.cmd = "fetch" /\ cursor.op = r.op => Unended(frames)
       \/ cursor' = NoCursor
       \/ /\ cursor' \in Cursors /\ cursor'.op = r.op /\ Unended(frames)
          /\ \/ r.cmd = "open" /\ cursor'.kind = r.kind
             \/ r.cmd = "fetch" /\ cursor.op = r.op /\ cursor'.kind = cursor.kind

LEMMA OpenServes ==
    ASSUME Typed, asked # <<>>, AnswerOpen, Head(asked) \in Requests
    PROVE  \E frames : Serves(Head(asked), frames)
<1> DEFINE r == Head(asked)
<1>1. r.cmd = "open"
  BY DEF AnswerOpen
<1>2. PICK all \in 0..MaxRows, rows \in 0..MaxRows, lobs \in 0..MaxRows, ends \in BOOLEAN :
        LET q == [op |-> r.op, kind |-> r.kind, total |-> all, sent |-> 0, lobs |-> 0]
        IN  /\ Sends(<<Frame(r.op, "opened", 0), Frame(r.op, "format", 0)>>
                     \o Block(q, rows, lobs, ends))
            /\ cursor' = After(q, rows, lobs, ends)
  BY DEF AnswerOpen
<1> DEFINE q == [op |-> r.op, kind |-> r.kind, total |-> all, sent |-> 0, lobs |-> 0]
           head == <<Frame(r.op, "opened", 0), Frame(r.op, "format", 0)>>
           block == Block(q, rows, lobs, ends)
<1>3. Sends(head \o block) /\ cursor' = After(q, rows, lobs, ends)
  BY <1>2
<1>4. q \in Cursors /\ q.op = r.op /\ q.kind = r.kind /\ r.op \in Nat
  BY ConversationAssumption DEF Cursors, Requests
<1>5. Draft(head) /\ Len(head) = 2 /\ Unended(head)
  <2> DEFINE f == Frame(r.op, "opened", 0)
             g == Frame(r.op, "format", 0)
  <2>1. "opened" \in Bodies /\ "format" \in Bodies /\ 0 \in Nat
    BY DEF Bodies
  <2>2. f \in AnyFrame /\ f.chained /\ f.body = "opened"
    BY <1>4, <2>1, FrameType
  <2>3. g \in AnyFrame /\ g.chained /\ g.body = "format"
    BY <1>4, <2>1, FrameType
  <2>4. head = <<f, g>>
    OBVIOUS
  <2> HIDE DEF f, g, head
  <2> QED
    BY <2>2, <2>3, <2>4, DraftTwo DEF Final
<1> HIDE DEF q, head
<1>6. /\ Draft(block) /\ Len(block) \in Nat /\ (~ends => Unended(block))
      /\ \/ cursor' = NoCursor
         \/ ~ends /\ cursor' \in Cursors /\ cursor'.op = q.op /\ cursor'.kind = q.kind
  <2> DEFINE a == After(q, rows, lobs, ends)
  <2>1. rows \in Nat /\ lobs \in Nat
    BY ConversationAssumption
  <2>2. /\ Draft(block) /\ (~ends => Unended(block))
        /\ a = NoCursor \/ (~ends /\ a \in Cursors /\ a.op = q.op /\ a.kind = q.kind)
    <3>1. \A s \in Cursors, n \in Nat, m \in Nat, e \in BOOLEAN :
            /\ Draft(Block(s, n, m, e)) /\ (~e => Unended(Block(s, n, m, e)))
            /\ \/ After(s, n, m, e) = NoCursor
               \/ /\ ~e /\ After(s, n, m, e) \in Cursors
                  /\ After(s, n, m, e).op = s.op /\ After(s, n, m, e).kind = s.kind
      BY BlockDraft
    <3>2. q \in Cursors
      BY <1>4
    <3> HIDE DEF r
    <3> QED
      BY <2>1, <3>1, <3>2
  <2>3. cursor' = a
    BY <1>3
  <2> HIDE DEF a, block
  <2>4. Len(block) \in Nat
    BY <2>2, LenProperties DEF Draft
  <2> QED
    BY <2>2, <2>3, <2>4
<1> HIDE DEF block
<1>7. /\ Draft(head \o block) /\ Len(head \o block) > 0
      /\ ~ends => Unended(head \o block)
  BY <1>5, <1>6, DraftConcat
<1>8. Serves(r, head \o block)
  BY <1>1, <1>3, <1>4, <1>6, <1>7 DEF Serves
<1> QED
  BY <1>8

LEMMA FetchServes ==
    ASSUME Typed, asked # <<>>, AnswerFetch, Head(asked) \in Requests
    PROVE  \E frames : Serves(Head(asked), frames)
<1> DEFINE r == Head(asked)
<1>1. r.cmd = "fetch" /\ r.op \in Nat
  BY DEF AnswerFetch, Requests
<1>2. CASE cursor.op # r.op
  <2> DEFINE f == Frame(r.op, "noquery", 0)
  <2>1. Sends(<<f>>) /\ cursor' = cursor
    BY <1>2 DEF AnswerFetch, server
  <2>2. f \in AnyFrame /\ f.chained
    BY <1>1, FrameType DEF Bodies
  <2> HIDE DEF f
  <2>3. Draft(<<f>>) /\ Len(<<f>>) > 0
    BY <2>2, DraftOne
  <2>4. Serves(r, <<f>>)
    BY <1>1, <1>2, <2>1, <2>3 DEF Serves
  <2> QED
    BY <2>4
<1>3. CASE cursor.op = r.op /\ Sends(<<Frame(r.op, "done", 0)>>) /\ UNCHANGED server
  <2> DEFINE f == Frame(r.op, "done", 0)
  <2>1. Sends(<<f>>) /\ cursor' = cursor
    BY <1>3 DEF server
  <2>2. f \in AnyFrame /\ f.chained /\ f.body \notin Final
    BY <1>1, FrameType DEF Bodies, Final
  <2> HIDE DEF f
  <2>3. Draft(<<f>>) /\ Len(<<f>>) > 0 /\ Unended(<<f>>)
    BY <2>2, DraftOne
  <2>4. Serves(r, <<f>>)
    BY <1>1, <2>1, <2>3 DEF Serves
  <2> QED
    BY <2>4
<1>4. ASSUME cursor.op = r.op, NEW rows \in 0..MaxRows, NEW lobs \in 0..MaxRows,
             NEW ends \in BOOLEAN, rows + lobs > 0 \/ ends,
             Sends(Block(cursor, rows, lobs, ends)),
             cursor' = After(cursor, rows, lobs, ends)
      PROVE  \E frames : Serves(r, frames)
  <2> DEFINE block == Block(cursor, rows, lobs, ends)
  <2>1. cursor \in Cursors
    BY <1>1, <1>4 DEF Typed, NoCursor
  <2>2. rows \in Nat /\ lobs \in Nat
    BY ConversationAssumption
  <2>3. /\ Draft(block) /\ Len(block) > 0 /\ (~ends => Unended(block))
        /\ \/ cursor' = NoCursor
           \/ /\ ~ends /\ cursor' \in Cursors /\ cursor'.op = cursor.op
              /\ cursor'.kind = cursor.kind
    BY <1>4, <2>1, <2>2, BlockDraft
  <2> HIDE DEF block
  <2>4. Sends(block)
    BY <1>4 DEF block
  <2>5. Serves(r, block)
    BY <1>1, <1>4, <2>3, <2>4 DEF Serves
  <2> QED
    BY <2>5
<1> QED
  BY <1>2, <1>3, <1>4 DEF AnswerFetch

LEMMA OtherServes ==
    ASSUME Typed, asked # <<>>, AnswerOther, Head(asked) \in Requests
    PROVE  \E frames : Serves(Head(asked), frames)
<1> DEFINE r == Head(asked)
<1>1. r.cmd \in Cmds \ {"open", "fetch"} /\ r.op \in Nat
  BY DEF AnswerOther, Requests
<1>2. ASSUME NEW body \in Bodies
      PROVE  /\ Draft(<<Frame(r.op, body, 0)>>) /\ Len(<<Frame(r.op, body, 0)>>) > 0
             /\ \A i \in DOMAIN <<Frame(r.op, body, 0)>> : <<Frame(r.op, body, 0)>>[i].body = body
  <2> DEFINE f == Frame(r.op, body, 0)
  <2>1. f \in AnyFrame /\ f.chained /\ f.body = body
    BY <1>1, FrameType
  <2> HIDE DEF f
  <2>2. /\ Draft(<<f>>) /\ Len(<<f>>) > 0
        /\ \A i \in DOMAIN <<f>> : <<f>>[i].body = body
    BY <2>1, DraftOne
  <2> QED
    BY <2>2 DEF f
<1>3. ASSUME NEW body \in Bodies, NEW last \in Bodies
      PROVE  /\ Draft(<<Frame(r.op, body, 0), Frame(r.op, last, 0)>>)
             /\ Len(<<Frame(r.op, body, 0), Frame(r.op, last, 0)>>) > 0
  BY <1>1, FrameType, DraftTwo
<1>4. {"ready", "done", "described", "closed", "nocursor", "unit"} \subseteq Bodies
  BY DEF Bodies
<1> USE DEF server
<1>5. CASE r.cmd = "setup"
  <2> DEFINE frames == <<Frame(r.op, "ready", 0), Frame(r.op, "done", 0)>>
  <2>1. Sends(frames) /\ cursor' = cursor
    BY <1>5 DEF AnswerOther
  <2>2. Draft(frames) /\ Len(frames) > 0
    BY <1>3, <1>4
  <2> HIDE DEF frames
  <2>3. Serves(r, frames)
    BY <1>5, <2>1, <2>2 DEF Serves
  <2> QED
    BY <2>3
<1>6. CASE r.cmd \in {"prepare", "describe"}
  <2> DEFINE frames == <<Frame(r.op, "described", 0)>>
  <2>1. Sends(frames) /\ cursor' = cursor
    BY <1>6 DEF AnswerOther
  <2>2. /\ Draft(frames) /\ Len(frames) > 0
        /\ \A i \in DOMAIN frames : frames[i].body = "described"
    BY <1>2, <1>4
  <2> HIDE DEF frames
  <2>3. Serves(r, frames)
    BY <1>6, <2>1, <2>2 DEF Serves
  <2> QED
    BY <2>3
<1>7. CASE r.cmd = "close"
  <2> DEFINE body == IF cursor.op = r.op THEN "closed" ELSE "nocursor"
             frames == <<Frame(r.op, body, 0)>>
  <2>1. Sends(frames) /\ cursor' = IF cursor.op = r.op THEN NoCursor ELSE cursor
    BY <1>7 DEF AnswerOther
  <2>2. body \in Bodies
    BY <1>4
  <2> HIDE DEF body
  <2>3. Draft(frames) /\ Len(frames) > 0
    BY <1>2, <2>2
  <2> HIDE DEF frames
  <2>4. Serves(r, frames)
    BY <1>7, <2>1, <2>3 DEF Serves
  <2> QED
    BY <2>4
<1>8. CASE r.cmd = "change"
  <2> DEFINE frames == <<Frame(r.op, "done", 0)>>
  <2>1. Sends(frames) /\ cursor' = cursor
    BY <1>8 DEF AnswerOther
  <2>2. Draft(frames) /\ Len(frames) > 0
    BY <1>2, <1>4
  <2> HIDE DEF frames
  <2>3. Serves(r, frames)
    BY <1>8, <2>1, <2>2 DEF Serves
  <2> QED
    BY <2>3
<1>9. CASE r.cmd = "commit"
  <2> DEFINE frames == <<Frame(r.op, "unit", 0), Frame(r.op, "done", 0)>>
  <2>1. Sends(frames) /\ cursor' = cursor
    BY <1>9 DEF AnswerOther
  <2>2. Draft(frames) /\ Len(frames) > 0
    BY <1>3, <1>4
  <2> HIDE DEF frames
  <2>3. Serves(r, frames)
    BY <1>9, <2>1, <2>2 DEF Serves
  <2> QED
    BY <2>3
<1> QED
  BY <1>1, <1>5, <1>6, <1>7, <1>8, <1>9 DEF Cmds

LEMMA ErrorServes ==
    ASSUME Typed, asked # <<>>, AnswerError, Head(asked) \in Requests
    PROVE  \E frames : Serves(Head(asked), frames)
<1> DEFINE r == Head(asked)
           error == Frame(r.op, "sqlerror", 0)
           refused == Frame(r.op, "refused", 0)
           frames == IF r.cmd = "open" THEN <<refused, error>> ELSE <<error>>
<1>1. /\ Sends(frames)
      /\ cursor' = IF r.cmd = "fetch" THEN NoCursor ELSE cursor
      /\ r.cmd # "close"
  BY DEF AnswerError
<1>2. r.op \in Nat
  BY DEF Requests
<1>3. /\ error \in AnyFrame /\ error.chained /\ error.body = "sqlerror"
      /\ refused \in AnyFrame /\ refused.chained
  BY <1>2, FrameType DEF Bodies
<1> HIDE DEF error, refused
<1>4. /\ Draft(<<refused, error>>) /\ Len(<<refused, error>>) > 0
      /\ Draft(<<error>>) /\ Len(<<error>>) > 0
      /\ \A i \in DOMAIN <<error>> : <<error>>[i].body = "sqlerror"
  BY <1>3, DraftOne, DraftTwo
<1>5. /\ Draft(frames) /\ Len(frames) > 0
      /\ r.cmd = "prepare" => \A i \in DOMAIN frames : frames[i].body = "sqlerror"
  BY <1>4
<1> HIDE DEF frames
<1>6. Serves(r, frames)
  BY <1>1, <1>5 DEF Serves
<1> QED
  BY <1>6

\* Only the last frame of the last request of a chain is unchained.
LEMMA ReplyKeeps ==
    ASSUME NEW r, NEW frames, Draft(frames), Len(frames) > 0
    PROVE  LET g == Reply(r, frames)
           IN  /\ g \in Seq(AnyFrame) /\ Len(g) = Len(frames)
               /\ \A i \in 1..Len(g) : /\ g[i].body = frames[i].body
                                       /\ ~g[i].chained => ~r.chained /\ i = Len(g)
<1> DEFINE n == Len(frames)
           e == [frames[n] EXCEPT !.chained = FALSE]
           g == [frames EXCEPT ![n] = e]
<1>1. frames \in Seq(AnyFrame) /\ n \in 1..Len(frames) /\ \A i \in 1..n : frames[i].chained
  BY LenProperties DEF Draft
<1>2. frames[n] \in AnyFrame
  BY <1>1
<1>3. e \in AnyFrame /\ e.body = frames[n].body
  BY <1>2 DEF AnyFrame
<1>4. Reply(r, frames) = IF r.chained THEN frames ELSE g
  BY DEF Reply
<1> HIDE DEF e
<1>5. /\ g \in Seq(AnyFrame) /\ Len(g) = n
      /\ \A i \in 1..n : g[i] = IF i = n THEN e ELSE frames[i]
  BY <1>1, <1>3, ExceptSeq
<1> HIDE DEF g
<1> QED
  BY <1>1, <1>3, <1>4, <1>5

LEMMA AnsweredLine ==
    ASSUME Typed, NEW r, NEW frames, Draft(frames), Len(frames) > 0,
           line' = line \o Reply(r, frames)
    PROVE  /\ line' \in Seq(AnyFrame) /\ Len(line') > Len(line)
           /\ \A i \in 1..Len(line') :
                 \/ i \in 1..Len(line) /\ line'[i] = line[i]
                 \/ /\ i > Len(line)
                    /\ ~line'[i].chained => ~r.chained /\ i = Len(line')
           /\ \A x \in Range(line') :
                 x \in Range(line) \/ \E i \in DOMAIN frames : x.body = frames[i].body
<1> DEFINE g == Reply(r, frames)
           l == line \o g
           n == Len(line)
<1>1. /\ g \in Seq(AnyFrame) /\ Len(g) = Len(frames)
      /\ \A i \in 1..Len(g) : /\ g[i].body = frames[i].body
                              /\ ~g[i].chained => ~r.chained /\ i = Len(g)
  BY ReplyKeeps
<1> HIDE DEF g
<1>2. line \in Seq(AnyFrame) /\ n \in Nat /\ DOMAIN line = 1..n
  BY LenProperties DEF Typed
<1>3. /\ l \in Seq(AnyFrame) /\ Len(l) = n + Len(g)
      /\ \A i \in 1..(n + Len(g)) : l[i] = IF i <= n THEN line[i] ELSE g[i - n]
  BY <1>1, <1>2, ConcatProperties
<1>4. /\ Len(frames) \in Nat \ {0} /\ DOMAIN frames = 1..Len(frames)
      /\ DOMAIN l = 1..Len(l)
  BY <1>3, LenProperties DEF Draft
<1>5. line' = l
  BY DEF g
<1> HIDE DEF l
<1>6. \A i \in 1..Len(l) : \/ i \in 1..n /\ l[i] = line[i]
                           \/ i > n /\ i - n \in 1..Len(g) /\ l[i] = g[i - n]
  BY <1>1, <1>2, <1>3, <1>4
<1>7. \A i \in 1..Len(l) :
        \/ i \in 1..n /\ l[i] = line[i]
        \/ i > n /\ (~l[i].chained => ~r.chained /\ i = Len(l))
  <2> SUFFICES ASSUME NEW i \in 1..Len(l), i > n, i - n \in 1..Len(g), l[i] = g[i - n],
                      ~l[i].chained
               PROVE  ~r.chained /\ i = Len(l)
    BY <1>6
  <2> DEFINE j == i - n
  <2>1. ~r.chained /\ j = Len(g)
    BY <1>1
  <2> QED
    BY <1>1, <1>2, <1>3, <1>4, <2>1
<1>8. \A x \in Range(l) :
        x \in Range(line) \/ \E i \in DOMAIN frames : x.body = frames[i].body
  <2> SUFFICES ASSUME NEW i \in 1..Len(l)
               PROVE  \/ l[i] \in Range(line)
                      \/ \E j \in DOMAIN frames : l[i].body = frames[j].body
    BY <1>4 DEF Range
  <2>1. CASE i \in 1..n /\ l[i] = line[i]
    BY <1>2, <2>1 DEF Range
  <2>2. CASE i - n \in 1..Len(g) /\ l[i] = g[i - n]
    BY <1>1, <1>4, <2>2
  <2> QED
    BY <1>6, <2>1, <2>2
<1>9. Len(l) > n
  BY <1>1, <1>2, <1>3, <1>4
<1> QED
  BY <1>3, <1>5, <1>7, <1>8, <1>9

\* What the server has still to answer after a reply.
LEMMA TailAsked ==
    ASSUME asked \in Seq(Requests), asked # <<>>, asked' = Tail(asked)
    PROVE  /\ Head(asked) = asked[1] /\ asked[1] \in Requests
           /\ Len(asked) \in Nat \ {0} /\ asked' \in Seq(Requests)
           /\ Len(asked') = Len(asked) - 1
           /\ \A i \in 1..Len(asked') : asked'[i] = asked[i + 1]
           /\ asked' # <<>> => Len(asked) > 1
<1>1. Len(asked) \in Nat \ {0} /\ Head(asked) = asked[1]
  BY LenProperties, EmptySeq
<1>2. /\ Head(asked) \in Requests /\ asked' \in Seq(Requests)
      /\ Len(asked') = Len(asked) - 1
      /\ \A i \in 1..Len(asked') : asked'[i] = asked[i + 1]
  BY HeadTailProperties
<1>3. asked' # <<>> => Len(asked') > 0
  BY <1>2, LenProperties, EmptySeq
<1> QED
  BY <1>1, <1>2, <1>3

\* The cursor while the operation that opened it goes on.
LEMMA ServedCursor ==
    ASSUME Typed, call' = call, inbox' = inbox, asked # <<>>, call.at \in Reads,
           NEW r \in Requests, r = asked[1], NEW frames, Serves(r, frames),
           Waits, Len(asked) \in Nat \ {0},
           asked' # <<>> => asked'[1].cmd \in {"close", "commit"} \cap Due(call.at),
           \A x \in Range(line') :
               x \in Range(line) \/ \E i \in DOMAIN frames : x.body = frames[i].body,
           cursor.kind \in {"none", "limited"} \/ OpenNow
    PROVE  cursor'.kind \in {"none", "limited"} \/ OpenNow'
<1>1. r.op = call.op /\ r.kind = call.kind /\ r.cmd \in Due(call.at)
  BY DEF Waits
<1>2. Unended(frames) =>
        \A f \in Unread' : f \in Unread \/ f.body \notin Final
  BY DEF Unended, Unread
<1>3. call.at \in OfCursor /\ asked' # <<>> => asked'[1].cmd = "close"
  BY DEF Due, OfCursor
<1>4. NoCursor.kind = "none"
  BY DEF NoCursor
<1>5. ASSUME OpenNow, Unended(frames), r.cmd # "close", cursor'.op = cursor.op,
             cursor'.kind = cursor.kind
      PROVE  OpenNow'
  <2>1. call.at # "close"
    BY <1>1, <1>5 DEF Due
  <2>2. \A f \in Unread' : f.body \notin Final
    BY <1>2, <1>5 DEF OpenNow
  <2>3. asked' # <<>> => asked'[1].cmd \in {"fetch", "close"}
    BY <1>3, <1>5 DEF OpenNow
  <2> QED
    BY <1>5, <2>1, <2>2, <2>3 DEF OpenNow
<1>6. CASE /\ cursor' = cursor
           /\ r.cmd = "close" => cursor.op # r.op
           /\ r.cmd = "fetch" /\ cursor.op = r.op => Unended(frames)
  <2>1. CASE OpenNow
    <3>1. r.cmd = "fetch" /\ cursor.op = r.op
      BY <1>1, <1>6, <2>1 DEF OpenNow
    <3> QED
      BY <1>5, <1>6, <2>1, <3>1
  <2> QED
    BY <1>6, <2>1
<1>7. CASE cursor' = NoCursor
  BY <1>4, <1>7
<1>8. CASE /\ cursor' \in Cursors /\ cursor'.op = r.op /\ Unended(frames)
           /\ r.cmd = "open" /\ cursor'.kind = r.kind
  <2>1. call.at = "open" /\ call.at \in OfCursor
    BY <1>1, <1>8 DEF Due, Reads, OfCursor
  <2>2. line = <<>> /\ inbox = <<>>
    BY <1>8 DEF Waits
  <2>3. \A f \in Unread' : f.body \notin Final
    BY <1>2, <1>8, <2>2 DEF Unread, Range
  <2>4. ~call.end
    BY <2>1 DEF Typed
  <2>5. asked' = <<>>
    BY <1>3, <2>1 DEF Due
  <2> QED
    BY <1>1, <1>8, <2>1, <2>3, <2>4, <2>5 DEF OpenNow
<1>9. CASE /\ cursor' \in Cursors /\ cursor'.op = r.op /\ Unended(frames)
           /\ r.cmd = "fetch" /\ cursor.op = r.op /\ cursor'.kind = cursor.kind
  BY <1>5, <1>9
<1> QED
  BY <1>6, <1>7, <1>8, <1>9 DEF Serves

LEMMA AnswerKeeps ==
    ASSUME CInv, Answer
    PROVE  CInv'
<1>1. /\ asked # <<>> /\ asked' = Tail(asked)
      /\ UNCHANGED <<fixed, connected, call, inbox, ops, answer, causes>>
  BY DEF Answer
<1>2. /\ system' = system /\ connected' = connected /\ call' = call /\ inbox' = inbox
      /\ ops' = ops /\ causes' = causes
  BY <1>1 DEF fixed
<1>3. Typed /\ Rested /\ InOrder
  BY DEF CInv
<1>4. asked \in Seq(Requests)
  BY <1>3 DEF Typed
<1>5. /\ Head(asked) = asked[1] /\ asked[1] \in Requests
      /\ Len(asked) \in Nat \ {0} /\ asked' \in Seq(Requests)
      /\ Len(asked') = Len(asked) - 1
      /\ \A i \in 1..Len(asked') : asked'[i] = asked[i + 1]
      /\ asked' # <<>> => Len(asked) > 1
  BY <1>1, <1>4, TailAsked
<1>6. PICK frames : Serves(asked[1], frames)
  BY <1>1, <1>3, <1>5, OpenServes, FetchServes, OtherServes, ErrorServes DEF Answer
<1>7. Draft(frames) /\ Len(frames) > 0 /\ line' = line \o Reply(asked[1], frames)
  BY <1>5, <1>6 DEF Serves, Sends
<1>8. /\ line' \in Seq(AnyFrame) /\ Len(line') > Len(line)
      /\ \A i \in 1..Len(line') :
            \/ i \in 1..Len(line) /\ line'[i] = line[i]
            \/ /\ i > Len(line)
               /\ ~line'[i].chained => ~asked[1].chained /\ i = Len(line')
      /\ \A x \in Range(line') :
            x \in Range(line) \/ \E i \in DOMAIN frames : x.body = frames[i].body
  BY <1>3, <1>7, AnsweredLine
<1>9. cursor' = NoCursor \/ cursor' \in Cursors
  BY <1>3, <1>6 DEF Serves, Typed
<1>10. Typed'
  <2>1. Formed(call)' /\ (Zos' <=> Zos)
    BY <1>2, <1>3 DEF Typed, Formed, Zos
  <2> QED
    BY <1>2, <1>3, <1>5, <1>8, <1>9, <2>1 DEF Typed
<1>11. Rested'
  BY <1>1, <1>2, <1>3 DEF Rested, Busy
<1>12. ASSUME causes = {}, call.at \in Reads
       PROVE  /\ Waits' /\ Chained' /\ Descriptor'
              /\ cursor'.kind \in {"none", "limited"} \/ OpenNow'
  <2>1. Waits /\ Chained /\ Descriptor /\ (cursor.kind \in {"none", "limited"} \/ OpenNow)
    BY <1>3, <1>12 DEF InOrder
  <2>2. Len(asked) \in {1, 2}
    BY <1>5, <2>1 DEF Waits
  <2>3. asked' # <<>> => asked'[1].cmd \in {"close", "commit"} \cap Due(call.at)
    BY <1>5, <2>1, <2>2 DEF Waits
  <2>4. Waits'
    <3>1. Len(asked') <= 2 /\ Len(asked') # 2
      BY <1>5, <2>2
    <3>2. \A i \in 1..Len(asked') : i + 1 \in 1..Len(asked) /\ (i = Len(asked') <=> i + 1 = Len(asked))
      BY <1>5
    <3>3. \A i \in 1..Len(asked') :
            /\ asked'[i].op = call.op /\ asked'[i].kind = call.kind
            /\ asked'[i].cmd \in Due(call.at)
            /\ ~asked'[i].chained <=> i = Len(asked')
      BY <1>5, <2>1, <3>2 DEF Waits
    <3> QED
      BY <1>2, <2>3, <3>1, <3>3 DEF Waits
  <2>5. Chained'
    <3> SUFFICES ASSUME ~Zos, NEW i \in 1..Len(line'), ~line'[i].chained
                 PROVE  asked' = <<>> /\ i = Len(line')
      BY <1>2 DEF Chained, Zos
    <3>1. ~(i \in 1..Len(line) /\ line'[i] = line[i])
      BY <1>1, <2>1 DEF Chained
    <3>2. ~asked[1].chained /\ i = Len(line')
      BY <1>8, <3>1
    <3>3. Len(asked) = 1
      BY <2>1, <2>2, <3>2 DEF Waits
    <3> QED
      BY <1>5, <3>2, <3>3
  <2>6. Descriptor'
    <3>1. ASSUME call.at = "prepare", NEW f \in Unread'
          PROVE  f.body \in {"described", "sqlerror"}
      <4>1. asked[1].cmd = "prepare"
        BY <2>1, <2>2, <3>1 DEF Waits, Due
      <4>2. \A i \in DOMAIN frames : frames[i].body \in {"described", "sqlerror"}
        BY <1>6, <4>1 DEF Serves
      <4>3. f \in Unread \/ \E i \in DOMAIN frames : f.body = frames[i].body
        BY <1>2, <1>8, <3>1 DEF Unread
      <4> QED
        BY <2>1, <3>1, <4>2, <4>3 DEF Descriptor
    <3> QED
      BY <1>2, <2>1, <3>1 DEF Descriptor
  <2>7. cursor'.kind \in {"none", "limited"} \/ OpenNow'
    BY <1>1, <1>2, <1>3, <1>5, <1>6, <1>8, <1>12, <2>1, <2>3, ServedCursor
  <2> QED
    BY <2>4, <2>5, <2>6, <2>7
<1>13. InOrder'
  BY <1>2, <1>12 DEF InOrder
<1> QED
  BY <1>10, <1>11, <1>13 DEF CInv
-----------------------------------------------------------------------------
(* Reading *)

\* The frames of a read, and what is left on the line.
LEMMA FramesRead ==
    ASSUME Typed, NEW k \in 1..Len(line)
    PROVE  LET frames == inbox \o SubSeq(line, 1, k)
               rest == SubSeq(line, k + 1, Len(line))
           IN  /\ frames \in Seq(AnyFrame) /\ Len(frames) \in Nat \ {0}
               /\ Last(frames) = line[k] /\ Range(frames) \subseteq Unread
               /\ rest \in Seq(AnyFrame) /\ Len(rest) = Len(line) - k
               /\ \A i \in 1..Len(rest) : rest[i] = line[k + i]
               /\ Range(rest) \subseteq Range(line)
<1> DEFINE n == Len(line)
           f == SubSeq(line, 1, k)
           g == inbox \o f
           rest == SubSeq(line, k + 1, n)
<1>1. /\ line \in Seq(AnyFrame) /\ inbox \in Seq(AnyFrame)
      /\ n \in Nat /\ DOMAIN line = 1..n /\ Len(inbox) \in Nat
      /\ DOMAIN inbox = 1..Len(inbox) /\ k \in Nat /\ 1 <= k /\ k <= n
  BY LenProperties DEF Typed
<1>2. \A i \in 1..n : line[i] \in AnyFrame
  BY <1>1
<1>3. f \in Seq(AnyFrame) /\ Len(f) = k /\ \A i \in 1..k : f[i] = line[i]
  <2>1. \A i \in 1..k : line[i] \in AnyFrame
    BY <1>1, <1>2
  <2>2. /\ f \in Seq(AnyFrame) /\ Len(f) = IF 1 <= k THEN k - 1 + 1 ELSE 0
        /\ \A i \in 1..(k - 1 + 1) : f[i] = line[1 + i - 1]
    BY <1>1, <2>1, SubSeqProperties
  <2> HIDE DEF f
  <2> QED
    BY <1>1, <2>2
<1>4. /\ rest \in Seq(AnyFrame) /\ Len(rest) = n - k
      /\ \A i \in 1..(n - k) : rest[i] = line[k + i]
  <2>1. \A i \in (k + 1)..n : line[i] \in AnyFrame
    BY <1>1, <1>2
  <2>2. /\ rest \in Seq(AnyFrame)
        /\ Len(rest) = IF k + 1 <= n THEN n - (k + 1) + 1 ELSE 0
        /\ \A i \in 1..(n - (k + 1) + 1) : rest[i] = line[k + 1 + i - 1]
    BY <1>1, <2>1, SubSeqProperties
  <2> HIDE DEF rest
  <2>3. n - (k + 1) + 1 = n - k /\ (k + 1 <= n \/ n - k = 0)
    <3>1. n \in Nat /\ k \in Nat /\ k <= n
      BY <1>1
    <3> HIDE DEF n
    <3> QED
      BY <3>1
  <2>4. Len(rest) = n - k
    BY <2>2, <2>3
  <2>5. \A i \in 1..(n - k) : rest[i] = line[k + i]
    <3> SUFFICES ASSUME NEW i \in 1..(n - k)
                 PROVE  rest[i] = line[k + i]
      OBVIOUS
    <3>1. rest[i] = line[k + 1 + i - 1]
      BY <2>2, <2>3
    <3>2. k + 1 + i - 1 = k + i
      BY <1>1
    <3> QED
      BY <3>1, <3>2
  <2> QED
    BY <2>2, <2>4, <2>5
<1> HIDE DEF f, rest
<1>5. /\ g \in Seq(AnyFrame) /\ Len(g) = Len(inbox) + k
      /\ \A i \in 1..(Len(inbox) + k) :
            g[i] = IF i <= Len(inbox) THEN inbox[i] ELSE f[i - Len(inbox)]
  BY <1>1, <1>3, ConcatProperties
<1>6. DOMAIN g = 1..(Len(inbox) + k) /\ DOMAIN rest = 1..(n - k)
  BY <1>4, <1>5, LenProperties
<1> HIDE DEF g
<1>7. Last(g) = line[k]
  BY <1>1, <1>3, <1>5 DEF Last
<1>8. Range(rest) \subseteq Range(line)
  <2> SUFFICES ASSUME NEW i \in 1..(n - k)
               PROVE  rest[i] \in Range(line)
    BY <1>6 DEF Range
  <2>1. k + i \in DOMAIN line
    BY <1>1
  <2>2. rest[i] = line[k + i]
    BY <1>4
  <2> QED
    BY <2>1, <2>2 DEF Range
<1>9. Range(g) \subseteq Unread
  <2> SUFFICES ASSUME NEW i \in 1..(Len(inbox) + k)
               PROVE  g[i] \in Range(inbox) \cup Range(line)
    BY <1>6 DEF Range, Unread
  <2>1. CASE i <= Len(inbox)
    BY <1>1, <1>5, <2>1 DEF Range
  <2>2. CASE ~(i <= Len(inbox))
    <3> DEFINE j == i - Len(inbox)
    <3>1. j \in 1..k /\ g[i] = f[j] /\ j \in 1..n
      BY <1>1, <1>5, <2>2
    <3> QED
      BY <1>1, <1>3, <3>1 DEF Range
  <2> QED
    BY <2>1, <2>2
<1>10. Len(g) \in Nat \ {0} /\ \A i \in 1..Len(rest) : rest[i] = line[k + i]
  BY <1>1, <1>4, <1>5
<1> QED
  BY <1>4, <1>5, <1>7, <1>8, <1>9, <1>10 DEF f, g, rest

\* A prepared statement that goes on has its descriptor.
LEMMA PreparedSees ==
    ASSUME NEW c, NEW frames \in Seq(AnyFrame), Len(frames) > 0,
           \A i \in DOMAIN frames : frames[i].body \in {"described", "sqlerror"},
           Prepared(c, frames).outcome = "goes"
    PROVE  Sees(frames, {"described"})
<1>1. DOMAIN frames = 1..Len(frames) /\ Len(frames) \in Nat /\ 1 \in DOMAIN frames
  BY LenProperties
<1>2. CASE frames[1].body = "described"
  BY <1>1, <1>2 DEF Sees
<1>3. CASE frames[1].body = "sqlerror"
  <2> DEFINE bad == {i \in DOMAIN frames : Failure(frames[i]) # "none"}
             first == CHOOSE i \in bad : \A j \in bad : i <= j
  <2>1. 1 \in bad /\ \A j \in bad : 1 <= j
    BY <1>1, <1>3 DEF Failure
  <2>2. first \in bad
    BY <2>1
  <2>3. FirstFailure(frames) = Failure(frames[first])
    BY <2>1 DEF FirstFailure
  <2>4. FirstFailure(frames) \in {"sql", "protocol"}
    BY <2>2, <2>3, FailureKinds
  <2> QED
    BY <2>4 DEF Prepared, Ends
<1> QED
  BY <1>1, <1>2, <1>3
-----------------------------------------------------------------------------
(* The end of an operation *)

LEMMA IdleFormed == Formed(Idle) /\ Idle.at = "idle"
BY DEF Formed, Fields, Idle

LEMMA ResetKeeps ==
    ASSUME call' = Idle, Reset, system' = system, ops' \in Nat
    PROVE  CInv'
<1>1. Formed(call)' /\ call'.at = "idle"
  BY IdleFormed DEF Formed, Zos
<1>2. /\ asked' \in Seq(Requests) /\ inbox' \in Seq(AnyFrame) /\ line' \in Seq(AnyFrame)
      /\ asked' = <<>> /\ inbox' = <<>> /\ line' = <<>> /\ cursor' = NoCursor
      /\ NoCursor.kind = "none" /\ causes' = {}
  BY DEF Reset, NoCursor
<1>3. Typed'
  BY <1>1, <1>2 DEF Typed, Reads
<1>4. Rested' /\ InOrder'
  BY <1>1, <1>2 DEF Rested, InOrder, Busy, Reads
<1> QED
  BY <1>3, <1>4 DEF CInv

LEMMA KeptKeeps ==
    ASSUME Typed, connected, call' = Idle, NEW rest \in Seq(AnyFrame), NEW why,
           Keep(rest, why), system' = system, ops' = ops,
           why = {} => rest = <<>> /\ asked = <<>> /\ cursor.kind \in {"none", "limited"}
    PROVE  CInv'
<1>1. Formed(call)' /\ call'.at = "idle"
  BY IdleFormed DEF Formed, Zos
<1>2. /\ asked' = asked /\ inbox' = <<>> /\ line' = rest /\ cursor' = cursor
      /\ connected' = connected /\ causes' = why /\ inbox' \in Seq(AnyFrame)
  BY DEF Keep
<1>3. Typed'
  BY <1>1, <1>2 DEF Typed, Reads
<1>4. Rested' /\ InOrder'
  BY <1>1, <1>2 DEF Rested, InOrder, Busy, Reads
<1> QED
  BY <1>3, <1>4 DEF CInv
-----------------------------------------------------------------------------
(* What an operation does after a read *)

\* What the rest of the proof uses of a step that leaves rest on the line.
Goal(step, rest, why) ==
    /\ Formed(step.call) /\ step.call.op = call.op /\ step.call.kind = call.kind
    /\ step.outcome \in {"goes", "ok", "protocol", "sql"}
    /\ step.outcome = "goes" => Moves(call, step)
    /\ why = {} => causes = {}
    /\ why = {} /\ ~(step.cmds = <<>> /\ step.outcome = "goes") =>
           rest = <<>> /\ asked = <<>>
    /\ why = {} /\ step.outcome = "goes" /\ step.call.at # "prepare" => step.call.desc
    /\ why = {} /\ OpenNow =>
           /\ step.outcome # "sql"
           /\ step.outcome = "ok" => call.kind = "limited"
           /\ step.outcome = "goes" /\ step.call.end => call.kind = "limited"

\* The requests of a step.
LEMMA StepRequests ==
    ASSUME Formed(call), call.at \in Reads, call.kind \in Asked, NEW step,
           Moves(call, step)
    PROVE  /\ step.cmds \in Seq(Requests) /\ step.call.at \in Reads
           /\ \/ step.cmds = <<>>
              \/ /\ Len(step.cmds) = 1 /\ step.cmds[1].op = call.op
                 /\ step.cmds[1].kind = call.kind /\ ~step.cmds[1].chained
                 /\ step.cmds[1].cmd \in Due(step.call.at)
                 /\ step.cmds[1].cmd \in {"fetch", "close", step.call.at}
              \/ /\ Len(step.cmds) = 2 /\ step.call.at = "fetch"
                 /\ step.cmds = FetchAndClose(call)
<1>1. \A cmd \in Cmds :
        /\ One(call, cmd) \in Seq(Requests) /\ Len(One(call, cmd)) = 1
        /\ One(call, cmd)[1].op = call.op /\ One(call, cmd)[1].kind = call.kind
        /\ One(call, cmd)[1].chained = FALSE /\ One(call, cmd)[1].cmd = cmd
  BY DEF One, Request, Requests, Formed
<1>2. FetchAndClose(call) \in Seq(Requests) /\ Len(FetchAndClose(call)) = 2
  BY DEF FetchAndClose, Request, Requests, Formed, Cmds
<1>3. {"fetch", "close", "prepare", "describe", "open"} \subseteq Cmds
  BY DEF Cmds
<1>4. CASE step.cmds = <<>>
  <2>1. step.call.at \in Reads
    BY <1>1, <1>3, <1>4 DEF Moves, FetchAndClose, Reads
  <2> QED
    BY <1>4, <2>1
<1>5. CASE /\ call.at \in OfCursor /\ step.call.at \in {"descriptors", "fetch"}
           /\ step.cmds = One(call, "fetch")
  BY <1>1, <1>3, <1>5 DEF Due, Reads
<1>6. CASE step.call.at = "fetch" /\ step.cmds = FetchAndClose(call)
  BY <1>2, <1>6 DEF Reads
<1>7. CASE step.call.at = "close" /\ step.cmds = One(call, "close")
  BY <1>1, <1>3, <1>7 DEF Due, Reads
<1>8. CASE /\ step.call.at \in {"prepare", "describe", "open"}
           /\ step.cmds = One(call, step.call.at)
  BY <1>1, <1>3, <1>8 DEF Due, Reads
<1> QED
  BY <1>4, <1>5, <1>6, <1>7, <1>8 DEF Moves

\* An operation that goes on without a request goes on waiting.
LEMMA WaitingKeeps ==
    ASSUME Formed(call), call.at \in Reads, NEW step, Moves(call, step),
           step.cmds = <<>>, Formed(step.call), step.call.op = call.op,
           step.call.kind = call.kind, Waits, Descriptor,
           call' = step.call, inbox' = <<>>, asked' = asked, cursor' = cursor,
           system' = system, Range(line') \subseteq Range(line),
           line = <<>> => line' = <<>>,
           step.call.desc,
           OpenNow /\ step.call.end => call.kind = "limited",
           cursor.kind \in {"none", "limited"} \/ OpenNow
    PROVE  /\ Waits' /\ Chained' /\ Descriptor'
           /\ cursor'.kind \in {"none", "limited"} \/ OpenNow'
<1>1. \A cmd : One(call, cmd) # <<>> /\ FetchAndClose(call) # <<>>
  BY DEF One, FetchAndClose
<1>2. \/ call.at \in {"fetch", "more", "closing"} /\ step.call.at \in {"more", "closing"}
      \/ call.at = "close" /\ step.call.at = "close"
  BY <1>1 DEF Moves
<1>3. step.call.at \in {"more", "closing", "close"} /\ Due(step.call.at) = Due(call.at)
  BY <1>2 DEF Due
<1>4. Zos
  BY <1>3 DEF Formed
<1>5. Waits'
  BY <1>3 DEF Waits
<1>6. Chained'
  BY <1>4 DEF Chained, Zos
<1>7. Descriptor'
  BY <1>3 DEF Descriptor
<1>8. Unread' \subseteq Unread
  BY DEF Unread, Range
<1>9. ASSUME OpenNow, cursor.kind # "limited"
      PROVE  OpenNow'
  <2>1. ~step.call.end /\ step.call.end \in BOOLEAN
    BY <1>9 DEF OpenNow, Formed
  <2>2. step.call.at \in OfCursor
    BY <1>3 DEF OfCursor
  <2>3. step.call.at = "close" => asked # <<>>
    BY <1>2, <1>9 DEF OpenNow
  <2> QED
    BY <1>8, <1>9, <2>1, <2>2, <2>3 DEF OpenNow
<1> QED
  BY <1>5, <1>6, <1>7, <1>9

\* An operation that sends its next request owes nothing before.
LEMMA AskingKeeps ==
    ASSUME Formed(call), call.at \in Reads, call.kind \in Asked,
           NEW step, Moves(call, step),
           step.cmds # <<>>, Formed(step.call), step.call.op = call.op,
           step.call.kind = call.kind,
           call' = step.call, inbox' = <<>>, asked' = step.cmds, cursor' = cursor,
           system' = system, line' = <<>>,
           step.call.at # "prepare" => step.call.desc,
           OpenNow /\ step.call.end => call.kind = "limited",
           cursor.kind \in {"none", "limited"} \/ OpenNow
    PROVE  /\ Waits' /\ Chained' /\ Descriptor'
           /\ cursor'.kind \in {"none", "limited"} \/ OpenNow'
<1>1. /\ step.cmds \in Seq(Requests)
      /\ \/ /\ Len(step.cmds) = 1 /\ step.cmds[1].op = call.op
            /\ step.cmds[1].kind = call.kind /\ ~step.cmds[1].chained
            /\ step.cmds[1].cmd \in Due(step.call.at)
            /\ step.cmds[1].cmd \in {"fetch", "close", step.call.at}
         \/ /\ Len(step.cmds) = 2 /\ step.call.at = "fetch"
            /\ step.cmds = FetchAndClose(call)
  BY StepRequests
<1>2. Unread' = {}
  BY DEF Unread, Range
<1>3. Waits'
  <2>1. CASE Len(step.cmds) = 1
    <3>1. /\ step.cmds[1].op = call.op
          /\ step.cmds[1].kind = call.kind /\ ~step.cmds[1].chained
          /\ step.cmds[1].cmd \in Due(step.call.at)
      BY <1>1, <2>1
    <3> QED
      BY <2>1, <3>1 DEF Waits
  <2>2. CASE Len(step.cmds) = 2 /\ step.call.at = "fetch" /\ step.cmds = FetchAndClose(call)
    <3> DEFINE r == Request(call.op, "fetch", call.kind, TRUE)
               t == Request(call.op, "close", call.kind, FALSE)
    <3>1. step.cmds = <<r, t>>
      BY <2>2 DEF FetchAndClose
    <3>2. /\ r.op = call.op /\ r.kind = call.kind /\ r.cmd = "fetch" /\ r.chained = TRUE
          /\ t.op = call.op /\ t.kind = call.kind /\ t.cmd = "close" /\ t.chained = FALSE
      BY DEF Request
    <3>3. {"fetch", "close"} \subseteq Due(step.call.at)
      BY <2>2 DEF Due
    <3> HIDE DEF r, t
    <3>4. \A i \in 1..2 : i = 1 \/ i = 2
      OBVIOUS
    <3> QED
      BY <3>1, <3>2, <3>3, <3>4 DEF Waits
  <2> QED
    BY <1>1, <2>1, <2>2
<1>4. Chained'
  BY DEF Chained
<1>5. Descriptor'
  BY <1>2 DEF Descriptor, OfCursor
<1>6. ASSUME OpenNow, cursor.kind # "limited"
      PROVE  OpenNow'
  <2>1. ~step.call.end /\ step.call.end \in BOOLEAN
    BY <1>6 DEF OpenNow, Formed
  <2>2. call.at \in OfCursor /\ call.at \notin {"ready", "prepare", "describe"}
    BY <1>6 DEF OpenNow, OfCursor
  <2>3. step.call.at \in {"descriptors", "fetch", "close"}
    BY <2>2 DEF Moves
  <2>4. step.cmds[1].cmd \in {"fetch", "close"}
    BY <1>1, <2>3 DEF FetchAndClose, Request, Due
  <2> QED
    BY <1>2, <1>6, <2>1, <2>3, <2>4 DEF OpenNow, OfCursor
<1> QED
  BY <1>3, <1>4, <1>5, <1>6

LEMMA GoesKeeps ==
    ASSUME CInv, call.at \in Reads, NEW step, NEW rest \in Seq(AnyFrame), NEW why,
           Goal(step, rest, why), step.outcome = "goes", Takes(step, rest, why),
           system' = system, ops' = ops,
           Range(rest) \subseteq Range(line), line = <<>> => rest = <<>>
    PROVE  CInv'
<1>1. /\ call' = step.call /\ inbox' = <<>> /\ line' = rest
      /\ asked' = asked \o step.cmds /\ causes' = why
      /\ connected' = connected /\ cursor' = cursor
  BY DEF Takes
<1>2. Typed /\ Rested /\ InOrder
  BY DEF CInv
<1>3. /\ Formed(call) /\ call.kind \in Asked /\ asked \in Seq(Requests)
      /\ ops \in Nat /\ (cursor = NoCursor \/ cursor \in Cursors)
  BY <1>2 DEF Typed
<1>4. /\ Formed(step.call) /\ step.call.op = call.op /\ step.call.kind = call.kind
      /\ Moves(call, step) /\ (why = {} => causes = {})
      /\ why = {} => (step.cmds = <<>> \/ (rest = <<>> /\ asked = <<>>))
      /\ why = {} => (step.call.at # "prepare" => step.call.desc)
      /\ why = {} => (OpenNow /\ step.call.end => call.kind = "limited")
  BY DEF Goal
<1>5. step.cmds \in Seq(Requests) /\ step.call.at \in Reads
  BY <1>3, <1>4, StepRequests
<1>6. Typed'
  <2>1. Formed(call)' /\ (Zos' <=> Zos)
    BY <1>1, <1>4 DEF Formed, Zos
  <2>2. asked' \in Seq(Requests)
    BY <1>1, <1>3, <1>5, ConcatProperties
  <2>3. step.call.at \in {"ready", "prepare", "describe", "open"} => ~step.call.end
    BY <1>4 DEF Moves
  <2>4. inbox' \in Seq(AnyFrame)
    BY <1>1
  <2> QED
    BY <1>1, <1>2, <1>3, <1>4, <1>5, <2>1, <2>2, <2>3, <2>4 DEF Typed
<1>7. Rested'
  BY <1>1, <1>2, <1>5 DEF Rested, Busy, Reads
<1>8. ASSUME why = {}
      PROVE  /\ Waits' /\ Chained' /\ Descriptor'
             /\ cursor'.kind \in {"none", "limited"} \/ OpenNow'
  <2>1. /\ Waits /\ Descriptor /\ (cursor.kind \in {"none", "limited"} \/ OpenNow)
    BY <1>2, <1>4, <1>8 DEF InOrder
  <2>2. CASE step.cmds = <<>>
    <3>1. asked' = asked
      BY <1>1, <1>3, <2>2, ConcatEmptySeq
    <3>2. step.call.desc
      <4>1. \A cmd : One(call, cmd) # <<>>
        BY DEF One
      <4>2. step.call.at \in {"more", "closing", "close"}
        BY <1>4, <2>2, <4>1 DEF Moves, FetchAndClose
      <4> QED
        BY <1>4, <1>8, <4>2
    <3> QED
      BY <1>1, <1>3, <1>4, <1>8, <2>1, <2>2, <3>1, <3>2, WaitingKeeps
  <2>3. CASE step.cmds # <<>>
    <3>1. rest = <<>> /\ asked = <<>>
      BY <1>4, <1>8, <2>3
    <3>2. asked' = step.cmds
      BY <1>1, <1>5, <3>1, ConcatEmptySeq
    <3> QED
      BY <1>1, <1>3, <1>4, <1>8, <2>1, <2>3, <3>1, <3>2, AskingKeeps
  <2> QED
    BY <2>2, <2>3
<1>9. InOrder'
  BY <1>1, <1>8 DEF InOrder
<1> QED
  BY <1>6, <1>7, <1>9 DEF CInv

LEMMA TakesKeeps ==
    ASSUME CInv, call.at \in Reads, NEW step, NEW rest \in Seq(AnyFrame), NEW why,
           Goal(step, rest, why), Takes(step, rest, why), system' = system, ops' = ops,
           Range(rest) \subseteq Range(line), line = <<>> => rest = <<>>
    PROVE  CInv'
<1>1. Typed /\ Rested /\ InOrder
  BY DEF CInv
<1>2. connected /\ ops \in Nat
  BY <1>1 DEF Rested, Busy, Typed, Reads
<1>3. CASE step.outcome = "goes"
  BY <1>3, GoesKeeps
<1>4. CASE step.outcome \in {"ok", "sql", "protocol"}
  <2>1. call' = Idle /\ (Reset \/ (Keep(rest, why) /\ step.outcome # "protocol"))
    BY <1>4 DEF Takes, Returns, Fails, Answered, KeepsSession
  <2>2. CASE Reset
    BY <1>2, <2>1, <2>2, ResetKeeps
  <2>3. CASE Keep(rest, why) /\ step.outcome # "protocol"
    <3>1. ASSUME why = {}
          PROVE  rest = <<>> /\ asked = <<>> /\ cursor.kind \in {"none", "limited"}
      <4>1. rest = <<>> /\ asked = <<>> /\ causes = {}
        BY <1>4, <3>1 DEF Goal
      <4>2. OpenNow => cursor.kind = "limited"
        BY <1>4, <2>3, <3>1 DEF Goal, OpenNow
      <4> QED
        BY <1>1, <4>1, <4>2 DEF InOrder
    <3> QED
      BY <1>1, <1>2, <2>1, <2>3, <3>1, KeptKeeps
  <2> QED
    BY <2>1, <2>2, <2>3
<1> QED
  BY <1>3, <1>4 DEF Goal

\* The requests and frames before a step that asks for more, or ends.
Settled(step, rest, why) ==
    /\ why = {} => causes = {}
    /\ why = {} /\ ~(step.cmds = <<>> /\ step.outcome = "goes") =>
           rest = <<>> /\ asked = <<>>

LEMMA CourseGoal ==
    ASSUME CInv, call.at \in Reads, NEW frames, NEW step, NEW rest, NEW why,
           Course(call, frames, step), Range(frames) \subseteq Unread,
           causes = {} /\ call.at = "prepare" /\ step.outcome = "goes" =>
               Sees(frames, {"described"}),
           Settled(step, rest, why)
    PROVE  Goal(step, rest, why)
<1>1. Typed /\ InOrder /\ (why = {} => causes = {}) /\ call.desc \in BOOLEAN
  BY DEF CInv, Settled, Typed, Formed
<1>2. why = {} => Descriptor
  BY <1>1 DEF InOrder
<1>3. ASSUME why = {}, step.outcome = "goes", step.call.at # "prepare"
      PROVE  step.call.desc
  <2>1. Moves(call, step)
    BY <1>3 DEF Course
  <2>2. call.at \in OfCursor \cup {"prepare", "describe"}
    BY <1>3, <2>1 DEF Moves, OfCursor
  <2>3. CASE call.at = "prepare"
    BY <1>1, <1>3, <2>3 DEF Course
  <2>4. CASE call.at \in OfCursor \cup {"describe"}
    <3>1. call.desc /\ call.at # "prepare"
      BY <1>2, <1>3, <2>4 DEF Descriptor, OfCursor
    <3> QED
      BY <1>3, <3>1 DEF Course
  <2> QED
    BY <2>2, <2>3, <2>4
<1>4. ASSUME why = {}, OpenNow
      PROVE  /\ step.outcome # "sql"
             /\ step.outcome = "ok" => call.kind = "limited"
             /\ step.outcome = "goes" /\ step.call.end => call.kind = "limited"
  <2>1. call.at \in OfCursor /\ ~call.end
    BY <1>4 DEF OpenNow
  <2>2. call.desc
    BY <1>2, <1>4, <2>1 DEF Descriptor
  <2>3. Unended(frames)
    BY <1>4 DEF OpenNow, Unended, Range
  <2> QED
    BY <2>1, <2>2, <2>3 DEF Course
<1> QED
  BY <1>3, <1>4 DEF Goal, Course, Settled

LEMMA CallPlaced ==
    ASSUME Typed, call.at \in Reads
    PROVE  Placed(call)
BY DEF Typed, Placed

\* A complete read from the line.
LEMMA EnoughKeeps ==
    ASSUME CInv, Reading, NEW k \in 1..Len(line), NEW frames, NEW rest,
           frames = inbox \o SubSeq(line, 1, k),
           rest = SubSeq(line, k + 1, Len(line)),
           Enough(call, frames), NEW step, step = Step(call, frames),
           Takes(step, rest, causes \cup Early(call, step, rest)),
           system' = system, ops' = ops
    PROVE  CInv'
<1> DEFINE why == causes \cup Early(call, step, rest)
<1>1. Typed /\ InOrder /\ call.at \in Reads
  BY DEF CInv, Typed, Reading, Busy
<1>2. /\ frames \in Seq(AnyFrame) /\ Len(frames) \in Nat \ {0}
      /\ Last(frames) = line[k] /\ Range(frames) \subseteq Unread
      /\ rest \in Seq(AnyFrame) /\ Len(rest) = Len(line) - k
      /\ Range(rest) \subseteq Range(line)
  BY <1>1, FramesRead
<1>3. Course(call, frames, step)
  BY <1>1, CallPlaced, StepCourse
<1>4. line # <<>>
  OBVIOUS
<1>5. ASSUME causes = {}, call.at = "prepare", step.outcome = "goes"
      PROVE  Sees(frames, {"described"})
  <2>1. step = Prepared(call, frames)
    BY <1>5 DEF Step
  <2>2. \A f \in Unread : f.body \in {"described", "sqlerror"}
    BY <1>1, <1>5 DEF InOrder, Descriptor
  <2>3. \A i \in DOMAIN frames : frames[i].body \in {"described", "sqlerror"}
    BY <1>2, <2>2 DEF Range
  <2>4. Prepared(call, frames).outcome = "goes" /\ Len(frames) > 0
    BY <1>2, <1>5, <2>1
  <2>5. frames \in Seq(AnyFrame)
    BY <1>2
  <2> QED
    BY <2>3, <2>4, <2>5, PreparedSees
<1>6. ASSUME why = {}, ~(step.cmds = <<>> /\ step.outcome = "goes")
      PROVE  rest = <<>> /\ asked = <<>>
  <2>1. causes = {} /\ Early(call, step, rest) = {}
    BY <1>6
  <2>2. \/ rest = <<>> /\ asked = <<>>
        \/ ~Zos /\ call.at # "ready" /\ ~(call.at = "open" /\ call.kind = "param")
    BY <1>6, <2>1 DEF Early
  <2>3. CASE ~Zos /\ call.at # "ready" /\ ~(call.at = "open" /\ call.kind = "param")
    <3>1. ~line[k].chained
      BY <1>2, <2>3 DEF Enough
    <3>2. asked = <<>> /\ k = Len(line)
      BY <1>1, <2>1, <2>3, <3>1 DEF InOrder, Chained
    <3>3. Len(rest) = 0
      BY <1>2, <3>2
    <3> QED
      BY <1>2, <3>2, <3>3, EmptySeq
  <2> QED
    BY <2>2, <2>3
<1>7. why = {} => causes = {}
  OBVIOUS
<1> HIDE DEF why
<1>8. Goal(step, rest, why)
  BY <1>1, <1>2, <1>3, <1>5, <1>6, <1>7, CourseGoal DEF Settled
<1> QED
  BY <1>1, <1>2, <1>4, <1>8, TakesKeeps DEF why

\* A read that is not complete.
LEMMA PartKeeps ==
    ASSUME CInv, Reading, NEW k \in 1..Len(line),
           ~Enough(call, inbox \o SubSeq(line, 1, k)),
           inbox' = inbox \o SubSeq(line, 1, k),
           line' = SubSeq(line, k + 1, Len(line)),
           UNCHANGED <<system, connected, call, asked, cursor, causes, ops>>
    PROVE  CInv'
<1>1. Typed /\ Rested /\ InOrder /\ call.at \in Reads
  BY DEF CInv, Typed, Reading, Busy
<1>2. /\ inbox' \in Seq(AnyFrame) /\ Range(inbox') \subseteq Unread
      /\ line' \in Seq(AnyFrame) /\ Len(line') = Len(line) - k
      /\ \A i \in 1..Len(line') : line'[i] = line[k + i]
      /\ Range(line') \subseteq Range(line)
  BY <1>1, FramesRead
<1>3. Zos => call.at \in {"prepare", "describe", "open", "execute"}
  BY DEF Enough
<1>4. Typed'
  <2>1. Formed(call)' /\ (Zos' <=> Zos)
    BY <1>1 DEF Formed, Zos, Typed
  <2> QED
    BY <1>1, <1>2, <1>3, <2>1 DEF Typed
<1>5. Rested'
  BY <1>1 DEF Rested, Busy, Reads
<1>6. Unread' \subseteq Unread
  BY <1>2 DEF Unread
<1>7. ASSUME causes = {}
      PROVE  /\ Waits' /\ Chained' /\ Descriptor'
             /\ cursor'.kind \in {"none", "limited"} \/ OpenNow'
  <2>1. /\ Waits /\ Chained /\ Descriptor
        /\ cursor.kind \in {"none", "limited"} \/ OpenNow
    BY <1>1, <1>7 DEF InOrder
  <2>2. Waits'
    <3>1. line # <<>>
      OBVIOUS
    <3> QED
      BY <2>1, <3>1 DEF Waits
  <2>3. Chained'
    <3> SUFFICES ASSUME ~Zos, NEW i \in 1..Len(line'), ~line'[i].chained
                 PROVE  asked = <<>> /\ i = Len(line')
      BY DEF Chained, Zos
    <3>1. Len(line) \in Nat /\ Len(line') \in Nat
      BY <1>1, <1>2, LenProperties DEF Typed
    <3>2. k + i \in 1..Len(line) /\ line'[i] = line[k + i]
      BY <1>2, <3>1
    <3>3. asked = <<>> /\ k + i = Len(line)
      BY <2>1, <3>2 DEF Chained
    <3> QED
      BY <1>2, <3>1, <3>3
  <2>4. Descriptor'
    BY <1>6, <2>1 DEF Descriptor
  <2>5. OpenNow => OpenNow'
    BY <1>6 DEF OpenNow
  <2> QED
    BY <2>1, <2>2, <2>3, <2>4, <2>5
<1>8. InOrder'
  BY <1>7 DEF InOrder
<1> QED
  BY <1>4, <1>5, <1>8 DEF CInv

LEMMA ReceiveKeeps ==
    ASSUME CInv, Receive
    PROVE  CInv'
<1>1. Reading /\ system' = system /\ ops' = ops
  BY DEF Receive, fixed
<1>2. AtLeast(call) \in {1, 2}
  BY DEF AtLeast
<1>3. PICK k \in AtLeast(call)..Len(line) :
         LET frames == inbox \o SubSeq(line, 1, k)
             rest == SubSeq(line, k + 1, Len(line))
         IN  IF Enough(call, frames)
             THEN LET step == Step(call, frames)
                  IN  Takes(step, rest, causes \cup Early(call, step, rest))
             ELSE /\ inbox' = frames /\ line' = rest
                  /\ UNCHANGED <<connected, call, asked, cursor, answer, causes>>
  BY DEF Receive
<1>4. k \in 1..Len(line)
  <2>1. Len(line) \in Nat
    BY LenProperties DEF CInv, Typed
  <2> QED
    BY <1>2, <2>1
<1>5. CASE Enough(call, inbox \o SubSeq(line, 1, k))
  BY <1>1, <1>3, <1>4, <1>5, EnoughKeeps
<1>6. CASE ~Enough(call, inbox \o SubSeq(line, 1, k))
  BY <1>1, <1>3, <1>4, <1>6, PartKeeps
<1> QED
  BY <1>5, <1>6

LEMMA QuietKeeps ==
    ASSUME CInv, Quiet
    PROVE  CInv'
<1> DEFINE step == QuietStep(call, inbox)
           why == causes \cup Early(call, step, line)
<1>1. /\ Typed /\ InOrder /\ call.at \in Reads /\ Zos
      /\ system' = system /\ ops' = ops /\ Takes(step, line, why)
      /\ line \in Seq(AnyFrame) /\ inbox \in Seq(AnyFrame)
  BY DEF CInv, Quiet, Reading, Busy, Typed, fixed
<1>2. /\ call.at \in {"prepare", "describe", "open", "execute", "closing", "more", "close"}
      /\ call.at = "prepare" => inbox # <<>>
  BY <1>1 DEF Quiet, Typed
<1>3. Settled(step, line, why)
  BY <1>1 DEF Settled, Early
<1>4. CASE call.at # "close"
  <2>1. Course(call, inbox, step)
    BY <1>1, <1>2, <1>4, CallPlaced, QuietCourse
  <2>2. Range(inbox) \subseteq Unread
    BY DEF Unread
  <2>3. ASSUME causes = {}, call.at = "prepare", step.outcome = "goes"
        PROVE  Sees(inbox, {"described"})
    <3>1. Prepared(call, inbox).outcome = "goes"
      BY <2>3 DEF QuietStep, Step
    <3>2. Len(inbox) > 0
      BY <1>1, <1>2, <2>3, LenProperties, EmptySeq
    <3>3. \A f \in Unread : f.body \in {"described", "sqlerror"}
      BY <1>1, <2>3 DEF InOrder, Descriptor
    <3>4. \A i \in DOMAIN inbox : inbox[i].body \in {"described", "sqlerror"}
      BY <3>3 DEF Unread, Range
    <3>5. inbox \in Seq(AnyFrame)
      BY <1>1
    <3> QED
      BY <3>1, <3>2, <3>4, <3>5, PreparedSees
  <2> HIDE DEF step, why
  <2>4. Goal(step, line, why)
    BY <1>1, <1>3, <2>1, <2>2, <2>3, CourseGoal
  <2> QED
    BY <1>1, <2>4, TakesKeeps
<1>5. CASE call.at = "close"
  <2>1. /\ Formed(step.call) /\ step.call.op = call.op /\ step.call.kind = call.kind
        /\ step.outcome \in {"ok", "protocol"}
    BY <1>1, <1>2, <1>5, CallPlaced, QuietCourse
  <2> HIDE DEF step, why
  <2>2. why = {} => asked = <<>> /\ causes = {} /\ line = <<>>
    BY <1>3, <2>1 DEF Settled
  <2>3. ~(why = {} /\ OpenNow)
    BY <1>5, <2>2 DEF OpenNow
  <2>4. Goal(step, line, why)
    BY <2>1, <2>2, <2>3 DEF Goal
  <2> QED
    BY <1>1, <2>4, TakesKeeps
<1> QED
  BY <1>4, <1>5
-----------------------------------------------------------------------------
(* The other steps *)

LEMMA StartsKeeps ==
    ASSUME CInv, ~Busy, NEW op \in Nat, NEW kind \in Asked, Starts(op, kind),
           connected', ops' \in Nat,
           UNCHANGED <<system, inbox, line, cursor, causes>>
    PROVE  CInv'
<1> DEFINE cmds == Commands(kind)
           new == [i \in DOMAIN cmds |-> Request(op, cmds[i], kind, i < Len(cmds))]
           c == [Idle EXCEPT !.op = op, !.kind = kind, !.at = FirstRead(kind)]
<1>1. Typed /\ Rested /\ call.at = "idle"
  BY DEF CInv, Busy
<1>2. call' = c /\ asked' = asked \o new
  BY DEF Starts
<1>3. FirstRead(kind) \in {"ready", "execute", "commit", "prepare"}
  BY DEF FirstRead
<1>4. /\ Formed(c) /\ c.op = op /\ c.kind = kind /\ c.at = FirstRead(kind) /\ ~c.end
  BY <1>3 DEF Formed, Fields, Idle
<1>5. \/ /\ cmds = <<"setup", "commit">> /\ FirstRead(kind) = "ready"
      \/ /\ cmds = <<"change", "commit">> /\ FirstRead(kind) = "execute"
      \/ /\ cmds = <<"commit">> /\ FirstRead(kind) = "commit"
      \/ /\ cmds = <<"prepare">> /\ FirstRead(kind) = "prepare"
  BY DEF Commands, FirstRead
<1>6. /\ new \in Seq(Requests) /\ Len(new) \in {1, 2} /\ Len(new) = Len(cmds)
      /\ \A i \in 1..Len(new) : /\ new[i].op = op /\ new[i].kind = kind
                                /\ new[i].cmd = cmds[i] /\ cmds[i] \in Due(FirstRead(kind))
                                /\ new[i].chained = (i < Len(cmds))
      /\ Len(cmds) = 2 => cmds[2] = "commit"
  <2>1. Len(cmds) \in {1, 2} /\ DOMAIN cmds = 1..Len(cmds)
    BY <1>5
  <2>2. \A i \in 1..Len(cmds) : cmds[i] \in Due(FirstRead(kind)) /\ cmds[i] \in Cmds
    BY <1>5 DEF Due, Cmds
  <2>3. Len(cmds) = 2 => cmds[2] = "commit"
    BY <1>5
  <2> HIDE DEF cmds
  <2>4. \A i \in 1..Len(cmds) :
          /\ new[i] \in Requests /\ new[i].op = op /\ new[i].kind = kind
          /\ new[i].cmd = cmds[i] /\ new[i].chained = (i < Len(cmds))
    BY <2>1, <2>2 DEF Request, Requests
  <2>5. new = [i \in 1..Len(cmds) |-> new[i]]
    BY <2>1
  <2> HIDE DEF new
  <2>6. new \in Seq(Requests)
    BY <2>1, <2>4, <2>5
  <2>7. Len(new) = Len(cmds)
    <3>1. DOMAIN new = 1..Len(cmds)
      BY <2>5
    <3> QED
      BY <2>1, <2>6, <3>1, LenProperties
  <2> QED
    BY <2>1, <2>2, <2>3, <2>4, <2>6, <2>7
<1> HIDE DEF new, c, cmds
<1>7. Typed'
  <2>1. Formed(call)' /\ (Zos' <=> Zos)
    BY <1>2, <1>4 DEF Formed, Zos
  <2>2. asked' \in Seq(Requests)
    BY <1>1, <1>2, <1>6, ConcatProperties DEF Typed
  <2>3. call'.at \in Reads /\ call'.kind \in Asked
    BY <1>2, <1>3, <1>4 DEF Reads
  <2> QED
    BY <1>1, <1>2, <1>4, <2>1, <2>2, <2>3 DEF Typed
<1>8. Rested'
  BY <1>2, <1>3, <1>4 DEF Rested, Busy
<1>9. ASSUME causes = {}
      PROVE  /\ Waits' /\ Chained' /\ Descriptor'
             /\ cursor'.kind \in {"none", "limited"} \/ OpenNow'
  <2>1. /\ inbox = <<>> /\ line = <<>> /\ asked = <<>>
        /\ cursor.kind \in {"none", "limited"}
    BY <1>1, <1>9 DEF Rested, Busy
  <2>2. asked' = new
    BY <1>2, <1>6, <2>1, ConcatEmptySeq
  <2>3. Waits'
    <3>1. \A i \in 1..Len(new) : ~new[i].chained <=> i = Len(new)
      <4> SUFFICES ASSUME NEW i \in 1..Len(new)
                   PROVE  ~new[i].chained <=> i = Len(new)
        OBVIOUS
      <4>1. new[i].chained = (i < Len(new))
        BY <1>6
      <4>2. i < Len(new) <=> i # Len(new)
        BY <1>6
      <4> QED
        BY <4>1, <4>2
    <3> QED
      BY <1>2, <1>4, <1>6, <2>1, <2>2, <3>1 DEF Waits
  <2>4. Chained'
    BY <2>1 DEF Chained
  <2>5. Descriptor'
    BY <1>2, <1>3, <1>4, <2>1 DEF Descriptor, OfCursor, Unread, Range
  <2> QED
    BY <2>1, <2>3, <2>4, <2>5
<1>10. InOrder'
  BY <1>9 DEF InOrder
<1> QED
  BY <1>7, <1>8, <1>10 DEF CInv

LEMMA BeginKeeps ==
    ASSUME CInv, Begin
    PROVE  CInv'
<1>1. /\ ~Busy /\ connected' = connected /\ connected /\ ops' = ops + 1
      /\ UNCHANGED <<system, inbox, line, cursor, causes>>
  BY DEF Begin, fixed
<1>2. PICK kind \in Kinds : Starts(ops + 1, kind)
  BY DEF Begin
<1>3. ops + 1 \in Nat /\ kind \in Asked
  BY DEF CInv, Typed, Asked
<1> QED
  BY <1>1, <1>2, <1>3, StartsKeeps

LEMMA ConnectKeeps ==
    ASSUME CInv, Connect
    PROVE  CInv'
<1>1. /\ ~Busy /\ ~connected /\ connected' = TRUE /\ ops' = ops
      /\ UNCHANGED <<system, inbox, line, cursor, causes>>
  BY DEF Connect, fixed, server
<1>2. Typed /\ Rested /\ ops \in Nat
  BY DEF CInv, Typed
<1>3. CASE Zos
  <2>1. call' = call /\ asked' = asked
    BY <1>3 DEF Connect
  <2>2. Formed(call)' /\ (Zos' <=> Zos) /\ call.at = "idle"
    BY <1>1, <1>2, <2>1 DEF Formed, Zos, Typed, Busy
  <2>3. Typed'
    BY <1>1, <1>2, <2>1, <2>2 DEF Typed
  <2>4. Rested' /\ InOrder'
    BY <1>1, <1>2, <2>1, <2>2 DEF Rested, InOrder, Busy, Reads
  <2> QED
    BY <2>3, <2>4 DEF CInv
<1>4. CASE ~Zos
  <2>1. Starts(0, "handle")
    BY <1>4 DEF Connect
  <2>2. 0 \in Nat /\ "handle" \in Asked
    BY DEF Asked
  <2> QED
    BY <1>1, <1>2, <2>1, <2>2, StartsKeeps
<1> QED
  BY <1>3, <1>4

\* An operation that ends without having read its reply.
LEMMA AbandonKeeps ==
    ASSUME CInv, Busy, call' = Idle, system' = system, ops' = ops,
           Reset \/ \E cause : Keep(line, causes \cup {cause})
    PROVE  CInv'
<1>1. Typed /\ connected /\ ops \in Nat /\ line \in Seq(AnyFrame)
  BY DEF CInv, Rested, Typed
<1>2. CASE Reset
  BY <1>1, <1>2, ResetKeeps
<1>3. ASSUME NEW cause, Keep(line, causes \cup {cause})
      PROVE  CInv'
  <2> DEFINE why == causes \cup {cause}
  <2>1. why # {} /\ Keep(line, why)
    BY <1>3
  <2> HIDE DEF why
  <2> QED
    BY <1>1, <2>1, KeptKeeps
<1> QED
  BY <1>2, <1>3

LEMMA TimeoutKeeps ==
    ASSUME CInv, Timeout
    PROVE  CInv'
<1> DEFINE c == [Idle EXCEPT !.op = call.op, !.kind = call.kind, !.at = "cancelling"]
<1>1. /\ call' = c /\ inbox' = <<>> /\ Busy
      /\ UNCHANGED <<system, connected, asked, line, cursor, ops, causes>>
  BY DEF Timeout, Reading, fixed, server
<1>2. Typed /\ Rested
  BY DEF CInv
<1>3. Formed(c) /\ c.at = "cancelling"
  BY <1>2 DEF Typed, Formed, Fields, Idle
<1> HIDE DEF c
<1>4. Formed(call)' /\ (Zos' <=> Zos) /\ inbox' \in Seq(AnyFrame)
  BY <1>1, <1>3 DEF Formed, Zos
<1>5. Typed'
  BY <1>1, <1>2, <1>3, <1>4 DEF Typed, Reads
<1>6. Rested' /\ InOrder'
  BY <1>1, <1>2, <1>3 DEF Rested, InOrder, Busy, Reads
<1> QED
  BY <1>5, <1>6 DEF CInv

LEMMA StutterKeeps ==
    ASSUME CInv, UNCHANGED vars
    PROVE  CInv'
<1>1. /\ system' = system /\ connected' = connected /\ call' = call /\ inbox' = inbox
      /\ asked' = asked /\ line' = line /\ cursor' = cursor /\ ops' = ops
      /\ causes' = causes
  BY DEF vars
<1>2. Formed(call)' /\ (Zos' <=> Zos)
  BY <1>1 DEF CInv, Typed, Formed, Zos
<1>3. Typed'
  BY <1>1, <1>2 DEF CInv, Typed
<1>4. Rested'
  BY <1>1 DEF CInv, Rested, Busy
<1>5. InOrder'
  BY <1>1, <1>2 DEF CInv, InOrder, Waits, Chained, Descriptor, OpenNow, Unread
<1> QED
  BY <1>3, <1>4, <1>5 DEF CInv

LEMMA StartsInOrder == Init => CInv
<1> SUFFICES ASSUME Init
             PROVE  CInv
  OBVIOUS
<1>1. Formed(call) /\ call.at = "idle"
  BY IdleFormed DEF Init
<1>2. /\ asked \in Seq(Requests) /\ inbox \in Seq(AnyFrame) /\ line \in Seq(AnyFrame)
      /\ NoCursor.kind = "none"
  BY DEF Init, NoCursor
<1>3. Typed
  BY <1>1, <1>2 DEF Init, Typed, Reads
<1>4. Rested /\ InOrder
  BY <1>1, <1>2 DEF Init, Rested, InOrder, Busy, Reads
<1> QED
  BY <1>3, <1>4 DEF CInv

LEMMA StepsInOrder == CInv /\ [Next]_vars => CInv'
<1> SUFFICES ASSUME CInv, [Next]_vars
             PROVE  CInv'
  OBVIOUS
<1>1. CASE Answer
  BY <1>1, AnswerKeeps
<1>2. CASE Receive
  BY <1>2, ReceiveKeeps
<1>3. CASE Quiet
  BY <1>3, QuietKeeps
<1>4. CASE Begin
  BY <1>4, BeginKeeps
<1>5. CASE Connect
  BY <1>5, ConnectKeeps
<1>6. CASE Drop
  <2>1. /\ Busy /\ call' = Idle /\ system' = system /\ ops' = ops
        /\ Keep(line, causes \cup {"dropped"})
    BY <1>6 DEF Drop, Reading, Answered, fixed
  <2> QED
    BY <2>1, AbandonKeeps
<1>7. CASE Broken
  <2>1. Busy /\ call' = Idle /\ system' = system /\ ops' = ops /\ Reset
    BY <1>7 DEF Broken, Reading, Answered, fixed
  <2> QED
    BY <2>1, AbandonKeeps
<1>8. CASE Timeout
  BY <1>8, TimeoutKeeps
<1>9. CASE Cancelled
  <2>1. Busy /\ call' = Idle /\ system' = system /\ ops' = ops /\ Reset
    BY <1>9 DEF Cancelled, Busy, Answered, fixed
  <2> QED
    BY <2>1, AbandonKeeps
<1>10. CASE FetchTimeout
  <2>1. /\ Busy /\ call' = Idle /\ system' = system /\ ops' = ops
        /\ Reset \/ Keep(line, causes \cup {"fetch timeout"})
    BY <1>10 DEF FetchTimeout, Busy, Answered, fixed
  <2> QED
    BY <2>1, AbandonKeeps
<1>11. CASE UNCHANGED vars
  BY <1>11, StutterKeeps
<1> QED
  BY <1>1, <1>2, <1>3, <1>4, <1>5, <1>6, <1>7, <1>8, <1>9, <1>10, <1>11 DEF Next

LEMMA AlwaysInOrder == Spec => []CInv
BY StartsInOrder, StepsInOrder, PTL DEF Spec
-----------------------------------------------------------------------------
(* Theorems *)

\* A session between two operations owes nothing in either direction: every
\* request of read_reply_frames' callers has been answered and every frame
\* read, unless the session has lost its place in one of the named ways.
THEOREM LineStaysClean == Spec => []CleanLine
<1>1. CInv => CleanLine
  BY DEF CInv, Rested, CleanLine, Owed
<1> QED
  BY <1>1, AlwaysInOrder, PTL

\* No operation leaves the cursor it opened behind: process_query_reply and
\* Cursor::close_from end only when the server has closed it, except for the
\* bounded z/OS result whose rows stand for its end.
THEOREM CursorsAreClosed == Spec => []NoOrphanCursor
<1>1. CInv => NoOrphanCursor
  <2> SUFFICES ASSUME CInv, cursor.kind = "none"
               PROVE  cursor = NoCursor
    BY DEF CInv, Rested, NoOrphanCursor
  <2>1. "none" \notin Asked
    BY ConversationAssumption DEF Asked
  <2> QED
    BY <2>1 DEF CInv, Typed, Cursors
<1> QED
  BY <1>1, AlwaysInOrder, PTL
=============================================================================
