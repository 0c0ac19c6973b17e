---------------------------- MODULE Conversation ----------------------------
(***************************************************************************)
(* The requests and replies of one session of crates/db2-client: how       *)
(* ClientInner (connection.rs) and Cursor (cursor.rs) decide that a reply  *)
(* has been read to its end, and to which operation its frames go.         *)
(*                                                                         *)
(* Nothing in a frame ties it to the operation that reads it (correlation  *)
(* identifiers are compared only while a cursor is closed): an operation   *)
(* takes what is next on the line.  So the client is right only if it      *)
(* never stops reading before the last frame of a reply, and never sends a *)
(* request while a reply is still coming.  Db2 LUW marks the last frame of *)
(* a reply; from Db2 for z/OS the client reads until the line is quiet.    *)
(*                                                                         *)
(* The server answers in order and each of its frames arrives when it      *)
(* pleases: a read returns any positive number of the frames sent so far.  *)
(* Strategies that environment variables enable are left at their          *)
(* defaults.                                                               *)
(***************************************************************************)
EXTENDS Integers, Sequences, FiniteSets, SequencesExt

CONSTANTS
    MaxOps,      \* bound on the operations of a behaviour
    MaxRows,     \* the most rows a query returns; the FETCH FIRST of "limited"
    MaxFaults,   \* bound on errors, drops, silences cut short, lost sessions
    MaxStalls,   \* fetches without progress before the query fails (3)
    MaxTries,    \* fetches in search of descriptors (3)
    Systems,     \* server families: "luw", "zos"
    Kinds        \* the operations the program calls

ASSUME ConversationAssumption ==
    /\ {MaxOps, MaxRows, MaxFaults} \subseteq Nat
    /\ {MaxStalls, MaxTries} \subseteq Nat \ {0}
    /\ Systems \subseteq {"luw", "zos"}
    /\ Kinds \subseteq {"query", "param", "limited", "lob", "change", "commit"}

VARIABLES
    system,      \* the server family
    timed,       \* Config::query_timeout is not zero
    connected,   \* ClientInner::connected
    call,        \* the operation in progress
    inbox,       \* frames of the current read, not yet processed
    asked,       \* requests the server has not answered
    line,        \* frames the server sent and the client has not read
    cursor,      \* the cursor open at the server
    performed,   \* operations committed at the server, and
    total,       \* rows of the query opened last, since an operation began
    ops,         \* operations begun; the setup of a session is operation 0
    answer,      \* what the last operation returned
    causes,      \* known ways this session has lost track of its line
    faults

vars == <<system, timed, connected, call, inbox, asked, line, cursor,
          performed, ops, answer, total, causes, faults>>
fixed == <<system, timed>>
server == <<cursor, performed, total>>

Bodies == {"ready", "described", "opened", "format", "row", "lob", "end",
           "noquery", "refused", "sqlerror", "done", "unit", "closed", "nocursor"}
Zos == system = "zos"

Frame(op, body, row) == [op |-> op, body |-> body, row |-> row, chained |-> TRUE]
NoLob == <<0, -1>>                       \* a LOB value that is still a reference
Unneeded == <<0, 0>>                     \* a row without LOB columns
NoCursor == [op |-> -1, kind |-> "none", total |-> 0, sent |-> 0, lobs |-> 0]
NoAnswer == [op |-> 0, status |-> "none", kind |-> "none", rows |-> <<>>,
             causes |-> {}]

NoFetch == [rows |-> <<>>, lobs |-> <<>>]

\* Where an operation stands: "idle", or the read it waits for.
Idle == [op |-> 0, kind |-> "none", at |-> "idle", desc |-> FALSE,
         pending |-> <<>>, rows |-> <<>>, lobs |-> <<>>, fetched |-> NoFetch,
         end |-> FALSE, closing |-> FALSE, verified |-> TRUE,
         stalled |-> 0, tries |-> 0]

Init ==
    /\ system \in Systems
    /\ timed \in BOOLEAN
    /\ connected = FALSE
    /\ call = Idle
    /\ inbox = <<>>
    /\ asked = <<>>
    /\ line = <<>>
    /\ cursor = NoCursor
    /\ performed = {}
    /\ ops = 0
    /\ answer = NoAnswer
    /\ total = 0
    /\ causes = {}
    /\ faults = 0
-----------------------------------------------------------------------------
(* The server: it answers requests in order. *)

\* A request; chained: another request of the same send follows it.
Request(op, cmd, kind, chained) ==
    [op |-> op, cmd |-> cmd, kind |-> kind, chained |-> chained]

\* DRDA clears the chain bit on the last frame of the reply to the last
\* request of a chain.
Reply(r, frames) ==
    IF r.chained THEN frames
    ELSE [frames EXCEPT ![Len(frames)].chained = FALSE]

\* The rows and LOB values a block carries, and the cursor after it.
Block(q, rows, lobs, ends) ==
    [i \in 1..rows |-> Frame(q.op, "row", q.sent + i)]
    \o [i \in 1..lobs |-> Frame(q.op, "lob", q.lobs + i)]
    \o (IF ends THEN <<Frame(q.op, "end", 0), Frame(q.op, "done", 0)>> ELSE <<>>)

After(q, rows, lobs, ends) ==
    IF ends THEN NoCursor ELSE [q EXCEPT !.sent = @ + rows, !.lobs = @ + lobs]

MayBlock(q, rows, lobs, ends) ==
    /\ q.sent + rows <= q.total
    /\ IF q.kind = "lob" THEN q.lobs + lobs <= q.sent + rows ELSE lobs = 0
    /\ ends => /\ q.sent + rows = q.total
               /\ q.kind = "lob" => q.lobs + lobs = q.total

Sends(frames) == line' = line \o Reply(Head(asked), frames)

AnswerOpen ==
    /\ Head(asked).cmd = "open"
    /\ \E all \in 0..MaxRows, rows \in 0..MaxRows, lobs \in 0..MaxRows,
          ends \in BOOLEAN :
         LET r == Head(asked)
             q == [op |-> r.op, kind |-> r.kind, total |-> all,
                   sent |-> 0, lobs |-> 0]
         IN /\ MayBlock(q, rows, lobs, ends)
            /\ Sends(<<Frame(r.op, "opened", 0), Frame(r.op, "format", 0)>>
                     \o Block(q, rows, lobs, ends))
            /\ cursor' = After(q, rows, lobs, ends)
            /\ total' = all
    /\ UNCHANGED <<performed, faults>>

\* CNTQRY: more of the result (all of a bounded one, which is asked for with
\* MAXBLKEXT -1), or a reply that carries nothing; QRYNOPRM when no such
\* cursor is open.
AnswerFetch ==
    /\ Head(asked).cmd = "fetch"
    /\ LET r == Head(asked)
       IN IF cursor.op # r.op
          THEN /\ Sends(<<Frame(r.op, "noquery", 0)>>)
               /\ UNCHANGED <<server, faults>>
          ELSE \/ \E rows \in 0..MaxRows, lobs \in 0..MaxRows, ends \in BOOLEAN :
                    /\ rows + lobs > 0 \/ ends
                    /\ r.kind = "limited" => cursor.sent + rows = cursor.total
                    /\ MayBlock(cursor, rows, lobs, ends)
                    /\ Sends(Block(cursor, rows, lobs, ends))
                    /\ cursor' = After(cursor, rows, lobs, ends)
                    /\ UNCHANGED <<performed, total, faults>>
               \/ /\ r.kind # "limited"
                  /\ Sends(<<Frame(r.op, "done", 0)>>)
                  /\ UNCHANGED <<server, faults>>

\* CLSQRY, and the other requests.
AnswerOther ==
    /\ Head(asked).cmd \notin {"open", "fetch"}
    /\ LET r == Head(asked)
           card == Frame(r.op, "done", 0)
       IN CASE r.cmd = "setup" ->
                 /\ Sends(<<Frame(r.op, "ready", 0), card>>)
                 /\ UNCHANGED server
            [] r.cmd \in {"prepare", "describe"} ->
                 /\ Sends(<<Frame(r.op, "described", 0)>>)
                 /\ UNCHANGED server
            [] r.cmd = "close" ->
                 /\ Sends(<<Frame(r.op, IF cursor.op = r.op THEN "closed"
                                       ELSE "nocursor", 0)>>)
                 /\ cursor' = IF cursor.op = r.op THEN NoCursor ELSE cursor
                 /\ UNCHANGED <<performed, total>>
            [] r.cmd = "change" ->
                 /\ Sends(<<card>>)
                 /\ UNCHANGED server
            [] r.cmd = "commit" ->
                 /\ Sends(<<Frame(r.op, "unit", 0), card>>)
                 /\ performed' = performed \cup {r.op}
                 /\ UNCHANGED <<cursor, total>>
    /\ UNCHANGED faults

\* The server refuses: SQLCARD with a negative SQLCODE, after OPNQFLRM for
\* OPNQRY; a cursor it was fetching from is closed.
AnswerError ==
    /\ faults < MaxFaults /\ faults' = faults + 1
    /\ LET r == Head(asked)
           error == Frame(r.op, "sqlerror", 0)
       IN /\ r.cmd \in {"prepare", "describe", "open", "fetch", "change", "commit"}
          /\ r.cmd = "fetch" => cursor.op = r.op
          /\ Sends(IF r.cmd = "open" THEN <<Frame(r.op, "refused", 0), error>>
                   ELSE <<error>>)
          /\ cursor' = IF r.cmd = "fetch" THEN NoCursor ELSE cursor
    /\ UNCHANGED <<performed, total>>

Answer ==
    /\ asked # <<>>
    /\ AnswerOpen \/ AnswerFetch \/ AnswerOther \/ AnswerError
    /\ asked' = Tail(asked)
    /\ UNCHANGED <<fixed, connected, call, inbox, ops, answer, causes>>
-----------------------------------------------------------------------------
(* What an operation makes of the frames it reads *)

ValueAlwaysInline(c, f) ==               \* mutant: LOB columns are not noticed
    [id |-> <<f.op, f.row>>, lob |-> Unneeded]

Value(c, f) == [id |-> <<f.op, f.row>>,
                lob |-> IF c.kind = "lob" THEN NoLob ELSE Unneeded]

\* apply_extdta_payloads_to_rows: the payloads go to the values that are
\* still references, in row order, from the first payload of the list on.
Applied(rows, payloads) ==
    LET open == {i \in DOMAIN rows : rows[i].lob = NoLob}
        rank(i) == Cardinality({j \in open : j <= i})
    IN [i \in DOMAIN rows |->
          IF i \in open /\ rank(i) <= Len(payloads)
          THEN [rows[i] EXCEPT !.lob = payloads[rank(i)]] ELSE rows[i]]

Unresolved(rows) == \E i \in DOMAIN rows : rows[i].lob = NoLob

\* What a list of frames tells at any place in it.
Sees(frames, bodies) == \E i \in DOMAIN frames : frames[i].body \in bodies

\* protocol_reply_error and parse_sqlcard: what a frame says went wrong.
Failure(f) == CASE f.body \in {"noquery", "nocursor"} -> "protocol"
                [] f.body = "sqlerror" -> "sql"
                [] OTHER -> "none"

\* The first error of a list of frames, as parse_prepare_reply,
\* process_execute_reply and the others report it.
FirstFailure(frames) ==
    LET bad == {i \in DOMAIN frames : Failure(frames[i]) # "none"}
    IN IF bad = {} THEN "none"
       ELSE Failure(frames[CHOOSE i \in bad : \A j \in bad : i <= j])

\* process_query_frames, frame by frame: rows that come before a descriptor
\* are kept back.
QueryFrame(c, f) ==
    CASE f.body \in {"format", "described"} ->
           [c EXCEPT !.desc = TRUE, !.rows = @ \o c.pending, !.pending = <<>>]
      [] f.body = "row" ->
           IF c.desc THEN [c EXCEPT !.rows = Append(@, Value(c, f))]
           ELSE [c EXCEPT !.pending = Append(@, Value(c, f))]
      [] f.body = "lob" -> [c EXCEPT !.lobs = Append(@, <<f.op, f.row>>)]
      [] OTHER -> c

\* Cursor::process_fetch_frames: fetched and lobs of this fetch only.
FetchFrame(c, f) ==
    CASE f.body = "row" -> [c EXCEPT !.fetched.rows = Append(@, Value(c, f))]
      [] f.body = "lob" -> [c EXCEPT !.fetched.lobs = Append(@, <<f.op, f.row>>)]
      [] OTHER -> c

\* A late QRYNOPRM after ENDQRYRM is ignored.
FetchFailure(c, frames) ==
    LET ended(i) == c.end \/ \E j \in 1..(i - 1) : frames[j].body = "end"
        bad == {i \in DOMAIN frames :
                  /\ Failure(frames[i]) # "none"
                  /\ ~(Failure(frames[i]) = "protocol" /\ ended(i))}
    IN IF bad = {} THEN "none"
       ELSE Failure(frames[CHOOSE i \in bad : \A j \in bad : i <= j])

\* The operation after each of the frames, none to all.
QueryReads(c, frames) ==
    LET read[i \in 0..Len(frames)] ==
            IF i = 0 THEN c ELSE QueryFrame(read[i - 1], frames[i])
    IN read

FetchReads(c, frames) ==
    LET read[i \in 0..Len(frames)] ==
            IF i = 0 THEN c ELSE FetchFrame(read[i - 1], frames[i])
    IN read

Read(c, frames) ==
    LET read == QueryReads(c, frames)[Len(frames)]
    IN [c EXCEPT !.rows = read.rows, !.pending = read.pending, !.lobs = read.lobs,
                 !.desc = @ \/ Sees(frames, {"format", "described"}),
                 !.end = @ \/ Sees(frames, {"end"})]

Fetched(c, frames) ==
    [c EXCEPT !.fetched = FetchReads(c, frames)[Len(frames)].fetched,
              !.end = @ \/ Sees(frames, {"end"})]
-----------------------------------------------------------------------------
(* The course of an operation: from a complete read to the next one.  A     *)
(* step is the operation afterwards, the requests it sends and its outcome. *)

Goes(c, cmds)  == [call |-> c, cmds |-> cmds, outcome |-> "goes"]
Ends(c, outcome) == [call |-> c, cmds |-> <<>>, outcome |-> outcome]

Ask(c, cmd) == <<Request(c.op, cmd, c.kind, FALSE)>>

\* The end of process_query_reply: payloads go to their rows, and rows that
\* never got a descriptor, or on LUW a LOB that never came, are errors.
Finish(c) ==
    LET rows == IF c.desc THEN Applied(c.rows, c.lobs) ELSE c.rows
        done == [c EXCEPT !.rows = rows]
    IN IF \/ c.end /\ c.pending # <<>>
          \/ ~Zos /\ c.desc /\ Unresolved(rows)
       THEN Ends(done, "protocol")
       ELSE Ends(done, "ok")

\* Cursor::fetch_next_from: CNTQRY, with CLSQRY behind it when closing.
Fetch(c) ==
    Goes([c EXCEPT !.at = "fetch", !.fetched = NoFetch],
         IF c.closing THEN <<Request(c.op, "fetch", c.kind, TRUE),
                             Request(c.op, "close", c.kind, FALSE)>>
         ELSE Ask(c, "fetch"))

\* Without a descriptor the rows cannot be read: up to MaxTries fetches.
Searches(c) == ~c.desc /\ c.rows = <<>> /\ c.tries < MaxTries

\* After the OPNQRY reply, and after each CNTQRY sent for want of a descriptor.
Opened(c) ==
    IF c.end THEN Finish(c)
    ELSE IF Searches(c)
    THEN Goes([c EXCEPT !.at = "descriptors", !.tries = @ + 1], Ask(c, "fetch"))
    ELSE IF ~c.desc THEN Finish(c)
    ELSE IF /\ Zos /\ c.kind = "limited" /\ c.lobs = <<>>
            /\ Len(c.rows) >= MaxRows
    THEN Finish([c EXCEPT !.end = TRUE])
    ELSE Fetch([c EXCEPT !.closing = Zos /\ c.kind = "limited" /\ c.rows = <<>>])

Prepared(c, frames) ==
    IF FirstFailure(frames) # "none" THEN Ends(c, FirstFailure(frames))
    ELSE LET d == [c EXCEPT !.desc = Sees(frames, {"described"})]
         IN IF c.kind = "param" THEN Goes([d EXCEPT !.at = "describe"], Ask(c, "describe"))
            ELSE Goes([d EXCEPT !.at = "open"], Ask(c, "open"))

Described(c, frames) ==
    IF FirstFailure(frames) # "none" THEN Ends(c, FirstFailure(frames))
    ELSE Goes([c EXCEPT !.at = "open"], Ask(c, "open"))

Queried(c, frames) ==
    IF FirstFailure(frames) # "none" THEN Ends(c, FirstFailure(frames))
    ELSE Opened(Read(c, frames))

Executed(c, frames) ==
    IF FirstFailure(frames) # "none" THEN Ends(c, FirstFailure(frames))
    ELSE Ends(c, "ok")

\* ClientInner::commit looks at SQLCARDs only.
Committed(c, frames) ==
    IF Sees(frames, {"sqlerror"}) THEN Ends(c, "sql")
    ELSE Ends(c, "ok")

StuckLater(c) == c.stalled > MaxStalls   \* mutant: one fetch too many

\* Cursor fetches that brought nothing.
Stuck(c) == c.stalled >= MaxStalls

\* The cursor loop takes over what a fetch brought.  z/OS: LOB values go to
\* their rows at once, and when no row is missing one the cursor is closed.
Collected(c) ==
    LET f == c.fetched
        rows == IF Zos THEN Applied(c.rows \o f.rows, f.lobs) ELSE c.rows \o f.rows
        moved == f.rows # <<>> \/ f.lobs # <<>> \/ c.end
        d == [c EXCEPT !.rows = rows, !.lobs = @ \o f.lobs, !.fetched = NoFetch,
                       !.closing = FALSE, !.stalled = IF moved THEN 0 ELSE @ + 1]
    IN IF c.end THEN Finish(d)
       ELSE IF Zos /\ f.lobs # <<>> /\ ~Unresolved(rows)
       THEN Goes([d EXCEPT !.at = "close", !.verified = FALSE], Ask(c, "close"))
       ELSE IF Stuck(d) THEN Ends(d, "protocol")
       ELSE Fetch(d)

\* Does a z/OS fetch wait for more?  native_fetch_needs_more_frames for LOBs,
\* should_drain_zos_non_lob_fetch_end otherwise.
WaitsForMore(c) ==
    /\ Zos
    /\ IF c.kind = "lob"
       THEN Unresolved(c.fetched.rows) \/ (~c.end /\ c.fetched.rows = <<>>)
       ELSE ~c.end /\ c.fetched.rows # <<>>

\* The cursor was asked to close with this fetch: a row is as good as an end.
FetchOver(c) ==
    Collected([c EXCEPT !.end = @ \/ (c.closing /\ c.fetched.rows # <<>>)])

AfterFetch(c) ==
    IF WaitsForMore(c) THEN Goes([c EXCEPT !.at = "more"], <<>>) ELSE FetchOver(c)

IsCloseReply(c, f) == f.body \in {"closed", "nocursor"} /\ f.op = c.op
CloseReplySeen(c, frames) == \E i \in DOMAIN frames : IsCloseReply(c, frames[i])

FetchRead(c, frames) ==
    IF FetchFailure(c, frames) # "none" THEN Ends(c, FetchFailure(c, frames))
    ELSE LET d == Fetched(c, frames)
             e == IF Zos THEN [d EXCEPT !.fetched.rows = Applied(@, d.fetched.lobs)]
                  ELSE d
         IN IF c.closing /\ c.at = "fetch" /\ ~CloseReplySeen(c, frames)
            THEN Goes([e EXCEPT !.at = "closing"], <<>>)
            ELSE AfterFetch(e)

\* One more read for the reply to CLSQRY; the result counts as ended then.
ClosingRead(c, frames) ==
    LET d == [c EXCEPT !.end = TRUE]
    IN IF FetchFailure(d, frames) # "none" THEN Ends(c, FetchFailure(d, frames))
       ELSE AfterFetch(Fetched(d, frames))

\* Cursor::close_from, each read of its loop: done when it has seen the reply
\* to its own request or the end of the query.
CloseRead(c, frames) ==
    IF FetchFailure(c, frames) # "none" THEN Ends(c, FetchFailure(c, frames))
    ELSE IF CloseReplySeen(c, frames) \/ Sees(frames, {"end"})
    THEN Finish([c EXCEPT !.verified = TRUE])
    ELSE Goes(c, <<>>)

\* The operation after a complete read.
Step(c, frames) ==
    CASE c.at = "ready"       -> Goes([c EXCEPT !.at = "prepare"], Ask(c, "prepare"))
      [] c.at = "prepare"     -> Prepared(c, frames)
      [] c.at = "describe"    -> Described(c, frames)
      [] c.at \in {"open", "descriptors"} -> Queried(c, frames)
      [] c.at \in {"fetch", "more"} -> FetchRead(c, frames)
      [] c.at = "closing"     -> ClosingRead(c, frames)
      [] c.at = "close"       -> CloseRead(c, frames)
      [] c.at = "execute"     -> Executed(c, frames)
      [] c.at = "commit"      -> Committed(c, frames)

\* The operation when a timed read on z/OS finds the line quiet.
QuietStep(c, frames) ==
    CASE c.at \in {"prepare", "describe", "open", "execute"} -> Step(c, frames)
      [] c.at = "closing" -> AfterFetch(c)
      [] c.at = "more"    -> FetchOver(c)
      [] c.at = "close"   -> Finish(c)
-----------------------------------------------------------------------------
(* Reading *)

\* read_reply_frames: on LUW to the end of the chain, however many reads it
\* takes; on z/OS one read, and reads that end only when the line is quiet.
Enough(c, frames) ==
    IF c.at = "ready" \/ (c.at = "open" /\ c.kind = "param") THEN TRUE
    ELSE IF ~Zos THEN ~Last(frames).chained
    ELSE CASE c.at = "prepare" ->
                /\ c.kind # "param"
                /\ Sees(frames, {"described"})
           [] c.at = "open" ->
                \/ c.kind = "lob"
                \/ /\ c.kind = "limited"
                   /\ Sees(frames, {"row", "end", "done", "sqlerror", "noquery"})
           [] c.at \in {"describe", "execute"} -> FALSE
           [] OTHER -> TRUE

AtLeastTwo(c) == 2                       \* mutant: every reply has two frames

\* read_frames(2) after an OPNQRY with parameters.
AtLeast(c) == IF c.at = "open" /\ c.kind = "param" /\ inbox = <<>> THEN 2 ELSE 1

Owed == line # <<>> \/ asked # <<>>
Busy == call.at # "idle"
Reading == Busy /\ call.at # "cancelling"
-----------------------------------------------------------------------------
(* The operations of the session *)

\* reset_session_state: the transport goes, and everything on it.
Reset ==
    /\ connected' = FALSE
    /\ inbox' = <<>> /\ asked' = <<>> /\ line' = <<>>
    /\ cursor' = NoCursor
    /\ causes' = {}

Keep(rest, why) ==
    /\ inbox' = <<>> /\ line' = rest
    /\ causes' = why
    /\ UNCHANGED <<connected, asked, cursor>>

Answered(c, status, why) ==
    /\ call' = Idle
    /\ answer' = [op |-> c.op, status |-> status, kind |-> c.kind,
                  rows |-> c.rows, causes |-> why]

KeepsOnProtocolError(c, outcome) ==      \* mutant: only a lost transport is fatal
    c.kind # "handle"

\* An operation fails: a protocol error and any failure while a session is
\* set up reset the session; an SQL error leaves it, except for the codes that
\* mean a stale session (-502, -514, -518).
KeepsSession(c, outcome) == outcome = "sql" /\ c.kind # "handle"

Fails(c, outcome, rest, why) ==
    /\ Answered(c, "error", why)
    /\ Reset \/ (KeepsSession(c, outcome) /\ Keep(rest, why))

\* A z/OS LOB result whose cursor is not known to be closed costs the session.
Returns(c, rest, why) ==
    /\ Answered(c, "ok", why)
    /\ IF Zos /\ c.kind = "lob" /\ c.rows # <<>> /\ ~c.verified
       THEN Reset ELSE Keep(rest, why)

\* The operation goes on after a read that leaves rest on the line.
Takes(step, rest, why) ==
    CASE step.outcome = "goes" ->
           /\ call' = step.call
           /\ inbox' = <<>> /\ line' = rest
           /\ asked' = asked \o step.cmds
           /\ causes' = why
           /\ UNCHANGED <<connected, cursor, answer>>
      [] step.outcome = "ok" -> Returns(step.call, rest, why)
      [] OTHER -> Fails(step.call, step.outcome, rest, why)

\* The ways the client goes on while the server still owes it frames: the one
\* read after a session is set up, the two frames after an OPNQRY with
\* parameters, and on z/OS any read or silence taken for the end of a reply.
Early(c, step, rest) ==
    IF step.cmds = <<>> /\ step.outcome = "goes" THEN {}
    ELSE IF rest = <<>> /\ asked = <<>> THEN {}
    ELSE IF Zos THEN {"early"}
    ELSE IF c.at = "ready" THEN {"post_auth_init"}
    ELSE IF c.at = "open" /\ c.kind = "param" THEN {"read_frames(2)"}
    ELSE {}

\* read_frames returns all the frames that have arrived, AtLeast of them.
Receive ==
    /\ Reading
    /\ \E k \in AtLeast(call)..Len(line) :
         LET frames == inbox \o SubSeq(line, 1, k)
             rest == SubSeq(line, k + 1, Len(line))
         IN IF Enough(call, frames)
            THEN LET step == Step(call, frames)
                 IN Takes(step, rest, causes \cup Early(call, step, rest))
            ELSE /\ inbox' = frames /\ line' = rest
                 /\ UNCHANGED <<connected, call, asked, cursor, answer, causes>>
    /\ UNCHANGED <<fixed, performed, total, ops, faults>>

\* On z/OS a timed read ends without a frame.
Quiet ==
    /\ Reading /\ Zos
    /\ inbox # <<>> \/ call.at \in {"closing", "more", "close"}
    /\ LET step == QuietStep(call, inbox)
       IN Takes(step, line, causes \cup Early(call, step, line))
    /\ UNCHANGED <<fixed, performed, total, ops, faults>>

Commands(kind) ==
    CASE kind = "handle" -> <<"setup", "commit">>
      [] kind = "change" -> <<"change", "commit">>
      [] kind = "commit" -> <<"commit">>
      [] OTHER -> <<"prepare">>
FirstRead(kind) ==
    CASE kind = "handle" -> "ready"
      [] kind = "change" -> "execute"
      [] kind = "commit" -> "commit"
      [] OTHER -> "prepare"

Starts(op, kind) ==
    LET cmds == Commands(kind)
    IN /\ call' = [Idle EXCEPT !.op = op, !.kind = kind, !.at = FirstRead(kind)]
       /\ asked' = asked \o [i \in DOMAIN cmds |->
                               Request(op, cmds[i], kind, i < Len(cmds))]

\* MaxOps, less one on a session that has lost its place.
Bound == IF causes = {} THEN MaxOps ELSE MaxOps - 1

Begin ==
    /\ ~Busy /\ connected
    /\ ops < Bound /\ ops' = ops + 1
    /\ \E kind \in Kinds : (kind = "limited" => Zos) /\ Starts(ops + 1, kind)
    /\ answer' = NoAnswer
    /\ performed' = {} /\ total' = 0
    /\ UNCHANGED <<fixed, connected, inbox, line, cursor, causes, faults>>

\* establish_session, from the accepted login on: LUW is sent post_auth_init
\* and asked for the application handle, z/OS nothing.
Connect ==
    /\ ~Busy /\ ~connected
    /\ connected' = TRUE
    /\ ops < MaxOps
    /\ IF Zos THEN UNCHANGED <<call, asked>> ELSE Starts(0, "handle")
    /\ answer' = NoAnswer
    /\ UNCHANGED <<fixed, inbox, line, server, ops, causes, faults>>

Fault == faults < MaxFaults /\ faults' = faults + 1

\* The caller drops the future of its operation while it waits for a frame.
Drop ==
    /\ Reading
    /\ Fault
    /\ Answered(call, "dropped", {})
    /\ Keep(line, causes \cup {"dropped"})
    /\ UNCHANGED <<fixed, performed, total, ops>>

\* The transport fails, or the server closes it, while the client reads.
Broken ==
    /\ Reading
    /\ Fault
    /\ Answered(call, "error", causes)
    /\ Reset
    /\ UNCHANGED <<fixed, performed, total, ops>>

\* Client::query with query_timeout: the timer ends the operation.  The lock
\* is held while the server's activity is cancelled through another session
\* and until the session is reset.
Timeout ==
    /\ timed /\ Reading /\ call.kind \notin {"commit", "handle"}
    /\ call' = [Idle EXCEPT !.op = call.op, !.kind = call.kind, !.at = "cancelling"]
    /\ inbox' = <<>>
    /\ UNCHANGED <<fixed, connected, asked, line, server, ops, answer, causes, faults>>

TimeoutKeepsSession ==                   \* mutant: no reset after a timeout
    /\ call.at = "cancelling"
    /\ Answered(call, "timeout", causes)
    /\ Keep(line, causes)
    /\ UNCHANGED <<fixed, performed, total, ops, faults>>

\* CancelHandle::cancel returns, or its five seconds are over.
Cancelled ==
    /\ call.at = "cancelling"
    /\ Answered(call, "timeout", causes)
    /\ Reset
    /\ UNCHANGED <<fixed, performed, total, ops, faults>>

\* Without query_timeout a fetch gives up after 30 seconds, and
\* finalize_operation_error does not count Error::Timeout as fatal.
FetchTimeout ==
    /\ ~timed /\ call.at = "fetch"
    /\ Fault
    /\ Answered(call, "timeout", {})
    /\ IF call.kind = "handle" THEN Reset
       ELSE Keep(line, causes \cup {"fetch timeout"})
    /\ UNCHANGED <<fixed, performed, total, ops>>

Next ==
    \/ Answer \/ Receive \/ Quiet
    \/ Begin \/ Connect
    \/ Drop \/ Broken \/ Timeout \/ Cancelled \/ FetchTimeout

\* The client's next step needs nothing more from the server.
CanProceed == /\ Reading
              /\ \/ Len(line) >= AtLeast(call)
                 \/ Zos /\ (inbox # <<>> \/ call.at \in {"closing", "more", "close"})
Proceeds == call' # call \/ Len(line') < Len(line)

\* Frames that arrived are read, timers expire, and a server that a client
\* without query_timeout talks to answers.  The first and the last conjunct
\* are weak fairness with the enabling condition spelled out, which TLC
\* evaluates faster than ENABLED Receive.
Fairness ==
    /\ ([]<>~CanProceed) \/ ([]<><<Proceeds>>_vars)
    /\ WF_vars(Timeout) /\ WF_vars(Cancelled)
    /\ ([]<>(timed \/ asked = <<>>)) \/ ([]<><<Len(asked') < Len(asked)>>_vars)

Spec == Init /\ [][Next]_vars /\ Fairness
-----------------------------------------------------------------------------
(* Properties *)

Values == [id : (0..MaxOps) \X (0..MaxRows), lob : (0..MaxOps) \X (-1..MaxRows)]
Frames == [op : 0..MaxOps, body : Bodies, row : 0..MaxRows, chained : BOOLEAN]

\* The state has its types: frames and requests are those of the operations
\* begun, and an operation waits for one of the reads of the code.
TypeOK ==
    /\ system \in Systems /\ timed \in BOOLEAN /\ connected \in BOOLEAN
    /\ call.at \in {"idle", "ready", "prepare", "describe", "open", "descriptors",
                    "fetch", "more", "closing", "close", "execute", "commit",
                    "cancelling"}
    /\ call.stalled \in 0..(MaxStalls - 1) /\ call.tries \in 0..MaxTries
    /\ call.op \in 0..ops /\ ops \in 0..MaxOps
    /\ Range(call.rows) \subseteq Values
    /\ Range(inbox) \cup Range(line) \subseteq Frames
    /\ \A r \in Range(asked) : r.op \in 0..ops
    /\ cursor.sent \in 0..cursor.total /\ cursor.lobs \in 0..cursor.total
    /\ performed \subseteq 0..ops
    /\ total \in 0..MaxRows
    /\ faults \in 0..MaxFaults
    /\ causes \subseteq {"post_auth_init", "read_frames(2)", "early", "dropped",
                         "fetch timeout"}

\* A session between two operations owes nothing in either direction: no
\* request is unanswered and no frame unread, unless the session has already
\* lost its place in one of the ways Early, Drop and FetchTimeout name.  The
\* next operation takes the first frame it finds for its own (read_frames).
CleanLine ==
    connected /\ ~Busy /\ causes = {} => ~Owed /\ inbox = <<>>

Own(o, kind) ==
    [i \in 1..total |-> [id |-> <<o, i>>,
                         lob |-> IF kind = "lob" THEN <<o, i>> ELSE Unneeded]]

\* An operation has returned Ok, on a session that has not lost its place.
Sound == answer.status = "ok" /\ answer.causes = {}

\* What an operation returns is its own: a query all its rows, once, in order,
\* each with its LOB; a commit and an autocommitted change only what the
\* server has performed (process_query_reply, execute_immediate, commit).
\* The exception: a LOB query on z/OS returns a prefix of its rows, with LOBs of
\* its own, but not always the right ones.  The cursor is closed once the rows
\* fetched so far have their LOBs, and the payloads of a second fetch are applied
\* from the first on to rows that have theirs.
OwnAnswers ==
    Sound =>
    CASE answer.kind \in {"change", "commit"} -> answer.op \in performed
      [] answer.kind = "lob" /\ Zos ->
           /\ Len(answer.rows) <= total
           /\ \A i \in DOMAIN answer.rows : /\ answer.rows[i].id = <<answer.op, i>>
                                           /\ answer.rows[i].lob[1] = answer.op
      [] OTHER -> answer.rows = Own(answer.op, answer.kind)

\* A client that is between operations has left no cursor open at the server,
\* except a bounded z/OS result whose rows stand for its end.
NoOrphanCursor ==
    connected /\ ~Busy /\ causes = {} =>
        cursor = NoCursor \/ cursor.kind = "limited"

\* An operation ends: with query_timeout whatever the server does, without it
\* if the server answers; a commit has no timeout of its own (Transaction).
OperationEnds ==
    (Busy /\ (timed => call.kind \notin {"commit", "handle"})) ~> ~Busy
=============================================================================
