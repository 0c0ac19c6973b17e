------------------------------ MODULE LobChunks ------------------------------
(***************************************************************************)
(* Character LOBs of Db2 for z/OS rebuilt from SUBSTR queries              *)
(* (connection.rs).  A base query reads the scalars and the lengths of the *)
(* LOBs, and queries over a grid of chunks and row numbers read the text.  *)
(* When FETCH FIRST bounds the rows, one query reads the lengths and the   *)
(* first chunks together.  Each query is a statement of its own: other     *)
(* transactions may change the table in between, and a query that finds    *)
(* its session lost is repeated on a new one.                              *)
(*                                                                         *)
(* A character is named by its row, its column, the value it is part of    *)
(* and its place there.                                                    *)
(***************************************************************************)
EXTENDS Integers, Sequences, SequencesExt, FiniteSets, FiniteSetsExt

CONSTANTS
    LobCols,       \* LOB columns, in order: a sequence of "clob" and "dbclob"
    ChunkLimit,    \* ZOS_CLOB_CHUNK_LIMIT
    WindowTarget,  \* ZOS_LOB_CHUNK_WINDOW_TARGET, ZOS_LOB_ROW_WINDOW_TARGET: the lesser
    ReplyTarget,   \* ZOS_LOB_BATCH_REPLY_TARGET
    BatchLimit,    \* ZOS_LOB_ROW_BATCH_LIMIT
    Orders,        \* whether the select may have an ORDER BY
    RowLimits,     \* FETCH FIRST; 0 stands for none
    MaxLob,        \* bound on the length of a LOB
    MaxTableRows,  \* bound on the rows of the table
    MaxChanges,    \* bound on the changes of other transactions
    MaxAttempts    \* 4: repetitions of a query after a lost session

ASSUME LobChunksAssumption ==
    /\ {ChunkLimit, WindowTarget, ReplyTarget, BatchLimit} \subseteq Nat \ {0}
    /\ ChunkLimit % 2 = 0
    /\ LobCols \in Seq({"clob", "dbclob"}) /\ LobCols # <<>>
    /\ Orders \subseteq BOOLEAN /\ RowLimits \subseteq Nat
    /\ {MaxLob, MaxTableRows, MaxChanges, MaxAttempts} \subseteq Nat

VARIABLES
    table,      \* rows in scan order: [id, lobs]
    changes,    \* changes so far
    stale,      \* whether the table changed since the lengths were read
    chosen,     \* the select: [ordered, limit]
    step,       \* why the select came here ("prepared", "decode error" or "session
                \* error"), then "catalog" or "last resort", "read", "chunks", and
                \* "done", "native" (no LOBs to rebuild) or "failed"
    single,     \* whether the first query read chunks as well
    out,        \* output_values: [id, text] per row
    lengths,    \* lob_lengths_by_column, by row
    specs,      \* chunk specs still to be read
    rowStart,   \* the next row of the first window of them
    attempts,   \* repetitions of the current query
    expected    \* the rows as they were when the lengths were read

chunkVars == <<table, changes, stale, chosen, step, single, out, lengths, specs, rowStart,
               attempts, expected>>

ColIds == DOMAIN LobCols
Missing == -1                                        \* NULL
Pad == <<>>                                          \* what SUBSTR pads with
Lob0 == [version : {0}, len : Missing..MaxLob]
-----------------------------------------------------------------------------
(* Chunks *)

Limit(c) == IF LobCols[c] = "dbclob" THEN ChunkLimit \div 2 ELSE ChunkLimit
Bytes(spec) == IF LobCols[spec.col] = "dbclob" THEN 2 * spec.len ELSE spec.len

\* zos_lob_chunk_specs.
ChunksOf(c, max) ==
    [k \in 1..((max + Limit(c) - 1) \div Limit(c)) |->
       LET start == (k - 1) * Limit(c) + 1
       IN  [col |-> c, n |-> k, start |-> start,
            len |-> IF max - start + 1 < Limit(c) THEN max - start + 1 ELSE Limit(c)]]

\* zos_lob_combined_chunk_specs: up to the longest LOB of each column.
CombinedSpecs(lens) ==
    FlattenSeq([c \in ColIds |->
      ChunksOf(c, Max({0} \cup {lens[r][c] : r \in DOMAIN lens}))])

Total(list) ==
    LET sum[k \in 0..Len(list)] == IF k = 0 THEN 0 ELSE sum[k - 1] + Bytes(list[k])
    IN  sum[Len(list)]

\* How many of the chunks go into one query: one at least, and what the window
\* takes (zos_lob_chunk_window_can_accept).
WindowLength(list) ==
    Max({1} \cup {n \in DOMAIN list : Total(SubSeq(list, 1, n)) <= WindowTarget})
Window(list) == SubSeq(list, 1, WindowLength(list))

\* zos_lob_initial_chunk_specs: chunk by chunk, column by column.
InitialSpecs ==
    Window([k \in 1..((WindowTarget + 1) * Len(LobCols)) |->
      LET c == ((k - 1) % Len(LobCols)) + 1
          n == ((k - 1) \div Len(LobCols)) + 1
      IN  [col |-> c, n |-> n, start |-> (n - 1) * Limit(c) + 1, len |-> Limit(c)]])

\* zos_lob_combined_rows_per_batch.
RowsPerBatch(list) ==
    Min({BatchLimit, Max({1, ReplyTarget \div Max({1, Total(list)})})})

\* zos_lob_spec_window_applies_to_rows.
Applies(list, first, last) ==
    \E spec \in ToSet(list), r \in first..last : lengths[r][spec.col] >= spec.start
-----------------------------------------------------------------------------
(* What the server answers *)

\* The rows of the select, in its order, each with its number, which
\* ROW_NUMBER() OVER() gives in scan order.
Numbered ==
    LET all == [i \in DOMAIN table |-> [rn |-> i, row |-> table[i]]]
        sorted == IF chosen.ordered THEN Reverse(all) ELSE all
    IN  IF chosen.limit > 0 /\ chosen.limit < Len(sorted)
        THEN SubSeq(sorted, 1, chosen.limit) ELSE sorted

\* build_zos_lob_chunk_projection: SUBSTR, padded, or nothing behind the end.
Substr(row, spec) ==
    LET lob == row.lobs[spec.col]
    IN  IF lob.len < spec.start THEN <<>>
        ELSE [i \in 1..spec.len |->
                IF spec.start + i - 1 <= lob.len
                THEN <<row.id, spec.col, lob.version, spec.start + i - 1>> ELSE Pad]

Text(row, c) ==
    IF row.lobs[c].len = Missing THEN Missing
    ELSE [i \in 1..row.lobs[c].len |-> <<row.id, c, row.lobs[c].version, i>>]
-----------------------------------------------------------------------------
(* What the driver makes of it *)

Untrimmed(chunk, spec, len) == chunk         \* mutant: the padding stays

\* append_zos_lob_chunk_to_value, trim_zos_lob_chunk_to_remaining.
Trim(chunk, spec, len) ==
    SubSeq(chunk, 1, Min({Len(chunk), len - (spec.start - 1)}))

RowAt(answer, r) ==                          \* mutant: rows are told by their position
    {a \in answer : Cardinality({b \in answer : b.rn <= a.rn}) = r}

\* DB2NODE_RN says which row of the result a row of the answer is for.
RowOf(answer, r) == {a \in answer : a.rn = r}

\* The text of a LOB of this length after each of the chunks, none to all.
Reads(text, c, len, list, row) ==
    LET read[k \in 0..Len(list)] ==
          IF k = 0 THEN text
          ELSE IF list[k].col # c \/ list[k].start > len THEN read[k - 1]
          ELSE read[k - 1] \o Trim(Substr(row, list[k]), list[k], len)
    IN  read

\* append_zos_lob_combined_chunk_grid_rows.
Appended(rows, lens, list, answer) ==
    [r \in DOMAIN rows |->
      LET got == RowOf(answer, r)
      IN  IF got = {} THEN rows[r]
          ELSE [rows[r] EXCEPT !.text = [c \in ColIds |->
                  Reads(rows[r].text[c], c, lens[r][c], list,
                        (CHOOSE a \in got : TRUE).row)[Len(list)]]]]

\* The chunks that are not among those read already.
Unread(list, read) ==
    LET left[k \in 0..Len(list)] ==
          IF k = 0 THEN <<>>
          ELSE IF list[k] \in ToSet(read) THEN left[k - 1]
          ELSE Append(left[k - 1], list[k])
    IN  left[Len(list)]

\* A row without the text of its LOBs.
Empty(row) ==
    [id |-> row.id,
     text |-> [c \in ColIds |-> IF row.lobs[c].len = Missing THEN Missing ELSE <<>>]]

\* LENGTH of every LOB; a NULL has none, and no chunk begins before it.
Lengths(answer) == [r \in DOMAIN answer |-> [c \in ColIds |-> answer[r].row.lobs[c].len]]
-----------------------------------------------------------------------------
LobInit ==
    /\ \E n \in 0..MaxTableRows :
          table \in [1..n -> [id : 1..MaxTableRows, lobs : [ColIds -> Lob0]]]
    /\ \A i \in DOMAIN table : table[i].id = i
    /\ chosen \in [ordered : Orders, limit : RowLimits]
    /\ step \in {"prepared", "decode error", "session error"}
    /\ changes = 0 /\ stale = FALSE /\ single = FALSE
    /\ out = <<>> /\ lengths = <<>> /\ specs = <<>> /\ rowStart = 1
    /\ attempts = 0 /\ expected = <<>>

Progress == <<single, out, lengths, specs, rowStart, expected>>
Server == <<table, changes, stale, chosen>>

\* open_zos_select when SQL comes first, retry_zos_lob_chunking_after_decode_error
\* when the native fetch failed: the columns the prepare described, if the
\* select is simple and they have LOBs.
UsePrepared ==
    /\ step \in {"prepared", "decode error"}
    /\ step' = "read"
    /\ UNCHANGED <<Server, attempts, Progress>>

\* If not, and behind a session error, the catalog is asked.
AskCatalog ==
    /\ step \in {"prepared", "decode error", "session error"}
    /\ step' = IF step = "decode error" THEN "last resort" ELSE "catalog"
    /\ UNCHANGED <<Server, attempts, Progress>>

\* The metadata query names LOB columns of the select, or it does not: then the
\* select is left to the native path, or has failed there already.
CatalogAnswers ==
    /\ step \in {"catalog", "last resort"}
    /\ step' \in {"read", IF step = "catalog" THEN "native" ELSE "failed"}
    /\ attempts' = 0
    /\ UNCHANGED <<Server, Progress>>

\* execute_zos_select_lobs_bounded_single_pass.
SinglePass ==
    chosen.limit > 0 /\ chosen.limit <= RowsPerBatch(InitialSpecs)

ReadFirst ==
    /\ step = "read"
    /\ LET lens == Lengths(Numbered)
           rows == [i \in DOMAIN Numbered |-> Empty(Numbered[i].row)]
       IN  /\ lengths' = lens
           /\ out' = IF SinglePass THEN Appended(rows, lens, InitialSpecs, ToSet(Numbered))
                     ELSE rows
           /\ specs' = IF SinglePass THEN Unread(CombinedSpecs(lens), InitialSpecs)
                       ELSE CombinedSpecs(lens)
    /\ single' = SinglePass
    /\ expected' = [i \in DOMAIN Numbered |->
                      [id |-> Numbered[i].row.id,
                       text |-> [c \in ColIds |-> Text(Numbered[i].row, c)]]]
    /\ step' = "chunks" /\ rowStart' = 1 /\ attempts' = 0
    /\ UNCHANGED Server

\* fetch_zos_lob_combined_chunk_specs: the next window and batch of rows.
Batch == Window(specs)
LastRow == Min({Len(out), rowStart + RowsPerBatch(Batch) - 1})

NextBatch ==
    IF LastRow < Len(out) THEN rowStart' = LastRow + 1 /\ UNCHANGED specs
    ELSE rowStart' = 1 /\ specs' = SubSeq(specs, Len(Batch) + 1, Len(specs))

SkipBatch ==
    /\ step = "chunks" /\ specs # <<>>
    /\ ~Applies(Batch, rowStart, LastRow)
    /\ NextBatch
    /\ UNCHANGED <<Server, step, attempts, single, out, lengths, expected>>

ReadChunks ==
    /\ step = "chunks" /\ specs # <<>>
    /\ Applies(Batch, rowStart, LastRow)
    /\ out' = Appended(out, lengths, Batch,
                       {a \in ToSet(Numbered) : a.rn \in rowStart..LastRow})
    /\ NextBatch
    /\ attempts' = 0
    /\ UNCHANGED <<Server, step, single, lengths, expected>>

Return ==
    /\ step = "chunks" /\ specs = <<>>
    /\ step' = "done"
    /\ UNCHANGED <<Server, attempts, Progress>>

\* execute_zos_lob_internal_query: a session that was lost is opened again and
\* the query repeated; a timeout, or one failure too many, ends the select.
QueryFails ==
    /\ step \in {"catalog", "last resort", "read"} \/ (step = "chunks" /\ specs # <<>>)
    /\ \/ attempts < MaxAttempts /\ attempts' = attempts + 1 /\ UNCHANGED step
       \/ step' = "failed" /\ UNCHANGED attempts
    /\ UNCHANGED <<Server, Progress>>

\* Another transaction updates a LOB, deletes a row, or inserts one in front.
Change ==
    /\ step \in {"read", "chunks"} /\ changes < MaxChanges
    /\ changes' = changes + 1
    /\ \/ \E i \in DOMAIN table, c \in ColIds, n \in {0, MaxLob} :
             table' = [table EXCEPT ![i].lobs[c] = [version |-> changes', len |-> n]]
       \/ \E i \in DOMAIN table : table' = RemoveAt(table, i)
       \/ Len(table) < MaxTableRows
          /\ table' = <<[id |-> MaxTableRows + changes',
                         lobs |-> [c \in ColIds |-> [version |-> 0, len |-> MaxLob]]]>> \o table
    /\ stale' = (step = "chunks")
    /\ UNCHANGED <<chosen, step, attempts, Progress>>

LobNext ==
    \/ UsePrepared \/ AskCatalog \/ CatalogAnswers \/ ReadFirst
    \/ SkipBatch \/ ReadChunks \/ Return \/ QueryFails \/ Change

LobSpec == LobInit /\ [][LobNext]_chunkVars
-----------------------------------------------------------------------------
\* A select that returns has rebuilt every LOB of its rows as it is stored
\* (src/README.md: "The driver rebuilds CLOB/LOB values through generated SUBSTR
\* queries").
LobsAsStored == step = "done" /\ ~stale => out = expected

\* The chunk that was read first and is read again, because the lengths have made
\* it shorter since (execute_zos_select_lobs_bounded_single_pass).
ReadTwice ==
    /\ single
    /\ \E spec \in ToSet(CombinedSpecs(lengths)) \ ToSet(InitialSpecs) :
          \E first \in ToSet(InitialSpecs) : <<first.col, first.n>> = <<spec.col, spec.n>>

\* Whatever the lengths, the windows and the batches, and however often a query
\* is repeated, the LOBs of the rows are rebuilt as they were stored.  The
\* exceptions: an ORDER BY, after which row numbers are not positions; a table
\* that changed between two queries; a chunk read twice.
LobsRebuilt == step = "done" /\ ~stale /\ ~chosen.ordered /\ ~ReadTwice => out = expected

\* Where the table changed, what is returned is still the rows of the first
\* query, and no LOB is longer than it was then, or has padding in it that was
\* not stored.  (ReadTwice again excepted.)
NothingAdded ==
    step = "done" /\ ~ReadTwice =>
      /\ [r \in DOMAIN out |-> out[r].id] = [r \in DOMAIN expected |-> expected[r].id]
      /\ \A r \in DOMAIN out, c \in ColIds :
            lengths[r][c] # Missing => Len(out[r].text[c]) <= lengths[r][c]
=============================================================================
