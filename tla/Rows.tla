--------------------------------- MODULE Rows ---------------------------------
(***************************************************************************)
(* The rows of a query (fdoca.rs).  QRYDSC describes the columns, QRYDTA   *)
(* carries rows end to end, and a block may end anywhere: inside a value,  *)
(* inside the SQLCA in front of a row, inside the SQLCA that ends the      *)
(* query.  What is not a whole row waits for the next block.               *)
(*                                                                         *)
(* The triplets of QRYDSC are records; rows are sequences of bytes.  What  *)
(* a value means (a number, a text) is left out: a value is its bytes, and *)
(* whether they stand for external data.                                   *)
(***************************************************************************)
EXTENDS Integers, Sequences, SequencesExt, TLC

CONSTANTS
    Shapes,      \* results: how they are described, their columns and envelope
    ShortFrom,   \* 1024: a declared LOB width that may hold a short reference
    ShortLeast,  \* 16: the least length of such a reference
    MaxRows,     \* bound on the rows of a result
    Blocks       \* lengths of the blocks

\* A short reference is told from a value by its length alone.
ASSUME RowsAssumption == {ShortFrom, ShortLeast, MaxRows} \cup Blocks \subseteq Nat \ {0}

VARIABLES
    shape,     \* the result
    sent,      \* rows the server wrote
    reply,     \* the bytes they are in
    finish,    \* "open", or how the server ended the stream: "end" or "error"
    read,      \* how many bytes were delivered
    tail,      \* pending_row_bytes
    rows,      \* rows decoded
    outcome    \* "open", "end" (end_of_query) or "error"

rowVars == <<shape, sent, reply, finish, read, tail, rows, outcome>>

Repeat(byte, n) == [i \in 1..n |-> byte]
Take(bytes, n) == SubSeq(bytes, 1, n)
From(bytes, offset) == SubSeq(bytes, offset + 1, Len(bytes))
Number(bytes) == FoldLeft(LAMBDA n, b : n * 256 + b, 0, bytes)
HighBitOf == 32768
-----------------------------------------------------------------------------
(* QRYDSC: the columns *)

\* Db2Type::from_drda_type.
TypeOfCode ==
    2 :> "Integer" @@ 4 :> "SmallInt" @@ 10 :> "Real" @@ 12 :> "Decimal" @@ 14 :> "Double"
    @@ 22 :> "BigInt" @@ 24 :> "BlobLocator" @@ 26 :> "ClobLocator" @@ 28 :> "DbClobLocator"
    @@ 30 :> "RowId" @@ 32 :> "Date" @@ 34 :> "Time" @@ 36 :> "Timestamp" @@ 48 :> "Char"
    @@ 50 :> "VarChar" @@ 52 :> "LongVarChar" @@ 60 :> "Graphic" @@ 62 :> "VarGraphic"
    @@ 96 :> "Binary" @@ 98 :> "VarBinary" @@ 186 :> "DecFloat" @@ 190 :> "Boolean"
    @@ 200 :> "Blob" @@ 202 :> "Clob" @@ 204 :> "DbClob" @@ 220 :> "Xml"

Named(code) ==
    LET base == code - (code % 2)
    IN  CASE code = 80 -> "LobBytes"
          [] code = 81 -> "LobChar"
          [] OTHER -> IF base \in DOMAIN TypeOfCode THEN TypeOfCode[base] ELSE "VarChar"

Nullable(code) == code \notin {80, 81} /\ code % 2 = 1

\* declared_lob_reference_length: -1 when there is none.
ReferenceWidth(code, length) ==
    IF code \in 200..207 /\ length >= HighBitOf THEN length - HighBitOf ELSE -1

Column(type, code, length, ccsid, little) ==
    [type |-> type, null |-> Nullable(code), len |-> length, ccsid |-> ccsid,
     little |-> little, ref |-> ReferenceWidth(code, length)]

\* parse_sda_triplet.  The length of a DECIMAL is its precision here.
Scalar(sda) ==
    LET type == Named(sda.code)
        bytes == IF sda.ccsid # 0 THEN type
                 ELSE CASE type = "Char" -> "Binary"
                        [] type = "VarChar" /\ sda.code \in {50, 51} -> "VarBinary"
                        [] OTHER -> type
    IN  Column(bytes, sda.code, sda.len, sda.ccsid, TRUE)

\* compact_gda_descriptor_type: default LIDs are not the scalar codes.
Compact(ref) ==
    LET base == ref.code - (ref.code % 2)
        type == CASE base = 14 -> "Decimal"
                  [] base = 10 -> "Double"
                  [] base = 12 -> "Real"
                  [] base = 54 -> "Graphic"
                  [] base \in {56, 58} -> "VarGraphic"
                  [] base = 206 -> "Clob"
                  [] OTHER -> Named(ref.code)
    IN  [Column(type, ref.code, ref.len, 0, FALSE) EXCEPT !.null = ref.code % 2 = 1]

\* parse_compact_gda_triplet: an identifier that the environment declares, or
\* a default one.
GroupColumn(environment, ref) ==
    LET declared == SelectSeq(environment, LAMBDA e : e.lid = ref.code)
    IN  IF declared = <<>> THEN Compact(ref)
        ELSE Column(Named(declared[1].code), declared[1].code, ref.len, declared[1].ccsid, FALSE)

\* parse_qrydsc: an MDD makes the SDA behind it part of the environment; in a
\* group the columns follow.
Described(triplets) ==
    FoldLeft(LAMBDA d, t :
        CASE t.kind = "MDD" -> [d EXCEPT !.mdd = t.code]
          [] t.kind = "SDA" /\ d.mdd # 0 ->
               [d EXCEPT !.mdd = 0,
                         !.env = Append(@, [lid |-> t.code, code |-> d.mdd, ccsid |-> t.ccsid])]
          [] t.kind = "SDA" /\ d.mdd = 0 -> [d EXCEPT !.cols = Append(@, Scalar(t))]
          [] t.kind = "GDA" ->
               [d EXCEPT !.mdd = 0,
                         !.cols = @ \o [i \in DOMAIN t.refs |-> GroupColumn(d.env, t.refs[i])]]
          [] t.kind = "RLO" -> [d EXCEPT !.mdd = 0],
      [mdd |-> 0, env |-> <<>>, cols |-> <<>>], triplets).cols

\* The descriptions the servers send: an SDA per column (LUW); a group of
\* default identifiers, or of identifiers the environment declares (z/OS).
Lid == 112
Qrydsc(s) ==
    CASE s.style = "sda" ->
           [i \in DOMAIN s.cols |->
              [kind |-> "SDA", code |-> s.cols[i].code, len |-> s.cols[i].len,
               ccsid |-> s.cols[i].ccsid]]
      [] s.style = "compact" -> <<[kind |-> "GDA", refs |-> s.cols], [kind |-> "RLO"]>>
      [] s.style = "declared" ->
           FlattenSeq([i \in DOMAIN s.cols |->
             <<[kind |-> "MDD", code |-> s.cols[i].code],
               [kind |-> "SDA", code |-> Lid + i, len |-> 0, ccsid |-> s.cols[i].ccsid]>>])
           \o <<[kind |-> "MDD", code |-> 1],
                [kind |-> "GDA", refs |-> [i \in DOMAIN s.cols |->
                                             [code |-> Lid + i, len |-> s.cols[i].len]]]>>

Columns == Described(Qrydsc(shape))
-----------------------------------------------------------------------------
(* QRYDTA: one value *)

Lobs == {"Blob", "Clob", "DbClob", "Xml"}
Locators == {"BlobLocator", "ClobLocator", "DbClobLocator"}

\* graphic_length_is_character_count.
Wide(c) == c.ccsid = 1200 /\ c.little

\* decode_column_value: the width of a value of fixed length.
FixedWidth(c) ==
    CASE c.type = "SmallInt" -> 2
      [] c.type \in {"Integer", "Real"} \cup Locators -> 4
      [] c.type \in {"BigInt", "Double", "Time"} -> 8
      [] c.type = "Date" -> 10
      [] c.type = "DecFloat" -> IF c.len > 8 THEN 16 ELSE 8
      [] c.type = "Decimal" -> (c.len + 2) \div 2
      [] c.type \in {"Char", "Binary", "RowId"} -> c.len
      [] c.type = "Graphic" -> IF Wide(c) THEN 2 * c.len ELSE c.len
      [] c.type = "Timestamp" -> IF c.len > 0 THEN c.len ELSE 26
      [] c.type = "Boolean" -> IF c.len > 0 THEN c.len ELSE 1
      [] OTHER -> -1

Partial == [used |-> -1]                                     \* BufferTooShort
Val(external, bytes) == [ext |-> external, bytes |-> bytes]
Null == Val(FALSE, <<-1>>)
Decoded(value, used) == [used |-> used, value |-> value]

IsZero(bytes) == \A i \in DOMAIN bytes : bytes[i] = 0
LongReference(bytes) == Len(bytes) >= 9 /\ bytes[1] = 2      \* externalized_lob_reference_len
Reference(bytes) ==
    IF IsZero(bytes) \/ (LongReference(bytes) /\ IsZero(From(bytes, 1)))
    THEN Val(FALSE, <<>>) ELSE Val(TRUE, bytes)

Fixed(b, width, external) ==
    IF Len(b) < width THEN Partial ELSE Decoded(Val(external, Take(b, width)), width)

Varying(b, prefix, unit) ==
    LET total == prefix + unit * Number(Take(b, prefix))
    IN  IF Len(b) < prefix \/ Len(b) < total THEN Partial
        ELSE Decoded(Val(FALSE, From(Take(b, total), prefix)), total)

\* decode_externalized_lob_header.
ExternalHeader(b, length) ==
    LET own == Len(b) >= 2 /\ Number(Take(b, 2)) >= HighBitOf
        start == IF own THEN 2 ELSE 0
        total == IF own THEN 2 + Number(Take(b, 2)) - HighBitOf ELSE length - HighBitOf
        header == From(Take(b, total), start)
    IN  IF Len(b) < total THEN Partial
        ELSE IF LongReference(header) /\ IsZero(SubSeq(header, 2, 9))
        THEN Decoded(Val(FALSE, <<>>), total)
        ELSE Decoded(Val(TRUE, header), total)

Lob(c, b) ==
    IF c.ref >= 0
    THEN IF Len(b) < c.ref THEN Partial ELSE Decoded(Reference(Take(b, c.ref)), c.ref)
    ELSE IF Len(b) < 4 THEN Partial
    ELSE IF LongReference(b)
    THEN Decoded(IF IsZero(SubSeq(b, 2, 9)) THEN Val(FALSE, <<>>) ELSE Val(TRUE, Take(b, 9)), 9)
    ELSE IF c.len = 0 /\ c.type # "Xml" THEN Decoded(Val(TRUE, Take(b, 4)), 4)
    ELSE Varying(b, 4, 1)

\* LobBytes, LobChar: what is there may be a short reference.
Declared(c, b) ==
    LET width == c.len % HighBitOf
    IN  IF width >= ShortFrom /\ Len(b) \in ShortLeast..(width - 1)
        THEN Decoded(Val(TRUE, b), Len(b)) ELSE Fixed(b, width, FALSE)

DecodeValue(c, b) ==
    CASE c.type \in Lobs -> Lob(c, b)
      [] c.type \in {"LobBytes", "LobChar"} -> Declared(c, b)
      [] c.type \in {"VarChar", "VarGraphic"} /\ c.len >= HighBitOf -> ExternalHeader(b, c.len)
      [] c.type = "VarGraphic" /\ c.len < HighBitOf -> Varying(b, 2, IF Wide(c) THEN 2 ELSE 1)
      [] c.type = "VarChar" /\ c.len < HighBitOf -> Varying(b, 2, 1)
      [] c.type \in {"LongVarChar", "VarBinary"} -> Varying(b, 2, 1)
      [] OTHER -> Fixed(b, FixedWidth(c), c.type \in Locators)
-----------------------------------------------------------------------------
(* QRYDTA: rows, and what is left *)

Behind(n, got) == IF got.used < 0 THEN got ELSE [got EXCEPT !.used = @ + n]
Extended(done, got) ==
    IF got.used < 0 THEN got
    ELSE [used |-> done.used + got.used, value |-> Append(done.value, got.value)]

\* A value behind its null indicator.
Indicated(c, b) ==
    CASE ~c.null -> DecodeValue(c, b)
      [] c.null /\ b = <<>> -> Partial
      [] c.null /\ b # <<>> ->
           IF b[1] = 255 THEN Decoded(Null, 1) ELSE Behind(1, DecodeValue(c, From(b, 1)))

\* decode_row_body.
Body(bytes) ==
    FoldLeft(LAMBDA done, c : IF done = Partial THEN Partial
                              ELSE Extended(done, Indicated(c, From(bytes, done.used))),
      [used |-> 0, value |-> <<>>], Columns)

\* consume_sqlca_group: how long it is, or -1 when it is not there yet.
SqlcaLength(b) ==
    LET skip(at, group) ==
          LET to == at + 2 + Number(SubSeq(b, at + 1, at + 2))
          IN  IF at < 0 \/ at + 2 > Len(b) \/ to > Len(b) THEN -1 ELSE to
    IN  CASE Len(b) < 19 -> -1
          [] Len(b) >= 19 /\ b[19] = 255 -> 19
          [] OTHER -> FoldLeft(skip, 19 + 24 + 11, <<1, 2, 3>>)

Negative(b) == b[5] >= 128                    \* the sign of SQLCODE, little endian
BadRow == [used |-> -2]

\* decode_qrydta_row: how long SQLCA, diagnostics and the SQLDTAGRP indicator are
\* in front of the values.
Envelope(b) ==
    LET at == 1 + (IF b[1] = 255 THEN 0 ELSE SqlcaLength(b))     \* SQLDIAGGRP
    IN  CASE b[1] \notin {0, 255} -> 0
          [] b[1] \in {0, 255} /\ at = 0 -> Partial.used
          [] b[1] = 0 /\ at > 0 /\ Negative(b) -> BadRow.used
          [] OTHER -> IF Len(b) < at THEN Partial.used
                      ELSE IF b[at] # 255 THEN BadRow.used
                      ELSE IF Len(b) = at THEN Partial.used
                      ELSE IF b[at + 1] \in {0, 255} THEN at + 1 ELSE BadRow.used

\* A null SQLDTAGRP is a row without values.
Row(b) ==
    LET n == Envelope(b)
    IN  IF n < 0 THEN [used |-> n]
        ELSE IF n > 0 /\ b[n] = 255 THEN Decoded(<<>>, n)
        ELSE Behind(n, Body(From(b, n)))

NoData == <<48, 50, 48, 48, 48>>              \* SQLSTATE 02000

\* is_query_end_sqlca.
IsQueryEnd(b) ==
    /\ Len(b) >= 10 /\ b[1] = 0
    /\ SubSeq(b, 6, 10) = NoData
    /\ SubSeq(b, 2, 5) \in {<<100, 0, 0, 0>>, <<0, 0, 0, 100>>}

PartialDropped(b, offset) == <<>>             \* mutant: what is not a whole row is gone
\* find_partial_row_start: a row found short is short where it was found, so
\* the search before it never runs.
PartialRow(b, offset) == From(b, offset)

Stop(rest, failed) == [rows |-> <<>>, tail |-> rest, failed |-> failed]

\* decode_rows_from_buffer: the row at an offset, and those behind it.
Continued(row, b, offset, from) ==
    IF row = Partial THEN Stop(PartialRow(b, offset), FALSE)
    ELSE IF row = BadRow THEN Stop(<<>>, TRUE)
    ELSE [from[offset + row.used] EXCEPT
            !.rows = (IF row.value = <<>> THEN <<>> ELSE <<row.value>>) \o @]

Decode(b) ==
    LET from[offset \in 0..Len(b)] ==
          IF offset = Len(b) \/ IsQueryEnd(From(b, offset)) THEN Stop(From(b, offset), FALSE)
          ELSE Continued(Row(From(b, offset)), b, offset, from)
    IN  from[0]

\* take_query_end.
TakesEnd(b) == IsQueryEnd(b) /\ SubSeq(b, Len(b) - 1, Len(b)) = <<255, 255>>

\* is_ignorable_final_row_tail.
Ignorable(b) == b \in {<<0>>, <<255>>, <<255, 0>>}

\* decode_output_parameters: a marker in front of every parameter of a CALL.
Outputs(bytes) ==
    FoldLeft(LAMBDA done, c :
        LET b == From(bytes, done.used)
            got == DecodeValue(c, From(b, 1))
        IN  CASE b[1] = 128 -> [done EXCEPT !.used = @ + 1]
              [] b[1] = 255 -> [used |-> done.used + 1, value |-> Append(done.value, Null)]
              [] OTHER -> [used |-> done.used + 1 + got.used,
                           value |-> Append(done.value, got.value)],
      [used |-> 2, value |-> <<>>], Columns).value
-----------------------------------------------------------------------------
(* What the server writes *)

Pattern(n) == [i \in 1..n |-> IF i % 2 = 0 THEN 255 ELSE 0]
LobReference(n) == Take(<<2>> \o Repeat(7, n), n)

\* Values of a column and the bytes they have on the wire.
Encoded(c) ==
    LET w == FixedWidth(c)
        on(bytes, external, value) == [bytes |-> bytes, value |-> Val(external, value)]
    IN CASE c.type \in Lobs /\ c.ref >= 0 ->
              {on(Repeat(0, c.ref), FALSE, <<>>), on(LobReference(c.ref), TRUE, LobReference(c.ref))}
         [] c.type \in Lobs /\ c.ref < 0 /\ c.len = 0 /\ c.type # "Xml" -> {on(Repeat(1, 4), TRUE, Repeat(1, 4))}
         [] c.type \in Lobs /\ c.ref < 0 /\ (c.len # 0 \/ c.type = "Xml") ->
              {on(<<0, 0, 0, n>> \o Pattern(n), FALSE, Pattern(n)) : n \in {0, 3}}
                \cup {on(LobReference(9), TRUE, LobReference(9)), on(<<2>> \o Repeat(0, 8), FALSE, <<>>)}
         [] c.type \in {"VarChar", "VarGraphic"} /\ c.len >= HighBitOf ->
              {on(<<128, 9>> \o LobReference(9), TRUE, LobReference(9)),
               on(<<2>> \o Repeat(0, c.len - HighBitOf - 1), FALSE, <<>>)}
         [] c.type \in {"LobBytes", "LobChar"} ->
              {on(Pattern(c.len % HighBitOf), FALSE, Pattern(c.len % HighBitOf))}
         [] w >= 0 -> {on(Pattern(w), c.type \in Locators, Pattern(w)),
                       on(Repeat(1, w), c.type \in Locators, Repeat(1, w))}
         [] OTHER -> LET unit == IF c.type = "VarGraphic" /\ Wide(c) THEN 2 ELSE 1
                     IN  {on(<<0, n>> \o Pattern(n * unit), FALSE, Pattern(n * unit)) : n \in {0, 2}}

\* A null, or a value behind the indicator of its column.
Cells(c) ==
    {[v EXCEPT !.bytes = (IF c.null THEN <<0>> ELSE <<>>) \o @] : v \in Encoded(c)}
      \cup (IF c.null THEN {[bytes |-> <<255>>, value |-> Null]} ELSE {})

\* A parameter of a CALL: IN only, null, or with a value.
Parameters(c) ==
    {[v EXCEPT !.bytes = <<0>> \o @] : v \in Encoded(c)}
      \cup {[bytes |-> <<128>>, value |-> Null], [bytes |-> <<255>>, value |-> Null]}

\* One of the forms of every column.
FormsOfAll(Forms(_)) ==
    {f \in [DOMAIN Columns -> UNION {Forms(Columns[i]) : i \in DOMAIN Columns}] :
        \A i \in DOMAIN Columns : f[i] \in Forms(Columns[i])}

\* An SQLCA without its extension, and one with it.
Card(code, state) == <<0>> \o code \o state \o Repeat(1, 8) \o <<255>>
LongCard(code, state) ==
    Front(Card(code, state)) \o Repeat(0, 36) \o <<0, 1, 9, 0, 0, 0, 0>>

\* What stands in front of the rows of a result.
Heads ==
    "null" :> <<255, 0>> @@ "bare" :> <<>>
    @@ "warning" :> Card(<<1, 0, 0, 0>>, Repeat(49, 5)) \o <<255, 0>>
    @@ "message" :> LongCard(<<1, 0, 0, 0>>, Repeat(49, 5)) \o <<255, 0>>
Ends == {Card(<<100, 0, 0, 0>>, NoData), LongCard(<<0, 0, 0, 100>>, NoData)}
Errors == {Card(<<1, 0, 0, 255>>, Repeat(49, 5))}
-----------------------------------------------------------------------------
RowsInit ==
    /\ shape \in Shapes
    /\ sent = <<>> /\ reply = <<>> /\ finish = "open"
    /\ read = 0 /\ tail = <<>> /\ rows = <<>> /\ outcome = "open"

Writing == finish = "open" /\ read = 0
Client == <<read, tail, rows, outcome>>

\* A row, with a null SQLCA, with a warning, or without an envelope.
SendRow ==
    /\ Writing /\ Len(sent) < MaxRows
    /\ \E cells \in FormsOfAll(Cells) :
         LET bytes == FlattenSeq([i \in DOMAIN Columns |-> cells[i].bytes])
         IN  /\ shape.head = "bare" => bytes[1] \notin {0, 255}
             /\ reply' = reply \o Heads[shape.head] \o bytes
             /\ sent' = Append(sent, [i \in DOMAIN Columns |-> cells[i].value])
    /\ UNCHANGED <<shape, finish, Client>>

\* An SQLCA without a row behind it.
SendNoRow ==
    /\ Writing /\ reply = <<>>
    /\ reply' = <<255, 255>>
    /\ UNCHANGED <<shape, sent, finish, Client>>

\* SQLCODE +100 in the data, or an SQLCODE below 0.
SendEnd ==
    /\ Writing
    /\ finish' \in {"end", "error"}
    /\ \E card \in IF finish' = "end" THEN Ends ELSE Errors :
          reply' = reply \o card \o <<255, 255>>
    /\ UNCHANGED <<shape, sent, Client>>

Buffered(block) == tail \o block

\* One QRYDTA: decode_rows_with_extdta, then take_query_end.
Deliver(n) ==
    /\ outcome # "error" /\ read < Len(reply)
    /\ LET to == IF read + n < Len(reply) THEN read + n ELSE Len(reply)
       IN \E got \in {Decode(Buffered(SubSeq(reply, read + 1, to)))} :
           /\ read' = to
           /\ rows' = IF got.failed THEN rows ELSE rows \o got.rows
           /\ tail' = IF TakesEnd(got.tail) THEN <<>> ELSE got.tail
           /\ outcome' = CASE got.failed -> "error"
                           [] ~got.failed /\ TakesEnd(got.tail) -> "end"
                           [] OTHER -> outcome
    /\ UNCHANGED <<shape, sent, reply, finish>>

RowsNext == SendRow \/ SendNoRow \/ SendEnd \/ \E n \in Blocks : Deliver(n)

RowsSpec == RowsInit /\ [][RowsNext]_rowVars
-----------------------------------------------------------------------------
\* The rows decoded are the rows sent, value by value and reference by
\* reference, whichever way the server cut them into blocks; when all blocks
\* are in, no row is missing, nothing is left of the stream but a trailer that
\* process_query_reply ignores, and the query has ended, or failed, as the
\* server said.  (fdoca.rs: "preserving a trailing partial row across blocks".)
RowsSurvive ==
    /\ IsPrefix(rows, sent)
    /\ outcome = "error" => finish = "error"
    /\ read > 0 /\ read = Len(reply) =>
          /\ finish = "error" \/ (rows = sent /\ (tail = <<>> \/ Ignorable(tail)))
          /\ outcome = finish
=============================================================================
