-------------------------------- MODULE Params --------------------------------
(***************************************************************************)
(* The parameters of a statement, from the values JavaScript or Rust gives *)
(* to the values the server reads.  describe_input says what the server    *)
(* expects; build_sqldta declares each parameter in a triplet, puts the    *)
(* values end to end in FDODTA, and puts large LOBs in EXTDTA objects      *)
(* behind it.  Nothing but the triplets tells the server where a value     *)
(* ends: one that is not as long as declared shifts all that follow.       *)
(*                                                                         *)
(* A value is its kind and its lengths (bytes of UTF-8, units of UTF-16,   *)
(* digits); what is sent is a sequence of cells that say whose data they   *)
(* are.  Byte order and code pages are left out.                           *)
(***************************************************************************)
EXTENDS Integers, Sequences, SequencesExt

CONSTANTS
    Inputs,      \* what a server may expect: entries of the input SQLDA
    Given,       \* what a program may give
    MaxGiven,   \* bound on the parameters of a statement
    Entries,     \* MAX_ENTRIES_PER_TRIPLET
    MaxVarying,  \* MAX_VARYING_INPUT_LEN
    MaxPrefix    \* the longest length a prefix of a value can hold, 0xFFFF

Texts == {"Char", "VarChar", "Clob", "Date", "Time", "Timestamp", "Decimal", "RowId", "Xml"}
Integrals == {"SmallInt", "Integer", "BigInt"}
Numbers == Integrals \cup {"Real", "Double"}

ASSUME ParamsAssumption ==
    /\ Inputs \subseteq [sql : Nat, length : Nat, precision : Nat, scale : Nat,
                         ccsid : Nat, nullable : BOOLEAN]
    /\ {MaxGiven, Entries, MaxVarying, MaxPrefix} \subseteq Nat \ {0}
    /\ MaxVarying <= MaxPrefix

VARIABLES
    family,   \* "luw" or "zos"
    inputs,   \* the parameters that the server described; none if it described nothing
    given,    \* the values given, Db2Value
    message,  \* what build_sqldta made of them: the SQLDTA and its EXTDTA, or an error
    taken,    \* the server: the parameters it has read
    verdict,  \* "reading", "rejected" or "misread"
    at,       \* cells of FDODTA it has consumed
    lobsRead  \* EXTDTA objects it has consumed

paramVars == <<family, inputs, given, message, taken, verdict, at, lobsRead>>

Unbuilt == [built |-> "no"]
Unsent == [built |-> "error"]
-----------------------------------------------------------------------------
(* Values *)

NullValue == [kind |-> "Null", size |-> 0, units |-> 0, means |-> "nothing",
              whole |-> 0, frac |-> 0]
RefusedValue == [NullValue EXCEPT !.kind = "refused"]

\* The bytes of an integer with that many digits.
Need(digits) == IF digits <= 4 THEN 2 ELSE IF digits <= 9 THEN 4 ELSE 8

\* JsParameter and json_to_db2_value; what Rust gives is a Db2Value already.
FromJs(v) ==
    CASE v.kind \in {"undefined", "null"} -> NullValue
      [] v.kind = "boolean" -> [v EXCEPT !.kind = "Boolean"]
      [] v.kind \in {"string", "bigint"} -> [v EXCEPT !.kind = "VarChar"]
      [] v.kind = "date" ->
           [v EXCEPT !.kind = "VarChar", !.size = 23, !.units = 23, !.means = "nothing"]
      [] v.kind = "number" ->
           [v EXCEPT !.kind = IF v.frac > 0 \/ v.whole > 15 THEN "Double"
                              ELSE IF Need(v.whole) <= 4 THEN "Integer" ELSE "BigInt"]
      [] v.kind = "bytes" -> [v EXCEPT !.kind = "Binary"]
      [] v.kind \in {"object", "invalid date", "symbol"} -> RefusedValue
      [] OTHER -> v
-----------------------------------------------------------------------------
(* Descriptors *)

\* db2_type_from_sqlda, and compact_sqlda_db2_type for z/OS, where text without
\* a CCSID stays text.
TypeOfSql(i) ==
    LET bits == family = "luw" /\ i.ccsid = 0
    IN CASE i.sql = 384 -> "Date"
         [] i.sql = 388 -> "Time"
         [] i.sql = 392 -> "Timestamp"
         [] i.sql = 404 -> "Blob"
         [] i.sql = 408 -> "Clob"
         [] i.sql = 412 -> "DbClob"
         [] i.sql \in {448, 456} -> IF bits THEN "VarBinary" ELSE "VarChar"
         [] i.sql = 452 -> IF bits THEN "Binary" ELSE "Char"
         [] i.sql \in {464, 472} -> "VarGraphic"
         [] i.sql = 468 -> "Graphic"
         [] i.sql = 480 -> IF i.length >= 8 THEN "Double" ELSE "Real"
         [] i.sql \in {484, 488} -> "Decimal"
         [] i.sql = 492 -> "BigInt"
         [] i.sql = 496 -> "Integer"
         [] i.sql = 500 -> "SmallInt"
         [] i.sql = 904 -> "RowId"
         [] i.sql = 908 -> "VarBinary"
         [] i.sql = 912 -> "Binary"
         [] i.sql = 988 -> "Xml"
         [] i.sql = 996 -> "DecFloat"
         [] i.sql = 2436 -> "Boolean"
         [] OTHER -> "VarChar"

\* input_length_for.
InputLength(type, length, precision, scale) ==
    CASE type = "Decimal" -> precision * 256 + scale
      [] type = "DecFloat" -> IF length > 8 THEN 16 ELSE 8
      [] type \in {"Clob", "Xml", "Blob", "DbClob"} ->
           IF length = 0 THEN MaxVarying ELSE length
      [] type \in {"SmallInt", "Boolean"} -> 2
      [] type \in {"Integer", "Real"} -> 4
      [] type \in {"BigInt", "Double", "Time"} -> 8
      [] type = "Date" -> 10
      [] type = "Timestamp" -> 26
      [] OTHER -> length

\* input_drda_type_for, for a parameter that is not nullable.
Code(type) ==
    CASE type = "SmallInt" -> 4
      [] type = "Integer" -> 2
      [] type = "BigInt" -> 22
      [] type = "Real" -> 12
      [] type = "Double" -> 10
      [] type = "Decimal" -> 14
      [] type = "DecFloat" -> 186
      [] type = "Char" -> 48
      [] type \in {"VarChar", "Clob", "Xml"} -> 50
      [] type \in {"Binary", "RowId"} -> 38
      [] type \in {"VarBinary", "Blob"} -> 40
      [] type = "Date" -> 32
      [] type = "Time" -> 34
      [] type = "Timestamp" -> 36
      [] type = "Graphic" -> 54
      [] type \in {"VarGraphic", "DbClob"} -> 56
      [] type = "Boolean" -> 190

Descriptor(type, i, nullable) ==
    [type |-> type, code |-> Code(type), nullable |-> nullable, ccsid |-> i.ccsid,
     length |-> InputLength(type, i.length, i.precision, i.scale),
     precision |-> i.precision, scale |-> i.scale, external |-> FALSE]

\* externalize_luw_lob_input_descriptors.
Externalized(d) ==
    IF /\ family = "luw" /\ d.type \in {"Blob", "Clob", "DbClob", "Xml"}
       /\ d.length > MaxVarying \/ d.type = "Xml"
    THEN [d EXCEPT !.external = TRUE,
                   !.code = CASE d.type = "Blob" -> 200 [] d.type = "DbClob" -> 204 [] OTHER -> 206]
    ELSE d

\* parse_input_sqldard_descriptors: a LUW parameter is nullable whatever it says.
Expected(i) ==
    LET short == [i EXCEPT !.length = IF @ > MaxPrefix THEN MaxPrefix ELSE @]
    IN  Externalized(Descriptor(TypeOfSql(i), short, family = "luw" \/ i.nullable))

\* infer_parameter_descriptors, when nothing was described.
Inferred(v) ==
    LET type == IF v.kind = "Binary" THEN "VarBinary" ELSE v.kind
    IN  Descriptor(type, [length |-> IF type \in {"Char", "VarChar", "VarBinary", "RowId"} THEN v.size ELSE 0,
                          precision |-> 15, scale |-> 2, ccsid |-> 1208], TRUE)

\* build_sqldta: a text for a column of characters or of dates goes as VARCHAR.
AsText(v, d) ==
    IF /\ ~d.external /\ v.kind \in {"Char", "VarChar", "Clob"}
       /\ d.type \in {"Char", "VarChar", "Clob", "Xml", "Date", "Time", "Timestamp"}
    THEN [d EXCEPT !.type = "VarChar", !.ccsid = 1208, !.code = Code("VarChar")]
    ELSE d
-----------------------------------------------------------------------------
(* Encoding *)

Error == <<<<"error", 0>>>>
BytesOf(p, n) == [i \in 1..n |-> <<"data", p * 100 + i>>]
Prefixed(p, length, n) ==
    IF length > MaxPrefix THEN Error ELSE <<<<"length", length>>>> \o BytesOf(p, n)

\* encode_fixed_string, encode_fixed_graphic, encode_fixed_binary.
Fitted(p, n, width) ==
    IF n >= width THEN BytesOf(p, width)
    ELSE BytesOf(p, n) \o [i \in 1..(width - n) |-> <<"pad", 0>>]

\* encode_text_bytes: EBCDIC has a byte for each character.
TextSize(v, d) == IF d.ccsid \in {37, 500} THEN v.units ELSE v.size

CountsCharacters(d) == d.ccsid = 1200    \* graphic_length_is_character_count
IsNumber(v) == v.kind \in Numbers \/ (v.kind \in {"Decimal", "Char", "VarChar", "Clob"} /\ v.means = "number")
IsIntegral(v) ==
    \/ v.kind \in Integrals
    \/ v.kind \in {"Char", "VarChar"} /\ v.means = "number" /\ v.frac = 0 /\ v.whole <= 18
IsTruth(v) ==
    \/ v.kind \in {"Boolean"} \cup Integrals
    \/ v.kind \in {"Char", "VarChar"} /\ v.means = "truth"

\* encode_parameter_value.
Encode(p, v, d) ==
    LET When(possible, cells) == IF possible THEN cells ELSE Error
        text == v.kind \in Texts
        binary == v.kind \in {"Binary", "Blob"}
    IN CASE d.type = "SmallInt" -> When(IsIntegral(v) /\ Need(v.whole) <= 2, BytesOf(p, 2))
         [] d.type = "Integer" -> When(IsIntegral(v) /\ Need(v.whole) <= 4, BytesOf(p, 4))
         [] d.type = "BigInt" -> When(IsIntegral(v), BytesOf(p, 8))
         [] d.type = "Real" -> When(v.kind \in Numbers, BytesOf(p, 4))
         [] d.type = "Double" -> When(v.kind \in Numbers, BytesOf(p, 8))
         [] d.type = "Decimal" ->
              When(/\ IsNumber(v) /\ d.precision \in 1..31 /\ d.scale <= d.precision
                 /\ v.whole <= d.precision - d.scale, BytesOf(p, (d.precision + 2) \div 2))
         [] d.type = "DecFloat" -> When(IsNumber(v), BytesOf(p, d.length))
         [] d.type \in {"Char", "RowId"} -> When(text, Fitted(p, TextSize(v, d), d.length))
         [] d.type \in {"VarChar", "Clob", "Xml"} ->
              When(text, Prefixed(p, TextSize(v, d), TextSize(v, d)))
         [] d.type = "Graphic" ->
              When(text, Fitted(p, 2 * v.units, IF CountsCharacters(d) THEN 2 * d.length ELSE d.length))
         [] d.type \in {"VarGraphic", "DbClob"} ->
              When(text, Prefixed(p, IF CountsCharacters(d) THEN v.units ELSE 2 * v.units, 2 * v.units))
         [] d.type = "Binary" -> When(binary, Fitted(p, v.size, d.length))
         [] d.type \in {"VarBinary", "Blob"} -> When(binary, Prefixed(p, v.size, v.size))
         [] d.type = "Date" -> When(text /\ TextSize(v, d) = 10, BytesOf(p, 10))
         [] d.type = "Time" -> When(text /\ TextSize(v, d) = 8, BytesOf(p, 8))
         [] d.type = "Timestamp" ->
              When(text /\ TextSize(v, d) \in {26, 29}, BytesOf(p, TextSize(v, d)))
         [] d.type = "Boolean" -> When(IsTruth(v), BytesOf(p, 2))

\* encode_lob_parameter_value: how many bytes the LOB has, and the length declared.
LobSize(v, d) ==
    CASE d.type = "Blob" -> IF v.kind \in {"Binary", "Blob"} THEN v.size ELSE -1
      [] d.type = "DbClob" -> IF v.kind \in Texts THEN 2 * v.units ELSE -1
      [] OTHER -> IF v.kind \in Texts THEN v.size ELSE -1
DeclaredSize(n, d) == IF d.type = "DbClob" /\ CountsCharacters(d) THEN n \div 2 ELSE n

EmptyLobsToo(p, n, d) ==                 \* mutant: an EXTDTA object for an empty LOB
    <<(IF d.nullable THEN <<<<"null", 0>>>> ELSE <<>>) \o BytesOf(p, n)>>

\* The EXTDTA object of a LOB: an empty one has none.
LobObject(p, n, d) ==
    IF n = 0 THEN <<>>
    ELSE <<(IF d.nullable THEN <<<<"null", 0>>>> ELSE <<>>) \o BytesOf(p, n)>>

\* What build_sqldta_row_data adds for a parameter: [data, extdta].
Part(p, v, d) ==
    LET indicator == IF d.nullable THEN <<<<"null", 0>>>> ELSE <<>>
        n == LobSize(v, d)
        cells == Encode(p, v, d)
    IN IF v.kind = "Null"
       THEN [data |-> IF d.nullable THEN <<<<"null", 255>>>> ELSE Error, extdta |-> <<>>]
       ELSE IF d.external
       THEN [data |-> IF n < 0 THEN Error
                      ELSE indicator \o <<<<"status", 2>>, <<"length", DeclaredSize(n, d)>>>>,
             extdta |-> IF n < 0 THEN <<>> ELSE LobObject(p, n, d)]
       ELSE [data |-> IF cells = Error THEN Error ELSE indicator \o cells, extdta |-> <<>>]

\* build_sqldta_fdoca_prefix: a GDA triplet, then CPT triplets.
Triplets(ds) ==
    LET entry(d) == [code |-> IF d.nullable THEN d.code + 1 ELSE d.code,
                     length |-> IF d.external THEN 32768 + 9 ELSE d.length]
        last(k) == IF k * Entries < Len(ds) THEN k * Entries ELSE Len(ds)
    IN IF ds = <<>> THEN <<[id |-> "GDA", entries |-> <<>>]>>
       ELSE [k \in 1..((Len(ds) + Entries - 1) \div Entries) |->
               [id |-> IF k = 1 THEN "GDA" ELSE "CPT",
                entries |-> [i \in 1..(last(k) - (k - 1) * Entries) |->
                               entry(ds[(k - 1) * Entries + i])]]]

\* build_sqldta.
Built ==
    LET described == IF inputs # <<>> THEN [p \in DOMAIN inputs |-> Expected(inputs[p])]
                     ELSE [p \in DOMAIN given |-> Inferred(given[p])]
        ds == [p \in DOMAIN given |-> AsText(given[p], described[p])]
        parts == [p \in DOMAIN given |-> Part(p, given[p], ds[p])]
    IN IF inputs = <<>> /\ \E p \in DOMAIN given : given[p].kind = "Null" THEN Unsent
       ELSE IF inputs # <<>> /\ Len(inputs) # Len(given) THEN Unsent
       ELSE IF \E p \in DOMAIN given : parts[p].data = Error THEN Unsent
       ELSE [built |-> "yes", triplets |-> Triplets(ds),
             fdodta |-> FlattenSeq([p \in DOMAIN given |-> parts[p].data]),
             extdta |-> FlattenSeq([p \in DOMAIN given |-> parts[p].extdta])]
-----------------------------------------------------------------------------
(* The server *)

\* A parameter that was described has a CCSID the server knows.
Characters(p) == inputs # <<>> /\ inputs[p].ccsid = 1200

Width(e, p) ==
    CASE e.code \div 2 = 7 -> (e.length \div 256 + 2) \div 2                \* DECIMAL
      [] e.code \div 2 = 27 -> IF Characters(p) THEN 2 * e.length ELSE e.length
      [] OTHER -> e.length

\* What it reads of cells and objects for a parameter: the cells, and how many
\* cells and objects it took; or that it cannot, or will not.
ReadExternal(cells, objects, e, p) ==
    LET n == IF Characters(p) /\ e.code \div 2 = 102 THEN 2 * cells[2][2] ELSE cells[2][2]
        skip == IF e.code % 2 = 1 THEN 1 ELSE 0
    IN IF Len(cells) < 2 \/ cells[1] # <<"status", 2>> \/ cells[2][1] # "length"
       THEN [found |-> "misread"]
       ELSE IF n = 0 THEN [found |-> "value", cells |-> <<>>, used |-> 2, lobs |-> 0]
       ELSE IF objects = <<>> \/ Len(objects[1]) # n + skip THEN [found |-> "misread"]
       ELSE [found |-> "value", cells |-> SubSeq(objects[1], 1 + skip, n + skip),
             used |-> 2, lobs |-> 1]

ReadInline(cells, e, p) ==
    LET varies == e.code \div 2 \in {20, 25, 28}
        n == IF varies THEN (IF e.code \div 2 = 28 /\ Characters(p) THEN 2 * cells[1][2] ELSE cells[1][2])
             ELSE Width(e, p)
        from == IF varies THEN 1 ELSE 0
    IN IF varies /\ (cells = <<>> \/ cells[1][1] # "length") THEN [found |-> "misread"]
       ELSE IF varies /\ cells[1][2] > e.length THEN [found |-> "rejected"]
       ELSE IF Len(cells) < from + n THEN [found |-> "misread"]
       ELSE [found |-> "value", cells |-> SubSeq(cells, from + 1, from + n),
             used |-> from + n, lobs |-> 0]

ReadOne(cells, objects, e, p) ==
    LET skip == IF e.code % 2 = 1 THEN 1 ELSE 0
        rest == SubSeq(cells, 1 + skip, Len(cells))
        got == IF e.length > 32768 THEN ReadExternal(rest, objects, e, p)
               ELSE ReadInline(rest, e, p)
    IN IF skip = 1 /\ (cells = <<>> \/ cells[1] \notin {<<"null", 0>>, <<"null", 255>>})
       THEN [found |-> "misread"]
       ELSE IF skip = 1 /\ cells[1][2] = 255
       THEN [found |-> "value", cells |-> <<<<"null", 255>>>>, used |-> 1, lobs |-> 0]
       ELSE IF got.found # "value" THEN got ELSE [got EXCEPT !.used = @ + skip]
-----------------------------------------------------------------------------
ParamsInit ==
    /\ family \in {"luw", "zos"}
    /\ inputs \in UNION {[1..n -> Inputs] : n \in 0..MaxGiven}
    /\ given = <<>> /\ message = Unbuilt
    /\ taken = <<>> /\ verdict = "reading" /\ at = 0 /\ lobsRead = 0

\* A value that JsParameter does not take never gets here.
Give ==
    /\ message = Unbuilt /\ Len(given) < MaxGiven
    /\ \E v \in Given : /\ FromJs(v) # RefusedValue
                        /\ given' = Append(given, FromJs(v))
    /\ UNCHANGED <<family, inputs, message, taken, verdict, at, lobsRead>>

BuildSqldta ==
    /\ message = Unbuilt /\ given # <<>>
    /\ message' = Built
    /\ UNCHANGED <<family, inputs, given, taken, verdict, at, lobsRead>>

ServerReads ==
    /\ message.built = "yes" /\ verdict = "reading" /\ Len(taken) < Len(given)
    /\ LET p == Len(taken) + 1
           e == FlattenSeq([k \in DOMAIN message.triplets |-> message.triplets[k].entries])[p]
           got == ReadOne(SubSeq(message.fdodta, at + 1, Len(message.fdodta)),
                          SubSeq(message.extdta, lobsRead + 1, Len(message.extdta)), e, p)
       IN IF got.found = "value"
          THEN /\ taken' = Append(taken, got.cells)
               /\ at' = at + got.used /\ lobsRead' = lobsRead + got.lobs
               /\ UNCHANGED verdict
          ELSE verdict' = got.found /\ UNCHANGED <<taken, at, lobsRead>>
    /\ UNCHANGED <<family, inputs, given, message>>

ParamsNext == Give \/ BuildSqldta \/ ServerReads

ParamsSpec == ParamsInit /\ [][ParamsNext]_paramVars
-----------------------------------------------------------------------------
TargetOf(p) == IF inputs = <<>> THEN Inferred(given[p]).type ELSE TypeOfSql(inputs[p])

\* The data of a value for its target, when nothing is cut.
SizeFor(p) ==
    LET v == given[p]
        target == TargetOf(p)
    IN CASE target \in {"Graphic", "VarGraphic", "DbClob"} -> 2 * v.units
         [] target \in {"Binary", "VarBinary", "Blob"} -> v.size
         [] target \in {"SmallInt", "Boolean"} -> 2
         [] target \in {"Integer", "Real"} -> 4
         [] target \in {"BigInt", "Double"} -> 8
         [] target = "DecFloat" -> IF inputs[p].length > 8 THEN 16 ELSE 8
         [] target = "Decimal" ->
              ((IF inputs = <<>> THEN 15 ELSE inputs[p].precision) + 2) \div 2
         [] OTHER -> IF /\ inputs # <<>> /\ inputs[p].ccsid \in {37, 500}
                        /\ v.kind \notin {"Char", "VarChar", "Clob"}
                     THEN v.units ELSE v.size

\* A value that is cut to the width of its column: CHAR and ROWID (but texts go
\* as VARCHAR), GRAPHIC and BINARY.
IsCut(p) ==
    /\ TargetOf(p) \in {"Char", "RowId", "Graphic", "Binary"}
    /\ SizeFor(p) > Len(taken[p])

\* A timestamp of 29 bytes that is not a text is declared with 26.
LongTimestamp(p) ==
    TargetOf(p) = "Timestamp" /\ given[p].kind \notin {"Char", "VarChar", "Clob"} /\ given[p].size = 29

Arrived(p) ==
    IF given[p].kind = "Null" THEN taken[p] = <<<<"null", 255>>>>
    ELSE \/ IsCut(p) /\ taken[p] = BytesOf(p, Len(taken[p]))
         \/ /\ Len(taken[p]) >= SizeFor(p)
            /\ SubSeq(taken[p], 1, SizeFor(p)) = BytesOf(p, SizeFor(p))
            /\ \A i \in (SizeFor(p) + 1)..Len(taken[p]) : taken[p][i] = <<"pad", 0>>

\* Whatever was described and given, the server reads from what is sent the
\* values that were given: each from its own cells, nulls as nulls, each LOB
\* from its own object although empty ones have none, and nothing is left over.
\* It rejects only a value longer than its column.  (IsCut and LongTimestamp are
\* excepted.)
ParamsArrive ==
    message.built = "yes" /\ (\A p \in DOMAIN given : ~LongTimestamp(p)) =>
        /\ verdict # "misread"
        /\ \A p \in DOMAIN taken : Arrived(p)
        /\ Len(taken) = Len(given)
             => at = Len(message.fdodta) /\ lobsRead = Len(message.extdta)
        /\ verdict = "rejected" =>
             LET p == Len(taken) + 1
             IN  TargetOf(p) \in {"Date", "Time", "Timestamp"} \/ inputs = <<>>
                   \/ SizeFor(p) > inputs[p].length
=============================================================================
