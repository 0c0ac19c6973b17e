--------------------------------- MODULE Ddm ---------------------------------
(***************************************************************************)
(* DDM objects on the wire (ddm.rs): a header with a length and a code     *)
(* point, and data that may be parameters of the same form.  A length that *)
(* does not fit 15 bits follows the header; a length of 0x8004 means "to   *)
(* the end", and the server marks where it cut such an object.             *)
(*                                                                         *)
(* A cell is a byte; the two bytes of a length stand in one cell and a 0,  *)
(* so do those of a code point.  Inline stands for 0x7FFF: a length has    *)
(* its high bit when it is greater.                                        *)
(***************************************************************************)
EXTENDS Integers, Sequences, SequencesExt

CONSTANTS
    Inline,        \* DDM_INLINE_LEN_LIMIT
    FirstChunk,    \* EXTENDED_DDM_FIRST_CHUNK_LEN
    NextChunk,     \* EXTENDED_DDM_CONTINUATION_CHUNK_LEN
    MaxData,       \* bound on the data of a parameter
    MaxObjects,    \* bound on the objects of a stream
    MaxParams      \* bound on the parameters of an object

ASSUME DdmAssumption ==
    /\ {FirstChunk, NextChunk, MaxData, MaxObjects, MaxParams} \subseteq Nat \ {0}
    /\ Inline \in Nat /\ Inline >= 4 /\ Inline < 128
    \* Objects of 2^31 bytes and more have lengths of 6 or 8 bytes.
    /\ (((MaxParams * (MaxData + 8) + 8) \div 256) \div 256) \div 256 < 128

VARIABLES
    objects,   \* the objects built: sequences of parameters, which are data
    streamed   \* an object of unknown length behind them, or nothing

ddmVars == <<objects, streamed>>

HighBit == Inline + 1
Header == 4                                   \* DDM_HEADER_LEN
Marker == <<127, 255>>                        \* 0x7FFF; 0x7FFE does as well

\* Data of n bytes; marked data reads like a marker behind the first chunk.
Data(n, marked) ==
    [i \in 1..n |-> IF marked /\ i - FirstChunk \in {1, 2} THEN Marker[i - FirstChunk] ELSE 1]
Bodies == {Data(n, FALSE) : n \in 0..MaxData}
-----------------------------------------------------------------------------
(* What is written *)

ExtensionOfPayload(n) == IF n <= Inline THEN 0 ELSE 4   \* mutant: the header is not counted

\* extended_length_byte_count; 6 and 8 bytes are for objects beyond 2^31.
Extension(n) == IF n + Header <= Inline THEN 0 ELSE 4

\* The bytes of an extended length.
Shift(n) == n \div 256
Digits(n) == <<Shift(Shift(Shift(n))) % 256, Shift(Shift(n)) % 256, Shift(n) % 256, n % 256>>

\* append_marshaled_object.
Marshal(cp, data) ==
    LET n == Len(data)
        ext == Extension(n)
    IN  IF ext = 0 THEN <<n + Header, 0, cp, 0>> \o data
        ELSE <<HighBit + Header + ext, 0, cp, 0>> \o Digits(n) \o data

\* DdmBuilder: parameters in the data of an object.
Build(params) == Marshal(9, FlattenSeq([i \in DOMAIN params |-> Marshal(i, params[i])]))

\* How the server cuts an object of unknown length.
Cut(data) ==
    LET chunks == (Len(data) - FirstChunk + NextChunk - 1) \div NextChunk
    IN  IF Len(data) <= FirstChunk THEN data
        ELSE SubSeq(data, 1, FirstChunk)
               \o FlattenSeq([k \in 1..chunks |->
                    Marker \o SubSeq(data, FirstChunk + (k - 1) * NextChunk + 1,
                                     IF k = chunks THEN Len(data)
                                     ELSE FirstChunk + k * NextChunk)])
-----------------------------------------------------------------------------
(* What is read *)

Bad == [length |-> -1, header |-> 0]

BigEndian(digits) ==
    LET value[i \in 0..Len(digits)] ==
          IF i = 0 THEN 0 ELSE value[i - 1] * 256 + digits[i]
    IN  value[Len(digits)]

\* parse_marshaled_length: the whole length and that of the header.
Length(bytes) ==
    IF Len(bytes) < Header THEN Bad
    ELSE LET raw == bytes[1]
             head == raw - HighBit
         IN CASE raw = HighBit + Header -> [length |-> Len(bytes), header |-> Header]
              [] raw < HighBit -> [length |-> raw, header |-> Header]
              [] raw >= HighBit /\ (head < Header \/ Len(bytes) < head) -> Bad
              [] OTHER -> [length |-> head + BigEndian(SubSeq(bytes, Header + 1, head)),
                           header |-> head]

IsMarker(data, offset) ==
    offset + 2 <= Len(data) /\ SubSeq(data, offset + 1, offset + 2) = Marker

\* strip_extended_ddm_continuation_markers.
Strip(data) ==
    LET rest[offset \in 0..Len(data)] ==
          LET from == IF IsMarker(data, offset) THEN offset + 2 ELSE offset
              to == IF from + NextChunk < Len(data) THEN from + NextChunk ELSE Len(data)
          IN  IF offset >= Len(data) THEN <<>>
              ELSE SubSeq(data, from + 1, to) \o rest[to]
    IN  IF Len(data) <= FirstChunk + 2 \/ ~IsMarker(data, FirstChunk) THEN data
        ELSE SubSeq(data, 1, FirstChunk) \o rest[FirstChunk]

Whole(bytes) == bytes[1] = HighBit + Header

\* The data of the object in front, as DdmObject::parse and parameters take it.
DataOf(bytes) ==
    LET l == Length(bytes)
    IN  IF Whole(bytes) THEN Strip(SubSeq(bytes, Header + 1, l.length))
        ELSE SubSeq(bytes, l.header + 1, l.length)

\* DdmObject::parameters and parse_ddm_objects: one after the other until what
\* is left is no object.
ParseAll(bytes) ==
    LET from[offset \in 0..Len(bytes)] ==
          LET left == SubSeq(bytes, offset + 1, Len(bytes))
              l == Length(left)
          IN  IF l.length < l.header \/ Len(left) < l.length THEN <<>>
              ELSE <<[cp |-> left[3], data |-> DataOf(left)]>> \o from[offset + l.length]
    IN  from[0]
-----------------------------------------------------------------------------
DdmInit == objects = <<>> /\ streamed = <<>>

NewObject ==
    /\ Len(objects) < MaxObjects /\ streamed = <<>>
    /\ objects' = Append(objects, <<>>)
    /\ UNCHANGED streamed

\* DdmBuilder::add_code_point.
AddParam ==
    /\ objects # <<>> /\ streamed = <<>>
    /\ Len(Last(objects)) < MaxParams
    /\ \E body \in Bodies :
          objects' = Front(objects) \o <<Append(Last(objects), body)>>
    /\ UNCHANGED streamed

\* The server ends a reply with an object of unknown length, in whose data it
\* left its marks or DssReader has taken them out already.
Stream ==
    /\ streamed = <<>>
    /\ \E n \in 1..MaxData, marked, cut \in BOOLEAN :
          streamed' = <<[data |-> Data(n, marked), cut |-> cut]>>
    /\ UNCHANGED objects

DdmNext == NewObject \/ AddParam \/ Stream

DdmSpec == DdmInit /\ [][DdmNext]_ddmVars
-----------------------------------------------------------------------------
Wire ==
    FlattenSeq([i \in DOMAIN objects |-> Build(objects[i])])
      \o FlattenSeq([i \in DOMAIN streamed |->
           <<HighBit + Header, 0, 8, 0>>
             \o (IF streamed[i].cut THEN Cut(streamed[i].data) ELSE streamed[i].data)])

\* Data without marks that reads like a mark behind the first chunk.
Ambiguous(s) ==
    ~s.cut /\ Len(s.data) > FirstChunk + 2 /\ IsMarker(s.data, FirstChunk)

\* What was built is parsed back, object by object and parameter by parameter,
\* at every length around the limits, and an object of unknown length gives its
\* data without the marks (DdmObject::parse).  The exception: data from which
\* DssReader has already taken the marks loses two bytes that look like one.
ObjectsSurvive ==
    LET parsed == ParseAll(Wire)
    IN  /\ Len(parsed) = Len(objects) + Len(streamed)
        /\ \A i \in DOMAIN objects :
              ParseAll(parsed[i].data)
                = [j \in DOMAIN objects[i] |-> [cp |-> j, data |-> objects[i][j]]]
        /\ \A i \in DOMAIN streamed :
              ~Ambiguous(streamed[i]) => Last(parsed).data = streamed[i].data
=============================================================================
