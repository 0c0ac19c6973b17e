------------------------------- MODULE MCParts -------------------------------
(***************************************************************************)
(* The parts that share no state with each other, one behaviour each:      *)
(* framing, objects, rows, parameters, authentication, the z/OS select     *)
(* cache, the rebuilding of z/OS LOBs and the handles of JavaScript.  The  *)
(* part that moves is chosen at the beginning; the others stand still in   *)
(* one of their initial states.                                            *)
(***************************************************************************)
EXTENDS Dss, Ddm, Rows, Handshake, ZosSelect, LobChunks, Handles, Params

VARIABLE part

Parts == {"dss", "ddm", "rows", "handshake", "zos select", "lob chunks", "handles",
          "params"}

(* Configurations *)

Of(mech, ssl, credential, password) ==
    [mech |-> mech, ssl |-> ssl, schema |-> TRUE, algorithm |-> "aes",
     credential |-> credential, password |-> password, typdef |-> "default"]

mcConfs ==
    {Of("encrypted_password", FALSE, "auto", "same"),
     Of("user_and_password", TRUE, "utf8", "same"),
     Of("encrypted_user_and_password", TRUE, "ebcdic500", "utf8")}

(* Results *)

Col(code, len, ccsid) == [code |-> code, len |-> len, ccsid |-> ccsid]
Result(style, head, cols) == [style |-> style, head |-> head, cols |-> cols]

mcShapes ==
    {Result("sda", "null", <<Col(3, 4, 0), Col(49, 2, 1208)>>),
     Result("sda", "warning", <<Col(63, 2, 1200)>>),
     Result("sda", "null", <<Col(201, 32777, 0), Col(202, 100, 1208)>>),
     Result("sda", "bare", <<Col(12, 5, 0), Col(50, 3, 0)>>),
     Result("sda", "message", <<Col(51, 32780, 1208)>>),
     Result("compact", "null", <<Col(15, 5, 0), Col(56, 2, 0)>>),
     Result("compact", "bare", <<Col(12, 0, 0), Col(24, 4, 0)>>),
     Result("compact", "null", <<Col(80, 3, 0), Col(207, 32772, 0)>>),
     Result("declared", "warning", <<Col(60, 2, 1200)>>),
     Result("declared", "null", <<Col(200, 0, 0), Col(191, 0, 0)>>)}

mcLobCols == <<"clob", "dbclob">>

(* Parameters *)

Takes(sql, length, ccsid, nullable) ==
    [sql |-> sql, length |-> length, precision |-> 5, scale |-> 2, ccsid |-> ccsid,
     nullable |-> nullable]
Gives(kind, size, units, means, whole, frac) ==
    [kind |-> kind, size |-> size, units |-> units, means |-> means, whole |-> whole, frac |-> frac]

mcInputs ==
    {Takes(496, 4, 0, TRUE), Takes(492, 8, 0, FALSE), Takes(484, 0, 0, TRUE),
     Takes(452, 3, 37, FALSE), Takes(448, 3, 1208, TRUE), Takes(448, 3, 0, TRUE),
     Takes(468, 2, 1200, TRUE), Takes(464, 3, 1200, FALSE), Takes(404, 5, 0, TRUE),
     Takes(408, 50, 1208, TRUE), Takes(412, 5, 1200, FALSE), Takes(392, 26, 1208, TRUE),
     Takes(988, 0, 1208, TRUE), Takes(912, 2, 0, TRUE), Takes(2436, 1, 0, TRUE)}

mcGiven ==
    {Gives("null", 0, 0, "nothing", 0, 0), Gives("string", 4, 2, "nothing", 0, 0),
     Gives("string", 0, 0, "nothing", 0, 0), Gives("bigint", 2, 2, "number", 2, 0),
     Gives("date", 0, 0, "nothing", 0, 0), Gives("number", 0, 0, "number", 3, 2),
     Gives("bytes", 0, 0, "nothing", 0, 0), Gives("bytes", 3, 0, "nothing", 0, 0),
     Gives("boolean", 0, 0, "truth", 0, 0), Gives("object", 0, 0, "nothing", 0, 0),
     Gives("Timestamp", 29, 29, "nothing", 0, 0)}

(* Composition *)

Init ==
    /\ part \in Parts
    /\ DssInit /\ DdmInit /\ ZosInit /\ HandlesInit
    /\ HandshakeInit
    /\ part # "handshake" => /\ conf = CHOOSE c \in Confs : TRUE
                             /\ peer = CHOOSE p \in Peers : TRUE
    /\ RowsInit
    /\ part # "rows" => shape = CHOOSE s \in Shapes : TRUE
    /\ LobInit
    /\ part # "lob chunks" => /\ table = <<>> /\ step = "prepared"
                              /\ chosen = CHOOSE c \in [ordered : Orders, limit : RowLimits] : TRUE
    /\ ParamsInit
    /\ part # "params" => family = "luw" /\ inputs = <<>>

DssPart == part = "dss" /\ DssNext
DdmPart == part = "ddm" /\ DdmNext
RowsPart == part = "rows" /\ RowsNext
HandshakePart == part = "handshake" /\ HandshakeNext
ZosPart == part = "zos select" /\ ZosNext
LobPart == part = "lob chunks" /\ LobNext
HandlesPart == part = "handles" /\ HandlesNext
ParamsPart == part = "params" /\ ParamsNext

Next ==
    /\ UNCHANGED part
    /\ \/ DssPart
            /\ UNCHANGED <<ddmVars, rowVars, handshakeVars, zosVars, chunkVars, handleVars, paramVars>>
       \/ DdmPart
            /\ UNCHANGED <<dssVars, rowVars, handshakeVars, zosVars, chunkVars, handleVars, paramVars>>
       \/ RowsPart
            /\ UNCHANGED <<dssVars, ddmVars, handshakeVars, zosVars, chunkVars, handleVars, paramVars>>
       \/ HandshakePart
            /\ UNCHANGED <<dssVars, ddmVars, rowVars, zosVars, chunkVars, handleVars, paramVars>>
       \/ ZosPart
            /\ UNCHANGED <<dssVars, ddmVars, rowVars, handshakeVars, chunkVars, handleVars, paramVars>>
       \/ LobPart
            /\ UNCHANGED <<dssVars, ddmVars, rowVars, handshakeVars, zosVars, handleVars, paramVars>>
       \/ HandlesPart
            /\ UNCHANGED <<dssVars, ddmVars, rowVars, handshakeVars, zosVars, chunkVars, paramVars>>
       \/ ParamsPart
            /\ UNCHANGED <<dssVars, ddmVars, rowVars, handshakeVars, zosVars, chunkVars, handleVars>>

Spec ==
    Init /\ [][Next]_<<part, dssVars, ddmVars, rowVars, handshakeVars, zosVars, chunkVars,
                       handleVars, paramVars>>
=============================================================================
