------------------------------ MODULE Handshake ------------------------------
(***************************************************************************)
(* How a session comes up: transport.rs opens the socket and TLS, auth.rs  *)
(* exchanges EXCSAT and ACCSEC, then SECCHK and ACCRDB, and               *)
(* ClientInner::establish_session (connection.rs) retries once with the    *)
(* legacy database name and runs the statements that set a session up.     *)
(*                                                                         *)
(* The server answers what it likes; keys, credentials and names are       *)
(* abstract.  Every frame of a phase is one of the replies auth.rs tells   *)
(* apart.                                                                  *)
(***************************************************************************)
EXTENDS Integers, Sequences, FiniteSets, SequencesExt

CONSTANTS
    Confs,       \* configurations: records [mech, ssl, schema, algorithm, ...]
    MaxReplies,  \* bound on the frames of the second phase
    MaxConnects  \* bound on calls of Client::connect

Encrypted == {"encrypted_user_and_password", "encrypted_password"}
Mechanisms == Encrypted \cup {"user_and_password", "user_only"}
Encodings == {"ebcdic500", "ebcdic500_luw", "ebcdic037", "utf8"}

ASSUME HandshakeAssumption ==
    /\ Confs \subseteq [mech : Mechanisms, ssl : BOOLEAN, schema : BOOLEAN,
                        algorithm : {"des", "aes"},
                        credential : Encodings \cup {"auto"},
                        password : Encodings \cup {"same"},
                        typdef : {"default", "other"}]
    /\ {MaxReplies, MaxConnects} \subseteq Nat

VARIABLES
    conf,        \* Config
    peer,        \* the server: its family and whether it has UNICODEMGR 1208
    stage,       \* where establish_session stands
    mode,        \* AccsecRdbnamMode of the attempt
    secure,      \* the transport of the attempt is TLS
    replies,     \* the frames of the second phase so far
    checks,      \* the SECCHKs sent since connect began
    setup,       \* statements left to set the session up
    up,          \* ClientInner::connected
    abandoned,   \* the future of connect was dropped during set-up
    refused,     \* the server has said no to the credentials
    connects     \* calls of connect

handshakeVars == <<conf, peer, stage, mode, secure, replies, checks, setup, up,
                   abandoned, refused, connects>>

Peers == [family : {"luw", "zos", "unknown"}, unicode : BOOLEAN]

HandshakeInit ==
    /\ conf \in Confs /\ peer \in Peers
    /\ stage = "idle" /\ mode = "trimmed" /\ secure = FALSE
    /\ replies = <<>> /\ checks = <<>> /\ setup = <<>>
    /\ up = FALSE /\ abandoned = FALSE /\ refused = FALSE
    /\ connects = 0
-----------------------------------------------------------------------------
(* What auth.rs derives from the configuration and the server *)

IsZos == peer.family = "zos"             \* server_info_is_zos

\* server_ebcdic500_encoding: the LUW variant only for a known LUW release.
Ebcdic500 == IF peer.family = "luw" THEN "ebcdic500_luw" ELSE "ebcdic500"

CredentialEncoding ==
    CASE conf.credential = "auto" -> IF peer.unicode THEN "utf8" ELSE Ebcdic500
      [] conf.credential = "ebcdic500" -> Ebcdic500
      [] OTHER -> conf.credential

PasswordEncoding ==
    CASE conf.password = "same" -> CredentialEncoding
      [] conf.password = "ebcdic500" -> Ebcdic500
      [] OTHER -> conf.password

\* jcc_compatible_encrypted_password_encodings.
JccEncoding(mech, algorithm) ==
    IF /\ IsZos /\ conf.password = "same"
       /\ mech = "encrypted_password" /\ algorithm = "aes"
    THEN "utf8" ELSE PasswordEncoding

NegotiatedAlgorithm(offered) == IF offered = "none" THEN conf.algorithm ELSE offered

\* build_secchk_for_mechanism: what SECCHK shows to whoever reads the line.
Secchk(mech, algorithm) ==
    [mech |-> mech, algorithm |-> algorithm, user |-> CredentialEncoding,
     password |-> JccEncoding(mech, algorithm),
     clear |-> CASE mech = "encrypted_user_and_password" -> {}
                 [] mech = "user_and_password" -> {"user", "password"}
                 [] OTHER -> {"user"}]
-----------------------------------------------------------------------------
(* The first phase: EXCSAT and ACCSEC *)

\* The second reply frame: ACCSECRD with a mechanism, an algorithm and a
\* SECTKN of the length of that algorithm or not, or a refusal.
Accsecrd == [body : {"ACCSECRD"}, mech : Mechanisms \cup {"other"},
             algorithm : {"none", "des", "aes", "other"}, token : BOOLEAN]
Refusals == {"ACCSECRD_1B", "RDBNACRM", "RDBNACRM_30082", "other"}

AcceptsDowngrade(r) == FALSE             \* mutant: any mechanism will do

\* An encrypted mechanism was asked for and another offered on a plain line.
RefusesDowngrade(r) ==
    conf.mech \in Encrypted /\ r.mech \notin Encrypted /\ ~conf.ssl

\* What authenticate makes of an ACCSECRD.
AccsecrdOutcome(r) ==
    IF RefusesDowngrade(r) THEN "auth"
    ELSE IF r.algorithm = "other" THEN "protocol"
    ELSE IF ~IsZos /\ conf.typdef = "other" THEN "other"
    ELSE IF r.mech = "other" THEN "auth"
    ELSE IF r.mech \in Encrypted /\ ~r.token THEN "protocol"
    ELSE "ok"

RefusalOutcome(body) ==
    CASE body \in {"ACCSECRD_1B", "RDBNACRM_30082"} -> "auth"
      [] body = "RDBNACRM" -> "not_accessed"
      [] OTHER -> "protocol"
-----------------------------------------------------------------------------
(* The second phase: SECCHK and ACCRDB *)

Bodies2 == {"SECCHKRM_ok", "SECCHKRM_bad", "ACCRDBRM_ok", "ACCRDBRM_bad",
            "SQLCARD_ok", "SQLCARD_error", "RDBNACRM", "rejected", "SQLERRRM", "other"}
Terminal == {"SECCHKRM_bad", "SQLCARD_error", "RDBNACRM", "rejected", "SQLERRRM"}

\* phase2_frames_complete.
Complete(fs) ==
    \/ Terminal \cap Range(fs) # {}
    \/ /\ "SECCHKRM_ok" \in Range(fs)
       /\ {"ACCRDBRM_ok", "ACCRDBRM_bad", "SQLCARD_ok"} \cap Range(fs) # {}

DenialsOfSql(fs) ==                      \* mutant: the severity of ACCRDBRM is ignored
    {i \in DOMAIN fs : fs[i] \in {"SQLCARD_error", "SQLERRRM"}}

\* access_error: frames that deny access; the last of them is reported.
Denials(fs) ==
    {i \in DOMAIN fs : fs[i] \in {"ACCRDBRM_bad", "SQLCARD_error", "SQLERRRM"}}

\* The frames in order: some end the parse at once, others are remembered.
Parsed(fs) ==
    LET at(b) == {i \in DOMAIN fs : fs[i] = b}
        stops == at("SECCHKRM_bad") \cup at("RDBNACRM") \cup at("rejected")
        stop == fs[CHOOSE i \in stops : \A j \in stops : i <= j]
        denials == Denials(fs)
        last == fs[CHOOSE i \in denials : \A j \in denials : j <= i]
        grants == at("ACCRDBRM_ok") \cup at("ACCRDBRM_bad") \cup at("SQLCARD_ok")
    IN  IF stops # {}
        THEN CASE stop = "SECCHKRM_bad" -> "auth"
               [] stop = "RDBNACRM" -> "not_accessed"
               [] OTHER -> "protocol"
        ELSE IF at("SECCHKRM_ok") = {} THEN "protocol"
        ELSE IF denials # {} THEN IF last = "SQLERRRM" THEN "protocol" ELSE "access"
        ELSE IF grants = {} THEN "protocol"
        ELSE "ok"
-----------------------------------------------------------------------------
(* establish_session *)

RetriesAuth(outcome) ==                  \* mutant: a refused login is retried
    outcome \in {"not_accessed", "closed", "auth"}

\* should_retry_accsec_with_luw_legacy_handshake.
Retries(outcome) == outcome \in {"not_accessed", "closed"}

\* No session, and nothing left of the attempt.
Down ==
    /\ stage' = "idle" /\ mode' = "trimmed" /\ up' = FALSE
    /\ setup' = <<>> /\ replies' = <<>> /\ checks' = <<>>

\* What becomes of a failed authenticate.
Failed(outcome) ==
    IF mode = "trimmed" /\ Retries(outcome)
    THEN /\ stage' = "dial" /\ mode' = "legacy"
         /\ replies' = <<>>
         /\ UNCHANGED <<checks, setup, up>>
    ELSE Down

\* The statements of the set-up.
Setup ==
    (IF IsZos THEN <<>> ELSE <<"post_auth_init">>)
    \o (IF conf.schema THEN <<"schema">> ELSE <<>>)
    \o (IF IsZos THEN <<>> ELSE <<"handle">>)

\* authenticate has returned Ok: the fields of a new session.
Established ==
    /\ up' = TRUE
    /\ setup' = Setup
    /\ stage' = IF Setup = <<>> THEN "idle" ELSE "setup"
    /\ UNCHANGED <<mode, checks>>

\* Client::connect, and reconnect_if_needed.
Begins ==
    /\ stage = "idle" /\ ~up /\ connects < MaxConnects
    /\ connects' = connects + 1
    /\ stage' = "dial" /\ mode' = "trimmed"
    /\ abandoned' = FALSE /\ refused' = FALSE
    /\ UNCHANGED <<conf, peer, secure, replies, checks, setup, up>>

\* Transport::connect, under connect_timeout: an error of it is not retried.
Dial ==
    /\ stage = "dial"
    /\ \/ /\ stage' = "phase1" /\ secure' = conf.ssl
          /\ UNCHANGED <<mode, replies, checks, setup, up>>
       \/ Down /\ UNCHANGED secure
    /\ UNCHANGED <<conf, peer, abandoned, refused, connects>>

Phase1 ==
    /\ stage = "phase1"
    /\ \/ \E r \in Accsecrd :
            IF AccsecrdOutcome(r) = "ok"
            THEN /\ checks' = Append(checks, Secchk(r.mech, NegotiatedAlgorithm(r.algorithm)))
                 /\ stage' = "phase2"
                 /\ UNCHANGED <<mode, replies, setup, up, refused>>
            ELSE Failed(AccsecrdOutcome(r)) /\ UNCHANGED refused
       \/ \E body \in Refusals :
            /\ Failed(RefusalOutcome(body))
            /\ refused' = (refused \/ RefusalOutcome(body) = "auth")
    /\ UNCHANGED <<conf, peer, secure, abandoned, connects>>

\* A read of the second phase: the frames so far are looked at again.
Phase2 ==
    /\ stage = "phase2" /\ Len(replies) < MaxReplies
    /\ \E body \in Bodies2 :
         LET fs == Append(replies, body)
         IN /\ refused' = (refused \/ body = "SECCHKRM_bad")
            /\ IF ~Complete(fs)
               THEN replies' = fs /\ UNCHANGED <<stage, mode, checks, setup, up>>
               ELSE IF Parsed(fs) = "ok" THEN Established /\ replies' = fs
               ELSE Failed(Parsed(fs))
    /\ UNCHANGED <<conf, peer, secure, abandoned, connects>>

\* The server closes the connection; in the second phase what it sent before
\* is parsed.
Closed ==
    /\ stage \in {"phase1", "phase2", "setup"}
    /\ CASE stage = "setup" -> Down
         [] stage = "phase2" /\ replies # <<>> -> Failed(Parsed(replies))
         [] OTHER -> Failed("closed")
    /\ UNCHANGED <<conf, peer, secure, abandoned, refused, connects>>

SetUpLogsErrors ==                       \* mutant: a failed statement is logged
    /\ stage = "setup"
    /\ stage' = "idle"
    /\ UNCHANGED <<conf, peer, mode, secure, replies, checks, setup, up, abandoned,
                   refused, connects>>

\* post_auth_init, SET CURRENT SCHEMA, the query for the application handle.
SetUp ==
    /\ stage = "setup"
    /\ \/ /\ setup' = Tail(setup)
          /\ stage' = IF Tail(setup) = <<>> THEN "idle" ELSE "setup"
          /\ UNCHANGED <<mode, replies, checks, up>>
       \/ Down
    /\ UNCHANGED <<conf, peer, secure, abandoned, refused, connects>>

\* The caller drops the future of connect: the fields of the client stay.
Abandon ==
    /\ stage # "idle"
    /\ abandoned' = TRUE
    /\ IF up THEN stage' = "idle" /\ UNCHANGED <<mode, replies, checks, setup, up>>
       ELSE Down
    /\ UNCHANGED <<conf, peer, secure, refused, connects>>

\* An established session is lost.
SessionLost ==
    /\ stage = "idle" /\ up
    /\ Down
    /\ UNCHANGED <<conf, peer, secure, abandoned, refused, connects>>

HandshakeNext ==
    \/ Begins \/ Dial \/ Phase1 \/ Phase2 \/ Closed \/ SetUp \/ Abandon \/ SessionLost

HandshakeSpec == HandshakeInit /\ [][HandshakeNext]_handshakeVars
-----------------------------------------------------------------------------
\* A session is up only if the server, on the transport of this attempt, has
\* accepted the credentials and given access to the database, and none of the
\* frames read before said otherwise (authenticate, phase2_frames_complete).
SessionIsGranted ==
    up => /\ "SECCHKRM_ok" \in Range(replies)
          /\ {"ACCRDBRM_ok", "SQLCARD_ok"} \cap Range(replies) # {}
          /\ (Terminal \cup {"ACCRDBRM_bad"}) \cap Range(replies) = {}

\* A password the server has refused is not sent again, and one connect sends
\* at most two SECCHKs, in the same encodings when the server chooses the same
\* mechanism: a failure never changes how credentials are encoded
\* (should_retry_accsec_with_luw_legacy_handshake, server_ebcdic500_encoding).
OneRefusal ==
    /\ Len(checks) <= 2
    /\ refused => stage \in {"idle", "phase2"} /\ ~up
    /\ \A i, j \in DOMAIN checks :
         checks[i].mech = checks[j].mech /\ checks[i].algorithm = checks[j].algorithm
            => checks[i] = checks[j]

\* A password goes over a line without TLS in clear only if the configuration
\* asked for a mechanism without encryption ("refusing to send credentials
\* without encryption", authenticate).
SecretsProtected ==
    \A i \in DOMAIN checks :
        "password" \in checks[i].clear => secure \/ conf.mech \notin Encrypted

\* Between operations a session that is up has been set up to the end, schema
\* and all, unless the future of connect was dropped (establish_session).
SetUpBeforeUse ==
    stage = "idle" /\ up /\ ~abandoned => setup = <<>>
=============================================================================
