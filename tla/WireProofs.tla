----------------------------- MODULE WireProofs -----------------------------
(***************************************************************************)
(* Proofs about what goes over a connection: Handshake, for every          *)
(* configuration and any number of replies and connects; Dss, for segments *)
(* of any size and any number and length of messages; and Ddm, for any     *)
(* limits and any number and size of objects and parameters.               *)
(***************************************************************************)
EXTENDS Handshake, Dss, Ddm, SequenceLemmas, SequenceTheorems, FiniteSetTheorems, TLAPS

(* Handshake: what an attempt keeps while it stands at its stage *)

Algorithms == {"des", "aes"}

\* The SECCHKs that this client may send to this server.
MaySend(m) == m \in Encrypted \/ conf.mech \notin Encrypted \/ conf.ssl
Sendable == {Secchk(m, a) : m \in {x \in Mechanisms : MaySend(x)}, a \in Algorithms}

Known ==
    /\ conf \in Confs
    /\ {secure, up, abandoned, refused} \subseteq BOOLEAN
    /\ stage \in {"idle", "dial", "phase1", "phase2", "setup"}
    /\ mode \in {"trimmed", "legacy"}
    /\ replies \in Seq(Bodies2)
    /\ checks \in Seq(Sendable)

\* What an attempt has sent and read when it stands at its stage.
Attempt ==
    /\ stage \in {"phase1", "phase2", "setup"} \/ checks # <<>> => secure = conf.ssl
    /\ Len(checks) <= 2
    /\ stage \in {"dial", "phase1"} => Len(checks) <= IF mode = "legacy" THEN 1 ELSE 0
    /\ stage = "phase2" => Len(checks) <= IF mode = "legacy" THEN 2 ELSE 1
    /\ stage \in {"dial", "phase1"} => replies = <<>>
    /\ stage = "phase2" => Range(replies) \cap Terminal = {}
    /\ stage = "idle" /\ ~up => checks = <<>> /\ replies = <<>>
    /\ up => stage \in {"idle", "setup"}
    /\ stage = "setup" => up
    /\ refused => stage = "idle" /\ ~up

HInv == Known /\ Attempt /\ SessionIsGranted /\ SetUpBeforeUse
-----------------------------------------------------------------------------
(* The replies of the second phase, and what may be sent *)

LEMMA Appended ==
    ASSUME NEW S, NEW q \in Seq(S), NEW x \in S
    PROVE  /\ Append(q, x) \in Seq(S) /\ Len(Append(q, x)) = Len(q) + 1
           /\ Range(Append(q, x)) = Range(q) \cup {x}
           /\ DOMAIN Append(q, x) = 1..(Len(q) + 1) /\ Len(q) \in Nat
           /\ \A i \in 1..(Len(q) + 1) :
                  Append(q, x)[i] = IF i = Len(q) + 1 THEN x ELSE q[i]
           /\ \A i \in 1..Len(q) : q[i] \in Range(q)
<1>1. /\ Append(q, x) \in Seq(S) /\ Len(Append(q, x)) = Len(q) + 1
      /\ \A i \in 1..Len(q) : Append(q, x)[i] = q[i]
      /\ Append(q, x)[Len(q) + 1] = x
  BY AppendProperties
<1>2. Len(q) \in Nat /\ DOMAIN q = 1..Len(q) /\ DOMAIN Append(q, x) = 1..(Len(q) + 1)
  BY <1>1, LenProperties
<1>3. Range(Append(q, x)) = Range(q) \cup {x}
  BY <1>1, <1>2 DEF Range
<1> QED
  BY <1>1, <1>2, <1>3 DEF Range

\* Which frames of a second phase give a session: those of an accepted login
\* among which nothing denies it.
LEMMA ParsedOk ==
    ASSUME NEW fs \in Seq(Bodies2), Parsed(fs) = "ok"
    PROVE  /\ "SECCHKRM_ok" \in Range(fs)
           /\ {"ACCRDBRM_ok", "SQLCARD_ok"} \cap Range(fs) # {}
           /\ (Terminal \cup {"ACCRDBRM_bad"}) \cap Range(fs) = {}
<1>1. \A i \in DOMAIN fs : fs[i] \notin {"SECCHKRM_bad", "RDBNACRM", "rejected"}
  BY DEF Parsed
<1>2. \E i \in DOMAIN fs : fs[i] = "SECCHKRM_ok"
  BY <1>1 DEF Parsed
<1>3. Denials(fs) = {}
  BY <1>1, <1>2 DEF Parsed
<1>4. \A i \in DOMAIN fs : fs[i] \notin {"ACCRDBRM_bad", "SQLCARD_error", "SQLERRRM"}
  BY <1>3 DEF Denials
<1>5. \E i \in DOMAIN fs : fs[i] \in {"ACCRDBRM_ok", "SQLCARD_ok"}
  BY <1>1, <1>2, <1>3, <1>4 DEF Parsed
<1> QED
  BY <1>1, <1>2, <1>4, <1>5 DEF Terminal, Range

\* A refusal of the credentials ends the phase, and is what is reported.
LEMMA ParsedBad ==
    ASSUME NEW fs \in Seq(Bodies2), Range(fs) \cap Terminal = {}
    PROVE  Parsed(Append(fs, "SECCHKRM_bad")) = "auth"
<1> DEFINE gs == Append(fs, "SECCHKRM_bad")
           n == Len(fs) + 1
           stops == {i \in DOMAIN gs : gs[i] = "SECCHKRM_bad"}
                      \cup {i \in DOMAIN gs : gs[i] = "RDBNACRM"}
                      \cup {i \in DOMAIN gs : gs[i] = "rejected"}
           first == CHOOSE i \in stops : \A j \in stops : i <= j
<1>1. "SECCHKRM_bad" \in Bodies2
  BY DEF Bodies2
<1>2. /\ DOMAIN gs = 1..n /\ Len(fs) \in Nat /\ gs[n] = "SECCHKRM_bad"
      /\ \A i \in 1..Len(fs) : gs[i] \in Range(fs)
  <2>1. /\ gs \in Seq(Bodies2) /\ Len(gs) = n /\ gs[n] = "SECCHKRM_bad"
        /\ \A i \in 1..Len(fs) : gs[i] = fs[i]
    BY <1>1, AppendProperties
  <2>2. DOMAIN gs = 1..n /\ Len(fs) \in Nat /\ DOMAIN fs = 1..Len(fs)
    BY <2>1, LenProperties
  <2> QED
    BY <2>1, <2>2 DEF Range
<1> HIDE DEF gs
<1>3. \A i \in 1..Len(fs) : gs[i] \notin {"SECCHKRM_bad", "RDBNACRM", "rejected"}
  BY <1>2 DEF Terminal
<1>4. stops = {n}
  BY <1>2, <1>3
<1>5. first = n
  <2>1. n \in stops /\ \A j \in stops : n <= j
    BY <1>2, <1>4
  <2> HIDE DEF stops
  <2> QED
    BY <1>4, <2>1
<1> QED
  BY <1>2, <1>4, <1>5 DEF Parsed, gs

LEMMA Completes ==
    ASSUME NEW fs, ~Complete(fs)
    PROVE  Range(fs) \cap Terminal = {}
BY DEF Complete

\* What may be sent does not change with the attempt.
LEMMA SentStays ==
    ASSUME UNCHANGED <<conf, peer>>
    PROVE  Sendable' = Sendable
BY DEF Sendable, MaySend, Secchk, CredentialEncoding, PasswordEncoding, JccEncoding,
   Ebcdic500, IsZos

LEMMA SendableSecchk ==
    ASSUME conf \in Confs, NEW r \in Accsecrd, AccsecrdOutcome(r) = "ok"
    PROVE  Secchk(r.mech, NegotiatedAlgorithm(r.algorithm)) \in Sendable
<1>1. /\ ~RefusesDowngrade(r) /\ r.algorithm # "other" /\ r.mech # "other"
  BY DEF AccsecrdOutcome
<1>2. r.mech \in Mechanisms /\ MaySend(r.mech)
  BY <1>1 DEF Accsecrd, RefusesDowngrade, MaySend
<1>3. NegotiatedAlgorithm(r.algorithm) \in Algorithms
  BY <1>1, HandshakeAssumption DEF NegotiatedAlgorithm, Algorithms, Accsecrd
<1> QED
  BY <1>2, <1>3 DEF Sendable
-----------------------------------------------------------------------------
(* Handshake: the invariant *)

LEMMA HInit == HandshakeInit => HInv
<1> SUFFICES ASSUME HandshakeInit PROVE HInv
  OBVIOUS
<1>1. /\ <<>> \in Seq(Bodies2) /\ <<>> \in Seq(Sendable) /\ Len(<<>>) = 0
  BY EmptySeq
<1>2. Known
  BY <1>1 DEF HandshakeInit, Known
<1>3. Attempt
  BY <1>1 DEF HandshakeInit, Attempt
<1> QED
  BY <1>2, <1>3 DEF HandshakeInit, HInv, SessionIsGranted, SetUpBeforeUse

LEMMA DownKeeps ==
    ASSUME HInv, Down, UNCHANGED <<conf, peer>>,
           {secure', abandoned', refused'} \subseteq BOOLEAN
    PROVE  HInv'
<1>1. <<>> \in Seq(Bodies2) /\ <<>> \in Seq(Sendable') /\ Len(<<>>) = 0
  BY EmptySeq
<1>2. Known'
  BY <1>1 DEF HInv, Down, Known
<1>3. Attempt'
  BY <1>1 DEF Down, Attempt
<1> QED
  BY <1>2, <1>3 DEF HInv, Down, SessionIsGranted, SetUpBeforeUse

LEMMA FailedKeeps ==
    ASSUME HInv, NEW outcome, Failed(outcome), stage \in {"phase1", "phase2"},
           UNCHANGED <<conf, peer, secure, abandoned>>, refused' \in BOOLEAN,
           Retries(outcome) => ~refused'
    PROVE  HInv'
<1>1. CASE mode = "trimmed" /\ Retries(outcome)
  <2>1. /\ stage' = "dial" /\ mode' = "legacy" /\ replies' = <<>> /\ ~refused'
        /\ UNCHANGED <<checks, setup, up>> /\ ~up /\ Len(checks) <= 1
    BY <1>1 DEF Failed, HInv, Attempt
  <2>2. Known'
    BY <2>1, SentStays, EmptySeq DEF HInv, Known
  <2> QED
    BY <2>1, <2>2 DEF HInv, Attempt, SessionIsGranted, SetUpBeforeUse
<1>2. CASE ~(mode = "trimmed" /\ Retries(outcome))
  BY <1>2, DownKeeps DEF Failed, HInv, Known
<1> QED
  BY <1>1, <1>2

LEMMA HStep == HInv /\ [HandshakeNext]_handshakeVars => HInv'
<1> SUFFICES ASSUME HInv, [HandshakeNext]_handshakeVars PROVE HInv'
  OBVIOUS
<1>1. CASE Begins
  <2>1. /\ UNCHANGED <<conf, peer, secure, replies, checks, setup, up>>
        /\ stage' = "dial" /\ mode' = "trimmed" /\ ~abandoned' /\ ~refused'
        /\ abandoned' \in BOOLEAN /\ refused' \in BOOLEAN
        /\ ~up /\ checks = <<>> /\ replies = <<>>
    BY <1>1 DEF Begins, HInv, Attempt
  <2>2. Known'
    BY <2>1, SentStays DEF HInv, Known
  <2>3. Attempt'
    BY <2>1, EmptySeq DEF Attempt
  <2> QED
    BY <2>1, <2>2, <2>3 DEF HInv, SessionIsGranted, SetUpBeforeUse
<1>2. CASE Dial
  <2>1. CASE Down /\ UNCHANGED secure
    BY <1>2, <2>1, DownKeeps DEF Dial, HInv, Known
  <2>2. CASE stage' = "phase1" /\ secure' = conf.ssl /\ UNCHANGED <<mode, replies, checks, setup, up>>
    <3>1. conf.ssl \in BOOLEAN
      BY HandshakeAssumption DEF HInv, Known
    <3> QED
      BY <1>2, <2>2, <3>1, SentStays
      DEF Dial, HInv, Known, Attempt, SessionIsGranted, SetUpBeforeUse
  <2> QED
    BY <1>2, <2>1, <2>2 DEF Dial
<1>3. CASE Phase1
  <2>1. ASSUME NEW r \in Accsecrd, AccsecrdOutcome(r) = "ok",
               checks' = Append(checks, Secchk(r.mech, NegotiatedAlgorithm(r.algorithm))),
               stage' = "phase2", UNCHANGED <<mode, replies, setup, up, refused>>
        PROVE  HInv'
    <3>1. /\ checks' \in Seq(Sendable) /\ Len(checks') = Len(checks) + 1
          /\ Len(checks) \in Nat
      BY <2>1, SendableSecchk, AppendProperties, LenProperties DEF HInv, Known
    <3>2. /\ UNCHANGED <<conf, peer, secure, abandoned>> /\ replies = <<>>
          /\ stage = "phase1" /\ secure = conf.ssl /\ ~up /\ ~refused
          /\ Len(checks) <= IF mode = "legacy" THEN 1 ELSE 0
      BY <1>3 DEF Phase1, HInv, Attempt
    <3>3. Range(replies') \cap Terminal = {}
      BY <2>1, <3>2 DEF Range
    <3>4. Known'
      BY <2>1, <3>1, <3>2, SentStays DEF HInv, Known
    <3>5. Attempt'
      BY <2>1, <3>1, <3>2, <3>3 DEF Attempt
    <3> QED
      BY <2>1, <3>2, <3>4, <3>5 DEF HInv, SessionIsGranted, SetUpBeforeUse
  <2>2. ASSUME NEW r \in Accsecrd, Failed(AccsecrdOutcome(r)), UNCHANGED refused
        PROVE  HInv'
    BY <1>3, <2>2, FailedKeeps DEF Phase1, HInv, Known, Attempt
  <2>3. ASSUME NEW body \in Refusals, Failed(RefusalOutcome(body)),
               refused' = (refused \/ RefusalOutcome(body) = "auth")
        PROVE  HInv'
    <3>1. Retries(RefusalOutcome(body)) => ~refused'
      BY <1>3, <2>3 DEF Phase1, Retries, HInv, Attempt
    <3> QED
      BY <1>3, <2>3, <3>1, FailedKeeps DEF Phase1, HInv, Known
  <2> QED
    BY <1>3, <2>1, <2>2, <2>3 DEF Phase1
<1>4. CASE Phase2
  <2>1. PICK body \in Bodies2 :
          LET fs == Append(replies, body)
          IN /\ refused' = (refused \/ body = "SECCHKRM_bad")
             /\ IF ~Complete(fs)
                THEN replies' = fs /\ UNCHANGED <<stage, mode, checks, setup, up>>
                ELSE IF Parsed(fs) = "ok" THEN Established /\ replies' = fs
                ELSE Failed(Parsed(fs))
    BY <1>4 DEF Phase2
  <2> DEFINE fs == Append(replies, body)
  <2>2. /\ stage = "phase2" /\ ~up /\ ~refused /\ Range(replies) \cap Terminal = {}
        /\ refused' \in BOOLEAN /\ replies \in Seq(Bodies2)
        /\ fs \in Seq(Bodies2) /\ body \in Range(fs)
    <3>1. replies \in Seq(Bodies2) /\ refused \in BOOLEAN
      BY DEF HInv, Known
    <3>2. fs \in Seq(Bodies2) /\ Range(fs) = Range(replies) \cup {body}
      BY <3>1, Appended
    <3> QED
      BY <1>4, <2>1, <3>1, <3>2 DEF Phase2, HInv, Attempt
  <2>3. body = "SECCHKRM_bad" => Complete(fs) /\ Parsed(fs) = "auth"
    BY <2>2, ParsedBad DEF Complete, Terminal
  <2>4. CASE ~Complete(fs)
    <3>1. Range(fs) \cap Terminal = {}
      BY <2>4, Completes
    <3> QED
      BY <1>4, <2>1, <2>2, <2>3, <2>4, <3>1, SentStays
      DEF Phase2, HInv, Known, Attempt, SessionIsGranted, SetUpBeforeUse
  <2>5. CASE Complete(fs) /\ Parsed(fs) = "ok"
    <3>1. Established /\ replies' = fs /\ ~refused'
      BY <2>1, <2>2, <2>3, <2>5
    <3>2. SessionIsGranted'
      BY <2>2, <2>5, <3>1, ParsedOk DEF SessionIsGranted
    <3>3. /\ up' /\ stage' \in {"idle", "setup"} /\ UNCHANGED <<mode, checks>>
          /\ stage' = "idle" => setup' = <<>>
      BY <3>1 DEF Established
    <3> HIDE DEF fs
    <3> QED
      BY <1>4, <2>2, <3>1, <3>2, <3>3, SentStays
      DEF Phase2, HInv, Known, Attempt, SetUpBeforeUse
  <2>6. CASE Complete(fs) /\ Parsed(fs) # "ok"
    <3>1. Failed(Parsed(fs)) /\ (Retries(Parsed(fs)) => ~refused')
      BY <2>1, <2>2, <2>3, <2>6 DEF Retries
    <3> HIDE DEF fs
    <3> QED
      BY <1>4, <2>2, <3>1, FailedKeeps DEF Phase2
  <2> QED
    BY <2>4, <2>5, <2>6
<1>5. CASE Closed
  <2>1. CASE Down
    BY <1>5, <2>1, DownKeeps DEF Closed, HInv, Known
  <2>2. ASSUME NEW outcome, Failed(outcome), stage \in {"phase1", "phase2"}
        PROVE  HInv'
    BY <1>5, <2>2, FailedKeeps DEF Closed, HInv, Known, Attempt
  <2> QED
    BY <1>5, <2>1, <2>2 DEF Closed
<1>6. CASE SetUp
  <2>1. CASE Down
    BY <1>6, <2>1, DownKeeps DEF SetUp, HInv, Known
  <2>2. CASE /\ setup' = Tail(setup)
             /\ stage' = IF Tail(setup) = <<>> THEN "idle" ELSE "setup"
             /\ UNCHANGED <<mode, replies, checks, up>>
    BY <1>6, <2>2, SentStays DEF SetUp, HInv, Known, Attempt, SessionIsGranted,
       SetUpBeforeUse
  <2> QED
    BY <1>6, <2>1, <2>2 DEF SetUp
<1>7. CASE Abandon
  <2>1. CASE up
    BY <1>7, <2>1, SentStays DEF Abandon, HInv, Known, Attempt, SessionIsGranted,
       SetUpBeforeUse
  <2>2. CASE ~up
    BY <1>7, <2>2, DownKeeps DEF Abandon, HInv, Known
  <2> QED
    BY <2>1, <2>2
<1>8. CASE SessionLost
  BY <1>8, DownKeeps DEF SessionLost, HInv, Known
<1>9. CASE UNCHANGED handshakeVars
  BY <1>9, SentStays
  DEF handshakeVars, HInv, Known, Attempt, SessionIsGranted, SetUpBeforeUse
<1> QED
  BY <1>1, <1>2, <1>3, <1>4, <1>5, <1>6, <1>7, <1>8, <1>9 DEF HandshakeNext

LEMMA HInvHolds == HandshakeSpec => []HInv
BY HInit, HStep, PTL DEF HandshakeSpec
-----------------------------------------------------------------------------
(* Handshake: what follows *)

\* authenticate, phase2_frames_complete: whatever frames the server sends and in
\* whatever order, a session comes up only from an accepted login that nothing
\* denied.
THEOREM SessionsAreGranted == HandshakeSpec => []SessionIsGranted
<1>1. HInv => SessionIsGranted
  BY DEF HInv
<1> QED
  BY <1>1, HInvHolds, PTL

\* establish_session, post_auth_init: a session is handed over set up to the end,
\* unless its caller dropped the future of connect.
THEOREM SetUpIsWhole == HandshakeSpec => []SetUpBeforeUse
<1>1. HInv => SetUpBeforeUse
  BY DEF HInv
<1> QED
  BY <1>1, HInvHolds, PTL

\* authenticate: a server that offers a weaker mechanism gets no password in clear
\* over a line without TLS, whichever configuration asks for encryption.
THEOREM PasswordsStaySecret == HandshakeSpec => []SecretsProtected
<1>1. HInv => SecretsProtected
  <2> SUFFICES ASSUME HInv, NEW i \in DOMAIN checks, "password" \in checks[i].clear
               PROVE  secure \/ conf.mech \notin Encrypted
    BY DEF SecretsProtected
  <2>1. checks[i] \in Sendable /\ secure = conf.ssl
    BY LenProperties, ElementOfSeq, EmptySeq DEF HInv, Known, Attempt
  <2>2. PICK m \in Mechanisms, a \in Algorithms : MaySend(m) /\ checks[i] = Secchk(m, a)
    BY <2>1 DEF Sendable
  <2>3. checks[i].clear = CASE m = "encrypted_user_and_password" -> {}
                            [] m = "user_and_password" -> {"user", "password"}
                            [] OTHER -> {"user"}
    BY <2>2 DEF Secchk
  <2>4. m = "user_and_password"
    BY <2>3
  <2>5. m \notin Encrypted
    BY <2>4 DEF Encrypted
  <2> QED
    BY <2>1, <2>2, <2>5 DEF MaySend
<1> QED
  BY <1>1, HInvHolds, PTL

\* should_retry_accsec_with_luw_legacy_handshake, server_ebcdic500_encoding: a
\* refusal is final, and the retry with the legacy name encodes alike.
THEOREM RefusalIsFinal == HandshakeSpec => []OneRefusal
<1>1. HInv => OneRefusal
  <2> SUFFICES ASSUME HInv PROVE OneRefusal
    OBVIOUS
  <2>1. ASSUME NEW i \in DOMAIN checks, NEW j \in DOMAIN checks,
               checks[i].mech = checks[j].mech, checks[i].algorithm = checks[j].algorithm
        PROVE  checks[i] = checks[j]
    <3>1. checks[i] \in Sendable /\ checks[j] \in Sendable
      BY LenProperties, ElementOfSeq DEF HInv, Known
    <3>2. PICK m, a : checks[i] = Secchk(m, a)
      BY <3>1 DEF Sendable
    <3>3. PICK n, b : checks[j] = Secchk(n, b)
      BY <3>1 DEF Sendable
    <3>4. checks[i].mech = m /\ checks[i].algorithm = a
      BY <3>2 DEF Secchk
    <3>5. checks[j].mech = n /\ checks[j].algorithm = b
      BY <3>3 DEF Secchk
    <3> QED
      BY <2>1, <3>2, <3>3, <3>4, <3>5
  <2> QED
    BY <2>1 DEF OneRefusal, HInv, Attempt
<1> QED
  BY <1>1, HInvHolds, PTL
-----------------------------------------------------------------------------
(* Dss: the payload of cells *)

Marks == Nat \X Nat

Cells ==
    [cell : {"head"}, len : Nat \cup {More}, same : BOOLEAN, chained : BOOLEAN, ddm : BOOLEAN]
    \cup [cell : {"cont"}, len : Nat \cup {More}] \cup [cell : {"unit"}, of : Marks]

UnitOf(c) == IF c.cell = "unit" THEN <<c.of>> ELSE <<>>

Each(cells) == [i \in DOMAIN cells |-> UnitOf(cells[i])]

LEMMA UnitsAreFlat == \A cells : UnitsOf(cells) = FlattenSeq(Each(cells))
BY DEF UnitsOf, Each, UnitOf

LEMMA UnitOfType == \A c \in Cells : UnitOf(c) \in Seq(Marks)
<1>1. ASSUME NEW c \in [cell : {"unit"}, of : Marks]
      PROVE  UnitOf(c) \in Seq(Marks)
  <2>1. c.cell = "unit" /\ c.of \in Marks
    OBVIOUS
  <2> HIDE DEF Marks
  <2> QED
    BY <2>1 DEF UnitOf
<1>2. ASSUME NEW c \in Cells, c \notin [cell : {"unit"}, of : Marks]
      PROVE  UnitOf(c) \in Seq(Marks)
  <2>1. c.cell # "unit"
    BY <1>2 DEF Cells
  <2> QED
    BY <2>1 DEF UnitOf
<1> QED
  BY <1>1, <1>2

LEMMA EachType ==
    ASSUME NEW a \in Seq(Cells)
    PROVE  Each(a) \in Seq(Seq(Marks)) /\ Len(Each(a)) = Len(a)
           /\ \A i \in 1..Len(a) : Each(a)[i] = UnitOf(a[i])
<1>1. Len(a) \in Nat /\ DOMAIN a = 1..Len(a) /\ \A i \in 1..Len(a) : a[i] \in Cells
  BY LenProperties
<1>2. Each(a) = [i \in 1..Len(a) |-> UnitOf(a[i])]
  BY <1>1 DEF Each
<1>3. \A i \in 1..Len(a) : UnitOf(a[i]) \in Seq(Marks)
  BY <1>1, UnitOfType
<1> QED
  BY <1>1, <1>2, <1>3

LEMMA EachConcat ==
    ASSUME NEW a \in Seq(Cells), NEW b \in Seq(Cells)
    PROVE  Each(a \o b) = Each(a) \o Each(b)
<1>1. /\ a \o b \in Seq(Cells) /\ Len(a \o b) = Len(a) + Len(b) /\ Len(a) \in Nat /\ Len(b) \in Nat
      /\ \A i \in 1..(Len(a) + Len(b)) : (a \o b)[i] = IF i <= Len(a) THEN a[i] ELSE b[i - Len(a)]
  BY LenProperties, ConcatProperties
<1>2. /\ Each(a) \in Seq(Seq(Marks)) /\ Each(b) \in Seq(Seq(Marks)) /\ Each(a \o b) \in Seq(Seq(Marks))
      /\ Len(Each(a)) = Len(a) /\ Len(Each(b)) = Len(b) /\ Len(Each(a \o b)) = Len(a) + Len(b)
      /\ \A i \in 1..Len(a) : Each(a)[i] = UnitOf(a[i])
      /\ \A i \in 1..Len(b) : Each(b)[i] = UnitOf(b[i])
      /\ \A i \in 1..(Len(a) + Len(b)) : Each(a \o b)[i] = UnitOf((a \o b)[i])
  BY <1>1, EachType
<1>3. /\ Each(a) \o Each(b) \in Seq(Seq(Marks))
      /\ Len(Each(a) \o Each(b)) = Len(a) + Len(b)
      /\ \A i \in 1..(Len(a) + Len(b)) :
           (Each(a) \o Each(b))[i] = IF i <= Len(a) THEN Each(a)[i] ELSE Each(b)[i - Len(a)]
  <2> DEFINE S == Seq(Marks)
             p == Each(a)
             q == Each(b)
  <2>1. p \in Seq(S) /\ q \in Seq(S) /\ Len(p) = Len(a) /\ Len(q) = Len(b)
    BY <1>2
  <2> HIDE DEF p, q, S
  <2>2. /\ p \o q \in Seq(S) /\ Len(p \o q) = Len(p) + Len(q)
        /\ \A i \in 1..(Len(p) + Len(q)) :
             (p \o q)[i] = IF i <= Len(p) THEN p[i] ELSE q[i - Len(p)]
    BY <2>1, ConcatProperties
  <2> QED
    BY <2>1, <2>2 DEF p, q, S
<1>4. ASSUME NEW i \in 1..(Len(a) + Len(b))
      PROVE  Each(a \o b)[i] = (Each(a) \o Each(b))[i]
  <2>1. CASE i <= Len(a)
    <3>1. i \in 1..Len(a)
      BY <1>1, <2>1
    <3> QED
      BY <1>1, <1>2, <1>3, <2>1, <3>1
  <2>2. CASE ~(i <= Len(a))
    <3>1. i - Len(a) \in 1..Len(b)
      BY <1>1, <2>2
    <3> QED
      BY <1>1, <1>2, <1>3, <2>2, <3>1
  <2> QED
    BY <2>1, <2>2
<1> QED
  BY <1>1, <1>2, <1>3, <1>4, SeqEqual

LEMMA UnitsType ==
    ASSUME NEW a \in Seq(Cells)
    PROVE  UnitsOf(a) \in Seq(Marks)
BY EachType, UnitsAreFlat, FlattenType

LEMMA UnitsConcat ==
    ASSUME NEW a \in Seq(Cells), NEW b \in Seq(Cells)
    PROVE  UnitsOf(a \o b) = UnitsOf(a) \o UnitsOf(b)
<1>1. Each(a) \in Seq(Seq(Marks)) /\ Each(b) \in Seq(Seq(Marks))
  BY EachType
<1>2. FlattenSeq(Each(a) \o Each(b)) = FlattenSeq(Each(a)) \o FlattenSeq(Each(b))
  BY <1>1, FlattenConcat
<1> QED
  BY <1>2, EachConcat, UnitsAreFlat

LEMMA UnitsNone == UnitsOf(<<>>) = <<>>
<1>1. Each(<<>>) = <<>>
  BY DEF Each
<1> QED
  BY <1>1, UnitsAreFlat, FlattenNone

LEMMA UnitsOne ==
    ASSUME NEW c \in Cells
    PROVE  UnitsOf(<<c>>) = UnitOf(c)
<1>1. Each(<<c>>) = <<UnitOf(c)>>
  <2> DEFINE a == <<c>>
             u == UnitOf(c)
  <2>1. a \in Seq(Cells) /\ Len(a) = 1 /\ a[1] = c /\ DOMAIN a = 1..1
    OBVIOUS
  <2> HIDE DEF a, u
  <2>2. Each(a) = [i \in 1..1 |-> u]
    BY <2>1 DEF Each, u
  <2>3. [i \in 1..1 |-> u] = <<u>>
    OBVIOUS
  <2> QED
    BY <2>2, <2>3 DEF a, u
<1> QED
  BY <1>1, UnitsAreFlat, UnitOfType, FlattenOne

\* k units of message n from the from-th on.
Run(n, from, k) == [i \in 1..k |-> <<n, from + i - 1>>]

LEMMA RunType ==
    ASSUME NEW n \in Nat, NEW from \in Nat \ {0}, NEW k \in Nat
    PROVE  /\ Run(n, from, k) \in Seq(Marks) /\ Len(Run(n, from, k)) = k
           /\ \A i \in 1..k : Run(n, from, k)[i] = <<n, from + i - 1>>
BY DEF Run, Marks

LEMMA RunConcat ==
    ASSUME NEW n \in Nat, NEW from \in Nat \ {0}, NEW k \in Nat, NEW l \in Nat
    PROVE  Run(n, from, k) \o Run(n, from + k, l) = Run(n, from, k + l)
<1> DEFINE a == Run(n, from, k)
           b == Run(n, from + k, l)
           c == Run(n, from, k + l)
<1>1. /\ a \in Seq(Marks) /\ Len(a) = k /\ \A i \in 1..k : a[i] = <<n, from + i - 1>>
      /\ b \in Seq(Marks) /\ Len(b) = l /\ \A i \in 1..l : b[i] = <<n, from + k + i - 1>>
      /\ c \in Seq(Marks) /\ Len(c) = k + l /\ \A i \in 1..(k + l) : c[i] = <<n, from + i - 1>>
  <2>1. from + k \in Nat \ {0} /\ k + l \in Nat
    OBVIOUS
  <2> QED
    BY <2>1, RunType
<1> HIDE DEF a, b, c
<1>2. /\ a \o b \in Seq(Marks) /\ Len(a \o b) = k + l
      /\ \A i \in 1..(k + l) : (a \o b)[i] = IF i <= k THEN a[i] ELSE b[i - k]
  BY <1>1, ConcatProperties
<1>3. ASSUME NEW i \in 1..(k + l)
      PROVE  (a \o b)[i] = c[i]
  <2>1. CASE i <= k
    <3>1. i \in 1..k
      BY <2>1
    <3> QED
      BY <1>1, <1>2, <2>1, <3>1
  <2>2. CASE ~(i <= k)
    <3>1. i - k \in 1..l /\ from + k + (i - k) - 1 = from + i - 1
      BY <2>2
    <3> QED
      BY <1>1, <1>2, <2>2, <3>1
  <2> QED
    BY <2>1, <2>2
<1>4. a \o b = c
  BY <1>1, <1>2, <1>3, SeqEqual
<1> QED
  BY <1>4 DEF a, b, c

LEMMA UnitsAre ==
    ASSUME NEW n \in Nat, NEW from \in Nat \ {0}, NEW k \in Nat
    PROVE  /\ Units(n, from, from + k - 1) \in Seq(Cells)
           /\ Len(Units(n, from, from + k - 1)) = k
           /\ \A i \in 1..k : Units(n, from, from + k - 1)[i] = [cell |-> "unit", of |-> <<n, from + i - 1>>]
<1>1. from + k - 1 - from + 1 = k
  OBVIOUS
<1>2. Units(n, from, from + k - 1) = [i \in 1..k |-> [cell |-> "unit", of |-> <<n, from + i - 1>>]]
  BY <1>1 DEF Units
<1>3. \A i \in 1..k : [cell |-> "unit", of |-> <<n, from + i - 1>>] \in Cells
  BY DEF Cells, Marks
<1> DEFINE e(i) == [cell |-> "unit", of |-> <<n, from + i - 1>>]
<1> HIDE DEF e
<1>4. [i \in 1..k |-> e(i)] \in Seq(Cells) /\ Len([i \in 1..k |-> e(i)]) = k
  BY <1>3 DEF e
<1> QED
  BY <1>2, <1>4 DEF e

LEMMA UnitsOfUnits ==
    ASSUME NEW n \in Nat, NEW from \in Nat \ {0}, NEW k \in Nat
    PROVE  UnitsOf(Units(n, from, from + k - 1)) = Run(n, from, k)
<1> DEFINE u == Units(n, from, from + k - 1)
           g == [i \in 0..k |-> Run(n, from, i)]
<1>1. /\ u \in Seq(Cells) /\ Len(u) = k
      /\ \A i \in 1..k : u[i] = [cell |-> "unit", of |-> <<n, from + i - 1>>]
  BY UnitsAre
<1> HIDE DEF u
<1>2. /\ Each(u) \in Seq(Seq(Marks)) /\ Len(Each(u)) = k
      /\ \A i \in 1..k : Each(u)[i] = <<<<n, from + i - 1>>>>
  <2>1. \A i \in 1..k : UnitOf(u[i]) = <<<<n, from + i - 1>>>>
    BY <1>1 DEF UnitOf
  <2> QED
    BY <1>1, <2>1, EachType
<1>3. Partials(g, Each(u), Marks)
  <2>1. g \in [0..k -> Seq(Marks)]
    <3>1. \A i \in 0..k : i \in Nat
      OBVIOUS
    <3> QED
      BY <3>1, RunType
  <2>2. g[0] = <<>>
    BY DEF Run
  <2>3. ASSUME NEW i \in 1..k
        PROVE  g[i] = g[i - 1] \o Each(u)[i]
    <3>1. i - 1 \in Nat /\ i - 1 \in 0..k /\ i \in 0..k /\ (i - 1) + 1 = i
      OBVIOUS
    <3>2. Run(n, from, i - 1) \o Run(n, from + (i - 1), 1) = Run(n, from, i)
      <4>1. 1 \in Nat
        OBVIOUS
      <4>2. Run(n, from, i - 1) \o Run(n, from + (i - 1), 1) = Run(n, from, i - 1 + 1)
        BY <3>1, <4>1, RunConcat
      <4> QED
        BY <3>1, <4>2
    <3>3. Run(n, from + (i - 1), 1) = <<<<n, from + i - 1>>>>
      BY <3>1 DEF Run
    <3> QED
      BY <1>2, <3>1, <3>2, <3>3
  <2> HIDE DEF g
  <2> QED
    BY <1>2, <2>1, <2>2, <2>3 DEF Partials
<1>4. FlattenSeq(Each(u)) = g[k]
  <2> HIDE DEF g
  <2> QED
    BY <1>2, <1>3, FlattenIs
<1>5. UnitsOf(u) = Run(n, from, k)
  BY <1>4, UnitsAreFlat
<1> QED
  BY <1>5 DEF u
-----------------------------------------------------------------------------
(* Dss: the continuations of a long message *)

Count(left) == (left + Cont - 1) \div Cont

\* The units in the first k continuations.
Covered(left, k) == IF left > k * Cont THEN k * Cont ELSE left

LEMMA Counting ==
    ASSUME NEW left \in Nat \ {0}
    PROVE  /\ Count(left) \in Nat \ {0}
           /\ left <= Count(left) * Cont
           /\ (Count(left) - 1) * Cont < left
<1>1. Cont \in Nat \ {0}
  BY DssAssumption
<1>2. Count(left) = (left + Cont - 1) \div Cont
  BY DEF Count
<1> QED
  BY <1>1, <1>2, PiecesNeeded

\* The k-th of q continuations, with size units and length len.
Piece(left, k, q, size, len) ==
    /\ size \in 1..Cont
    /\ Covered(left, k - 1) = (k - 1) * Cont
    /\ Covered(left, k) = Covered(left, k - 1) + size
    /\ k < q => len = More /\ size = Cont
    /\ k = q => len = size /\ (size = Cont => left % Cont = 0)

\* The continuations are full and say More but for the last, and cover the message.
LEMMA PiecesCover ==
    ASSUME NEW left \in Nat \ {0}
    PROVE  /\ Covered(left, 0) = 0 /\ Covered(left, Count(left)) = left
           /\ DOMAIN Chunks(left) = 1..Count(left)
           /\ \A k \in 1..Count(left) :
                Piece(left, k, Count(left), Chunks(left)[k].size, Chunks(left)[k].len)
<1> DEFINE q == Count(left)
<1>0. Cont \in Nat \ {0}
  BY DssAssumption
<1>1. q \in Nat \ {0} /\ left <= q * Cont /\ (q - 1) * Cont < left
  BY Counting
<1>2. Chunks(left) = [k \in 1..q |->
          IF left > k * Cont THEN [size |-> Cont, len |-> More]
          ELSE [size |-> left - (k - 1) * Cont, len |-> left - (k - 1) * Cont]]
  BY DEF Chunks, Count
<1> HIDE DEF q
<1>3. Covered(left, 0) = 0 /\ Covered(left, q) = left
  <2>1. 0 * Cont = 0
    BY <1>0
  <2> QED
    BY <1>0, <1>1, <2>1 DEF Covered
<1>4. ASSUME NEW k \in 1..q
      PROVE  Piece(left, k, q, Chunks(left)[k].size, Chunks(left)[k].len)
  <2> DEFINE a == (k - 1) * Cont
             b == k * Cont
  <2>1. a \in Nat /\ b = a + Cont
    BY <1>0, <1>1
  <2>2. a <= (q - 1) * Cont
    <3>1. k - 1 \in Nat /\ q - 1 \in Nat /\ k - 1 <= q - 1
      BY <1>1
    <3> QED
      BY <1>0, <3>1, Product
  <2>3. k < q => b <= (q - 1) * Cont
    <3>1. ASSUME k < q
          PROVE  b <= (q - 1) * Cont
      <4>1. k \in Nat /\ q - 1 \in Nat /\ k <= q - 1
        BY <1>1, <3>1
      <4> QED
        BY <1>0, <4>1, Product
    <3> QED
      BY <3>1
  <2>4. (q - 1) * Cont \in Nat
    BY <1>0, <1>1
  <2>5. a < left /\ (k < q => b < left) /\ (k = q => left <= b)
    <3> HIDE DEF a
    <3>1. a < left
      BY <1>0, <1>1, <2>1, <2>2, <2>4
    <3> HIDE DEF b
    <3>2. k < q => b < left
      BY <1>0, <1>1, <2>1, <2>3, <2>4
    <3>3. k = q => left <= b
      BY <1>1 DEF b
    <3> QED
      BY <3>1, <3>2, <3>3
  <2>6. Covered(left, k - 1) = a /\ Covered(left, k) = IF left > b THEN b ELSE left
    <3>1. Covered(left, k - 1) = IF left > a THEN a ELSE left
      BY DEF Covered
    <3>2. Covered(left, k) = IF left > b THEN b ELSE left
      BY DEF Covered
    <3> HIDE DEF a, b
    <3> QED
      BY <2>5, <3>1, <3>2
  <2>7. /\ Chunks(left)[k].size = IF left > b THEN Cont ELSE left - a
        /\ Chunks(left)[k].len = IF left > b THEN More ELSE left - a
    BY <1>2
  <2>8. a = (k - 1) * Cont
    OBVIOUS
  <2>9. (k = q /\ left - a = Cont) => left % Cont = 0
    <3>1. ASSUME left = k * Cont
          PROVE  left % Cont = 0
      BY <1>0, <1>1, <3>1
    <3> HIDE DEF a, b
    <3>2. left - a = Cont => left = b
      BY <1>0, <2>1
    <3> QED
      BY <3>1, <3>2 DEF b
  <2> HIDE DEF a, b
  <2>10. CASE k < q
    <3>1. left > b /\ k # q
      BY <1>0, <1>1, <2>1, <2>5, <2>10
    <3> QED
      BY <1>0, <2>1, <2>6, <2>7, <2>8, <2>10, <3>1 DEF Piece
  <2>11. CASE ~(k < q)
    <3>1. k = q /\ ~(left > b)
      BY <1>0, <1>1, <2>1, <2>5, <2>11
    <3>2. left - a \in 1..Cont
      BY <1>0, <2>1, <2>5, <3>1
    <3> QED
      BY <1>0, <2>1, <2>6, <2>7, <2>8, <2>9, <2>11, <3>1, <3>2 DEF Piece
  <2> QED
    BY <2>10, <2>11
<1> QED
  BY <1>2, <1>3, <1>4 DEF q
-----------------------------------------------------------------------------
(* Dss: the cells of a message *)

\* The header of a message and its continuations, as Segments has them.
HeadOf(m, len) ==
    [cell |-> "head", len |-> len, same |-> m.same, chained |-> m.chained, ddm |-> m.ddm]

Block(n, left, k) ==
    <<[cell |-> "cont", len |-> Chunks(left)[k].len]>>
    \o Units(n, First + (k - 1) * Cont + 1, First + (k - 1) * Cont + 1 + Chunks(left)[k].size - 1)

Blocks(n, left) == [k \in DOMAIN Chunks(left) |-> Block(n, left, k)]

LEMMA SegmentsAre ==
    ASSUME NEW n, NEW m
    PROVE  Segments(n, m) =
             IF m.len <= First THEN <<HeadOf(m, m.len)>> \o Units(n, 1, m.len)
             ELSE (<<HeadOf(m, More)>> \o Units(n, 1, First)) \o FlattenSeq(Blocks(n, m.len - First))
BY DEF Segments, HeadOf, Blocks, Block

LEMMA HeadOfType ==
    ASSUME NEW m \in Messages, NEW len \in Nat \cup {More}
    PROVE  HeadOf(m, len) \in Cells /\ UnitOf(HeadOf(m, len)) = <<>>
BY DEF HeadOf, Messages, Cells, UnitOf

\* b is c and k units of message n behind it, from the from-th on.
IsLead(b, c, n, from, k) ==
    /\ b \in Seq(Cells) /\ Len(b) = k + 1 /\ b[1] = c
    /\ \A i \in 2..(k + 1) : b[i].cell = "unit"
    /\ UnitsOf(b) = Run(n, from, k)

\* A header or a continuation length, and the units behind it.
LEMMA Lead ==
    ASSUME NEW c \in Cells, c.cell # "unit", NEW n \in Nat, NEW from \in Nat \ {0}, NEW k \in Nat
    PROVE  IsLead(<<c>> \o Units(n, from, from + k - 1), c, n, from, k)
<1> DEFINE u == Units(n, from, from + k - 1)
           a == <<c>>
           b == a \o u
<1>1. u \in Seq(Cells) /\ Len(u) = k /\ UnitsOf(u) = Run(n, from, k) /\ \A i \in 1..k : u[i].cell = "unit"
  <2>1. \A i \in 1..k : u[i] = [cell |-> "unit", of |-> <<n, from + i - 1>>]
    BY UnitsAre
  <2>2. u \in Seq(Cells) /\ Len(u) = k /\ UnitsOf(u) = Run(n, from, k)
    BY UnitsAre, UnitsOfUnits
  <2> HIDE DEF u
  <2> QED
    BY <2>1, <2>2
<1>2. a \in Seq(Cells) /\ Len(a) = 1 /\ a[1] = c
  OBVIOUS
<1>3. UnitsOf(a) = <<>>
  BY UnitsOne DEF UnitOf
<1> HIDE DEF a, u
<1>4. b \in Seq(Cells) /\ Joined(a, u, b) /\ UnitsOf(b) = UnitsOf(a) \o UnitsOf(u)
  BY <1>1, <1>2, Joins, UnitsConcat
<1> HIDE DEF b
<1>5. Len(b) = k + 1 /\ b[1] = c
  BY <1>1, <1>2, <1>4 DEF Joined
<1>6. ASSUME NEW i \in 2..(k + 1)
      PROVE  b[i].cell = "unit"
  <2>1. i - 1 \in 1..k /\ 1 + (i - 1) = i
    OBVIOUS
  <2>2. b[1 + (i - 1)] = u[i - 1]
    BY <1>1, <1>2, <1>4, <2>1 DEF Joined
  <2> QED
    BY <1>1, <2>1, <2>2
<1>7. UnitsOf(b) = Run(n, from, k)
  <2>1. Run(n, from, k) \in Seq(Marks)
    BY RunType
  <2> QED
    BY <1>1, <1>3, <1>4, <2>1, ConcatEmptySeq
<1>8. IsLead(b, c, n, from, k)
  BY <1>4, <1>5, <1>6, <1>7 DEF IsLead
<1> QED
  BY <1>8 DEF a, u, b

LEMMA BlockIs ==
    ASSUME NEW n \in Nat, NEW left \in Nat \ {0}, NEW k \in 1..Count(left)
    PROVE  /\ Block(n, left, k) \in Seq(Cells)
           /\ Len(Block(n, left, k)) = Chunks(left)[k].size + 1
           /\ Block(n, left, k)[1] = [cell |-> "cont", len |-> Chunks(left)[k].len]
           /\ \A i \in 2..(Chunks(left)[k].size + 1) : Block(n, left, k)[i].cell = "unit"
           /\ UnitsOf(Block(n, left, k)) =
                Run(n, First + Covered(left, k - 1) + 1, Chunks(left)[k].size)
<1> DEFINE size == Chunks(left)[k].size
           len == Chunks(left)[k].len
           from == First + Covered(left, k - 1) + 1
           c == [cell |-> "cont", len |-> len]
<1>0. Cont \in Nat \ {0} /\ First \in Nat \ {0}
  BY DssAssumption
<1>1. Piece(left, k, Count(left), size, len) /\ Count(left) \in Nat
  BY PiecesCover, Counting
<1>2. size \in 1..Cont /\ Covered(left, k - 1) = (k - 1) * Cont /\ len \in Nat \cup {More}
  <2>1. k < Count(left) \/ k = Count(left)
    BY <1>1
  <2> HIDE DEF size, len
  <2> QED
    BY <1>0, <1>1, <2>1 DEF Piece, More
<1>3. c \in Cells /\ c.cell # "unit"
  <2> HIDE DEF len
  <2> QED
    BY <1>2 DEF Cells
<1>4. from \in Nat \ {0} /\ from = First + (k - 1) * Cont + 1
  <2>1. (k - 1) * Cont \in Nat
    BY <1>0, <1>1
  <2> QED
    BY <1>0, <1>2, <2>1
<1>5. Block(n, left, k) = <<c>> \o Units(n, from, from + size - 1)
  BY <1>4 DEF Block
<1>6. size \in Nat
  BY <1>2
<1> HIDE DEF c, from, size
<1>7. IsLead(<<c>> \o Units(n, from, from + size - 1), c, n, from, size)
  BY <1>3, <1>4, <1>6, Lead
<1>8. IsLead(Block(n, left, k), c, n, from, size)
  BY <1>5, <1>7
<1> QED
  BY <1>8 DEF c, from, size, IsLead
-----------------------------------------------------------------------------
(* Dss: where the parts of a message's segment begin *)

\* The k-th part of a message with q continuations: the header and what is
\* behind it (k = 0), or a continuation.
Part(seg, m, q, k, from, to) ==
    /\ from + 1 < to
    /\ \A i \in (from + 2)..to : seg[i].cell = "unit"
    /\ k = 0 => /\ seg[from + 1] = HeadOf(m, IF q = 0 THEN m.len ELSE More)
                /\ to = from + 1 + (IF q = 0 THEN m.len ELSE First)
    /\ k > 0 => /\ seg[from + 1].cell = "cont"
                /\ k < q => seg[from + 1].len = More /\ to = from + 1 + Cont
                /\ k = q => /\ seg[from + 1].len \in 1..Cont
                            /\ to = from + 1 + seg[from + 1].len
                            /\ seg[from + 1].len = Cont => ExactFill(m)

\* c cuts a segment into the parts of a message with q continuations.
CutAt(seg, m, q, c) ==
    /\ q \in Nat /\ c \in [0..(q + 1) -> Nat] /\ c[0] = 0 /\ c[q + 1] = Len(seg)
    /\ \A k \in 0..q : Part(seg, m, q, k, c[k], c[k + 1])


LEMMA ShortSegment ==
    ASSUME NEW n \in Nat, NEW m \in Messages, m.len <= First
    PROVE  /\ IsLead(Segments(n, m), HeadOf(m, m.len), n, 1, m.len)
           /\ \E q, c : CutAt(Segments(n, m), m, q, c)
<1> DEFINE seg == Segments(n, m)
           c == [i \in 0..(0 + 1) |-> IF i = 0 THEN 0 ELSE m.len + 1]
<1>1. m.len \in Nat \ {0}
  BY DssAssumption DEF Messages
<1>2. IsLead(seg, HeadOf(m, m.len), n, 1, m.len)
  <2>1. HeadOf(m, m.len) \in Cells /\ HeadOf(m, m.len).cell # "unit"
    BY <1>1, HeadOfType DEF HeadOf
  <2>2. IsLead(<<HeadOf(m, m.len)>> \o Units(n, 1, 1 + m.len - 1), HeadOf(m, m.len), n, 1, m.len)
    <3>1. m.len \in Nat /\ 1 \in Nat \ {0}
      BY <1>1
    <3> QED
      BY <2>1, <3>1, Lead
  <2>3. 1 + m.len - 1 = m.len
    BY <1>1
  <2> QED
    BY <2>2, <2>3, SegmentsAre
<1>3. CutAt(seg, m, 0, c)
  <2>1. Len(seg) = m.len + 1 /\ seg[1] = HeadOf(m, m.len) /\ \A i \in 2..(m.len + 1) : seg[i].cell = "unit"
    BY <1>2 DEF IsLead
  <2> HIDE DEF seg
  <2>2. Part(seg, m, 0, 0, 0, m.len + 1)
    <3>1. 0 + 1 = 1 /\ 0 + 2 = 2 /\ 0 + 1 < m.len + 1 /\ 0 + 1 + m.len = m.len + 1 /\ ~(0 > 0)
      BY <1>1
    <3> QED
      BY <1>1, <2>1, <3>1 DEF Part
  <2>3. c \in [0..(0 + 1) -> Nat] /\ c[0] = 0 /\ c[0 + 1] = m.len + 1
    BY <1>1
  <2> HIDE DEF c
  <2>4. \A k \in 0..0 : Part(seg, m, 0, k, c[k], c[k + 1])
    <3>1. \A k \in 0..0 : k = 0
      OBVIOUS
    <3> QED
      BY <2>2, <2>3, <3>1
  <2> QED
    BY <2>1, <2>3, <2>4 DEF CutAt
<1> QED
  BY <1>2, <1>3

\* The blocks of a long message, and its segment as one sequence.
Laying(n, m, B, g, h) ==
    /\ B \in Seq(Seq(Cells)) /\ Len(B) = Count(m.len - First)
    /\ \A k \in 1..Len(B) : B[k] = Block(n, m.len - First, k)
    /\ Partials(g, B, Cells)
    /\ IsLead(h, HeadOf(m, More), n, 1, First)
    /\ Segments(n, m) = h \o g[Len(B)]

LEMMA LongLaying ==
    ASSUME NEW n \in Nat, NEW m \in Messages, ~(m.len <= First)
    PROVE  \E B, g, h : Laying(n, m, B, g, h)
<1> DEFINE left == m.len - First
           B == Blocks(n, left)
           h == <<HeadOf(m, More)>> \o Units(n, 1, First)
<1>1. m.len \in Nat /\ First \in Nat \ {0} /\ left \in Nat \ {0}
  BY DssAssumption DEF Messages
<1> HIDE DEF left
<1>2. Count(left) \in Nat /\ DOMAIN Chunks(left) = 1..Count(left)
  BY <1>1, Counting, PiecesCover
<1>3. \A k \in 1..Count(left) : Block(n, left, k) \in Seq(Cells)
  BY <1>1, BlockIs
<1>4. /\ B \in Seq(Seq(Cells)) /\ Len(B) = Count(left)
      /\ \A k \in 1..Count(left) : B[k] = Block(n, left, k)
  <2>1. B = [k \in 1..Count(left) |-> Block(n, left, k)]
    BY <1>2 DEF Blocks
  <2> HIDE DEF B
  <2> QED
    BY <1>2, <1>3, <2>1
<1> HIDE DEF B
<1>5. PICK g : Partials(g, B, Cells)
  BY <1>4, PartialsExist
<1>6. FlattenSeq(B) = g[Len(B)]
  BY <1>4, <1>5, FlattenIs
<1>7. IsLead(h, HeadOf(m, More), n, 1, First)
  <2>1. HeadOf(m, More) \in Cells /\ HeadOf(m, More).cell # "unit"
    BY HeadOfType DEF HeadOf, More
  <2>2. IsLead(<<HeadOf(m, More)>> \o Units(n, 1, 1 + First - 1), HeadOf(m, More), n, 1, First)
    <3>1. First \in Nat /\ 1 \in Nat \ {0}
      BY <1>1
    <3> QED
      BY <2>1, <3>1, Lead
  <2>3. 1 + First - 1 = First
    BY <1>1
  <2> QED
    BY <2>2, <2>3
<1>8. Segments(n, m) = h \o g[Len(B)]
  BY <1>6, SegmentsAre DEF B, left
<1> HIDE DEF h
<1>9. Laying(n, m, B, g, h)
  BY <1>4, <1>5, <1>7, <1>8 DEF Laying, left
<1> QED
  BY <1>9

LEMMA LongUnits ==
    ASSUME NEW n \in Nat, NEW m \in Messages, ~(m.len <= First)
    PROVE  Segments(n, m) \in Seq(Cells) /\ UnitsOf(Segments(n, m)) = Run(n, 1, m.len)
<1> DEFINE left == m.len - First
           q == Count(left)
<1>1. m.len \in Nat /\ First \in Nat \ {0} /\ left \in Nat \ {0} /\ First + left = m.len
  BY DssAssumption DEF Messages
<1>2. PICK B, g, h : Laying(n, m, B, g, h)
  BY LongLaying
<1>3. /\ B \in Seq(Seq(Cells)) /\ Len(B) = q
      /\ \A k \in 1..q : B[k] = Block(n, left, k)
      /\ g \in [0..q -> Seq(Cells)] /\ g[0] = <<>>
      /\ \A k \in 1..q : g[k] = g[k - 1] \o B[k]
      /\ h \in Seq(Cells) /\ UnitsOf(h) = Run(n, 1, First)
      /\ Segments(n, m) = h \o g[q]
  BY <1>2 DEF Laying, Partials, IsLead
<1> HIDE DEF left, q
<1>4. q \in Nat
  BY <1>1, Counting DEF q
<1> DEFINE G == {k \in 0..q : UnitsOf(g[k]) = Run(n, First + 1, Covered(left, k))}
<1>5. 0 \in G
  <2>1. Run(n, First + 1, 0) = <<>>
    BY DEF Run
  <2>2. Covered(left, 0) = 0
    BY <1>1, PiecesCover
  <2> QED
    BY <1>3, <1>4, <2>1, <2>2, UnitsNone
<1>6. ASSUME NEW k \in 1..q, k - 1 \in G
      PROVE  k \in G
  <2> DEFINE size == Chunks(left)[k].size
             a == Covered(left, k - 1)
  <2>1. Piece(left, k, q, size, Chunks(left)[k].len)
    BY <1>1, PiecesCover DEF q
  <2>2. B[k] \in Seq(Cells) /\ UnitsOf(B[k]) = Run(n, First + a + 1, size)
    <3>1. UnitsOf(Block(n, left, k)) = Run(n, First + a + 1, size) /\ Block(n, left, k) \in Seq(Cells)
      BY <1>1, BlockIs DEF q
    <3> QED
      BY <1>3, <3>1
  <2>3. k - 1 \in 0..q /\ k \in 0..q /\ k - 1 \in Nat
    BY <1>4
  <2>4. UnitsOf(g[k]) = UnitsOf(g[k - 1]) \o UnitsOf(B[k])
    <3>1. g[k - 1] \in Seq(Cells) /\ g[k] = g[k - 1] \o B[k]
      BY <1>3, <2>3
    <3> QED
      BY <2>2, <3>1, UnitsConcat
  <2>5. Covered(left, k) = a + size /\ a \in Nat /\ size \in Nat
    <3>1. (k - 1) * Cont \in Nat /\ Cont \in Nat
      BY <2>3, DssAssumption
    <3> QED
      BY <2>1, <3>1 DEF Piece
  <2>6. UnitsOf(g[k - 1]) = Run(n, First + 1, a)
    BY <1>6
  <2> HIDE DEF a, size
  <2>7. First + a + 1 = First + 1 + a /\ First + 1 \in Nat \ {0}
    BY <1>1, <2>5
  <2>8. Run(n, First + 1, a) \o Run(n, First + 1 + a, size) = Run(n, First + 1, a + size)
    BY <2>5, <2>7, RunConcat
  <2> QED
    BY <2>2, <2>3, <2>4, <2>5, <2>6, <2>7, <2>8
<1> HIDE DEF G
<1>7. 0..q \subseteq G
  BY <1>4, <1>5, <1>6, KeptAlong
<1>8. q \in 0..q /\ q \in G
  BY <1>4, <1>7
<1>9. UnitsOf(g[q]) = Run(n, First + 1, left) /\ g[q] \in Seq(Cells)
  <2>1. Covered(left, q) = left
    BY <1>1, PiecesCover DEF q
  <2> QED
    BY <1>3, <1>8, <2>1 DEF G
<1>10. UnitsOf(h \o g[q]) = Run(n, 1, First) \o Run(n, First + 1, left)
  BY <1>3, <1>9, UnitsConcat
<1>11. Run(n, 1, First) \o Run(n, 1 + First, left) = Run(n, 1, First + left)
  <2>1. First \in Nat /\ left \in Nat /\ 1 \in Nat \ {0}
    BY <1>1
  <2> QED
    BY <2>1, RunConcat
<1>12. 1 + First = First + 1
  BY <1>1
<1>13. h \o g[q] \in Seq(Cells)
  BY <1>3, <1>9, Joins
<1> QED
  BY <1>1, <1>3, <1>10, <1>11, <1>12, <1>13
\* A long message is cut at its continuations, where the reader looks for a length.
LEMMA LongCut ==
    ASSUME NEW n \in Nat, NEW m \in Messages, ~(m.len <= First)
    PROVE  \E q, c : CutAt(Segments(n, m), m, q, c)
<1> DEFINE left == m.len - First
           q == Count(left)
           seg == Segments(n, m)
<1>1. m.len \in Nat /\ First \in Nat \ {0} /\ Cont \in Nat \ {0} /\ left \in Nat \ {0}
  BY DssAssumption DEF Messages
<1>2. PICK B, g, h : Laying(n, m, B, g, h)
  BY LongLaying
<1>3. /\ B \in Seq(Seq(Cells)) /\ Len(B) = q
      /\ \A k \in 1..q : B[k] = Block(n, left, k)
      /\ Partials(g, B, Cells)
      /\ g \in [0..q -> Seq(Cells)] /\ g[0] = <<>>
      /\ h \in Seq(Cells) /\ Len(h) = First + 1 /\ h[1] = HeadOf(m, More)
      /\ \A i \in 2..(First + 1) : h[i].cell = "unit"
      /\ seg = h \o g[q]
  BY <1>2 DEF Laying, Partials, IsLead
<1>4. q \in Nat \ {0}
  BY <1>1, Counting
<1>5. ExactFill(m) <=> left % Cont = 0
  BY <1>1 DEF ExactFill
<1> HIDE DEF left, q, seg
<1>6. Joined(h, g[q], seg) /\ \A k \in 0..q : g[k] \in Seq(Cells) /\ Len(g[k]) \in Nat
  <2>1. q \in 0..q
    BY <1>4
  <2>2. \A k \in 0..q : g[k] \in Seq(Cells)
    BY <1>3
  <2> QED
    BY <1>3, <2>1, <2>2, Joins, LenProperties
<1> DEFINE at(k) == 1 + First + Len(g[k - 1])
           c == [k \in 0..(q + 1) |-> IF k = 0 THEN 0 ELSE at(k)]
<1>7. ASSUME NEW k \in 1..q
      PROVE  Part(seg, m, q, k, at(k), at(k + 1))
  <2> DEFINE size == Chunks(left)[k].size
             len == Chunks(left)[k].len
             p == Len(g[k - 1])
             b == B[k]
  <2>1. Piece(left, k, q, size, len)
    BY <1>1, PiecesCover DEF q
  <2>2. Block(n, left, k) = b
    BY <1>3
  <2>3. Len(b) = size + 1 /\ b[1].cell = "cont" /\ b[1].len = len /\ \A i \in 2..(size + 1) : b[i].cell = "unit"
    <3>1. /\ Len(Block(n, left, k)) = size + 1
          /\ Block(n, left, k)[1] = [cell |-> "cont", len |-> len]
          /\ \A i \in 2..(size + 1) : Block(n, left, k)[i].cell = "unit"
      BY <1>1, BlockIs DEF q
    <3> HIDE DEF size, len, b
    <3> QED
      BY <2>2, <3>1
  <2>4. size \in Nat /\ size >= 1 /\ size <= Cont
    BY <1>1, <2>1 DEF Piece
  <2>5. Len(g[k]) = p + Len(b) /\ p \in Nat /\ Stands(b, p, g[q])
    BY <1>3, PartialsKept
  <2> HIDE DEF size, len, p, b
  <2>6. \A i \in 1..(size + 1) : seg[1 + First + p + i] = b[i]
    <3>1. ASSUME NEW i \in 1..(size + 1)
          PROVE  seg[1 + First + p + i] = b[i]
      <4>1. g[q][p + i] = b[i] /\ p + Len(b) <= Len(g[q])
        BY <2>3, <2>5 DEF Stands
      <4>2. p + i \in 1..Len(g[q])
        BY <1>4, <1>6, <2>3, <2>4, <2>5, <4>1
      <4>3. seg[Len(h) + (p + i)] = g[q][p + i]
        BY <1>6, <4>2 DEF Joined
      <4>4. Len(h) + (p + i) = 1 + First + p + i
        BY <1>1, <1>3, <2>5, <2>4
      <4> QED
        BY <4>1, <4>3, <4>4
    <3> QED
      BY <3>1
  <2>7. at(k) = 1 + First + p /\ at(k + 1) = 1 + First + p + size + 1 /\ at(k) \in Nat
    <3>1. k + 1 - 1 = k
      OBVIOUS
    <3>2. at(k + 1) = 1 + First + Len(g[k])
      BY <3>1
    <3>3. at(k) = 1 + First + p
      BY DEF p
    <3> DEFINE x == at(k)
               y == at(k + 1)
               z == Len(g[k])
    <3>4. x = 1 + First + p /\ y = 1 + First + z
      BY <3>2, <3>3
    <3>5. z = p + (size + 1) /\ {First, p, size} \subseteq Nat
      BY <1>1, <2>3, <2>4, <2>5
    <3> HIDE DEF at, x, y, z
    <3>6. x = 1 + First + p /\ y = 1 + First + p + size + 1 /\ x \in Nat
      BY <3>4, <3>5
    <3> QED
      BY <3>6 DEF x, y
  <2> DEFINE f == at(k)
  <2> HIDE DEF at
  <2>8. f \in Nat /\ at(k + 1) = f + 1 + size /\ f = 1 + First + p
    BY <1>1, <2>4, <2>5, <2>7
  <2> HIDE DEF f
  <2>9. seg[f + 1].cell = "cont" /\ seg[f + 1].len = len
    <3>1. 1 \in 1..(size + 1)
      BY <2>4
    <3>2. seg[1 + First + p + 1] = b[1]
      BY <2>6, <3>1
    <3> QED
      BY <2>3, <2>8, <3>2
  <2>10. ASSUME NEW i \in (f + 2)..(f + 1 + size)
         PROVE  seg[i].cell = "unit"
    <3>1. i - f \in 2..(size + 1) /\ i - f \in 1..(size + 1) /\ f + (i - f) = i
      BY <2>4, <2>8
    <3>2. seg[1 + First + p + (i - f)] = b[i - f]
      BY <2>6, <3>1
    <3> QED
      BY <2>3, <2>8, <3>1, <3>2
  <2>11. f + 1 < f + 1 + size
    BY <2>4, <2>8
  <2>12. k < q => len = More /\ f + 1 + size = f + 1 + Cont
    BY <2>1 DEF Piece
  <2>13. k = q => len \in 1..Cont /\ f + 1 + size = f + 1 + len /\ (len = Cont => ExactFill(m))
    BY <1>5, <2>1 DEF Piece
  <2>14. k # 0
    OBVIOUS
  <2>15. Part(seg, m, q, k, f, f + 1 + size)
    BY <2>9, <2>10, <2>11, <2>12, <2>13, <2>14 DEF Part
  <2> QED
    BY <2>8, <2>15 DEF f
<1>8. Len(g[0]) = 0
  BY <1>3
<1>9. at(1) = 1 + First
  <2>1. ASSUME NEW k, k - 1 = 0
        PROVE  at(k) = 1 + First + 0
    BY <1>8, <2>1
  <2>2. 1 - 1 = 0 /\ 1 + First + 0 = 1 + First
    BY <1>1
  <2> HIDE DEF at
  <2> QED
    BY <2>1, <2>2
<1>10. at(q + 1) = Len(seg)
  <2>1. at(q + 1) = 1 + First + Len(g[q])
    BY <1>4
  <2> HIDE DEF at
  <2>2. q \in 0..q /\ Len(g[q]) \in Nat
    BY <1>4, <1>6
  <2> QED
    BY <1>1, <1>3, <1>6, <2>1, <2>2 DEF Joined
<1>11. Part(seg, m, q, 0, 0, at(1))
  <2>1. \A i \in 1..(First + 1) : seg[i] = h[i]
    BY <1>3, <1>6 DEF Joined
  <2>2. 1 \in 1..(First + 1) /\ \A i \in 2..(1 + First) : i \in 1..(First + 1) /\ i \in 2..(First + 1)
    BY <1>1
  <2>3. seg[1] = HeadOf(m, More) /\ \A i \in 2..(1 + First) : seg[i].cell = "unit"
    BY <1>3, <2>1, <2>2
  <2>4. 0 + 1 = 1 /\ 0 + 2 = 2 /\ 1 < 1 + First /\ ~(0 > 0) /\ q # 0
    BY <1>1, <1>4
  <2> HIDE DEF at
  <2> QED
    BY <1>9, <2>3, <2>4 DEF Part
<1>12. \A k \in 1..(q + 1) : at(k) \in Nat
  <2>1. ASSUME NEW k \in 1..(q + 1)
        PROVE  at(k) \in Nat
    <3>1. k - 1 \in 0..q
      BY <1>4
    <3> DEFINE x == Len(g[k - 1])
    <3>2. x \in Nat
      BY <1>6, <3>1
    <3>3. at(k) = 1 + First + x
      OBVIOUS
    <3> HIDE DEF x, at
    <3> QED
      BY <1>1, <3>2, <3>3
  <2> HIDE DEF at
  <2> QED
    BY <2>1
<1> HIDE DEF at
<1>13. c \in [0..(q + 1) -> Nat]
  <2>1. \A k \in 0..(q + 1) : k = 0 \/ k \in 1..(q + 1)
    BY <1>4
  <2> QED
    BY <1>12, <2>1
<1>14. c[0] = 0 /\ c[q + 1] = Len(seg)
  <2>1. 0 \in 0..(q + 1) /\ q + 1 \in 0..(q + 1) /\ q + 1 # 0
    BY <1>4
  <2> QED
    BY <1>10, <2>1
<1>15. ASSUME NEW k \in 0..q
       PROVE  Part(seg, m, q, k, c[k], c[k + 1])
  <2>1. k \in 0..(q + 1) /\ k + 1 \in 0..(q + 1) /\ k + 1 # 0
    BY <1>4
  <2>2. c[k + 1] = at(k + 1) /\ c[k] = IF k = 0 THEN 0 ELSE at(k)
    BY <2>1
  <2> HIDE DEF c
  <2>3. CASE k = 0
    <3>1. k + 1 = 1
      BY <2>3
    <3> QED
      BY <1>11, <2>2, <2>3, <3>1
  <2>4. CASE k # 0
    <3>1. k \in 1..q
      BY <1>4, <2>4
    <3> QED
      BY <1>7, <2>2, <2>4, <3>1
  <2> QED
    BY <2>3, <2>4
<1> HIDE DEF c
<1>16. CutAt(seg, m, q, c)
  <2>1. q \in Nat
    BY <1>4
  <2> QED
    BY <1>13, <1>14, <1>15, <2>1 DEF CutAt
<1> QED
  BY <1>16 DEF seg

\* Every segment has its cuts, and its payload is the message.
LEMMA SegmentCut ==
    ASSUME NEW n \in Nat, NEW m \in Messages
    PROVE  \E q, c : CutAt(Segments(n, m), m, q, c)
BY ShortSegment, LongCut

LEMMA SegmentUnits ==
    ASSUME NEW n \in Nat, NEW m \in Messages
    PROVE  Segments(n, m) \in Seq(Cells) /\ UnitsOf(Segments(n, m)) = Run(n, 1, m.len)
BY ShortSegment, LongUnits DEF IsLead
-----------------------------------------------------------------------------
(* Dss: where the messages stand in the stream *)

LEMMA Rising ==
    ASSUME NEW n \in Nat, NEW c \in [0..n -> Nat], \A k \in 1..n : c[k - 1] < c[k],
           NEW a \in 0..n, NEW b \in 0..n, a < b
    PROVE  c[a] < c[b]
<1> DEFINE G == {i \in 0..n : i > a => c[a] < c[i]}
<1>1. 0 \in G
  OBVIOUS
<1>2. ASSUME NEW i \in 1..n, i - 1 \in G
      PROVE  i \in G
  <2>1. i - 1 \in 0..n /\ i \in 0..n /\ c[i - 1] < c[i] /\ c[i - 1] \in Nat /\ c[i] \in Nat /\ c[a] \in Nat
    OBVIOUS
  <2>2. i - 1 > a => c[a] < c[i - 1]
    BY <1>2
  <2>3. i > a => i - 1 > a \/ i - 1 = a
    OBVIOUS
  <2>4. i > a => c[a] < c[i]
    <3> DEFINE x == c[a]
               y == c[i - 1]
               z == c[i]
    <3>1. x \in Nat /\ y \in Nat /\ z \in Nat /\ y < z /\ (i - 1 > a => x < y) /\ (i - 1 = a => x = y)
      BY <2>1, <2>2
    <3> HIDE DEF x, y, z
    <3>2. i > a => x < z
      BY <2>3, <3>1
    <3> QED
      BY <3>2 DEF x, z
  <2> QED
    BY <2>1, <2>4
<1> HIDE DEF G
<1>3. 0..n \subseteq G
  BY <1>1, <1>2, KeptAlong
<1> QED
  BY <1>3 DEF G

LEMMA PartsRise ==
    ASSUME NEW s, NEW m, NEW q \in Nat, NEW c \in [0..(q + 1) -> Nat],
           \A k \in 0..q : Part(s, m, q, k, c[k], c[k + 1])
    PROVE  \A a, b \in 0..(q + 1) : a < b => c[a] < c[b]
<1>1. ASSUME NEW k \in 1..(q + 1)
      PROVE  c[k - 1] < c[k]
  <2>1. k - 1 \in 0..q /\ (k - 1) + 1 = k /\ k - 1 \in 0..(q + 1) /\ k \in 0..(q + 1)
    OBVIOUS
  <2>2. Part(s, m, q, k - 1, c[k - 1], c[k])
    BY <2>1
  <2>3. c[k - 1] + 1 < c[k] /\ c[k - 1] \in Nat /\ c[k] \in Nat
    BY <2>1, <2>2 DEF Part
  <2> QED
    BY <2>3
<1>2. ASSUME NEW a \in 0..(q + 1), NEW b \in 0..(q + 1), a < b
      PROVE  c[a] < c[b]
  <2>1. q + 1 \in Nat
    OBVIOUS
  <2> QED
    BY <1>1, <1>2, <2>1, Rising
<1> QED
  BY <1>2

\* The same part, behind p cells.
LEMMA PartShifts ==
    ASSUME NEW seg \in Seq(Cells), NEW m, NEW q, NEW k, NEW f \in Nat, NEW t \in Nat, NEW s, NEW p \in Nat,
           Part(seg, m, q, k, f, t), t <= Len(seg), Stands(seg, p, s), m \in Messages
    PROVE  Part(s, m, q, k, p + f, p + t)
<1>1. Len(seg) \in Nat /\ f + 1 < t /\ First \in Nat /\ Cont \in Nat /\ m.len \in Nat
  BY LenProperties, DssAssumption DEF Part, Messages
<1>2. \A i \in 1..Len(seg) : s[p + i] = seg[i]
  BY DEF Stands
<1>3. s[(p + f) + 1] = seg[f + 1]
  <2>1. f + 1 \in 1..Len(seg) /\ (p + f) + 1 = p + (f + 1)
    BY <1>1
  <2> QED
    BY <1>2, <2>1
<1>4. ASSUME NEW i \in ((p + f) + 2)..(p + t)
      PROVE  s[i].cell = "unit"
  <2>1. i - p \in (f + 2)..t /\ i - p \in 1..Len(seg) /\ p + (i - p) = i
    BY <1>1
  <2>2. seg[i - p].cell = "unit"
    BY <2>1 DEF Part
  <2> QED
    BY <1>2, <2>1, <2>2
<1> DEFINE x == seg[f + 1]
           y == s[(p + f) + 1]
<1>5. y = x
  BY <1>3
<1>6. /\ k = 0 => x = HeadOf(m, IF q = 0 THEN m.len ELSE More)
      /\ k = 0 => t = f + 1 + (IF q = 0 THEN m.len ELSE First)
      /\ k > 0 => x.cell = "cont"
      /\ k > 0 /\ k < q => x.len = More /\ t = f + 1 + Cont
      /\ k > 0 /\ k = q =>
           x.len \in 1..Cont /\ t = f + 1 + x.len /\ (x.len = Cont => ExactFill(m))
  BY DEF Part
<1>7. /\ \A i \in ((p + f) + 2)..(p + t) : s[i].cell = "unit"
      /\ (p + f) + 1 < p + t
      /\ k = 0 => y = HeadOf(m, IF q = 0 THEN m.len ELSE More)
      /\ k > 0 => y.cell = "cont"
      /\ k > 0 /\ k < q => y.len = More
      /\ k > 0 /\ k = q => y.len \in 1..Cont /\ (y.len = Cont => ExactFill(m))
  <2> HIDE DEF x, y
  <2>1. (p + f) + 1 < p + t
    BY <1>1
  <2>2. /\ k = 0 => y = HeadOf(m, IF q = 0 THEN m.len ELSE More)
        /\ k > 0 => y.cell = "cont"
    BY <1>5, <1>6
  <2>3. k > 0 /\ k < q => y.len = More
    BY <1>5, <1>6
  <2>4. k > 0 /\ k = q => y.len \in 1..Cont /\ (y.len = Cont => ExactFill(m))
    <3>1. ASSUME k > 0, k = q
          PROVE  y.len \in 1..Cont /\ (y.len = Cont => ExactFill(m))
      <4>1. x.len \in 1..Cont /\ (x.len = Cont => ExactFill(m))
        BY <1>6, <3>1
      <4> QED
        BY <1>5, <4>1
    <3> QED
      BY <3>1
  <2> QED
    BY <1>4, <2>1, <2>2, <2>3, <2>4
<1>8. /\ k = 0 => p + t = (p + f) + 1 + (IF q = 0 THEN m.len ELSE First)
      /\ k > 0 /\ k < q => p + t = (p + f) + 1 + Cont
      /\ k > 0 /\ k = q => p + t = (p + f) + 1 + y.len
  <2> DEFINE l == x.len
             a == IF q = 0 THEN m.len ELSE First
  <2>1. /\ k = 0 => t = f + 1 + a /\ a \in Nat
        /\ k > 0 /\ k < q => t = f + 1 + Cont
        /\ k > 0 /\ k = q => l \in 1..Cont /\ t = f + 1 + l
    <3>1. k = 0 => t = f + 1 + a /\ a \in Nat
      <4> HIDE DEF x
      <4>1. a \in Nat
        BY <1>1
      <4> HIDE DEF a
      <4> QED
        BY <1>6, <4>1 DEF a
    <3>2. k > 0 /\ k < q => t = f + 1 + Cont
      <4> HIDE DEF x
      <4> QED
        BY <1>6
    <3>3. k > 0 /\ k = q => l \in 1..Cont /\ t = f + 1 + l
      <4> HIDE DEF x
      <4> QED
        BY <1>6
    <3> HIDE DEF l, a
    <3> QED
      BY <3>1, <3>2, <3>3
  <2>2. y.len = l
    <3> HIDE DEF x, y
    <3> QED
      BY <1>5
  <2> HIDE DEF l, a, x, y
  <2>3. /\ k = 0 => p + t = (p + f) + 1 + a
        /\ k > 0 /\ k < q => p + t = (p + f) + 1 + Cont
        /\ k > 0 /\ k = q => p + t = (p + f) + 1 + l
    BY <1>1, <2>1
  <2> QED
    BY <2>2, <2>3 DEF a
<1> QED
  <2> HIDE DEF x
  <2> QED
    BY <1>7, <1>8 DEF Part

\* st tells where in the stream each message ends.
Laid(st) ==
    /\ st \in [0..Len(messages) -> Nat] /\ st[0] = 0 /\ st[Len(messages)] = Len(stream)
    /\ \A n \in 1..Len(messages) :
         /\ st[n] = st[n - 1] + Len(Segments(n, messages[n]))
         /\ Stands(Segments(n, messages[n]), st[n - 1], stream)

\* The variables have their types.
Typed ==
    /\ messages \in Seq(Messages) /\ stream \in Seq(Cells)
    /\ arrived \in 0..Len(stream)

\* The parts of message n in the stream.
Cuts(st, n, q, c) ==
    /\ q \in Nat /\ c \in [0..(q + 1) -> Nat] /\ c[0] = st[n - 1] /\ c[q + 1] = st[n]
    /\ \A k \in 0..q : Part(stream, messages[n], q, k, c[k], c[k + 1])

LEMMA MessageAt ==
    ASSUME NEW st, Laid(st), Typed, NEW n \in 1..Len(messages)
    PROVE  /\ n \in Nat /\ messages[n] \in Messages /\ n - 1 \in 0..Len(messages) /\ n \in 0..Len(messages)
           /\ st[n - 1] \in Nat /\ st[n] \in Nat
           /\ st[n] = st[n - 1] + Len(Segments(n, messages[n]))
           /\ Segments(n, messages[n]) \in Seq(Cells)
           /\ Stands(Segments(n, messages[n]), st[n - 1], stream)
<1>1. Len(messages) \in Nat /\ messages[n] \in Messages
  BY LenProperties DEF Typed
<1>2. n \in Nat /\ n - 1 \in 0..Len(messages) /\ n \in 0..Len(messages)
  BY <1>1
<1>3. Segments(n, messages[n]) \in Seq(Cells)
  BY <1>1, <1>2, SegmentUnits
<1> QED
  BY <1>1, <1>2, <1>3 DEF Laid

\* The parts of a message of the stream, counted from the beginning of the stream.
LEMMA MessageCuts ==
    ASSUME NEW st, Laid(st), Typed, NEW n \in 1..Len(messages)
    PROVE  \E q, c : Cuts(st, n, q, c)
<1> DEFINE m == messages[n]
           seg == Segments(n, m)
           p == st[n - 1]
<1>1. /\ n \in Nat /\ m \in Messages /\ p \in Nat /\ st[n] = p + Len(seg)
      /\ seg \in Seq(Cells) /\ Stands(seg, p, stream)
  BY MessageAt
<1>2. PICK q, c : CutAt(seg, m, q, c)
  BY <1>1, SegmentCut
<1> HIDE DEF m, seg, p
<1>3. /\ q \in Nat /\ c \in [0..(q + 1) -> Nat] /\ c[0] = 0 /\ c[q + 1] = Len(seg)
      /\ \A k \in 0..q : Part(seg, m, q, k, c[k], c[k + 1])
  BY <1>2 DEF CutAt
<1>4. \A a, b \in 0..(q + 1) : a < b => c[a] < c[b]
  BY <1>3, PartsRise
<1>5. \A k \in 0..(q + 1) : c[k] \in Nat /\ c[k] <= Len(seg)
  <2>1. ASSUME NEW k \in 0..(q + 1)
        PROVE  c[k] \in Nat /\ c[k] <= Len(seg)
    <3>1. q + 1 \in Nat /\ q + 1 \in 0..(q + 1) /\ (k = q + 1 \/ k < q + 1)
      BY <1>3
    <3>2. k < q + 1 => c[k] < c[q + 1]
      BY <1>4, <3>1
    <3>3. c[k] \in Nat /\ c[q + 1] \in Nat
      BY <1>3, <3>1
    <3> QED
      BY <1>3, <3>1, <3>2, <3>3
  <2> QED
    BY <2>1
<1> DEFINE d == [k \in 0..(q + 1) |-> p + c[k]]
<1>6. \A k \in 0..(q + 1) : d[k] = p + c[k]
  OBVIOUS
<1>7. d \in [0..(q + 1) -> Nat]
  BY <1>1, <1>5
<1> HIDE DEF d
<1>8. d[0] = p /\ d[q + 1] = st[n]
  <2>1. 0 \in 0..(q + 1) /\ q + 1 \in 0..(q + 1)
    BY <1>3
  <2>2. d[0] = p + c[0] /\ d[q + 1] = p + c[q + 1]
    BY <1>6, <2>1
  <2>3. d[0] = p + 0 /\ d[q + 1] = p + Len(seg)
    BY <1>3, <2>2
  <2>4. p + 0 = p
    BY <1>1
  <2> QED
    BY <1>1, <2>3, <2>4
<1>9. ASSUME NEW k \in 0..q
      PROVE  Part(stream, m, q, k, d[k], d[k + 1])
  <2>1. k \in 0..(q + 1) /\ k + 1 \in 0..(q + 1)
    BY <1>3
  <2>2. Part(seg, m, q, k, c[k], c[k + 1]) /\ c[k] \in Nat /\ c[k + 1] \in Nat /\ c[k + 1] <= Len(seg)
    BY <1>3, <1>5, <2>1
  <2>3. Part(stream, m, q, k, p + c[k], p + c[k + 1])
    BY <1>1, <2>2, PartShifts
  <2> QED
    BY <1>6, <2>1, <2>3
<1>10. Cuts(st, n, q, d)
  BY <1>3, <1>7, <1>8, <1>9 DEF Cuts, m, p
<1> QED
  BY <1>10

\* Messages stand one behind the other.
LEMMA Starts ==
    ASSUME NEW st, Laid(st), Typed
    PROVE  /\ Len(messages) \in Nat /\ st \in [0..Len(messages) -> Nat]
           /\ \A k \in 1..Len(messages) : st[k - 1] < st[k]
           /\ \A a, b \in 0..Len(messages) : a < b => st[a] < st[b]
           /\ \A a \in 0..Len(messages) : st[a] <= Len(stream)
<1> DEFINE n == Len(messages)
<1>1. n \in Nat /\ st \in [0..n -> Nat] /\ st[n] = Len(stream)
  BY LenProperties DEF Typed, Laid
<1>2. ASSUME NEW k \in 1..n
      PROVE  st[k - 1] < st[k]
  <2>1. st[k - 1] \in Nat /\ st[k] \in Nat
    BY <1>2, MessageAt
  <2>2. PICK q, c : Cuts(st, k, q, c)
    BY <1>2, MessageCuts
  <2>3. /\ q \in Nat /\ c \in [0..(q + 1) -> Nat] /\ c[0] = st[k - 1] /\ c[q + 1] = st[k]
        /\ \A i \in 0..q : Part(stream, messages[k], q, i, c[i], c[i + 1])
    BY <2>2 DEF Cuts
  <2>4. \A a, b \in 0..(q + 1) : a < b => c[a] < c[b]
    BY <2>3, PartsRise
  <2>5. q + 1 \in Nat /\ 0 \in 0..(q + 1) /\ q + 1 \in 0..(q + 1) /\ 0 < q + 1
    BY <2>3
  <2>6. c[0] < c[q + 1]
    BY <2>4, <2>5
  <2> QED
    BY <2>3, <2>6
<1> HIDE DEF n
<1>3. \A a, b \in 0..n : a < b => st[a] < st[b]
  <2>1. ASSUME NEW a \in 0..n, NEW b \in 0..n, a < b
        PROVE  st[a] < st[b]
    BY <1>1, <1>2, <2>1, Rising
  <2> QED
    BY <2>1
<1>4. ASSUME NEW a \in 0..n
      PROVE  st[a] <= Len(stream)
  <2>1. n \in 0..n /\ (a = n \/ a < n)
    BY <1>1
  <2>2. st[a] \in Nat /\ st[n] \in Nat
    BY <1>1, <2>1
  <2>3. a < n => st[a] < st[n]
    BY <1>3, <2>1
  <2> QED
    BY <1>1, <2>1, <2>2, <2>3
<1> QED
  BY <1>1, <1>2, <1>3, <1>4 DEF n
-----------------------------------------------------------------------------
(* Dss: where the reader sees a frame end *)

LEMMA Sizes ==
    ASSUME NEW c \in Cells, c.cell # "unit"
    PROVE  ContSize(c) \in Nat /\ c.len \in Nat \cup {More}
<1>1. c.len \in Nat \cup {More}
  BY DEF Cells
<1> QED
  BY <1>1, DssAssumption DEF ContSize, HeadSize

Dead(p) == p >= arrived \/ stream[p + 1].cell = "unit" \/ p + 1 + ContSize(stream[p + 1]) > arrived

\* complete_frame_len_from and the merging run of next_frame as such functions.
LEMMA ContEndIs ==
    ASSUME Typed, NEW p \in 0..arrived
    PROVE  ContEnd[p] = IF Dead(p) THEN Nowhere
                        ELSE IF IsFull(stream[p + 1]) THEN ContEnd[p + 1 + ContSize(stream[p + 1])]
                        ELSE p + 1 + ContSize(stream[p + 1])
<1> DEFINE n == arrived
           next(x) == x + 1 + ContSize(stream[x + 1])
           stop == [x \in 0..n |-> Dead(x) \/ ~IsFull(stream[x + 1])]
           val == [x \in 0..n |-> IF Dead(x) THEN Nowhere ELSE next(x)]
           jump == [x \in 0..n |-> next(x)]
           Solves(e) == e = [x \in 0..n |->
              IF x >= n \/ stream[x + 1].cell = "unit" THEN Nowhere
              ELSE LET y == x + 1 + ContSize(stream[x + 1])
                   IN IF y > n THEN Nowhere ELSE IF IsFull(stream[x + 1]) THEN e[y] ELSE y]
<1>1. n \in Nat /\ Len(stream) \in Nat /\ n <= Len(stream)
  BY LenProperties DEF Typed
<1> HIDE DEF n
<1>2. ASSUME NEW x \in 0..n, ~stop[x]
      PROVE  jump[x] \in (x + 1)..n
  <2>1. ~Dead(x)
    BY <1>2
  <2>2. x < n /\ stream[x + 1].cell # "unit" /\ ~(next(x) > n)
    BY <1>1, <2>1 DEF Dead, n
  <2>3. stream[x + 1] \in Cells
    <3>1. x + 1 \in 1..Len(stream)
      BY <1>1, <2>2
    <3> QED
      BY <3>1 DEF Typed
  <2>4. ContSize(stream[x + 1]) \in Nat
    BY <2>2, <2>3, Sizes
  <2>5. next(x) \in (x + 1)..n
    BY <1>1, <2>2, <2>4
  <2> QED
    BY <2>5
<1>3. PICK e : e = [x \in 0..n |-> IF stop[x] THEN val[x] ELSE e[jump[x]]]
  <2> HIDE DEF stop, val, jump
  <2>1. Forward(n, stop, jump)
    BY <1>2 DEF Forward
  <2>2. \E e : Hops(e, n, stop, val, jump)
    BY <1>1, <2>1, JumpsExist
  <2> QED
    BY <2>2 DEF Hops
<1>4. \A x \in 0..n :
        (IF stop[x] THEN val[x] ELSE e[jump[x]])
          = IF x >= n \/ stream[x + 1].cell = "unit" THEN Nowhere
            ELSE LET y == x + 1 + ContSize(stream[x + 1])
                 IN IF y > n THEN Nowhere ELSE IF IsFull(stream[x + 1]) THEN e[y] ELSE y
  BY DEF Dead, n
<1>5. Solves(e)
  <2> DEFINE F(x) == IF stop[x] THEN val[x] ELSE e[jump[x]]
             H(x) == IF x >= n \/ stream[x + 1].cell = "unit" THEN Nowhere
                     ELSE LET y == x + 1 + ContSize(stream[x + 1])
                          IN IF y > n THEN Nowhere ELSE IF IsFull(stream[x + 1]) THEN e[y] ELSE y
  <2>1. e = [x \in 0..n |-> F(x)] /\ \A x \in 0..n : F(x) = H(x)
    BY <1>3, <1>4
  <2> HIDE DEF F, H
  <2>2. e = [x \in 0..n |-> H(x)]
    BY <2>1
  <2> QED
    BY <2>2 DEF H
<1>6. ContEnd = CHOOSE f : Solves(f)
  BY DEF ContEnd, n
<1>7. Solves(ContEnd)
  <2> HIDE DEF Solves
  <2> QED
    BY <1>5, <1>6
<1>8. ContEnd[p] = IF p >= n \/ stream[p + 1].cell = "unit" THEN Nowhere
            ELSE LET y == p + 1 + ContSize(stream[p + 1])
                 IN IF y > n THEN Nowhere ELSE IF IsFull(stream[p + 1]) THEN ContEnd[y] ELSE y
  BY <1>7 DEF n
<1> QED
  BY <1>8 DEF Dead, n

LEMMA MergeEndIs ==
    ASSUME Typed, NEW p \in 0..arrived
    PROVE  MergeEnd[p] = IF Merges(p) THEN MergeEnd[p + 1 + stream[p + 1].len] ELSE p
<1> DEFINE n == arrived
           stop == [x \in 0..n |-> ~Merges(x)]
           val == [x \in 0..n |-> x]
           jump == [x \in 0..n |-> x + 1 + stream[x + 1].len]
           Solves(e) == e = [x \in 0..n |-> IF Merges(x) THEN e[x + 1 + stream[x + 1].len] ELSE x]
<1>1. n \in Nat /\ Len(stream) \in Nat /\ n <= Len(stream)
  BY LenProperties DEF Typed
<1> HIDE DEF n
<1>2. ASSUME NEW x \in 0..n, ~stop[x]
      PROVE  jump[x] \in (x + 1)..n
  <2>1. Merges(x)
    BY <1>2
  <2> DEFINE h == stream[x + 1]
  <2>2. x < n /\ h.cell = "head" /\ h.len # More /\ x + 1 + h.len <= n
    BY <1>1, <2>1 DEF Merges, n
  <2>3. h \in Cells
    <3>1. x + 1 \in 1..Len(stream)
      BY <1>1, <2>2
    <3> QED
      BY <3>1 DEF Typed
  <2> HIDE DEF h
  <2>4. h.len \in Nat
    BY <2>2, <2>3, Sizes
  <2>5. x + 1 + h.len \in (x + 1)..n
    BY <1>1, <2>2, <2>4
  <2> QED
    BY <2>5 DEF h
<1>3. PICK e : e = [x \in 0..n |-> IF stop[x] THEN val[x] ELSE e[jump[x]]]
  <2> HIDE DEF stop, val, jump
  <2>1. Forward(n, stop, jump)
    BY <1>2 DEF Forward
  <2>2. \E e : Hops(e, n, stop, val, jump)
    BY <1>1, <2>1, JumpsExist
  <2> QED
    BY <2>2 DEF Hops
<1>4. \A x \in 0..n :
        (IF stop[x] THEN val[x] ELSE e[jump[x]]) = IF Merges(x) THEN e[x + 1 + stream[x + 1].len] ELSE x
  OBVIOUS
<1>5. Solves(e)
  <2> DEFINE F(x) == IF stop[x] THEN val[x] ELSE e[jump[x]]
             H(x) == IF Merges(x) THEN e[x + 1 + stream[x + 1].len] ELSE x
  <2>1. e = [x \in 0..n |-> F(x)] /\ \A x \in 0..n : F(x) = H(x)
    BY <1>3, <1>4
  <2> HIDE DEF F, H
  <2>2. e = [x \in 0..n |-> H(x)]
    BY <2>1
  <2> QED
    BY <2>2 DEF H
<1>6. MergeEnd = CHOOSE f : Solves(f)
  BY DEF MergeEnd, n
<1>7. Solves(MergeEnd)
  <2> HIDE DEF Solves
  <2> QED
    BY <1>5, <1>6
<1> QED
  BY <1>7 DEF n
\* From any of its continuations a long message ends where its last part does, if
\* all of it has arrived.
LEMMA LongEnds ==
    ASSUME NEW st, Laid(st), Typed, NEW n \in 1..Len(messages), NEW q, NEW c, Cuts(st, n, q, c),
           ~ExactFill(messages[n]), NEW k \in 1..q, c[k] <= arrived
    PROVE  ContEnd[c[k]] = IF st[n] <= arrived THEN st[n] ELSE Nowhere
<1> DEFINE End == IF st[n] <= arrived THEN st[n] ELSE Nowhere
           G == {j \in 0..(q - 1) : c[q - j] <= arrived => ContEnd[c[q - j]] = End}
<1>1. /\ q \in Nat /\ c \in [0..(q + 1) -> Nat] /\ c[q + 1] = st[n]
      /\ \A i \in 0..q : Part(stream, messages[n], q, i, c[i], c[i + 1])
      /\ \A a, b \in 0..(q + 1) : a < b => c[a] < c[b]
  <2>1. /\ q \in Nat /\ c \in [0..(q + 1) -> Nat] /\ c[q + 1] = st[n]
        /\ \A i \in 0..q : Part(stream, messages[n], q, i, c[i], c[i + 1])
    BY DEF Cuts
  <2> QED
    BY <2>1, PartsRise
<1>2. arrived \in Nat /\ Cont \in Nat \ {0} /\ More = -1 /\ Nowhere = -1
  BY DssAssumption, LenProperties DEF Typed, More, Nowhere
\* One continuation, given what becomes of the next.
<1>3. ASSUME NEW i \in 1..q, c[i] <= arrived,
             i < q /\ c[i + 1] <= arrived => ContEnd[c[i + 1]] = End
      PROVE  ContEnd[c[i]] = End
  <2> DEFINE p == c[i]
             t == c[i + 1]
             x == stream[p + 1]
  <2>1. i \in 0..(q + 1) /\ i + 1 \in 0..(q + 1) /\ q + 1 \in 0..(q + 1) /\ i \in 0..q /\ i > 0
    BY <1>1
  <2>2. p \in Nat /\ t \in Nat /\ p < t /\ st[n] \in Nat /\ t <= st[n]
    <3>1. p \in Nat /\ t \in Nat /\ st[n] \in Nat /\ p < t
      BY <1>1, <2>1
    <3>2. i + 1 = q + 1 \/ i + 1 < q + 1
      BY <1>1, <2>1
    <3>3. i + 1 < q + 1 => t < st[n]
      BY <1>1, <2>1
    <3>4. i + 1 = q + 1 => t = st[n]
      BY <1>1
    <3> HIDE DEF p, t
    <3> QED
      BY <3>1, <3>2, <3>3, <3>4
  <2>3. Part(stream, messages[n], q, i, p, t)
    BY <1>1, <2>1
  <2>4. /\ x.cell = "cont"
        /\ i < q => x.len = More /\ t = p + 1 + Cont
        /\ i = q => x.len \in 1..Cont /\ t = p + 1 + x.len /\ x.len # Cont
    BY <2>1, <2>3 DEF Part
  <2>5. p \in 0..arrived
    BY <1>2, <1>3, <2>2
  <2>6. ContEnd[p] = IF Dead(p) THEN Nowhere
                     ELSE IF IsFull(x) THEN ContEnd[p + 1 + ContSize(x)] ELSE p + 1 + ContSize(x)
    BY <2>5, ContEndIs
  <2>7. Dead(p) <=> p >= arrived \/ p + 1 + ContSize(x) > arrived
    BY <2>4 DEF Dead
  <2>8. p + 1 + ContSize(x) = t /\ (IsFull(x) <=> i < q)
    <3> HIDE DEF x
    <3>1. CASE i < q
      <4>1. x.len = More /\ i # q
        BY <2>4, <3>1, <1>1
      <4> QED
        BY <2>4, <3>1, <4>1 DEF ContSize, IsFull
    <3>2. CASE ~(i < q)
      <4>1. i = q
        BY <1>1, <3>2
      <4>2. x.len \in 1..Cont /\ x.len # Cont /\ x.len # More
        BY <1>2, <2>4, <4>1
      <4> QED
        BY <2>4, <3>2, <4>1, <4>2 DEF ContSize, IsFull
    <3> QED
      BY <3>1, <3>2
  <2> HIDE DEF x, p
  <2>9. CASE t > arrived
    <3>1. Dead(p) /\ ~(st[n] <= arrived)
      BY <1>2, <2>2, <2>7, <2>8, <2>9
    <3> QED
      BY <2>6, <3>1 DEF p
  <2>10. CASE ~(t > arrived)
    <3>1. ~Dead(p) /\ t <= arrived
      BY <1>2, <2>2, <2>7, <2>8, <2>10
    <3>2. CASE i < q
      <4>1. ContEnd[t] = End
        BY <1>3, <3>1, <3>2
      <4>2. ContEnd[p] = ContEnd[t]
        BY <2>6, <2>8, <3>1, <3>2
      <4> QED
        BY <4>1, <4>2 DEF p
    <3>3. CASE ~(i < q)
      <4>1. i = q
        BY <1>1, <3>3
      <4>2. t = st[n]
        BY <1>1, <4>1
      <4>3. ContEnd[p] = t
        BY <2>6, <2>8, <3>1, <3>3
      <4> QED
        BY <3>1, <4>2, <4>3 DEF p
    <3> QED
      BY <3>2, <3>3
  <2> QED
    BY <2>9, <2>10
<1> HIDE DEF End
<1>4. q - 1 \in Nat
  BY <1>1
<1>5. 0 \in G
  <2>1. q \in 1..q /\ ~(q < q) /\ q - 0 = q /\ 0 \in 0..(q - 1)
    BY <1>1, <1>4
  <2>2. c[q] <= arrived => ContEnd[c[q]] = End
    BY <1>3, <2>1
  <2> QED
    BY <2>1, <2>2
<1>6. ASSUME NEW j \in 1..(q - 1), j - 1 \in G
      PROVE  j \in G
  <2> DEFINE i == q - j
  <2>1. i \in 1..q /\ i + 1 = q - (j - 1) /\ j \in 0..(q - 1)
    BY <1>1
  <2>2. c[i + 1] <= arrived => ContEnd[c[i + 1]] = End
    BY <1>6, <2>1
  <2>3. c[i] <= arrived => ContEnd[c[i]] = End
    <3> HIDE DEF i
    <3> QED
      BY <1>3, <2>1, <2>2
  <2> QED
    BY <2>1, <2>3
<1> HIDE DEF G
<1>7. 0..(q - 1) \subseteq G
  BY <1>4, <1>5, <1>6, KeptAlong
<1>8. q - k \in 0..(q - 1) /\ q - (q - k) = k
  BY <1>1
<1>9. c[q - (q - k)] <= arrived => ContEnd[c[q - (q - k)]] = End
  BY <1>7, <1>8 DEF G
<1> QED
  BY <1>8, <1>9 DEF End

\* The header of message n, and where it ends if it is a short one.
LEMMA HeadAt ==
    ASSUME NEW st, Laid(st), Typed, NEW n \in 1..Len(messages), NEW q, NEW c, Cuts(st, n, q, c)
    PROVE  /\ stream[st[n - 1] + 1] = HeadOf(messages[n], IF q = 0 THEN messages[n].len ELSE More)
           /\ q = 0 => st[n] = st[n - 1] + 1 + messages[n].len
           /\ q # 0 => 1 \in 1..q /\ c[1] = st[n - 1] + 1 + First /\ c[1] < st[n] /\ c[1] \in Nat
<1>1. /\ q \in Nat /\ c \in [0..(q + 1) -> Nat] /\ c[0] = st[n - 1] /\ c[q + 1] = st[n]
      /\ \A k \in 0..q : Part(stream, messages[n], q, k, c[k], c[k + 1])
  BY DEF Cuts
<1>2. 0 \in 0..q /\ 0 + 1 = 1
  BY <1>1
<1>3. Part(stream, messages[n], q, 0, st[n - 1], c[1])
  BY <1>1, <1>2
<1>4. /\ stream[st[n - 1] + 1] = HeadOf(messages[n], IF q = 0 THEN messages[n].len ELSE More)
      /\ c[1] = st[n - 1] + 1 + (IF q = 0 THEN messages[n].len ELSE First)
  BY <1>3 DEF Part
<1>5. q = 0 => c[1] = st[n]
  BY <1>1
<1>6. q # 0 => 1 \in 1..q /\ c[1] < st[n] /\ c[1] \in Nat
  <2>1. ASSUME q # 0
        PROVE  1 \in 1..q /\ c[1] < st[n] /\ c[1] \in Nat
    <3>1. 1 \in 1..q /\ 1 \in 0..(q + 1) /\ q + 1 \in 0..(q + 1) /\ 1 < q + 1
      BY <1>1, <2>1
    <3>2. c[1] < c[q + 1]
      BY <1>1, <3>1, PartsRise
    <3> QED
      BY <1>1, <3>1, <3>2
  <2> QED
    BY <2>1
<1> QED
  BY <1>4, <1>5, <1>6

Plain == \A n \in DOMAIN messages : ~ExactFill(messages[n])

\* A frame that begins where a message begins ends where it ends, or is not
\* complete.
LEMMA FrameEnds ==
    ASSUME NEW st, Laid(st), Typed, Plain, NEW a \in 0..Len(messages), st[a] <= arrived
    PROVE  FrameEnd(st[a]) = IF a < Len(messages) /\ st[a + 1] <= arrived THEN st[a + 1] ELSE Nowhere
<1>1. /\ Len(messages) \in Nat /\ st \in [0..Len(messages) -> Nat]
      /\ st[Len(messages)] = Len(stream) /\ arrived \in Nat /\ arrived <= Len(stream) /\ Len(stream) \in Nat
      /\ DOMAIN messages = 1..Len(messages)
  BY Starts, LenProperties DEF Typed, Laid
<1>2. CASE ~(a < Len(messages))
  <2>1. a = Len(messages)
    <3> DEFINE N == Len(messages)
    <3>1. N \in Nat /\ a \in 0..N /\ ~(a < N)
      BY <1>1, <1>2
    <3> HIDE DEF N
    <3>2. a = N
      BY <3>1
    <3> QED
      BY <3>2 DEF N
  <2>2. st[a] >= arrived
    BY <1>1, <2>1
  <2> QED
    BY <1>2, <2>2 DEF FrameEnd
<1>3. CASE a < Len(messages)
  <2> DEFINE n == a + 1
             p == st[a]
             x == stream[p + 1]
  <2>1. n \in 1..Len(messages) /\ n - 1 = a /\ n \in 0..Len(messages)
    BY <1>1, <1>3
  <2>2. PICK q, c : Cuts(st, n, q, c)
    BY <2>1, MessageCuts
  <2>3. /\ x = HeadOf(messages[n], IF q = 0 THEN messages[n].len ELSE More)
        /\ q = 0 => st[n] = p + 1 + messages[n].len
        /\ q # 0 => 1 \in 1..q /\ c[1] = p + 1 + First /\ c[1] < st[n] /\ c[1] \in Nat
    <3> HIDE DEF n
    <3>1. /\ stream[st[n - 1] + 1] = HeadOf(messages[n], IF q = 0 THEN messages[n].len ELSE More)
          /\ q = 0 => st[n] = st[n - 1] + 1 + messages[n].len
          /\ q # 0 => 1 \in 1..q /\ c[1] = st[n - 1] + 1 + First /\ c[1] < st[n] /\ c[1] \in Nat
      BY <2>1, <2>2, HeadAt
    <3> QED
      BY <2>1, <3>1
  <2>4. /\ p \in Nat /\ st[n] \in Nat /\ p < st[n] /\ messages[n].len \in Nat /\ messages[n].len # More
    <3> HIDE DEF n
    <3>1. messages[n] \in Messages
      BY <2>1, MessageAt
    <3>2. st[n - 1] < st[n]
      BY <2>1, Starts
    <3>3. p \in Nat /\ st[n] \in Nat
      BY <1>1, <2>1
    <3> QED
      BY <2>1, <3>1, <3>2, <3>3, DssAssumption DEF Messages, More
  <2>5. ~ExactFill(messages[n])
    BY <1>1, <2>1 DEF Plain
  <2>6. FrameEnd(p) = IF p >= arrived THEN Nowhere
                      ELSE IF p + 1 + HeadSize(x) > arrived THEN Nowhere
                      ELSE IF x.len = More THEN ContEnd[p + 1 + HeadSize(x)] ELSE p + 1 + HeadSize(x)
    BY DEF FrameEnd
  <2>7. p >= arrived => ~(st[n] <= arrived)
    BY <1>1, <2>4
  <2>8. CASE q = 0
    <3>1. x.len = messages[n].len
      BY <2>3, <2>8 DEF HeadOf
    <3>2. HeadSize(x) = messages[n].len /\ x.len # More
      BY <2>4, <3>1 DEF HeadSize
    <3>3. p + 1 + HeadSize(x) = st[n]
      BY <2>3, <2>8, <3>2
    <3> HIDE DEF n, p, x
    <3>4. FrameEnd(p) = IF st[n] <= arrived THEN st[n] ELSE Nowhere
      BY <1>1, <2>4, <2>6, <2>7, <3>2, <3>3
    <3> QED
      BY <1>3, <3>4 DEF n, p
  <2>9. CASE q # 0
    <3>1. x.len = More
      BY <2>3, <2>9 DEF HeadOf
    <3>2. HeadSize(x) = First
      BY <3>1 DEF HeadSize
    <3>3. p + 1 + HeadSize(x) = c[1] /\ 1 \in 1..q /\ c[1] < st[n] /\ c[1] \in Nat
      BY <2>3, <2>9, <3>2
    <3> HIDE DEF n, p, x
    <3>4. c[1] <= arrived => ContEnd[c[1]] = IF st[n] <= arrived THEN st[n] ELSE Nowhere
      BY <2>1, <2>2, <2>5, <3>3, LongEnds
    <3>5. FrameEnd(p) = IF st[n] <= arrived THEN st[n] ELSE Nowhere
      BY <1>1, <2>4, <2>6, <2>7, <3>1, <3>3, <3>4
    <3> QED
      BY <1>3, <3>5 DEF n, p
  <2> QED
    BY <2>8, <2>9
<1> QED
  BY <1>2, <1>3

\* Segments that continue a frame are messages that are no objects.
LEMMA MergeEnds ==
    ASSUME NEW st, Laid(st), Typed, NEW a \in 0..Len(messages), st[a] <= arrived
    PROVE  \E b \in a..Len(messages) :
             /\ MergeEnd[st[a]] = st[b] /\ st[b] <= arrived
             /\ \A n \in (a + 1)..b : ~messages[n].ddm
<1> DEFINE N == Len(messages)
           Ends(d, b) == /\ MergeEnd[st[d]] = st[b] /\ st[b] <= arrived
                         /\ \A n \in (d + 1)..b : ~messages[n].ddm
           Good(d) == st[d] <= arrived => \E b \in d..N : Ends(d, b)
           G == {j \in 0..N : Good(N - j)}
<1>1. /\ N \in Nat /\ st \in [0..N -> Nat]
      /\ st[N] = Len(stream) /\ arrived \in Nat /\ arrived <= Len(stream) /\ Len(stream) \in Nat
  BY Starts, LenProperties DEF Typed, Laid
<1> HIDE DEF N
\* A position where nothing continues the frame.
<1>2. ASSUME NEW d \in 0..N, st[d] <= arrived, ~Merges(st[d])
      PROVE  \E b \in d..N : Ends(d, b)
  <2>1. st[d] \in 0..arrived /\ d \in d..N
    BY <1>1, <1>2
  <2>2. MergeEnd[st[d]] = st[d]
    BY <1>2, <2>1, MergeEndIs
  <2>3. \A n \in (d + 1)..d : FALSE
    BY <1>1
  <2>4. Ends(d, d)
    BY <1>2, <2>2, <2>3
  <2> HIDE DEF Ends
  <2> QED
    BY <2>1, <2>4
<1>3. ASSUME NEW d \in 0..N, d < N, Good(d + 1)
      PROVE  Good(d)
  <2>1. SUFFICES ASSUME st[d] <= arrived, Merges(st[d])
                 PROVE  \E b \in d..N : Ends(d, b)
    BY <1>2
  <2> DEFINE n == d + 1
             p == st[d]
             x == stream[p + 1]
  <2>2. n \in 1..N /\ n - 1 = d /\ n \in 0..N
    BY <1>1, <1>3
  <2>3. x.cell = "head" /\ x.len # More /\ ~x.ddm /\ p + 1 + x.len <= arrived
    BY <2>1 DEF Merges
  <2>4. PICK q, c : Cuts(st, n, q, c)
    BY <2>2, MessageCuts DEF N
  <2>5. /\ stream[st[n - 1] + 1] = HeadOf(messages[n], IF q = 0 THEN messages[n].len ELSE More)
        /\ q = 0 => st[n] = st[n - 1] + 1 + messages[n].len
    <3> HIDE DEF n
    <3> QED
      BY <2>2, <2>4, HeadAt DEF N
  <2>6. x = HeadOf(messages[n], IF q = 0 THEN messages[n].len ELSE More)
    BY <2>2, <2>5
  <2>7. q = 0
    <3> HIDE DEF x, n
    <3> QED
      BY <2>3, <2>6 DEF HeadOf
  <2>8. st[n] = p + 1 + x.len /\ ~messages[n].ddm
    <3>1. x.len = messages[n].len /\ x.ddm = messages[n].ddm
      <4> HIDE DEF x, n
      <4> QED
        BY <2>6, <2>7 DEF HeadOf
    <3> QED
      BY <2>2, <2>3, <2>5, <2>7, <3>1
  <2>9. MergeEnd[p] = MergeEnd[st[n]] /\ st[n] <= arrived
    <3>1. p \in 0..arrived
      BY <1>1, <2>1
    <3>2. MergeEnd[p] = MergeEnd[p + 1 + x.len]
      BY <2>1, <3>1, MergeEndIs
    <3> HIDE DEF n, p, x
    <3> QED
      BY <2>3, <2>8, <3>2
  <2>10. PICK b \in n..N : Ends(n, b)
    BY <1>3, <2>9
  <2>11. ASSUME NEW i \in (d + 1)..b
         PROVE  ~messages[i].ddm
    <3>1. i = n \/ i \in (n + 1)..b
      BY <1>1, <2>2
    <3> QED
      BY <2>8, <2>10, <3>1
  <2>12. b \in d..N
    BY <1>1
  <2>13. Ends(d, b)
    BY <2>9, <2>10, <2>11
  <2> HIDE DEF Ends
  <2> QED
    BY <2>12, <2>13
<1>4. Good(N)
  <2>1. SUFFICES ASSUME st[N] <= arrived
                 PROVE  \E b \in N..N : Ends(N, b)
    OBVIOUS
  <2>2. ~Merges(st[N])
    BY <1>1 DEF Merges
  <2>3. N \in 0..N
    BY <1>1
  <2> HIDE DEF Ends
  <2> QED
    BY <1>2, <2>1, <2>2, <2>3
<1> HIDE DEF Good
<1>5. 0 \in G
  <2>1. N - 0 = N /\ 0 \in 0..N
    BY <1>1
  <2> QED
    BY <1>4, <2>1
<1>6. ASSUME NEW j \in 1..N, j - 1 \in G
      PROVE  j \in G
  <2>1. N - j \in 0..N /\ N - j < N /\ (N - j) + 1 = N - (j - 1) /\ j \in 0..N
    BY <1>1
  <2>2. Good(N - j)
    BY <1>3, <1>6, <2>1
  <2> QED
    BY <2>1, <2>2
<1> HIDE DEF G
<1>7. 0..N \subseteq G
  BY <1>1, <1>5, <1>6, KeptAlong
<1>8. N - a \in 0..N /\ N - (N - a) = a
  BY <1>1 DEF N
<1>9. Good(a)
  BY <1>7, <1>8 DEF G
<1> QED
  BY <1>9 DEF Good, N
-----------------------------------------------------------------------------
(* Dss: what stands in a frame *)

Slice(p, e) == SubSeq(stream, p + 1, e)

LEMMA Slices ==
    ASSUME Typed, NEW p \in Nat, NEW e \in Nat, p <= e, e <= Len(stream)
    PROVE  /\ Slice(p, e) \in Seq(Cells) /\ Len(Slice(p, e)) = e - p
           /\ \A i \in 1..(e - p) : Slice(p, e)[i] = stream[p + i]
<1>1. \A i \in (p + 1)..e : stream[i] \in Cells
  BY LenProperties DEF Typed
<1>2. p + 1 \in Int /\ e \in Int /\ e - (p + 1) + 1 = e - p /\ (~(p + 1 <= e) => e - p = 0)
  OBVIOUS
<1>3. /\ Slice(p, e) \in Seq(Cells)
      /\ Len(Slice(p, e)) = IF p + 1 <= e THEN e - (p + 1) + 1 ELSE 0
      /\ \A i \in 1..(e - (p + 1) + 1) : Slice(p, e)[i] = stream[(p + 1) + i - 1]
  BY <1>1, <1>2, SubSeqProperties DEF Slice
<1>4. \A i \in 1..(e - p) : (p + 1) + i - 1 = p + i
  OBVIOUS
<1> QED
  BY <1>2, <1>3, <1>4

LEMMA SliceConcat ==
    ASSUME Typed, NEW p \in Nat, NEW r \in Nat, NEW e \in Nat, p <= r, r <= e, e <= Len(stream)
    PROVE  /\ Slice(p, e) = Slice(p, r) \o Slice(r, e)
           /\ UnitsOf(Slice(p, e)) = UnitsOf(Slice(p, r)) \o UnitsOf(Slice(r, e))
<1> DEFINE a == Slice(p, r)
           b == Slice(r, e)
           c == Slice(p, e)
           d == a \o b
<1>0. Len(stream) \in Nat /\ r <= Len(stream) /\ p <= e
  BY LenProperties DEF Typed
<1>1. a \in Seq(Cells) /\ Len(a) = r - p /\ \A i \in 1..(r - p) : a[i] = stream[p + i]
  BY <1>0, Slices
<1>2. b \in Seq(Cells) /\ Len(b) = e - r /\ \A i \in 1..(e - r) : b[i] = stream[r + i]
  BY Slices
<1>3. c \in Seq(Cells) /\ Len(c) = e - p /\ \A i \in 1..(e - p) : c[i] = stream[p + i]
  BY <1>0, Slices
<1> HIDE DEF a, b, c
<1>4. d \in Seq(Cells) /\ Joined(a, b, d)
  BY <1>1, <1>2, Joins
<1> HIDE DEF d
<1>5. Len(d) = Len(c)
  BY <1>1, <1>2, <1>3, <1>4 DEF Joined
<1>6. ASSUME NEW i \in 1..Len(d)
      PROVE  d[i] = c[i]
  <2>1. CASE i \in 1..(r - p)
    <3>1. d[i] = a[i]
      BY <1>1, <1>4, <2>1 DEF Joined
    <3>2. i \in 1..(e - p)
      BY <1>3, <1>5
    <3> QED
      BY <1>1, <1>3, <2>1, <3>1, <3>2
  <2>2. CASE i \notin 1..(r - p)
    <3>1. i \in 1..(e - p)
      BY <1>3, <1>5
    <3> DEFINE j == i - (r - p)
    <3>2. j \in 1..(e - r) /\ (r - p) + j = i /\ r + j = p + i
      BY <2>2, <3>1
    <3> HIDE DEF j
    <3>3. d[(r - p) + j] = b[j]
      BY <1>1, <1>2, <1>4, <3>2 DEF Joined
    <3> QED
      BY <1>2, <1>3, <3>1, <3>2, <3>3
  <2> QED
    BY <2>1, <2>2
<1>7. d = c
  BY <1>3, <1>4, <1>5, <1>6, SeqEqual
<1>8. UnitsOf(d) = UnitsOf(a) \o UnitsOf(b)
  BY <1>1, <1>2, UnitsConcat DEF d
<1> QED
  BY <1>7, <1>8 DEF a, b, c, d

LEMMA SliceMessage ==
    ASSUME NEW st, Laid(st), Typed, NEW n \in 1..Len(messages)
    PROVE  /\ UnitsOf(Slice(st[n - 1], st[n])) = Run(n, 1, messages[n].len)
           /\ n \in Nat /\ messages[n].len \in Nat \ {0}
           /\ st[n - 1] \in Nat /\ st[n] \in Nat /\ st[n - 1] < st[n] /\ st[n] <= Len(stream)
<1> DEFINE seg == Segments(n, messages[n])
           p == st[n - 1]
           e == st[n]
           s == Slice(p, e)
<1>1. /\ n \in Nat /\ messages[n] \in Messages /\ p \in Nat /\ e \in Nat /\ e = p + Len(seg)
      /\ seg \in Seq(Cells) /\ Stands(seg, p, stream)
  BY MessageAt
<1>2. p < e /\ p <= e /\ e <= Len(stream)
  <2>1. n \in 0..Len(messages)
    BY MessageAt
  <2>2. p < e /\ e <= Len(stream)
    BY <2>1, Starts
  <2> HIDE DEF p, e
  <2> QED
    BY <1>1, <2>2
<1>3. UnitsOf(seg) = Run(n, 1, messages[n].len)
  BY <1>1, SegmentUnits
<1>4. messages[n].len \in Nat \ {0}
  BY <1>1, DssAssumption DEF Messages
<1> HIDE DEF seg, p, e
<1>5. s \in Seq(Cells) /\ Len(s) = e - p /\ \A i \in 1..(e - p) : s[i] = stream[p + i]
  BY <1>1, <1>2, Slices
<1> HIDE DEF s
<1>6. Len(seg) \in Nat /\ e - p = Len(seg)
  BY <1>1, LenProperties
<1>7. \A i \in 1..Len(s) : s[i] = seg[i]
  BY <1>1, <1>5, <1>6 DEF Stands
<1>8. s = seg
  BY <1>1, <1>5, <1>6, <1>7, SeqEqual
<1> QED
  BY <1>1, <1>2, <1>3, <1>4, <1>8 DEF s, p, e

\* u is the payload of messages a to b: only its first unit begins message a,
\* and its last one is of message b.
Spells(u, a, b) ==
    /\ u \in Seq(Marks) /\ Len(u) # 0 /\ u[Len(u)][1] = b
    /\ \A i \in 1..Len(u) : u[i][1] \in a..b /\ (u[i][1] = a /\ u[i][2] = 1 => i = 1)

LEMMA RunSpells ==
    ASSUME NEW n \in Nat, NEW k \in Nat \ {0}
    PROVE  Spells(Run(n, 1, k), n, n)
<1> DEFINE u == Run(n, 1, k)
<1>1. u \in Seq(Marks) /\ Len(u) = k /\ \A i \in 1..k : u[i] = <<n, 1 + i - 1>>
  <2>1. 1 \in Nat \ {0} /\ k \in Nat
    OBVIOUS
  <2> QED
    BY <2>1, RunType
<1>2. \A i \in 1..k : u[i][1] = n /\ u[i][2] = i
  BY <1>1
<1>3. k \in 1..k
  OBVIOUS
<1> HIDE DEF u
<1>4. \A i \in 1..k : u[i][1] \in n..n /\ (u[i][1] = n /\ u[i][2] = 1 => i = 1)
  BY <1>2
<1>5. u[Len(u)][1] = n /\ Len(u) # 0
  BY <1>1, <1>2, <1>3
<1>6. Spells(u, n, n)
  BY <1>1, <1>4, <1>5 DEF Spells
<1> QED
  BY <1>6 DEF u

LEMMA SpellsOn ==
    ASSUME NEW a \in Nat, NEW b \in Nat, a <= b, NEW u, Spells(u, a, b), NEW k \in Nat \ {0}
    PROVE  Spells(u \o Run(b + 1, 1, k), a, b + 1)
<1> DEFINE n == b + 1
           r == Run(n, 1, k)
           v == u \o r
<1>0. n = b + 1 /\ n \in Nat
  OBVIOUS
<1> HIDE DEF n
<1>1. r \in Seq(Marks) /\ Len(r) = k /\ \A i \in 1..k : r[i] = <<n, 1 + i - 1>>
  <2>1. 1 \in Nat \ {0} /\ k \in Nat
    OBVIOUS
  <2> QED
    BY <1>0, <2>1, RunType
<1>2. \A i \in 1..k : r[i][1] = n
  BY <1>1
<1>3. /\ u \in Seq(Marks) /\ Len(u) # 0
      /\ \A i \in 1..Len(u) : u[i][1] \in a..b /\ (u[i][1] = a /\ u[i][2] = 1 => i = 1)
  BY DEF Spells
<1> HIDE DEF r
<1>4. v \in Seq(Marks) /\ Joined(u, r, v)
  BY <1>1, <1>3, Joins
<1> HIDE DEF v
<1>5. Len(u) \in Nat /\ Len(v) = Len(u) + k
  BY <1>1, <1>4 DEF Joined
<1>6. \A i \in 1..Len(u) : v[i] = u[i]
  BY <1>4 DEF Joined
<1>7. \A i \in 1..k : v[Len(u) + i] = r[i]
  BY <1>1, <1>4 DEF Joined
<1>8. ASSUME NEW i \in 1..Len(v)
      PROVE  v[i][1] \in a..(b + 1) /\ (v[i][1] = a /\ v[i][2] = 1 => i = 1)
  <2>1. CASE i \in 1..Len(u)
    <3>1. v[i] = u[i] /\ u[i][1] \in a..b /\ (u[i][1] = a /\ u[i][2] = 1 => i = 1)
      BY <1>3, <1>6, <2>1
    <3>2. a..b \subseteq a..(b + 1)
      OBVIOUS
    <3> QED
      BY <3>1, <3>2
  <2>2. CASE i \notin 1..Len(u)
    <3> DEFINE j == i - Len(u)
    <3>1. j \in 1..k /\ Len(u) + j = i
      BY <1>5, <2>2
    <3> HIDE DEF j
    <3>2. v[i][1] = b + 1
      BY <1>0, <1>2, <1>7, <3>1
    <3>3. b + 1 \in a..(b + 1) /\ b + 1 # a
      OBVIOUS
    <3> QED
      BY <3>2, <3>3
  <2> QED
    BY <2>1, <2>2
<1>9. v[Len(v)][1] = b + 1 /\ Len(v) # 0
  <2>1. k \in 1..k /\ Len(u) + k # 0
    BY <1>5
  <2> QED
    BY <1>0, <1>2, <1>5, <1>7, <2>1
<1>10. Spells(v, a, b + 1)
  BY <1>4, <1>8, <1>9 DEF Spells
<1> QED
  BY <1>0, <1>10 DEF r, v

\* The payload between the ends of two messages is the messages between them.
LEMMA SliceSpells ==
    ASSUME NEW st, Laid(st), Typed, NEW a \in 0..Len(messages), NEW b \in 0..Len(messages), a < b
    PROVE  Spells(UnitsOf(Slice(st[a], st[b])), a + 1, b)
<1> DEFINE N == Len(messages)
           G == {i \in 0..N : i > a => Spells(UnitsOf(Slice(st[a], st[i])), a + 1, i)}
<1>1. /\ N \in Nat /\ st \in [0..N -> Nat]
      /\ \A i, j \in 0..N : i < j => st[i] < st[j]
      /\ \A i \in 0..N : st[i] <= Len(stream)
  BY Starts
<1> HIDE DEF N
<1>2. 0 \in G
  <2>1. ~(0 > a) /\ 0 \in 0..N
    BY <1>1 DEF N
  <2> QED
    BY <2>1
<1>3. ASSUME NEW i \in 1..N, i - 1 \in G
      PROVE  i \in G
  <2>1. /\ UnitsOf(Slice(st[i - 1], st[i])) = Run(i, 1, messages[i].len)
        /\ i \in Nat /\ messages[i].len \in Nat \ {0}
        /\ st[i - 1] \in Nat /\ st[i] \in Nat /\ st[i - 1] < st[i] /\ st[i] <= Len(stream)
    BY SliceMessage DEF N
  <2>2. i - 1 \in 0..N /\ i \in 0..N /\ a \in 0..N /\ a \in Nat
    BY <1>1 DEF N
  <2>3. CASE i = a + 1
    <3>1. i - 1 = a
      BY <2>2, <2>3
    <3>2. Spells(UnitsOf(Slice(st[a], st[i])), i, i)
      BY <2>1, <3>1, RunSpells
    <3> QED
      BY <2>2, <2>3, <3>2
  <2>4. CASE i > a + 1
    <3> DEFINE d == i - 1
    <3>1. d > a /\ d \in 0..N /\ d \in Nat /\ i = d + 1 /\ a + 1 \in Nat /\ a + 1 <= d
      BY <2>1, <2>2, <2>4
    <3>2. Spells(UnitsOf(Slice(st[a], st[d])), a + 1, d)
      BY <1>3, <3>1
    <3>3. UnitsOf(Slice(st[d], st[i])) = Run(d + 1, 1, messages[i].len) /\ st[d] < st[i]
      BY <2>1, <3>1
    <3> HIDE DEF d
    <3>4. st[a] \in Nat /\ st[d] \in Nat /\ st[a] < st[d]
      BY <1>1, <2>2, <3>1
    <3>5. UnitsOf(Slice(st[a], st[i])) = UnitsOf(Slice(st[a], st[d])) \o UnitsOf(Slice(st[d], st[i]))
      <4>1. st[a] <= st[d] /\ st[d] <= st[i]
        BY <2>1, <3>3, <3>4
      <4> QED
        BY <2>1, <3>4, <4>1, SliceConcat
    <3>6. Spells(UnitsOf(Slice(st[a], st[i])), a + 1, d + 1)
      BY <2>1, <3>1, <3>2, <3>3, <3>5, SpellsOn
    <3> QED
      BY <2>2, <3>1, <3>6
  <2>5. CASE ~(i > a)
    BY <2>2, <2>5
  <2>6. i = a + 1 \/ i > a + 1 \/ ~(i > a)
    BY <2>1, <2>2
  <2> QED
    BY <2>3, <2>4, <2>5, <2>6
<1> HIDE DEF G
<1>4. 0..N \subseteq G
  BY <1>1, <1>2, <1>3, KeptAlong
<1> QED
  BY <1>4 DEF G, N

\* The only header of a message is its first cell.
LEMMA OneHead ==
    ASSUME NEW st, Laid(st), Typed, NEW n \in 1..Len(messages)
    PROVE  /\ stream[st[n - 1] + 1].cell = "head"
           /\ stream[st[n - 1] + 1].chained = messages[n].chained
           /\ \A i \in (st[n - 1] + 2)..st[n] : stream[i].cell # "head"
<1>1. PICK q, c : Cuts(st, n, q, c)
  BY MessageCuts
<1>2. /\ q \in Nat /\ c \in [0..(q + 1) -> Nat] /\ c[0] = st[n - 1] /\ c[q + 1] = st[n]
      /\ \A k \in 0..q : Part(stream, messages[n], q, k, c[k], c[k + 1])
  BY <1>1 DEF Cuts
<1> DEFINE G == {k \in 0..(q + 1) : \A i \in (c[0] + 2)..c[k] : stream[i].cell # "head"}
<1>3. 0 \in G
  <2>1. c[0] \in Nat /\ 0 \in 0..(q + 1)
    BY <1>2
  <2>2. \A i \in (c[0] + 2)..c[0] : FALSE
    BY <2>1
  <2> QED
    BY <2>1, <2>2
<1>4. ASSUME NEW k \in 1..(q + 1), k - 1 \in G
      PROVE  k \in G
  <2> DEFINE j == k - 1
  <2>1. j \in 0..q /\ j + 1 = k /\ j \in 0..(q + 1) /\ k \in 0..(q + 1) /\ (j = 0 \/ j > 0)
    BY <1>2
  <2>2. Part(stream, messages[n], q, j, c[j], c[k])
    BY <1>2, <2>1
  <2>3. \A i \in (c[0] + 2)..c[j] : stream[i].cell # "head"
    BY <1>4
  <2> HIDE DEF j
  <2>4. c[0] \in Nat /\ c[j] \in Nat /\ c[k] \in Nat
    BY <1>2, <2>1
  <2>5. /\ \A i \in (c[j] + 2)..c[k] : stream[i].cell = "unit"
        /\ j > 0 => stream[c[j] + 1].cell = "cont"
    BY <2>2 DEF Part
  <2>6. ASSUME NEW i \in (c[0] + 2)..c[k]
        PROVE  stream[i].cell # "head"
    <3>1. i \in (c[0] + 2)..c[j] \/ i \in (c[j] + 2)..c[k] \/ i = c[j] + 1
      BY <2>4
    <3>2. CASE i = c[j] + 1
      <4>1. j # 0
        BY <2>4, <3>2
      <4> QED
        BY <2>1, <2>5, <3>2, <4>1
    <3> QED
      BY <2>3, <2>5, <3>1, <3>2
  <2> QED
    BY <2>1, <2>6
<1> HIDE DEF G
<1>5. 0..(q + 1) \subseteq G
  <2>1. q + 1 \in Nat
    BY <1>2
  <2> QED
    BY <1>3, <1>4, <2>1, KeptAlong
<1>6. q + 1 \in G
  BY <1>2, <1>5
<1>7. \A i \in (st[n - 1] + 2)..st[n] : stream[i].cell # "head"
  BY <1>2, <1>6 DEF G
<1>8. stream[st[n - 1] + 1] = HeadOf(messages[n], IF q = 0 THEN messages[n].len ELSE More)
  BY <1>1, HeadAt
<1> QED
  BY <1>7, <1>8 DEF HeadOf

\* The frame the reader returns for messages a + 1 to b.
LEMMA FrameIs ==
    ASSUME NEW st, Laid(st), Typed, NEW a \in 0..Len(messages), NEW b \in 0..Len(messages), a < b
    PROVE  /\ FrameAt(st[a], st[b]).units = UnitsOf(Slice(st[a], st[b]))
           /\ FrameAt(st[a], st[b]).chained = messages[b].chained
           /\ FrameAt(st[a], st[b]) = [units |-> UnitsOf(Slice(st[a], st[b])), chained |-> messages[b].chained]
<1> DEFINE p == st[a]
           e == st[b]
           l == st[b - 1] + 1
           heads == {i \in (p + 1)..e : stream[i].cell = "head"}
           top == CHOOSE i \in heads : \A j \in heads : j <= i
<1>1. b \in 1..Len(messages) /\ b - 1 \in 0..Len(messages) /\ (a = b - 1 \/ a < b - 1)
  BY Starts
<1>2. p \in Nat /\ e \in Nat /\ st[b - 1] \in Nat /\ st[b - 1] < e /\ p <= st[b - 1]
  <2>1. p \in Nat /\ e \in Nat /\ st[b - 1] \in Nat
    BY <1>1, Starts
  <2>2. st[b - 1] < e
    BY <1>1, Starts
  <2>3. a < b - 1 => p < st[b - 1]
    BY <1>1, Starts
  <2> QED
    BY <1>1, <2>1, <2>2, <2>3
<1>3. /\ stream[l].cell = "head" /\ stream[l].chained = messages[b].chained
      /\ \A i \in (l + 1)..e : stream[i].cell # "head"
  <2>1. st[b - 1] + 2 = l + 1
    BY <1>2
  <2> QED
    BY <1>1, <2>1, OneHead
<1>4. l \in (p + 1)..e
  BY <1>2
<1>5. l \in Nat /\ l <= e
  BY <1>2
<1> HIDE DEF p, e, l
<1>6. l \in heads
  BY <1>3, <1>4
<1>7. \A j \in heads : j <= l
  <2>1. ASSUME NEW j \in (p + 1)..e, stream[j].cell = "head"
        PROVE  j <= l
    <3>1. j \notin (l + 1)..e
      BY <1>3, <2>1
    <3> QED
      BY <1>2, <1>5, <3>1
  <2> QED
    BY <2>1
<1>8. top = l
  <2>1. top \in heads /\ \A j \in heads : j <= top
    <3> HIDE DEF heads
    <3> QED
      BY <1>6, <1>7
  <2>2. top \in (p + 1)..e /\ l <= top
    BY <1>6, <2>1
  <2>3. top <= l
    BY <1>7, <2>1
  <2> HIDE DEF top
  <2> QED
    BY <1>2, <1>5, <2>2, <2>3
<1>9. FrameAt(p, e) = [units |-> UnitsOf(Slice(p, e)), chained |-> stream[top].chained]
  BY DEF FrameAt, Slice
<1> HIDE DEF top
<1> QED
  BY <1>3, <1>8, <1>9 DEF p, e
-----------------------------------------------------------------------------
(* Dss: what was sent and what was read, grown by one *)

SentBy(ms) == FlattenSeq([n \in DOMAIN ms |-> [i \in 1..ms[n].len |-> <<n, i>>]])

GotBy(fs) == FlattenSeq([k \in DOMAIN fs |-> fs[k].units])

RunsOf(ms) == [n \in DOMAIN ms |-> Run(n, 1, ms[n].len)]

LEMMA RunsType ==
    ASSUME NEW ms \in Seq(Messages)
    PROVE  /\ RunsOf(ms) \in Seq(Seq(Marks)) /\ Len(RunsOf(ms)) = Len(ms)
           /\ \A n \in 1..Len(ms) : RunsOf(ms)[n] = Run(n, 1, ms[n].len)
           /\ SentBy(ms) = FlattenSeq(RunsOf(ms))
<1> DEFINE N == Len(ms)
           R(n) == Run(n, 1, ms[n].len)
           U(n) == [i \in 1..ms[n].len |-> <<n, i>>]
<1>1. N \in Nat /\ DOMAIN ms = 1..N /\ \A n \in 1..N : n \in Nat /\ ms[n] \in Messages
  BY LenProperties
<1>2. ASSUME NEW n \in 1..N
      PROVE  R(n) \in Seq(Marks) /\ R(n) = U(n)
  <2> DEFINE k == ms[n].len
  <2>1. n \in Nat /\ k \in Nat /\ 1 \in Nat \ {0}
    BY <1>1, DssAssumption DEF Messages
  <2> HIDE DEF k
  <2>2. Run(n, 1, k) \in Seq(Marks)
    BY <2>1, RunType
  <2>3. \A i \in 1..k : 1 + i - 1 = i
    OBVIOUS
  <2>4. Run(n, 1, k) = [i \in 1..k |-> <<n, i>>]
    BY <2>3 DEF Run
  <2> QED
    BY <2>2, <2>4 DEF k
<1>3. RunsOf(ms) = [n \in 1..N |-> R(n)]
  BY <1>1 DEF RunsOf
<1>4. [n \in DOMAIN ms |-> U(n)] = [n \in 1..N |-> U(n)]
  BY <1>1
<1>5. SentBy(ms) = FlattenSeq([n \in 1..N |-> U(n)])
  BY <1>4 DEF SentBy
<1> HIDE DEF N, U
<1>6. [n \in 1..N |-> U(n)] = [n \in 1..N |-> R(n)]
  <2> HIDE DEF R
  <2> QED
    BY <1>2
<1>7. [n \in 1..N |-> R(n)] \in Seq(Seq(Marks)) /\ Len([n \in 1..N |-> R(n)]) = N
  <2> HIDE DEF R
  <2> DEFINE S == Seq(Marks)
  <2>1. \A n \in 1..N : R(n) \in S
    BY <1>2
  <2> HIDE DEF S
  <2>2. [n \in 1..N |-> R(n)] \in Seq(S) /\ Len([n \in 1..N |-> R(n)]) = N
    BY <1>1, <2>1
  <2> QED
    BY <2>2 DEF S
<1> QED
  BY <1>3, <1>5, <1>6, <1>7 DEF N

LEMMA SentGrows ==
    ASSUME NEW ms \in Seq(Messages), NEW m \in Messages
    PROVE  SentBy(Append(ms, m)) = SentBy(ms) \o Run(Len(ms) + 1, 1, m.len)
<1> DEFINE N == Len(ms)
           as == Append(ms, m)
           r == Run(N + 1, 1, m.len)
           a == RunsOf(as)
           b == Append(RunsOf(ms), r)
<1>1. N \in Nat /\ as \in Seq(Messages) /\ Len(as) = N + 1 /\ as[N + 1] = m /\ \A n \in 1..N : as[n] = ms[n]
  BY LenProperties, AppendProperties
<1>2. r \in Seq(Marks)
  <2> DEFINE k == m.len
             n == N + 1
  <2>1. n \in Nat /\ k \in Nat /\ 1 \in Nat \ {0}
    BY <1>1, DssAssumption DEF Messages
  <2> HIDE DEF k, n
  <2>2. Run(n, 1, k) \in Seq(Marks)
    BY <2>1, RunType
  <2> QED
    BY <2>2 DEF k, n
<1>3. /\ RunsOf(ms) \in Seq(Seq(Marks)) /\ Len(RunsOf(ms)) = N
      /\ \A n \in 1..N : RunsOf(ms)[n] = Run(n, 1, ms[n].len)
      /\ SentBy(ms) = FlattenSeq(RunsOf(ms))
  BY RunsType
<1> HIDE DEF as
<1>4. /\ a \in Seq(Seq(Marks)) /\ Len(a) = N + 1
      /\ \A n \in 1..(N + 1) : a[n] = Run(n, 1, as[n].len)
      /\ SentBy(as) = FlattenSeq(a)
  BY <1>1, RunsType
<1> HIDE DEF r, a, N
<1>5. /\ b \in Seq(Seq(Marks)) /\ Len(b) = N + 1 /\ b[N + 1] = r
      /\ \A n \in 1..N : b[n] = RunsOf(ms)[n]
  <2> DEFINE S == Seq(Marks)
             c == RunsOf(ms)
  <2>1. c \in Seq(S) /\ Len(c) = N /\ r \in S
    BY <1>2, <1>3
  <2> HIDE DEF S, c
  <2>2. /\ Append(c, r) \in Seq(S) /\ Len(Append(c, r)) = N + 1 /\ Append(c, r)[N + 1] = r
        /\ \A n \in 1..N : Append(c, r)[n] = c[n]
    BY <2>1, AppendProperties
  <2> QED
    BY <2>2 DEF S, c
<1> HIDE DEF b
<1>6. ASSUME NEW n \in 1..(N + 1)
      PROVE  a[n] = b[n]
  <2>1. CASE n = N + 1
    BY <1>1, <1>4, <1>5, <2>1 DEF r
  <2>2. CASE n # N + 1
    <3>1. n \in 1..N
      BY <1>1, <2>2
    <3>2. a[n] = Run(n, 1, as[n].len) /\ as[n] = ms[n]
      BY <1>1, <1>4, <3>1
    <3>3. b[n] = Run(n, 1, ms[n].len)
      BY <1>3, <1>5, <3>1
    <3> QED
      BY <3>2, <3>3
  <2> QED
    BY <2>1, <2>2
<1>7. a = b
  BY <1>1, <1>4, <1>5, <1>6, SeqEqual
<1>8. FlattenSeq(b) = FlattenSeq(RunsOf(ms)) \o r
  BY <1>2, <1>3, FlattenAppend DEF b
<1> QED
  BY <1>3, <1>4, <1>7, <1>8 DEF as, r, N

Frames == [units : Seq(Marks), chained : BOOLEAN]

LEMMA GotGrows ==
    ASSUME NEW fs \in Seq(Frames), NEW f \in Frames
    PROVE  GotBy(Append(fs, f)) = GotBy(fs) \o f.units
<1> DEFINE N == Len(fs)
           af == Append(fs, f)
           S == Seq(Marks)
           U(gs) == [k \in DOMAIN gs |-> gs[k].units]
<1>1. N \in Nat /\ af \in Seq(Frames) /\ Len(af) = N + 1 /\ af[N + 1] = f /\ \A k \in 1..N : af[k] = fs[k]
  BY LenProperties, AppendProperties
<1>2. f.units \in S
  BY DEF Frames
<1> HIDE DEF S
<1>3. ASSUME NEW gs \in Seq(Frames)
      PROVE  U(gs) \in Seq(S) /\ Len(U(gs)) = Len(gs) /\ \A k \in 1..Len(gs) : U(gs)[k] = gs[k].units
  <2>1. Len(gs) \in Nat /\ DOMAIN gs = 1..Len(gs) /\ \A k \in 1..Len(gs) : gs[k] \in Frames
    BY LenProperties
  <2>2. \A k \in 1..Len(gs) : gs[k].units \in S
    BY <2>1 DEF Frames, S
  <2>3. U(gs) = [k \in 1..Len(gs) |-> gs[k].units]
    BY <2>1
  <2> HIDE DEF U
  <2> QED
    BY <2>1, <2>2, <2>3
<1>4. /\ U(fs) \in Seq(S) /\ Len(U(fs)) = N /\ \A k \in 1..N : U(fs)[k] = fs[k].units
  BY <1>3
<1> HIDE DEF af
<1>5. /\ U(af) \in Seq(S) /\ Len(U(af)) = N + 1 /\ \A k \in 1..(N + 1) : U(af)[k] = af[k].units
  BY <1>1, <1>3
<1>6. GotBy(fs) = FlattenSeq(U(fs)) /\ GotBy(af) = FlattenSeq(U(af))
  BY DEF GotBy
<1> DEFINE a == U(af)
           c == U(fs)
           x == f.units
           b == Append(c, x)
<1> HIDE DEF N, U, a, c, x
<1>7. b \in Seq(S) /\ Len(b) = N + 1 /\ b[N + 1] = x /\ \A k \in 1..N : b[k] = c[k]
  BY <1>2, <1>4, AppendProperties DEF c, x
<1> HIDE DEF b
<1>8. ASSUME NEW k \in 1..(N + 1)
      PROVE  a[k] = b[k]
  <2>1. CASE k = N + 1
    BY <1>1, <1>5, <1>7, <2>1 DEF a, x
  <2>2. CASE k # N + 1
    <3>1. k \in 1..N
      BY <1>1, <2>2
    <3>2. a[k] = fs[k].units
      BY <1>1, <1>5, <3>1 DEF a
    <3>3. b[k] = fs[k].units
      BY <1>4, <1>7, <3>1 DEF c
    <3> QED
      BY <3>2, <3>3
  <2> QED
    BY <2>1, <2>2
<1>9. a = b
  BY <1>1, <1>5, <1>7, <1>8, SeqEqual DEF a
<1>10. FlattenSeq(b) = FlattenSeq(c) \o x
  BY <1>2, <1>4, FlattenAppend DEF b, c, x, S
<1> QED
  BY <1>6, <1>9, <1>10 DEF a, c, x, af
-----------------------------------------------------------------------------
(* Dss: the frames are the messages *)

\* A frame holds messages a to b, of which only the first may be an object.
HoldsWhole(f) ==
    \E a, b \in 1..Len(messages) :
      /\ a <= b /\ Spells(f.units, a, b)
      /\ \A n \in (a + 1)..b : ~messages[n].ddm
      /\ f.chained = messages[b].chained

\* The reader stands where a message begins, and has what is before it.
Delivered(st) ==
    /\ position \in 0..arrived
    /\ \E a \in 0..Len(messages) : position = st[a]
    /\ frames \in Seq(Frames)
    /\ Got = UnitsOf(Slice(0, position))
    /\ \A k \in DOMAIN frames : HoldsWhole(frames[k])

\* The invariant: where the messages stand in the stream, for every message, and
\* what has been delivered, for messages of the lengths that can be told apart.
DssInv ==
    /\ Typed /\ Sent = UnitsOf(stream)
    /\ \E st : Laid(st) /\ (Plain => Delivered(st))

LEMMA SentIs == Sent = SentBy(messages) /\ Got = GotBy(frames)
BY DEF Sent, SentBy, Got, GotBy

LEMMA NothingYet == SentBy(<<>>) = <<>> /\ GotBy(<<>>) = <<>> /\ SubSeq(<<>>, 0 + 1, 0) = <<>>
<1>1. SentBy(<<>>) = FlattenSeq(<<>>) /\ GotBy(<<>>) = FlattenSeq(<<>>)
  BY DEF SentBy, GotBy
<1>2. SubSeq(<<>>, 0 + 1, 0) = <<>>
  <2>1. 0 + 1 \in Int /\ 0 \in Int /\ 0 < 0 + 1
    OBVIOUS
  <2> QED
    BY <2>1, SubSeqEmpty
<1> QED
  BY <1>1, <1>2, FlattenNone

LEMMA DssInitInv ==
    ASSUME DssInit
    PROVE  DssInv
<1> DEFINE st == [i \in 0..0 |-> 0]
<1>1. messages = <<>> /\ stream = <<>> /\ arrived = 0 /\ position = 0 /\ frames = <<>>
  BY DEF DssInit
<1>2. Len(messages) = 0 /\ Len(stream) = 0 /\ DOMAIN frames = {}
  BY <1>1
<1>3. Typed
  BY <1>1 DEF Typed
<1>4. Sent = UnitsOf(stream) /\ Got = UnitsOf(Slice(0, position))
  BY <1>1, SentIs, NothingYet, UnitsNone DEF Slice
<1>5. Laid(st)
  BY <1>2 DEF Laid
<1>6. Delivered(st)
  <2>1. frames \in Seq(Frames) /\ position \in 0..arrived
    BY <1>1
  <2>2. 0 \in 0..Len(messages) /\ position = st[0]
    BY <1>1, <1>2
  <2>3. \A k \in DOMAIN frames : HoldsWhole(frames[k])
    BY <1>2
  <2> HIDE DEF st
  <2> QED
    BY <1>4, <2>1, <2>2, <2>3 DEF Delivered
<1> HIDE DEF st
<1> QED
  BY <1>3, <1>4, <1>5, <1>6 DEF DssInv

\* A message is laid behind those before it.
LEMMA SendLaid ==
    ASSUME Typed, NEW st, Laid(st), NEW m \in Messages,
           messages' = Append(messages, m),
           stream' = stream \o Segments(Len(messages) + 1, m)
    PROVE  \E ts : Laid(ts)' /\ ts[0] = 0
<1> DEFINE N == Len(messages)
           n == N + 1
           seg == Segments(n, m)
           ts == [i \in 0..n |-> IF i <= N THEN st[i] ELSE Len(stream) + Len(seg)]
<1>1. /\ N \in Nat /\ n \in Nat /\ stream \in Seq(Cells) /\ messages \in Seq(Messages)
      /\ Len(stream) \in Nat
  BY LenProperties DEF Typed
<1>2. seg \in Seq(Cells) /\ Len(seg) \in Nat
  <2>1. seg \in Seq(Cells)
    BY <1>1, SegmentUnits
  <2> QED
    BY <2>1, LenProperties
<1>3. /\ Len(messages') = n /\ messages'[n] = m
      /\ \A i \in 1..N : messages'[i] = messages[i]
  BY AppendProperties DEF Typed
<1> HIDE DEF seg
<1>4. Joined(stream, seg, stream')
  BY <1>1, <1>2, Joins DEF seg
<1>5. Len(stream') = Len(stream) + Len(seg)
  BY <1>4 DEF Joined
<1>6. /\ st \in [0..N -> Nat] /\ st[0] = 0 /\ st[N] = Len(stream)
      /\ \A i \in 1..N : /\ st[i] = st[i - 1] + Len(Segments(i, messages[i]))
                         /\ Stands(Segments(i, messages[i]), st[i - 1], stream)
                         /\ Segments(i, messages[i]) \in Seq(Cells)
                         /\ st[i - 1] \in Nat
  <2>1. \A i \in 1..N : Segments(i, messages[i]) \in Seq(Cells) /\ st[i - 1] \in Nat
    BY MessageAt
  <2> QED
    BY <2>1 DEF Laid
<1> HIDE DEF N
<1>7. n = N + 1
  OBVIOUS
<1> HIDE DEF n
<1>8. /\ \A i \in 0..N : ts[i] = st[i] /\ i \in 0..n
      /\ ts[n] = Len(stream) + Len(seg)
  BY <1>1, <1>7
<1>9. ts \in [0..n -> Nat]
  BY <1>1, <1>2, <1>6, <1>7
<1> HIDE DEF ts
<1>10. ts[0] = 0 /\ ts[n] = Len(stream') /\ ts[N] = Len(stream)
  <2>1. 0 \in 0..N /\ N \in 0..N
    BY <1>1
  <2> QED
    BY <1>5, <1>6, <1>8, <2>1
<1>11. ASSUME NEW i \in 1..n
       PROVE  /\ ts[i] = ts[i - 1] + Len(Segments(i, messages'[i]))
              /\ Stands(Segments(i, messages'[i]), ts[i - 1], stream')
  <2>1. CASE i = n
    <3>1. i - 1 = N /\ Segments(i, messages'[i]) = seg
      BY <1>1, <1>3, <1>7, <2>1 DEF seg
    <3>2. Stands(seg, Len(stream), stream')
      BY <1>4, <1>5, <1>1, <1>2 DEF Joined, Stands
    <3> QED
      BY <1>8, <1>10, <2>1, <3>1, <3>2
  <2>2. CASE i # n
    <3>1. i \in 1..N /\ i \in 0..N /\ i - 1 \in 0..N
      BY <1>1, <1>7, <2>2
    <3>2. messages'[i] = messages[i] /\ ts[i] = st[i] /\ ts[i - 1] = st[i - 1]
      BY <1>3, <1>8, <3>1
    <3> DEFINE s == Segments(i, messages[i])
               p == st[i - 1]
    <3>3. st[i] = p + Len(s) /\ Stands(s, p, stream) /\ s \in Seq(Cells) /\ p \in Nat
      BY <1>6, <3>1
    <3> HIDE DEF s, p
    <3>4. Stands(s, p, stream')
      BY <1>1, <1>2, <1>4, <3>3, StandsStill
    <3> QED
      BY <3>2, <3>3, <3>4 DEF s, p
  <2> QED
    BY <2>1, <2>2
<1>12. PICK x : x = ts
  OBVIOUS
<1>13. Laid(x)'
  BY <1>3, <1>9, <1>10, <1>11, <1>12 DEF Laid
<1> QED
  BY <1>10, <1>12, <1>13

LEMMA SendInv ==
    ASSUME DssInv, Send
    PROVE  DssInv'
<1>1. PICK m \in Messages : /\ messages' = Append(messages, m)
                            /\ stream' = stream \o Segments(Len(messages) + 1, m)
  BY DEF Send
<1>2. arrived = 0 /\ UNCHANGED <<arrived, position, frames>>
  BY DEF Send
<1>3. arrived' = arrived /\ position' = position /\ frames' = frames
  BY <1>2
<1>4. PICK st : Laid(st) /\ (Plain => Delivered(st))
  BY DEF DssInv
<1>5. Typed /\ Sent = UnitsOf(stream)
  BY DEF DssInv
<1>6. PICK ts : Laid(ts)' /\ ts[0] = 0
  BY <1>1, <1>4, <1>5, SendLaid
<1> DEFINE N == Len(messages)
           seg == Segments(N + 1, m)
<1>7. /\ N \in Nat /\ N + 1 \in Nat /\ stream \in Seq(Cells) /\ messages \in Seq(Messages)
      /\ Len(stream) \in Nat /\ arrived \in 0..Len(stream)
  BY <1>5, LenProperties DEF Typed
<1>8. seg \in Seq(Cells) /\ UnitsOf(seg) = Run(N + 1, 1, m.len)
  BY <1>7, SegmentUnits
<1>9. /\ messages' \in Seq(Messages) /\ Len(messages') = N + 1
      /\ \A i \in 1..N : messages'[i] = messages[i]
  BY <1>1, <1>7, AppendProperties
<1> HIDE DEF seg
<1>10. stream' = stream \o seg
  BY <1>1 DEF seg
<1>11. stream' \in Seq(Cells) /\ Len(stream') \in Nat
  BY <1>7, <1>8, <1>10, Joins, LenProperties
<1>12. Typed'
  <2>1. arrived' \in 0..Len(stream')
    BY <1>2, <1>3, <1>11
  <2> QED
    BY <1>9, <1>11, <2>1 DEF Typed
<1>13. Sent' = UnitsOf(stream')
  <2>1. Sent' = SentBy(messages')
    BY DEF Sent, SentBy
  <2>2. SentBy(messages') = SentBy(messages) \o Run(N + 1, 1, m.len)
    BY <1>1, <1>7, SentGrows
  <2>3. UnitsOf(stream') = UnitsOf(stream) \o UnitsOf(seg)
    BY <1>7, <1>8, <1>10, UnitsConcat
  <2>4. SentBy(messages) = UnitsOf(stream)
    BY <1>5, SentIs
  <2> QED
    BY <1>8, <2>1, <2>2, <2>3, <2>4
<1>14. ASSUME Plain'
       PROVE  Delivered(ts)'
  <2>1. Plain
    <3>1. DOMAIN messages = 1..N /\ DOMAIN messages' = 1..(N + 1)
      BY <1>7, <1>9, LenProperties
    <3>2. ASSUME NEW i \in 1..N
          PROVE  ~ExactFill(messages[i])
      <4>1. i \in 1..(N + 1)
        BY <1>7
      <4>2. ~ExactFill(messages'[i])
        BY <1>14, <3>1, <4>1 DEF Plain, ExactFill
      <4> QED
        BY <1>9, <4>2
    <3> QED
      BY <3>1, <3>2 DEF Plain
  <2>2. /\ position = 0
        /\ frames \in Seq(Frames)
        /\ Got = UnitsOf(Slice(0, position))
        /\ \A k \in DOMAIN frames : HoldsWhole(frames[k])
    BY <1>2, <1>4, <2>1 DEF Delivered
  <2>3. position' \in 0..arrived' /\ position' = ts[0] /\ 0 \in 0..Len(messages')
    BY <1>2, <1>3, <1>6, <1>7, <1>9, <2>2
  <2>4. Got' = UnitsOf(Slice(0, position))'
    <3>1. Got' = Got
      BY <1>3 DEF Got
    <3>2. Slice(0, position)' = SubSeq(stream', 1, 0) /\ Slice(0, position) = SubSeq(stream, 1, 0)
      BY <1>3, <2>2 DEF Slice
    <3>3. SubSeq(stream', 1, 0) = <<>> /\ SubSeq(stream, 1, 0) = <<>>
      BY SubSeqEmpty
    <3>4. UnitsOf(Slice(0, position))' = UnitsOf(Slice(0, position)')
      BY DEF UnitsOf
    <3> QED
      BY <2>2, <3>1, <3>2, <3>3, <3>4
  <2>5. ASSUME NEW k \in DOMAIN frames
        PROVE  HoldsWhole(frames[k])'
    <3> DEFINE f == frames[k]
    <3>1. PICK a \in 1..N, b \in 1..N :
            /\ a <= b /\ Spells(f.units, a, b)
            /\ \A n \in (a + 1)..b : ~messages[n].ddm
            /\ f.chained = messages[b].chained
      BY <2>2 DEF HoldsWhole
    <3>2. a \in 1..(N + 1) /\ b \in 1..(N + 1) /\ \A n \in (a + 1)..b : n \in 1..N
      BY <1>7
    <3>3. /\ \A n \in (a + 1)..b : ~messages'[n].ddm
          /\ f.chained = messages'[b].chained
      BY <1>9, <3>1, <3>2
    <3>4. f' = f
      BY <1>3
    <3> HIDE DEF f
    <3>5. HoldsWhole(f)'
      BY <1>9, <3>1, <3>2, <3>3, <3>4 DEF HoldsWhole
    <3> QED
      BY <3>5 DEF f
  <2> QED
    BY <1>3, <2>2, <2>3, <2>4, <2>5 DEF Delivered
<1> QED
  BY <1>6, <1>12, <1>13, <1>14 DEF DssInv

LEMMA ArriveInv ==
    ASSUME DssInv, Arrive
    PROVE  DssInv'
<1>1. /\ arrived' \in (arrived + 1)..Len(stream)
      /\ messages' = messages /\ stream' = stream /\ position' = position /\ frames' = frames
  BY DEF Arrive
<1>2. Typed /\ Sent = UnitsOf(stream)
  BY DEF DssInv
<1>3. PICK st : Laid(st) /\ (Plain => Delivered(st))
  BY DEF DssInv
<1>4. arrived \in Nat /\ Len(stream) \in Nat
  BY <1>2, LenProperties DEF Typed
<1>5. Typed'
  <2>1. arrived' \in 0..Len(stream)
    BY <1>1, <1>4
  <2> QED
    BY <1>1, <1>2, <2>1 DEF Typed
<1>6. Sent' = UnitsOf(stream')
  BY <1>1, <1>2 DEF Sent
<1>7. Laid(st)'
  BY <1>1, <1>3 DEF Laid
<1>8. ASSUME Plain'
      PROVE  Delivered(st)'
  <2>1. Plain
    BY <1>1, <1>8 DEF Plain
  <2>2. Delivered(st)
    BY <1>3, <2>1
  <2>3. position \in 0..arrived'
    BY <1>1, <1>4, <2>2 DEF Delivered
  <2>4. Got' = UnitsOf(Slice(0, position))'
    BY <1>1, <2>2 DEF Delivered, Got, UnitsOf, Slice
  <2>5. \A k \in DOMAIN frames' : HoldsWhole(frames[k])'
    BY <1>1, <2>2 DEF Delivered, HoldsWhole
  <2> QED
    BY <1>1, <2>2, <2>3, <2>4, <2>5 DEF Delivered
<1> QED
  BY <1>5, <1>6, <1>7, <1>8 DEF DssInv

\* A complete frame: from the beginning of message a + 1 to the end of b.
LEMMA NextFrameEnds ==
    ASSUME NEW st, Laid(st), Typed, Plain, Delivered(st), NextFrame
    PROVE  \E a, b \in 0..Len(messages) :
             /\ a < b /\ position = st[a] /\ st[b] <= arrived
             /\ position' = st[b] /\ frames' = Append(frames, FrameAt(st[a], st[b]))
             /\ \A n \in ((a + 1) + 1)..b : ~messages[n].ddm
<1> DEFINE N == Len(messages)
           whole == FrameEnd(position)
           end == IF stream[position + 1].len = More THEN whole ELSE MergeEnd[whole]
<1>1. PICK a \in 0..N : position = st[a]
  BY DEF Delivered
<1>2. position \in 0..arrived /\ arrived \in Nat
  BY LenProperties DEF Delivered, Typed
<1>3. whole = IF a < N /\ st[a + 1] <= arrived THEN st[a + 1] ELSE Nowhere
  BY <1>1, <1>2, FrameEnds
<1>4. whole # Nowhere /\ frames' = Append(frames, FrameAt(position, end)) /\ position' = end
  BY DEF NextFrame
<1>5. N \in Nat
  BY Starts
<1> HIDE DEF whole, N
<1>6. a < N /\ st[a + 1] <= arrived /\ whole = st[a + 1] /\ a + 1 \in 0..N
  BY <1>3, <1>4, <1>5
<1>7. \E b \in (a + 1)..N : /\ end = st[b] /\ st[b] <= arrived
                            /\ \A n \in ((a + 1) + 1)..b : ~messages[n].ddm
  <2>1. CASE stream[position + 1].len = More
    <3>1. end = st[a + 1] /\ a + 1 \in (a + 1)..N
      BY <1>5, <1>6, <2>1
    <3>2. \A n \in ((a + 1) + 1)..(a + 1) : FALSE
      BY <1>5
    <3> QED
      BY <1>6, <3>1, <3>2
  <2>2. CASE stream[position + 1].len # More
    <3>1. end = MergeEnd[st[a + 1]]
      BY <1>6, <2>2
    <3> DEFINE d == a + 1
    <3>2. d \in 0..N /\ st[d] <= arrived
      BY <1>6
    <3> HIDE DEF d
    <3>3. \E b \in d..N : /\ MergeEnd[st[d]] = st[b] /\ st[b] <= arrived
                          /\ \A n \in (d + 1)..b : ~messages[n].ddm
      BY <3>2, MergeEnds DEF N
    <3> HIDE DEF end
    <3> QED
      BY <3>1, <3>3 DEF d
  <2> QED
    BY <2>1, <2>2
<1> HIDE DEF end
<1>8. PICK b \in (a + 1)..N : /\ end = st[b] /\ st[b] <= arrived
                              /\ \A n \in ((a + 1) + 1)..b : ~messages[n].ddm
  BY <1>7
<1>9. a \in 0..N /\ b \in 0..N /\ a < b
  BY <1>5, <1>6
<1>10. position' = st[b] /\ frames' = Append(frames, FrameAt(st[a], st[b]))
  BY <1>1, <1>4, <1>8
<1> QED
  BY <1>1, <1>8, <1>9, <1>10 DEF N

LEMMA NextFrameInv ==
    ASSUME DssInv, NextFrame
    PROVE  DssInv'
<1>1. messages' = messages /\ stream' = stream /\ arrived' = arrived
  BY DEF NextFrame
<1>2. Typed /\ Sent = UnitsOf(stream)
  BY DEF DssInv
<1>3. PICK st : Laid(st) /\ (Plain => Delivered(st))
  BY DEF DssInv
<1>4. Typed'
  BY <1>1, <1>2 DEF Typed
<1>5. Sent' = UnitsOf(stream')
  BY <1>1, <1>2 DEF Sent
<1>6. Laid(st)'
  BY <1>1, <1>3 DEF Laid
<1>7. ASSUME Plain'
      PROVE  Delivered(st)'
  <2> DEFINE N == Len(messages)
  <2>1. Plain
    BY <1>1, <1>7 DEF Plain
  <2>2. Delivered(st)
    BY <1>3, <2>1
  <2>3. PICK a \in 0..N, b \in 0..N :
             /\ a < b /\ position = st[a] /\ st[b] <= arrived
             /\ position' = st[b] /\ frames' = Append(frames, FrameAt(st[a], st[b]))
             /\ \A n \in ((a + 1) + 1)..b : ~messages[n].ddm
    BY <1>2, <1>3, <2>1, <2>2, NextFrameEnds
  <2>4. /\ N \in Nat /\ st[a] \in Nat /\ st[b] \in Nat /\ st[a] < st[b] /\ st[b] <= Len(stream)
        /\ Len(stream) \in Nat /\ arrived \in Nat
    <3>1. /\ N \in Nat /\ st \in [0..N -> Nat] /\ \A i, j \in 0..N : i < j => st[i] < st[j]
          /\ \A i \in 0..N : st[i] <= Len(stream)
      BY <1>2, <1>3, Starts
    <3>2. Len(stream) \in Nat /\ arrived \in Nat
      BY <1>2, LenProperties DEF Typed
    <3> HIDE DEF N
    <3> QED
      BY <2>3, <3>1, <3>2
  <2> DEFINE f == FrameAt(st[a], st[b])
             u == UnitsOf(Slice(st[a], st[b]))
  <2>5. f = [units |-> u, chained |-> messages[b].chained] /\ Spells(u, a + 1, b)
    <3>1. Spells(u, a + 1, b)
      BY <1>2, <1>3, <2>3, SliceSpells
    <3>2. f = [units |-> u, chained |-> messages[b].chained]
      BY <1>2, <1>3, <2>3, FrameIs
    <3> QED
      BY <3>1, <3>2
  <2>6. b \in 1..N /\ a + 1 \in 1..N /\ a + 1 <= b
    BY <2>3, <2>4
  <2>7. messages[b].chained \in BOOLEAN
    <3>1. messages[b] \in Messages
      BY <1>2, <2>6 DEF Typed
    <3> QED
      BY <3>1 DEF Messages
  <2> HIDE DEF f, u, N
  <2>8. f \in Frames /\ f.units = u /\ f.chained = messages[b].chained
    <3>1. u \in Seq(Marks)
      BY <2>5 DEF Spells
    <3> QED
      BY <2>5, <2>7, <3>1 DEF Frames
  <2>9. frames \in Seq(Frames) /\ frames' = Append(frames, f)
    BY <2>2, <2>3 DEF Delivered, f
  <2>10. frames' \in Seq(Frames)
    BY <2>8, <2>9, AppendProperties
  <2>11. position' \in 0..arrived' /\ position' = st[b] /\ b \in 0..Len(messages')
    BY <1>1, <2>3, <2>4 DEF N
  <2>12. Got' = UnitsOf(Slice(0, position))'
    <3>1. Got' = GotBy(frames')
      BY DEF Got, GotBy
    <3>2. GotBy(frames') = GotBy(frames) \o u
      BY <2>8, <2>9, GotGrows
    <3>3. GotBy(frames) = UnitsOf(Slice(0, st[a]))
      BY <2>2, <2>3, SentIs DEF Delivered
    <3>4. UnitsOf(Slice(0, st[b])) = UnitsOf(Slice(0, st[a])) \o UnitsOf(Slice(st[a], st[b]))
      <4>1. 0 \in Nat /\ 0 <= st[a] /\ st[a] <= st[b]
        BY <2>4
      <4> QED
        BY <1>2, <2>4, <4>1, SliceConcat
    <3>5. UnitsOf(Slice(0, position))' = UnitsOf(Slice(0, st[b]))
      BY <1>1, <2>3 DEF UnitsOf, Slice
    <3> QED
      BY <3>1, <3>2, <3>3, <3>4, <3>5 DEF u
  <2>13. HoldsWhole(f)
    BY <2>3, <2>5, <2>6, <2>8 DEF HoldsWhole, N
  <2>14. ASSUME NEW k \in DOMAIN frames'
         PROVE  HoldsWhole(frames[k])'
    <3>1. /\ Len(frames) \in Nat /\ DOMAIN frames = 1..Len(frames) /\ DOMAIN frames' = 1..(Len(frames) + 1)
          /\ \A i \in 1..Len(frames) : frames'[i] = frames[i]
          /\ frames'[Len(frames) + 1] = f
      BY <2>8, <2>9, <2>10, AppendProperties, LenProperties
    <3>2. HoldsWhole(frames'[k])
      <4>1. CASE k \in 1..Len(frames)
        <5>1. HoldsWhole(frames[k])
          BY <2>2, <3>1, <4>1 DEF Delivered
        <5> QED
          BY <3>1, <4>1, <5>1
      <4>2. CASE k \notin 1..Len(frames)
        <5>1. k = Len(frames) + 1
          BY <3>1, <4>2
        <5> QED
          BY <2>13, <3>1, <5>1
      <4> QED
        BY <4>1, <4>2
    <3> QED
      BY <1>1, <3>2 DEF HoldsWhole
  <2> QED
    BY <2>10, <2>11, <2>12, <2>14 DEF Delivered
<1> QED
  BY <1>4, <1>5, <1>6, <1>7 DEF DssInv

\* A prefix, and nothing more when it is all of it.
LEMMA Prefix ==
    ASSUME NEW S, NEW a \in Seq(S), NEW b \in Seq(S)
    PROVE  IsPrefix(a, a \o b)
<1> DEFINE c == a \o b
<1>1. c \in Seq(S) /\ Joined(a, b, c)
  BY Joins
<1> HIDE DEF c
<1>2. Len(a) \in Nat /\ Len(b) \in Nat /\ Len(c) = Len(a) + Len(b) /\ \A i \in 1..Len(a) : c[i] = a[i]
  BY <1>1 DEF Joined
<1>3. SubSeq(a, 1, Len(a)) = SubSeq(c, 1, Len(a))
  <2> DEFINE n == Len(a)
             x == SubSeq(a, 1, n)
             y == SubSeq(c, 1, n)
  <2>1. 1 \in Int /\ n \in Int /\ n - 1 + 1 = n /\ \A i \in 1..n : a[i] \in S /\ c[i] \in S /\ 1 + i - 1 = i
    BY <1>1, <1>2, LenProperties
  <2>2. x \in Seq(S) /\ Len(x) = (IF 1 <= n THEN n - 1 + 1 ELSE 0) /\ \A i \in 1..(n - 1 + 1) : x[i] = a[1 + i - 1]
    BY <2>1, SubSeqProperties
  <2>3. y \in Seq(S) /\ Len(y) = (IF 1 <= n THEN n - 1 + 1 ELSE 0) /\ \A i \in 1..(n - 1 + 1) : y[i] = c[1 + i - 1]
    BY <2>1, SubSeqProperties
  <2>4. Len(x) = Len(y) /\ \A i \in 1..Len(x) : i \in 1..n
    BY <1>2, <2>2, <2>3
  <2>5. \A i \in 1..Len(x) : x[i] = y[i]
    BY <1>2, <2>1, <2>2, <2>3, <2>4
  <2> HIDE DEF x, y
  <2>6. x = y
    BY <2>2, <2>3, <2>4, <2>5, SeqEqual
  <2> QED
    BY <2>6 DEF x, y
<1>4. IsPrefix(a, c)
  BY <1>2, <1>3 DEF IsPrefix
<1> QED
  BY <1>4 DEF c

LEMMA WholeFrame ==
    ASSUME NEW f, HoldsWhole(f), NEW i \in DOMAIN f.units
    PROVE  /\ i > 1 /\ f.units[i][2] = 1 => ~messages[f.units[i][1]].ddm
           /\ f.chained = messages[Last(f.units)[1]].chained
<1> DEFINE u == f.units
<1>1. PICK a \in 1..Len(messages), b \in 1..Len(messages) :
        /\ a <= b /\ Spells(u, a, b)
        /\ \A n \in (a + 1)..b : ~messages[n].ddm
        /\ f.chained = messages[b].chained
  BY DEF HoldsWhole
<1>2. /\ u \in Seq(Marks) /\ Len(u) # 0 /\ u[Len(u)][1] = b
      /\ \A j \in 1..Len(u) : u[j][1] \in a..b /\ (u[j][1] = a /\ u[j][2] = 1 => j = 1)
  BY <1>1 DEF Spells
<1>3. i \in 1..Len(u)
  BY <1>2, LenProperties
<1> HIDE DEF u
<1>4. Last(u) = u[Len(u)]
  BY DEF Last
<1>5. f.chained = messages[Last(u)[1]].chained
  BY <1>1, <1>2, <1>4
<1>6. ASSUME i > 1, u[i][2] = 1
      PROVE  ~messages[u[i][1]].ddm
  <2>1. u[i][1] \in a..b /\ u[i][1] # a
    BY <1>2, <1>3, <1>6
  <2>2. u[i][1] \in (a + 1)..b
    BY <2>1
  <2> QED
    BY <1>1, <2>2
<1> QED
  BY <1>5, <1>6 DEF u

LEMMA DssInvHolds ==
    ASSUME DssInv
    PROVE  FramesAreTheMessages
<1>1. SUFFICES ASSUME Plain
               PROVE  /\ IsPrefix(Got, Sent)
                      /\ \A k \in DOMAIN frames : \A i \in DOMAIN frames[k].units :
                            i > 1 /\ frames[k].units[i][2] = 1
                              => ~messages[frames[k].units[i][1]].ddm
                      /\ \A k \in DOMAIN frames :
                            frames[k].chained = messages[Last(frames[k].units)[1]].chained
                      /\ arrived = Len(stream) /\ FrameEnd(position) = Nowhere
                            => position = arrived /\ Got = Sent
  BY DEF FramesAreTheMessages, Plain
<1>2. Typed /\ Sent = UnitsOf(stream)
  BY DEF DssInv
<1>3. PICK st : Laid(st) /\ Delivered(st)
  BY <1>1 DEF DssInv
<1>4. /\ position \in 0..arrived /\ frames \in Seq(Frames)
      /\ Got = UnitsOf(Slice(0, position))
      /\ \A k \in DOMAIN frames : HoldsWhole(frames[k])
  BY <1>3 DEF Delivered
<1>5. /\ Len(stream) \in Nat /\ stream \in Seq(Cells) /\ arrived \in 0..Len(stream)
      /\ position \in Nat /\ position <= Len(stream)
  BY <1>2, <1>4, LenProperties DEF Typed
<1>6. UnitsOf(stream) = UnitsOf(Slice(0, Len(stream)))
  <2>1. Slice(0, Len(stream)) = stream
    <3>1. 0 + 1 = 1
      OBVIOUS
    <3> QED
      BY <1>5, <3>1, SubSeqFull DEF Slice
  <2> QED
    BY <2>1
<1>7. IsPrefix(Got, Sent)
  <2> DEFINE e == Len(stream)
  <2>1. 0 \in Nat /\ position \in Nat /\ e \in Nat /\ 0 <= position /\ position <= e /\ e <= Len(stream)
    BY <1>5
  <2>2. Sent = UnitsOf(Slice(0, e))
    BY <1>2, <1>6
  <2> HIDE DEF e
  <2>3. UnitsOf(Slice(0, e)) = UnitsOf(Slice(0, position)) \o UnitsOf(Slice(position, e))
    BY <1>2, <2>1, SliceConcat
  <2>4. UnitsOf(Slice(0, position)) \in Seq(Marks) /\ UnitsOf(Slice(position, e)) \in Seq(Marks)
    <3>1. Slice(0, position) \in Seq(Cells) /\ Slice(position, e) \in Seq(Cells)
      <4>1. position <= Len(stream)
        BY <1>5
      <4> QED
        BY <1>2, <2>1, <4>1, Slices
    <3> QED
      BY <3>1, UnitsType
  <2> QED
    BY <1>4, <2>2, <2>3, <2>4, Prefix
<1>8. ASSUME NEW k \in DOMAIN frames
      PROVE  /\ frames[k].chained = messages[Last(frames[k].units)[1]].chained
             /\ \A i \in DOMAIN frames[k].units :
                  i > 1 /\ frames[k].units[i][2] = 1 => ~messages[frames[k].units[i][1]].ddm
  <2>1. HoldsWhole(frames[k])
    BY <1>4
  <2>2. PICK j : j \in DOMAIN frames[k].units
    <3>1. \E a, b : Spells(frames[k].units, a, b)
      BY <2>1 DEF HoldsWhole
    <3>2. frames[k].units \in Seq(Marks) /\ Len(frames[k].units) # 0
      BY <3>1 DEF Spells
    <3>3. Len(frames[k].units) \in DOMAIN frames[k].units
      BY <3>2, LenProperties
    <3> QED
      BY <3>3
  <2> QED
    BY <2>1, <2>2, WholeFrame
<1>9. ASSUME arrived = Len(stream), FrameEnd(position) = Nowhere
      PROVE  position = arrived /\ Got = Sent
  <2> DEFINE N == Len(messages)
  <2>1. PICK a \in 0..N : position = st[a]
    BY <1>3 DEF Delivered
  <2>2. /\ N \in Nat /\ st \in [0..N -> Nat] /\ st[N] = Len(stream)
        /\ \A i \in 0..N : st[i] <= Len(stream)
    BY <1>2, <1>3, Starts DEF Laid
  <2>3. FrameEnd(st[a]) = IF a < N /\ st[a + 1] <= arrived THEN st[a + 1] ELSE Nowhere
    <3>1. st[a] <= arrived
      BY <1>4, <1>5, <2>1
    <3> QED
      BY <1>1, <1>2, <1>3, <3>1, FrameEnds
  <2> HIDE DEF N
  <2>4. a = N
    <3>1. ASSUME a < N
          PROVE  FALSE
      <4>1. a + 1 \in 0..N /\ st[a + 1] \in Nat
        BY <2>2, <3>1
      <4>2. st[a + 1] <= arrived /\ st[a + 1] # Nowhere
        BY <1>9, <2>2, <4>1 DEF Nowhere
      <4> QED
        BY <1>9, <2>1, <2>3, <3>1, <4>2
    <3> QED
      BY <2>2, <3>1
  <2>5. position = Len(stream)
    BY <2>1, <2>2, <2>4
  <2> QED
    BY <1>2, <1>4, <1>6, <1>9, <2>5
<1> QED
  BY <1>7, <1>8, <1>9

\* Whatever the reads return, the frames are the messages that were sent: for
\* segments of any size and messages of any length but one that fills its
\* last continuation (DssWriter, DssReader::next_frame).
THEOREM FramesDelivered == DssSpec => []FramesAreTheMessages
<1>1. DssInit => DssInv
  BY DssInitInv
<1>2. DssInv /\ [DssNext]_dssVars => DssInv'
  <2>1. ASSUME DssInv, UNCHANGED dssVars
        PROVE  DssInv'
    <3>1. messages' = messages /\ stream' = stream /\ arrived' = arrived
          /\ position' = position /\ frames' = frames
      BY <2>1 DEF dssVars
    <3> QED
      BY <2>1, <3>1 DEF DssInv, Typed, Laid, Plain, Delivered, HoldsWhole, Sent, Got, UnitsOf,
         Slice
  <2> QED
    BY <2>1, SendInv, ArriveInv, NextFrameInv DEF DssNext
<1>3. DssInv => FramesAreTheMessages
  BY DssInvHolds
<1> QED
  BY <1>1, <1>2, <1>3, PTL DEF DssSpec
-----------------------------------------------------------------------------
(* Ddm: lengths *)

\* v is the value of each prefix of the digits d.
Values(v, d) == v = [i \in 0..Len(d) |-> IF i = 0 THEN 0 ELSE v[i - 1] * 256 + d[i]]

LEMMA ValuesExist ==
    ASSUME NEW d \in Seq(Nat)
    PROVE  \E v : Values(v, d)
<1> DEFINE n == Len(d)
           f == [p \in Nat \X (1..n) |-> p[1] * 256 + d[p[2]]]
<1>1. n \in Nat /\ \A i \in 1..n : d[i] \in Nat
  BY LenProperties
<1> HIDE DEF n
<1>2. f \in [Nat \X (1..n) -> Nat]
  <2>1. ASSUME NEW p \in Nat \X (1..n)
        PROVE  p[1] * 256 + d[p[2]] \in Nat
    <3>1. p[1] \in Nat /\ d[p[2]] \in Nat
      BY <1>1
    <3> QED
      BY <3>1
  <2> QED
    BY <2>1
<1>3. \A x \in Nat, i \in 1..n : f[<<x, i>>] = x * 256 + d[i]
  OBVIOUS
<1> HIDE DEF f
<1>4. PICK g : Stepwise(g, Nat, 0, n, f)
  BY <1>1, <1>2, Recursion
<1>5. g \in [0..n -> Nat] /\ g[0] = 0 /\ \A i \in 1..n : g[i] = f[<<g[i - 1], i>>]
  BY <1>4 DEF Stepwise
<1> DEFINE E(i) == IF i = 0 THEN 0 ELSE g[i - 1] * 256 + d[i]
<1>6. ASSUME NEW i \in 0..n
      PROVE  g[i] = E(i)
  <2>1. CASE i = 0
    BY <1>5, <2>1
  <2>2. CASE i # 0
    <3>1. i \in 1..n /\ i - 1 \in 0..n
      BY <1>1, <2>2
    <3>2. g[i - 1] \in Nat /\ g[i] = f[<<g[i - 1], i>>]
      BY <1>5, <3>1
    <3> QED
      BY <1>3, <2>2, <3>1, <3>2
  <2> QED
    BY <2>1, <2>2
<1> HIDE DEF E
<1>7. g = [i \in 0..n |-> E(i)]
  BY <1>5, <1>6
<1> QED
  BY <1>7 DEF Values, E, n

\* parse_marshaled_length reads the digits it is given.
LEMMA NumberIs ==
    ASSUME NEW d \in Seq(Nat)
    PROVE  /\ BigEndian(d) \in Nat
           /\ Len(d) = 4 => BigEndian(d) = ((d[1] * 256 + d[2]) * 256 + d[3]) * 256 + d[4]
<1> DEFINE n == Len(d)
           v == CHOOSE v : Values(v, d)
<1>1. BigEndian(d) = v[n]
  BY DEF BigEndian, Values
<1>2. Values(v, d)
  BY ValuesExist
<1> HIDE DEF v
<1>3. n \in Nat /\ \A i \in 1..n : d[i] \in Nat
  BY LenProperties
<1>4. \A i \in 0..n : v[i] = IF i = 0 THEN 0 ELSE v[i - 1] * 256 + d[i]
  BY <1>2 DEF Values
<1> HIDE DEF n
<1> DEFINE G == {i \in 0..n : v[i] \in Nat}
<1>5. 0 \in G
  BY <1>3, <1>4
<1>6. ASSUME NEW i \in 1..n, i - 1 \in G
      PROVE  i \in G
  <2>1. i \in 0..n /\ i # 0
    BY <1>3
  <2>2. v[i] = v[i - 1] * 256 + d[i]
    BY <1>4, <2>1
  <2>3. v[i - 1] \in Nat /\ d[i] \in Nat
    BY <1>3, <1>6
  <2> QED
    BY <2>1, <2>2, <2>3
<1> HIDE DEF G
<1>7. 0..n \subseteq G
  BY <1>3, <1>5, <1>6, KeptAlong
<1>8. v[n] \in Nat
  BY <1>3, <1>7 DEF G
<1>9. ASSUME n = 4
      PROVE  v[n] = ((d[1] * 256 + d[2]) * 256 + d[3]) * 256 + d[4]
  <2>1. v[0] = 0 /\ v[1] = v[1 - 1] * 256 + d[1] /\ v[2] = v[2 - 1] * 256 + d[2]
        /\ v[3] = v[3 - 1] * 256 + d[3] /\ v[4] = v[4 - 1] * 256 + d[4]
    BY <1>4, <1>9
  <2>2. 1 - 1 = 0 /\ 2 - 1 = 1 /\ 3 - 1 = 2 /\ 4 - 1 = 3
    OBVIOUS
  <2>3. v[1] = 0 * 256 + d[1] /\ v[2] = v[1] * 256 + d[2]
        /\ v[3] = v[2] * 256 + d[3] /\ v[4] = v[3] * 256 + d[4]
    BY <2>1, <2>2
  <2>4. 0 * 256 + d[1] = d[1]
    BY <1>3, <1>9
  <2> QED
    BY <1>9, <2>3, <2>4
<1> QED
  BY <1>1, <1>8, <1>9 DEF n

LEMMA ShiftIs ==
    ASSUME NEW n \in Nat
    PROVE  Shift(n) \in Nat /\ n = Shift(n) * 256 + (n % 256) /\ n % 256 \in Nat
BY DEF Shift

LEMMA ShiftGrows ==
    ASSUME NEW n \in Nat, NEW m \in Nat, n <= m
    PROVE  Shift(n) <= Shift(m)
BY DEF Shift

\* Lengths of four bytes.
Fits(n) == n \in Nat /\ Shift(Shift(Shift(n + 8))) < 128

LEMMA SmallerFits ==
    ASSUME NEW n \in Nat, NEW m, Fits(m), n <= m
    PROVE  Fits(n)
<1>1. m \in Nat /\ n + 8 \in Nat /\ m + 8 \in Nat /\ n + 8 <= m + 8
  BY DEF Fits
<1>2. Shift(n + 8) <= Shift(m + 8) /\ Shift(n + 8) \in Nat /\ Shift(m + 8) \in Nat
  BY <1>1, ShiftIs, ShiftGrows
<1>3. /\ Shift(Shift(n + 8)) <= Shift(Shift(m + 8))
      /\ Shift(Shift(n + 8)) \in Nat /\ Shift(Shift(m + 8)) \in Nat
  BY <1>2, ShiftIs, ShiftGrows
<1>4. /\ Shift(Shift(Shift(n + 8))) <= Shift(Shift(Shift(m + 8)))
      /\ Shift(Shift(Shift(n + 8))) \in Nat /\ Shift(Shift(Shift(m + 8))) \in Nat
  BY <1>3, ShiftIs, ShiftGrows
<1> QED
  BY <1>1, <1>4 DEF Fits

\* The bytes of a length add up to it.
LEMMA DigitsAreNumber ==
    ASSUME NEW n, Fits(n)
    PROVE  /\ Digits(n) \in Seq(Nat) /\ Len(Digits(n)) = 4
           /\ BigEndian(Digits(n)) = n
<1> DEFINE x == Shift(n)
           y == Shift(x)
           z == Shift(y)
           b == y % 256
           c == x % 256
           e == n % 256
<1>1. n \in Nat /\ n + 8 \in Nat /\ n <= n + 8 /\ Shift(Shift(Shift(n + 8))) < 128
  BY DEF Fits
<1>2. x \in Nat /\ n = x * 256 + e /\ e \in Nat
  BY <1>1, ShiftIs
<1>3. y \in Nat /\ x = y * 256 + c /\ c \in Nat
  BY <1>2, ShiftIs
<1>4. z \in Nat /\ y = z * 256 + b /\ b \in Nat
  BY <1>3, ShiftIs
<1>5. z % 256 = z
  <2>1. x <= Shift(n + 8) /\ Shift(n + 8) \in Nat
    BY <1>1, ShiftIs, ShiftGrows
  <2>2. y <= Shift(Shift(n + 8)) /\ Shift(Shift(n + 8)) \in Nat
    BY <1>2, <2>1, ShiftIs, ShiftGrows
  <2>3. z <= Shift(Shift(Shift(n + 8))) /\ Shift(Shift(Shift(n + 8))) \in Nat
    BY <1>3, <2>2, ShiftIs, ShiftGrows
  <2> HIDE DEF z
  <2>4. z < 128
    BY <1>1, <1>4, <2>3
  <2> QED
    BY <1>4, <2>4
<1>6. Digits(n) = <<z, b, c, e>>
  BY <1>5 DEF Digits
<1> HIDE DEF x, y, z, b, c, e
<1> DEFINE d == <<z, b, c, e>>
<1>7. d \in Seq(Nat) /\ Len(d) = 4 /\ d[1] = z /\ d[2] = b /\ d[3] = c /\ d[4] = e
  BY <1>2, <1>3, <1>4
<1> HIDE DEF d
<1>8. BigEndian(d) = ((d[1] * 256 + d[2]) * 256 + d[3]) * 256 + d[4]
  BY <1>7, NumberIs
<1>9. ((z * 256 + b) * 256 + c) * 256 + e = n
  BY <1>2, <1>3, <1>4
<1> QED
  BY <1>6, <1>7, <1>8, <1>9 DEF d
-----------------------------------------------------------------------------
(* Ddm: one object *)

\* h is the header of n bytes of data.
IsHeader(h, cp, n) ==
    /\ h \in Seq(Nat) /\ Len(h) = Header + Extension(n)
    /\ h[1] = IF Extension(n) = 0 THEN n + Header ELSE HighBit + Header + 4
    /\ h[3] = cp
    /\ Extension(n) # 0 => \A i \in 1..4 : h[Header + i] = Digits(n)[i]

LEMMA ExtensionIs ==
    ASSUME NEW n \in Nat
    PROVE  /\ Extension(n) \in {0, 4}
           /\ Extension(n) = 0 <=> n + Header <= Inline
           /\ Inline \in Nat /\ HighBit = Inline + 1 /\ Header = 4
BY DdmAssumption DEF Extension, HighBit, Header

LEMMA MarshalIs ==
    ASSUME NEW cp \in Nat, NEW data \in Seq(Nat), Fits(Len(data))
    PROVE  \E h : IsHeader(h, cp, Len(data)) /\ Marshal(cp, data) = h \o data
<1> DEFINE n == Len(data)
<1>1. /\ n \in Nat /\ Inline \in Nat /\ HighBit = Inline + 1 /\ Header = 4
      /\ Extension(n) \in {0, 4}
  BY ExtensionIs DEF Fits
<1>2. CASE Extension(n) = 0
  <2> DEFINE h == <<n + Header, 0, cp, 0>>
  <2>1. Marshal(cp, data) = h \o data
    BY <1>2 DEF Marshal
  <2>2. h \in Seq(Nat) /\ Len(h) = 4 /\ h[1] = n + Header /\ h[3] = cp
    BY <1>1
  <2> HIDE DEF h
  <2>3. IsHeader(h, cp, n)
    BY <1>1, <1>2, <2>2 DEF IsHeader
  <2> QED
    BY <2>1, <2>3
<1>3. CASE Extension(n) # 0
  <2> DEFINE a == <<HighBit + Header + 4, 0, cp, 0>>
             d == Digits(n)
             h == a \o d
  <2>1. Extension(n) = 4
    BY <1>1, <1>3
  <2>2. Marshal(cp, data) = h \o data
    BY <1>3, <2>1 DEF Marshal
  <2>3. a \in Seq(Nat) /\ Len(a) = 4 /\ a[1] = HighBit + Header + 4 /\ a[3] = cp
    BY <1>1
  <2>4. d \in Seq(Nat) /\ Len(d) = 4
    BY DigitsAreNumber
  <2> HIDE DEF a, d
  <2>5. h \in Seq(Nat) /\ Joined(a, d, h)
    BY <2>3, <2>4, Joins
  <2> HIDE DEF h
  <2>6. /\ Len(h) = 8 /\ h[1] = a[1] /\ h[3] = a[3]
        /\ \A i \in 1..4 : h[4 + i] = d[i]
    <3>1. /\ Len(h) = 4 + 4 /\ \A i \in 1..4 : h[i] = a[i]
          /\ \A i \in 1..4 : h[4 + i] = d[i]
      BY <2>3, <2>4, <2>5 DEF Joined
    <3>2. 1 \in 1..4 /\ 3 \in 1..4 /\ 4 + 4 = 8
      OBVIOUS
    <3> QED
      BY <3>1, <3>2
  <2>7. IsHeader(h, cp, n)
    BY <1>1, <1>3, <2>1, <2>3, <2>5, <2>6 DEF IsHeader, d
  <2> QED
    BY <2>2, <2>7
<1> QED
  BY <1>2, <1>3

LEMMA HeaderRead ==
    ASSUME NEW h, NEW cp \in Nat, NEW n, Fits(n), IsHeader(h, cp, n),
           NEW b \in Seq(Nat), Len(h) <= Len(b), \A i \in 1..Len(h) : b[i] = h[i]
    PROVE  /\ Length(b) = [length |-> Len(h) + n, header |-> Len(h)]
           /\ b[3] = cp /\ ~Whole(b)
           /\ Len(h) \in {4, 8}
<1>1. /\ n \in Nat /\ Inline \in Nat /\ HighBit = Inline + 1 /\ Header = 4
      /\ Extension(n) \in {0, 4} /\ (Extension(n) = 0 <=> n + Header <= Inline)
  BY ExtensionIs DEF Fits
<1>2. Len(b) \in Nat
  BY LenProperties
<1>3. CASE Extension(n) = 0
  <2>1. Len(h) = 4 /\ h[1] = n + 4 /\ h[3] = cp /\ 1 \in 1..Len(h) /\ 3 \in 1..Len(h)
    BY <1>1, <1>3 DEF IsHeader
  <2>2. b[1] = n + 4 /\ b[3] = cp /\ n + 4 <= Inline
    BY <1>1, <1>3, <2>1
  <2>3. b[1] # HighBit + Header /\ b[1] < HighBit /\ ~(Len(b) < Header)
    BY <1>1, <1>2, <2>1, <2>2
  <2>4. Length(b) = [length |-> b[1], header |-> Header]
    BY <1>1, <2>2, <2>3 DEF Length
  <2> QED
    BY <1>1, <2>1, <2>2, <2>3, <2>4 DEF Whole
<1>4. CASE Extension(n) # 0
  <2>1. Len(h) = 8 /\ h[1] = HighBit + 8 /\ h[3] = cp /\ 1 \in 1..Len(h) /\ 3 \in 1..Len(h)
        /\ \A i \in 1..4 : h[4 + i] = Digits(n)[i]
    BY <1>1, <1>4 DEF IsHeader
  <2>2. b[1] = HighBit + 8 /\ b[3] = cp
    BY <1>1, <1>4, <2>1
  <2>0. HighBit \in Nat /\ Header = 4
    BY <1>1
  <2>9. Len(b) \in Nat /\ 8 <= Len(b)
    BY <1>2, <2>1
  <2>3. /\ b[1] # HighBit + Header /\ ~(b[1] < HighBit) /\ ~(Len(b) < Header)
        /\ b[1] - HighBit = 8 /\ ~(8 < Header) /\ ~(Len(b) < 8) /\ Header + 1 = 5
    <3> DEFINE x == b[1]
               l == Len(b)
    <3>1. x = HighBit + 8 /\ l \in Nat /\ 8 <= l
      BY <2>2, <2>9
    <3> HIDE DEF x, l
    <3>2. /\ x # HighBit + Header /\ ~(x < HighBit) /\ ~(l < Header)
          /\ x - HighBit = 8 /\ ~(8 < Header) /\ ~(l < 8) /\ Header + 1 = 5
      BY <2>0, <3>1
    <3> QED
      BY <3>2 DEF x, l
  <2>4. Length(b) = [length |-> 8 + BigEndian(SubSeq(b, 5, 8)), header |-> 8]
    BY <2>3 DEF Length
  <2>5. SubSeq(b, 5, 8) = Digits(n)
    <3> DEFINE s == SubSeq(b, 5, 8)
               d == Digits(n)
    <3>1. \A i \in 5..8 : b[i] \in Nat
      <4>1. 5..8 \subseteq 1..Len(b)
        BY <2>9
      <4> QED
        BY <4>1, LenProperties
    <3>2. s \in Seq(Nat) /\ Len(s) = 4 /\ \A i \in 1..4 : s[i] = b[5 + i - 1]
      BY <3>1, SubSeqProperties
    <3>3. d \in Seq(Nat) /\ Len(d) = 4
      BY DigitsAreNumber
    <3>4. ASSUME NEW i \in 1..4
          PROVE  s[i] = d[i]
      <4>1. 5 + i - 1 = 4 + i /\ 4 + i \in 1..Len(h)
        BY <2>1
      <4> QED
        BY <2>1, <3>2, <4>1
    <3> HIDE DEF s, d
    <3>5. s = d
      BY <3>2, <3>3, <3>4, SeqEqual
    <3> QED
      BY <3>5 DEF s, d
  <2>6. BigEndian(SubSeq(b, 5, 8)) = n
    BY <2>5, DigitsAreNumber
  <2> QED
    BY <2>1, <2>2, <2>3, <2>4, <2>6 DEF Whole
<1> QED
  BY <1>3, <1>4

\* What is read of a marshaled object, whatever comes behind it.
LEMMA MarshalRead ==
    ASSUME NEW cp \in Nat, NEW data \in Seq(Nat), Fits(Len(data)), NEW rest \in Seq(Nat)
    PROVE  /\ Marshal(cp, data) \in Seq(Nat)
           /\ Len(data) <= Len(Marshal(cp, data)) /\ Len(Marshal(cp, data)) <= Len(data) + 8
           /\ 4 <= Len(Marshal(cp, data))
           /\ Length(Marshal(cp, data) \o rest).length = Len(Marshal(cp, data))
           /\ Length(Marshal(cp, data) \o rest).header <= Len(Marshal(cp, data))
           /\ (Marshal(cp, data) \o rest)[3] = cp
           /\ DataOf(Marshal(cp, data) \o rest) = data
<1> DEFINE n == Len(data)
           o == Marshal(cp, data)
           b == o \o rest
<1>1. PICK h : IsHeader(h, cp, n) /\ o = h \o data
  BY MarshalIs
<1>2. h \in Seq(Nat) /\ n \in Nat
  BY <1>1, LenProperties DEF IsHeader
<1>3. o \in Seq(Nat) /\ Joined(h, data, o)
  BY <1>1, <1>2, Joins
<1> HIDE DEF o
<1>4. b \in Seq(Nat) /\ Joined(o, rest, b)
  BY <1>3, Joins
<1> HIDE DEF b
<1>5. /\ Len(h) \in Nat /\ Len(o) = Len(h) + n /\ Len(rest) \in Nat /\ Len(b) = Len(o) + Len(rest)
      /\ \A i \in 1..Len(h) : o[i] = h[i]
      /\ \A i \in 1..n : o[Len(h) + i] = data[i]
      /\ \A i \in 1..Len(o) : b[i] = o[i]
  BY <1>3, <1>4 DEF Joined
<1>6. Len(h) <= Len(b) /\ \A i \in 1..Len(h) : b[i] = h[i]
  BY <1>2, <1>5
<1>7. /\ Length(b) = [length |-> Len(h) + n, header |-> Len(h)]
      /\ b[3] = cp /\ ~Whole(b) /\ Len(h) \in {4, 8}
  BY <1>1, <1>4, <1>6, HeaderRead
<1>8. Length(b).length = Len(h) + n /\ Length(b).header = Len(h)
  BY <1>7
<1>9. DataOf(b) = data
  <2> DEFINE s == SubSeq(b, Len(h) + 1, Len(h) + n)
  <2>1. DataOf(b) = s
    BY <1>7, <1>8 DEF DataOf
  <2>2. \A i \in (Len(h) + 1)..(Len(h) + n) : b[i] \in Nat
    BY <1>2, <1>4, <1>5, LenProperties
  <2>3. Len(h) + 1 \in Int /\ Len(h) + n \in Int /\ (Len(h) + n) - (Len(h) + 1) + 1 = n
        /\ (~(Len(h) + 1 <= Len(h) + n) => n = 0)
    BY <1>2, <1>5
  <2>4. s \in Seq(Nat) /\ Len(s) = n /\ \A i \in 1..n : s[i] = b[(Len(h) + 1) + i - 1]
    BY <2>2, <2>3, SubSeqProperties
  <2>5. ASSUME NEW i \in 1..n
        PROVE  s[i] = data[i]
    <3>1. (Len(h) + 1) + i - 1 = Len(h) + i /\ Len(h) + i \in 1..Len(o)
      BY <1>2, <1>5
    <3> QED
      BY <1>5, <2>4, <3>1
  <2> HIDE DEF s, n
  <2>6. s = data
    BY <2>4, <2>5, SeqEqual DEF n
  <2> QED
    BY <2>1, <2>6
<1>10. /\ o \in Seq(Nat) /\ n <= Len(o) /\ Len(o) <= n + 8 /\ 4 <= Len(o)
       /\ Length(b).length = Len(o) /\ Length(b).header <= Len(o)
       /\ b[3] = cp /\ DataOf(b) = data
  <2> HIDE DEF n
  <2>1. b[3] = cp /\ Len(h) \in {4, 8}
    BY <1>7
  <2>2. n <= Len(o) /\ Len(o) <= n + 8 /\ 4 <= Len(o)
    <3> DEFINE l == Len(h)
               m == Len(o)
    <3>1. n \in Nat /\ l \in {4, 8} /\ m = l + n
      BY <1>2, <1>5, <2>1
    <3> HIDE DEF l, m
    <3>2. n <= m /\ m <= n + 8 /\ 4 <= m
      BY <3>1
    <3> QED
      BY <3>2 DEF m
  <2>3. Length(b).length = Len(o) /\ Length(b).header <= Len(o)
    <3>1. Length(b).length = Len(o)
      BY <1>5, <1>8
    <3>2. Len(h) <= Len(o)
      BY <1>2, <1>5
    <3> QED
      BY <1>8, <3>1, <3>2
  <2> QED
    BY <1>3, <1>9, <2>1, <2>2, <2>3
<1> QED
  BY <1>10 DEF b, o
-----------------------------------------------------------------------------
(* Ddm: objects one behind the other *)

LEMMA LengthType ==
    ASSUME NEW b \in Seq(Nat)
    PROVE  /\ Length(b).length \in Int /\ Length(b).header \in Int
           /\ ~(Length(b).length < Length(b).header) => Length(b).length > 0
<1>1. Len(b) \in Nat /\ Inline \in Nat /\ HighBit = Inline + 1 /\ Header = 4
  BY LenProperties, DdmAssumption DEF HighBit, Header
<1>2. CASE Len(b) < Header
  BY <1>2 DEF Length, Bad
<1>3. CASE ~(Len(b) < Header)
  <2> DEFINE raw == b[1]
             head == raw - HighBit
  <2>1. 1 \in 1..Len(b)
    BY <1>1, <1>3
  <2>2. raw \in Nat
    BY <2>1, LenProperties
  <2> HIDE DEF raw
  <2>3. head \in Int
    BY <1>1, <2>2
  <2> DEFINE N == BigEndian(SubSeq(b, Header + 1, head))
  <2>4. CASE raw = HighBit + Header
    <3>0. ~(raw < HighBit) /\ ~(head < Header) /\ ~(Len(b) < head)
      BY <1>1, <1>3, <2>4
    <3>1. Length(b) = [length |-> Len(b), header |-> Header]
      BY <1>3, <2>4, <3>0 DEF Length, raw
    <3> QED
      BY <1>1, <1>3, <3>1
  <2>5. CASE raw # HighBit + Header /\ raw < HighBit
    <3>1. Length(b) = [length |-> raw, header |-> Header]
      BY <1>1, <1>3, <2>2, <2>5 DEF Length, raw
    <3> QED
      BY <1>1, <2>2, <3>1
  <2>6. CASE raw # HighBit + Header /\ ~(raw < HighBit) /\ (head < Header \/ Len(b) < head)
    <3>1. raw >= HighBit
      BY <1>1, <2>2, <2>6
    <3>2. Length(b) = Bad
      BY <1>3, <2>6, <3>1 DEF Length, raw
    <3> QED
      BY <3>2 DEF Bad
  <2>7. CASE raw # HighBit + Header /\ ~(raw < HighBit) /\ ~(head < Header \/ Len(b) < head)
    <3>1. Length(b) = [length |-> head + N, header |-> head]
      BY <1>3, <2>7 DEF Length, raw
    <3>2. N \in Nat
      <4>1. head <= Len(b) /\ Header + 1 \in Int
        BY <1>1, <2>3, <2>7
      <4>2. \A i \in (Header + 1)..head : i \in 1..Len(b)
        BY <1>1, <2>3, <4>1
      <4>3. \A i \in (Header + 1)..head : b[i] \in Nat
        BY <4>2, LenProperties
      <4>4. SubSeq(b, Header + 1, head) \in Seq(Nat)
        BY <2>3, <4>1, <4>3, SubSeqProperties
      <4> QED
        BY <4>4, NumberIs
    <3>3. head >= 4
      BY <1>1, <2>3, <2>7
    <3> HIDE DEF head, N
    <3>4. head + N \in Int /\ head + N > 0
      BY <2>3, <3>2, <3>3
    <3> QED
      BY <2>3, <3>1, <3>4
  <2> QED
    BY <2>4, <2>5, <2>6, <2>7
<1> QED
  BY <1>2, <1>3

\* What is left of the bytes at p, and where the loops over them end.
Left(bytes, p) == SubSeq(bytes, p + 1, Len(bytes))
Ends(left) == Length(left).length < Length(left).header \/ Len(left) < Length(left).length
ObjectOf(left) == [cp |-> left[3], data |-> DataOf(left)]

Parses(f, bytes) ==
    f = [p \in 0..Len(bytes) |->
            IF Ends(Left(bytes, p)) THEN <<>>
            ELSE <<ObjectOf(Left(bytes, p))>> \o f[p + Length(Left(bytes, p)).length]]

LEMMA LeftIs ==
    ASSUME NEW b \in Seq(Nat), NEW p \in 0..Len(b)
    PROVE  /\ Left(b, p) \in Seq(Nat) /\ Len(Left(b, p)) = Len(b) - p
           /\ \A i \in 1..(Len(b) - p) : Left(b, p)[i] = b[p + i]
<1> DEFINE n == Len(b)
<1>1. n \in Nat /\ p \in Nat /\ p <= n
  BY LenProperties
<1>2. \A i \in (p + 1)..n : i \in 1..n
  BY <1>1
<1>3. \A i \in (p + 1)..n : b[i] \in Nat
  BY <1>2, LenProperties
<1>4. p + 1 \in Int /\ n \in Int /\ n - (p + 1) + 1 = n - p /\ (~(p + 1 <= n) => n - p = 0)
  BY <1>1
<1> HIDE DEF n
<1> DEFINE s == SubSeq(b, p + 1, n)
<1>5. /\ s \in Seq(Nat) /\ Len(s) = IF p + 1 <= n THEN n - (p + 1) + 1 ELSE 0
      /\ \A i \in 1..(n - (p + 1) + 1) : s[i] = b[(p + 1) + i - 1]
  BY <1>3, <1>4, SubSeqProperties
<1>6. \A i \in 1..(n - p) : (p + 1) + i - 1 = p + i
  BY <1>1
<1> HIDE DEF s
<1>7. /\ s \in Seq(Nat) /\ Len(s) = n - p
      /\ \A i \in 1..(n - p) : s[i] = b[p + i]
  BY <1>4, <1>5, <1>6
<1> QED
  BY <1>7 DEF Left, s, n

LEMMA ParsesOn ==
    ASSUME NEW b \in Seq(Nat), NEW p \in 0..Len(b), ~Ends(Left(b, p))
    PROVE  p + Length(Left(b, p)).length \in (p + 1)..Len(b)
<1> DEFINE l == Length(Left(b, p)).length
<1>1. Len(b) \in Nat /\ Left(b, p) \in Seq(Nat) /\ Len(Left(b, p)) = Len(b) - p
  BY LenProperties, LeftIs
<1>2. l \in Int /\ l > 0
  BY <1>1, LengthType DEF Ends
<1>3. ~(Len(b) - p < l)
  BY <1>1 DEF Ends
<1> HIDE DEF l
<1>4. p + l \in (p + 1)..Len(b)
  BY <1>1, <1>2, <1>3
<1> QED
  BY <1>4 DEF l

LEMMA ParsesExist ==
    ASSUME NEW b \in Seq(Nat)
    PROVE  \E f : Parses(f, b)
<1> DEFINE n == Len(b)
           stop == [p \in 0..n |-> Ends(Left(b, p))]
           add == [p \in 0..n |-> <<ObjectOf(Left(b, p))>>]
           jump == [p \in 0..n |-> p + Length(Left(b, p)).length]
<1>1. n \in Nat
  BY LenProperties
<1>2. ASSUME NEW p \in 0..n, ~stop[p]
      PROVE  jump[p] \in (p + 1)..n
  <2>1. ~Ends(Left(b, p))
    BY <1>2
  <2>2. p + Length(Left(b, p)).length \in (p + 1)..n
    BY <2>1, ParsesOn
  <2> QED
    BY <2>2
<1>3. \A p \in 0..n : /\ stop[p] = Ends(Left(b, p))
                      /\ add[p] = <<ObjectOf(Left(b, p))>>
                      /\ jump[p] = p + Length(Left(b, p)).length
  OBVIOUS
<1> HIDE DEF n, stop, add, jump
<1>4. PICK f : Runs(f, n, stop, add, jump)
  BY <1>1, <1>2, RunsExist DEF Forward
<1>5. f = [p \in 0..n |-> IF stop[p] THEN <<>> ELSE add[p] \o f[jump[p]]]
  BY <1>4 DEF Runs
<1>6. f = [p \in 0..n |-> IF Ends(Left(b, p)) THEN <<>>
                          ELSE <<ObjectOf(Left(b, p))>> \o f[p + Length(Left(b, p)).length]]
  BY <1>3, <1>5
<1> QED
  BY <1>6 DEF Parses, n

LEMMA ParseAllIs ==
    ASSUME NEW b \in Seq(Nat)
    PROVE  \E f : Parses(f, b) /\ ParseAll(b) = f[0]
<1> DEFINE f == CHOOSE f : Parses(f, b)
<1>1. ParseAll(b) = f[0]
  BY DEF ParseAll, Parses, Left, Ends, ObjectOf
<1>2. Parses(f, b)
  BY ParsesExist
<1> QED
  BY <1>1, <1>2

LEMMA ParseStep ==
    ASSUME NEW b \in Seq(Nat), NEW f, Parses(f, b), NEW p \in 0..Len(b)
    PROVE  f[p] = IF Ends(Left(b, p)) THEN <<>>
                  ELSE <<ObjectOf(Left(b, p))>> \o f[p + Length(Left(b, p)).length]
<1> DEFINE E(q) == IF Ends(Left(b, q)) THEN <<>>
                   ELSE <<ObjectOf(Left(b, q))>> \o f[q + Length(Left(b, q)).length]
<1>1. f = [q \in 0..Len(b) |-> E(q)]
  BY DEF Parses
<1> HIDE DEF E
<1>2. f[p] = E(p)
  BY <1>1
<1> QED
  BY <1>2 DEF E

LEMMA LeftBehind ==
    ASSUME NEW a \in Seq(Nat), NEW rest \in Seq(Nat), NEW p \in 0..Len(rest)
    PROVE  /\ Len(a) + p \in 0..Len(a \o rest)
           /\ Left(a \o rest, Len(a) + p) = Left(rest, p)
<1> DEFINE b == a \o rest
           m == Len(a)
           r == Len(rest)
<1>1. b \in Seq(Nat) /\ Joined(a, rest, b)
  BY Joins
<1> HIDE DEF b
<1>2. m \in Nat /\ r \in Nat /\ Len(b) = m + r /\ \A i \in 1..r : b[m + i] = rest[i]
  BY <1>1 DEF Joined
<1> HIDE DEF m, r
<1>3. p \in 0..r
  BY DEF r
<1>4. m + p \in 0..(m + r) /\ (m + r) - (m + p) = r - p
  BY <1>2, <1>3
<1>5. /\ Left(b, m + p) \in Seq(Nat) /\ Len(Left(b, m + p)) = r - p
      /\ \A i \in 1..(r - p) : Left(b, m + p)[i] = b[m + p + i]
  <2>1. m + p \in 0..Len(b)
    BY <1>2, <1>4
  <2>2. /\ Left(b, m + p) \in Seq(Nat) /\ Len(Left(b, m + p)) = Len(b) - (m + p)
        /\ \A i \in 1..(Len(b) - (m + p)) : Left(b, m + p)[i] = b[(m + p) + i]
    BY <1>1, <2>1, LeftIs
  <2> QED
    BY <1>2, <1>4, <2>2
<1>6. /\ Left(rest, p) \in Seq(Nat) /\ Len(Left(rest, p)) = r - p
      /\ \A i \in 1..(r - p) : Left(rest, p)[i] = rest[p + i]
  BY <1>3, LeftIs DEF r
<1>7. ASSUME NEW i \in 1..(r - p)
      PROVE  Left(b, m + p)[i] = Left(rest, p)[i]
  <2>1. p + i \in 1..r /\ m + p + i = m + (p + i)
    BY <1>2, <1>3
  <2> QED
    BY <1>2, <1>5, <1>6, <2>1
<1>8. Left(b, m + p) = Left(rest, p)
  <2> DEFINE u == Left(b, m + p)
             v == Left(rest, p)
  <2>1. u \in Seq(Nat) /\ v \in Seq(Nat) /\ Len(u) = Len(v) /\ \A i \in 1..Len(u) : u[i] = v[i]
    BY <1>5, <1>6, <1>7
  <2> HIDE DEF u, v
  <2>2. u = v
    BY <2>1, SeqEqual
  <2> QED
    BY <2>2 DEF u, v
<1> QED
  BY <1>2, <1>4, <1>8 DEF b, m

\* What is parsed from a place on depends on the bytes from there on.
LEMMA ParseBehind ==
    ASSUME NEW a \in Seq(Nat), NEW rest \in Seq(Nat), NEW f, NEW g,
           Parses(f, a \o rest), Parses(g, rest)
    PROVE  f[Len(a)] = g[0]
<1> DEFINE m == Len(a)
           n == Len(rest)
           b == a \o rest
           G == {k \in 0..n : \A p \in (n - k)..n : f[m + p] = g[p]}
<1>1. m \in Nat /\ n \in Nat /\ b \in Seq(Nat)
  BY LenProperties, ConcatProperties
<1>2. ASSUME NEW p \in 0..n, \A q \in (p + 1)..n : f[m + q] = g[q]
      PROVE  f[m + p] = g[p]
  <2> DEFINE l == Left(rest, p)
             j == Length(l).length
  <2>1. m + p \in 0..Len(b) /\ Left(b, m + p) = l
    BY LeftBehind
  <2>2. g[p] = IF Ends(l) THEN <<>> ELSE <<ObjectOf(l)>> \o g[p + j]
    BY ParseStep
  <2> HIDE DEF b
  <2>3. f[m + p] = IF Ends(l) THEN <<>> ELSE <<ObjectOf(l)>> \o f[(m + p) + j]
    <3>1. Parses(f, b)
      BY DEF b
    <3>2. f[m + p] = IF Ends(Left(b, m + p)) THEN <<>>
                     ELSE <<ObjectOf(Left(b, m + p))>> \o f[(m + p) + Length(Left(b, m + p)).length]
      BY <1>1, <2>1, <3>1, ParseStep
    <3> HIDE DEF l
    <3> QED
      BY <2>1, <3>2
  <2>4. CASE Ends(l)
    BY <2>2, <2>3, <2>4
  <2>5. CASE ~Ends(l)
    <3>1. p + j \in (p + 1)..n
      BY <2>5, ParsesOn
    <3> HIDE DEF j
    <3>2. j \in Int
      <4>1. l \in Seq(Nat)
        BY LeftIs
      <4> QED
        BY <4>1, LengthType DEF j
    <3>3. (m + p) + j = m + (p + j)
      BY <1>1, <3>2
    <3>4. f[(m + p) + j] = g[p + j]
      BY <1>2, <3>1, <3>3
    <3> QED
      BY <2>2, <2>3, <2>5, <3>4
  <2> QED
    BY <2>4, <2>5
<1>3. 0 \in G
  <2>1. ASSUME NEW p \in (n - 0)..n
        PROVE  f[m + p] = g[p]
    <3>1. p \in 0..n /\ (p + 1)..n = {}
      BY <1>1
    <3> QED
      BY <1>2, <3>1
  <2> QED
    BY <1>1, <2>1
<1>4. ASSUME NEW k \in 1..n, k - 1 \in G
      PROVE  k \in G
  <2>1. \A q \in (n - (k - 1))..n : f[m + q] = g[q]
    BY <1>4
  <2>2. ASSUME NEW p \in (n - k)..n
        PROVE  f[m + p] = g[p]
    <3>1. p \in 0..n /\ (p + 1)..n \subseteq (n - (k - 1))..n
      BY <1>1
    <3>2. \A q \in (p + 1)..n : f[m + q] = g[q]
      BY <2>1, <3>1
    <3> QED
      BY <1>2, <3>1, <3>2
  <2>3. k \in 0..n
    BY <1>1
  <2> QED
    BY <2>2, <2>3
<1> HIDE DEF G
<1>5. 0..n \subseteq G
  BY <1>1, <1>3, <1>4, KeptAlong
<1>6. n \in G /\ 0 \in (n - n)..n /\ m + 0 = m
  BY <1>1, <1>5
<1> QED
  BY <1>6 DEF G

\* The object in front is parsed, and then the rest.
LEMMA ParseFirst ==
    ASSUME NEW o \in Seq(Nat), NEW rest \in Seq(Nat),
           ~Ends(o \o rest), Length(o \o rest).length = Len(o)
    PROVE  ParseAll(o \o rest) = <<ObjectOf(o \o rest)>> \o ParseAll(rest)
<1> DEFINE b == o \o rest
<1>1. b \in Seq(Nat) /\ Len(o) \in Nat /\ Len(b) \in Nat
  BY LenProperties, ConcatProperties
<1>2. PICK f : Parses(f, b) /\ ParseAll(b) = f[0]
  BY <1>1, ParseAllIs
<1>3. PICK g : Parses(g, rest) /\ ParseAll(rest) = g[0]
  BY ParseAllIs
<1>4. f[Len(o)] = g[0]
  BY <1>2, <1>3, ParseBehind
<1> HIDE DEF b
<1>5. Left(b, 0) = b
  <2>1. 0 \in 0..Len(b)
    BY <1>1
  <2>2. /\ Left(b, 0) \in Seq(Nat) /\ Len(Left(b, 0)) = Len(b) - 0
        /\ \A i \in 1..(Len(b) - 0) : Left(b, 0)[i] = b[0 + i]
    BY <1>1, <2>1, LeftIs
  <2> DEFINE u == Left(b, 0)
  <2>3. u \in Seq(Nat) /\ Len(u) = Len(b) /\ \A i \in 1..Len(u) : u[i] = b[i]
    BY <1>1, <2>2
  <2> HIDE DEF u
  <2>4. u = b
    BY <1>1, <2>3, SeqEqual
  <2> QED
    BY <2>4 DEF u
<1>6. f[0] = <<ObjectOf(b)>> \o f[0 + Len(o)]
  <2>1. 0 \in 0..Len(b) /\ ~Ends(b) /\ Length(b).length = Len(o)
    BY <1>1 DEF b
  <2>2. f[0] = IF Ends(Left(b, 0)) THEN <<>>
               ELSE <<ObjectOf(Left(b, 0))>> \o f[0 + Length(Left(b, 0)).length]
    BY <1>1, <1>2, <2>1, ParseStep
  <2> QED
    BY <1>5, <2>1, <2>2
<1>7. 0 + Len(o) = Len(o)
  BY <1>1
<1> QED
  BY <1>2, <1>3, <1>4, <1>6, <1>7 DEF b

LEMMA ParseNone == ParseAll(<<>>) = <<>>
<1> DEFINE e == <<>>
           l == Left(e, 0)
<1>1. e \in Seq(Nat) /\ Len(e) = 0 /\ 0 \in 0..Len(e)
  OBVIOUS
<1> HIDE DEF e
<1>2. PICK f : Parses(f, e) /\ ParseAll(e) = f[0]
  BY <1>1, ParseAllIs
<1>3. l \in Seq(Nat) /\ Len(l) = Len(e) - 0
  BY <1>1, LeftIs
<1>4. f[0] = IF Ends(l) THEN <<>> ELSE <<ObjectOf(l)>> \o f[0 + Length(l).length]
  BY <1>1, <1>2, ParseStep
<1> HIDE DEF l
<1>5. Length(l) = Bad
  <2>1. Len(l) < Header
    BY <1>1, <1>3 DEF Header
  <2> QED
    BY <2>1 DEF Length
<1>6. Ends(l)
  BY <1>5 DEF Ends, Bad
<1> QED
  BY <1>2, <1>4, <1>6 DEF e

LEMMA ParseMarshal ==
    ASSUME NEW cp \in Nat, NEW data \in Seq(Nat), Fits(Len(data)), NEW rest \in Seq(Nat)
    PROVE  ParseAll(Marshal(cp, data) \o rest)
             = <<[cp |-> cp, data |-> data]>> \o ParseAll(rest)
<1> DEFINE o == Marshal(cp, data)
           b == o \o rest
<1>1. /\ o \in Seq(Nat) /\ Length(b).length = Len(o) /\ Length(b).header <= Len(o)
      /\ b[3] = cp /\ DataOf(b) = data
  BY MarshalRead
<1> HIDE DEF o
<1>2. Len(o) \in Nat /\ Len(rest) \in Nat /\ Len(b) = Len(o) + Len(rest) /\ b \in Seq(Nat)
  BY <1>1, LenProperties, ConcatProperties
<1> HIDE DEF b
<1>3. ~Ends(b)
  <2> DEFINE l == Len(o)
             h == Length(b).header
  <2>1. h \in Int /\ h <= l /\ l \in Nat /\ Length(b).length = l
    BY <1>1, <1>2, LengthType
  <2>2. ~(Len(b) < l)
    BY <1>2
  <2> HIDE DEF l, h
  <2>3. ~(l < h)
    BY <2>1
  <2> QED
    BY <2>1, <2>2, <2>3 DEF Ends, h
<1>4. ObjectOf(b) = [cp |-> cp, data |-> data]
  BY <1>1 DEF ObjectOf
<1>5. ParseAll(b) = <<ObjectOf(b)>> \o ParseAll(rest)
  BY <1>1, <1>3, ParseFirst DEF b
<1> QED
  BY <1>4, <1>5 DEF b, o

Objects == [cp : Nat, data : Seq(Nat)]

\* The first k of the objects with these code points and data.
ObjectList(cps, ds, k) == [j \in 1..k |-> [cp |-> cps[j], data |-> ds[j]]]

\* M are these objects as they are marshaled.
Marshaled(M, cps, ds, n) ==
    /\ cps \in [1..n -> Nat] /\ M \in Seq(Seq(Nat)) /\ Len(M) = n
    /\ \A j \in 1..n : ds[j] \in Seq(Nat) /\ Fits(Len(ds[j])) /\ M[j] = Marshal(cps[j], ds[j])

LEMMA ObjectListIs ==
    ASSUME NEW n \in Nat, NEW M, NEW cps, NEW ds, Marshaled(M, cps, ds, n), NEW k \in 1..n
    PROVE  /\ ObjectList(cps, ds, k - 1) \in Seq(Objects)
           /\ [cp |-> cps[k], data |-> ds[k]] \in Objects
           /\ ObjectList(cps, ds, k)
                = ObjectList(cps, ds, k - 1) \o <<[cp |-> cps[k], data |-> ds[k]]>>
<1> DEFINE O(j) == [cp |-> cps[j], data |-> ds[j]]
<1>1. \A j \in 1..n : O(j) \in Objects
  BY DEF Marshaled, Objects
<1> HIDE DEF O
<1> DEFINE a == [j \in 1..k |-> O(j)]
           b == [j \in 1..(k - 1) |-> O(j)]
           w == <<O(k)>>
           c == b \o w
<1>2. a \in Seq(Objects) /\ Len(a) = k /\ \A j \in 1..k : a[j] = O(j)
  BY <1>1
<1>3. b \in Seq(Objects) /\ Len(b) = k - 1 /\ \A j \in 1..(k - 1) : b[j] = O(j)
  BY <1>1
<1> HIDE DEF a, b
<1>4. w \in Seq(Objects) /\ Len(w) = 1 /\ w[1] = O(k)
  BY <1>1
<1> HIDE DEF w
<1>5. c \in Seq(Objects) /\ Joined(b, w, c)
  BY <1>3, <1>4, Joins
<1> HIDE DEF c
<1>9. Len(c) = k /\ (\A j \in 1..(k - 1) : c[j] = b[j]) /\ c[k] = w[1]
  <2>1. /\ Len(c) = (k - 1) + 1 /\ \A j \in 1..(k - 1) : c[j] = b[j]
        /\ \A j \in 1..1 : c[(k - 1) + j] = w[j]
    BY <1>3, <1>4, <1>5 DEF Joined
  <2>2. (k - 1) + 1 = k /\ 1 \in 1..1
    OBVIOUS
  <2> QED
    BY <2>1, <2>2
<1>6. ASSUME NEW j \in 1..k
      PROVE  a[j] = c[j]
  <2>1. CASE j <= k - 1
    <3>1. j \in 1..(k - 1)
      BY <2>1
    <3> QED
      BY <1>2, <1>3, <1>9, <3>1
  <2>2. CASE ~(j <= k - 1)
    <3>1. j = k
      BY <2>2
    <3> QED
      BY <1>2, <1>4, <1>9, <3>1
  <2> QED
    BY <2>1, <2>2
<1>7. a = c
  <2>1. Len(a) = Len(c) /\ \A j \in 1..Len(a) : a[j] = c[j]
    BY <1>2, <1>6, <1>9
  <2> QED
    BY <1>2, <1>5, <2>1, SeqEqual
<1> QED
  BY <1>1, <1>3, <1>7 DEF a, b, c, w, O, ObjectList

LEMMA ParseList ==
    ASSUME NEW n \in Nat, NEW M, NEW cps, NEW ds, Marshaled(M, cps, ds, n),
           NEW rest \in Seq(Nat), ParseAll(rest) \in Seq(Objects)
    PROVE  ParseAll(FlattenSeq(M) \o rest) = ObjectList(cps, ds, n) \o ParseAll(rest)
<1>1. /\ M \in Seq(Seq(Nat)) /\ Len(M) = n
      /\ \A k \in 1..n : /\ cps[k] \in Nat /\ ds[k] \in Seq(Nat) /\ Fits(Len(ds[k]))
                         /\ M[k] = Marshal(cps[k], ds[k]) /\ M[k] \in Seq(Nat)
  BY LenProperties DEF Marshaled
<1>2. PICK g : Partials(g, M, Nat)
  BY <1>1, PartialsExist
<1>3. FlattenSeq(M) = g[n]
  BY <1>1, <1>2, FlattenIs
<1>4. /\ g \in [0..n -> Seq(Nat)] /\ g[0] = <<>>
      /\ \A k \in 1..n : g[k] = g[k - 1] \o M[k]
  BY <1>1, <1>2 DEF Partials
<1> DEFINE Read(k, r) == ParseAll(r) \in Seq(Objects)
                            => ParseAll(g[k] \o r) = ObjectList(cps, ds, k) \o ParseAll(r)
           G == {k \in 0..n : \A r \in Seq(Nat) : Read(k, r)}
<1>5. ASSUME NEW r \in Seq(Nat), ParseAll(r) \in Seq(Objects)
      PROVE  ParseAll(g[0] \o r) = ObjectList(cps, ds, 0) \o ParseAll(r)
  <2>1. g[0] \o r = r
    BY <1>4, ConcatEmptySeq
  <2>2. ObjectList(cps, ds, 0) = <<>>
    BY DEF ObjectList
  <2>3. <<>> \o ParseAll(r) = ParseAll(r)
    BY <1>5, ConcatEmptySeq
  <2> QED
    BY <2>1, <2>2, <2>3
<1>6. ASSUME NEW k \in 1..n, k - 1 \in G, NEW r \in Seq(Nat), ParseAll(r) \in Seq(Objects)
      PROVE  ParseAll(g[k] \o r) = ObjectList(cps, ds, k) \o ParseAll(r)
  <2> DEFINE o == [cp |-> cps[k], data |-> ds[k]]
             l == ObjectList(cps, ds, k - 1)
             m == M[k]
             a == g[k - 1]
             q == m \o r
  <2>1. l \in Seq(Objects) /\ o \in Objects /\ ObjectList(cps, ds, k) = l \o <<o>>
    BY <1>6, ObjectListIs
  <2>2. a \in Seq(Nat) /\ m \in Seq(Nat) /\ g[k] = a \o m /\ q \in Seq(Nat)
    <3>1. k - 1 \in 0..n
      OBVIOUS
    <3> QED
      BY <1>1, <1>4, <3>1, ConcatProperties
  <2>3. ParseAll(q) = <<o>> \o ParseAll(r)
    <3>1. cps[k] \in Nat /\ ds[k] \in Seq(Nat) /\ Fits(Len(ds[k])) /\ m = Marshal(cps[k], ds[k])
      BY <1>1
    <3> HIDE DEF m
    <3> QED
      BY <3>1, ParseMarshal
  <2>4. ParseAll(q) \in Seq(Objects)
    <3>1. <<o>> \in Seq(Objects)
      BY <2>1
    <3> QED
      BY <1>6, <2>3, <3>1, ConcatProperties
  <2>5. ParseAll(a \o q) = l \o ParseAll(q)
    BY <1>6, <2>2, <2>4
  <2>8. q = m \o r
    OBVIOUS
  <2> HIDE DEF o, l, m, a, q
  <2>6. g[k] \o r = a \o q
    <3>1. (a \o m) \o r = a \o (m \o r)
      <4>1. \A x, y, z \in Seq(Nat) : (x \o y) \o z = x \o (y \o z)
        OBVIOUS
      <4> QED
        BY <2>2, <4>1
    <3>2. g[k] \o r = (a \o m) \o r
      BY <2>2
    <3> QED
      BY <2>8, <3>1, <3>2
  <2>7. l \o (<<o>> \o ParseAll(r)) = (l \o <<o>>) \o ParseAll(r)
    <3>1. \A x, y, z \in Seq(Objects) : (x \o y) \o z = x \o (y \o z)
      OBVIOUS
    <3>2. <<o>> \in Seq(Objects)
      BY <2>1
    <3> QED
      BY <1>6, <2>1, <3>1, <3>2
  <2> QED
    BY <2>1, <2>3, <2>5, <2>6, <2>7
<1>7. 0 \in G
  BY <1>5
<1>8. ASSUME NEW k \in 1..n, k - 1 \in G
      PROVE  k \in G
  <2>1. \A r \in Seq(Nat) : Read(k, r)
    BY <1>6, <1>8
  <2>2. k \in 0..n
    OBVIOUS
  <2> QED
    BY <2>1, <2>2
<1> HIDE DEF G
<1>9. 0..n \subseteq G
  BY <1>7, <1>8, KeptAlong
<1>10. n \in G
  BY <1>9
<1> QED
  BY <1>3, <1>10 DEF G
-----------------------------------------------------------------------------
(* Ddm: an object of unknown length *)

\* The part of d from b to e follows a mark in s, from x to y.
IsMarked(s, d, b, e, x, y) ==
    /\ b < e /\ e <= b + NextChunk /\ y = x + 2 + (e - b)
    /\ s[x + 1] = 127 /\ s[x + 2] = 255
    /\ \A i \in 1..(e - b) : s[x + 2 + i] = d[b + i]

\* s is d with a mark behind its first chunk and behind each of q - 1 others:
\* the k-th chunk ends at a[k] in d and at o[k] in s.
Marked(s, d, q, a, o) ==
    /\ q \in Nat \ {0} /\ a \in [0..q -> Nat] /\ o \in [0..q -> Nat]
    /\ a[0] = FirstChunk /\ o[0] = FirstChunk /\ a[q] = Len(d) /\ o[q] = Len(s)
    /\ \A i \in 1..FirstChunk : s[i] = d[i]
    /\ \A k \in 1..q : /\ IsMarked(s, d, a[k - 1], a[k], o[k - 1], o[k])
                       /\ k < q => a[k] = a[k - 1] + NextChunk

\* The ends of q chunks of n bytes.
ChunkEnds(n, q) == [k \in 0..q |-> IF k = q THEN n ELSE FirstChunk + k * NextChunk]

LEMMA ChunkEndsAre ==
    ASSUME NEW n \in Nat, FirstChunk < n, NEW q, q = (n - FirstChunk + NextChunk - 1) \div NextChunk
    PROVE  /\ q \in Nat \ {0} /\ ChunkEnds(n, q) \in [0..q -> Nat]
           /\ ChunkEnds(n, q)[0] = FirstChunk /\ ChunkEnds(n, q)[q] = n
           /\ \A k \in 1..q :
                /\ k - 1 \in 0..q /\ k \in 0..q
                /\ ChunkEnds(n, q)[k - 1] = FirstChunk + (k - 1) * NextChunk
                /\ ChunkEnds(n, q)[k] = IF k = q THEN n ELSE FirstChunk + k * NextChunk
                /\ ChunkEnds(n, q)[k - 1] < ChunkEnds(n, q)[k]
                /\ ChunkEnds(n, q)[k] <= ChunkEnds(n, q)[k - 1] + NextChunk
                /\ k < q => ChunkEnds(n, q)[k] = ChunkEnds(n, q)[k - 1] + NextChunk
<1> DEFINE F == FirstChunk
           N == NextChunk
           left == n - F
           c == ChunkEnds(n, q)
<1>1. F \in Nat \ {0} /\ N \in Nat \ {0}
  BY DdmAssumption
<1>2. left \in Nat \ {0}
  BY <1>1
<1>3. q \in Nat \ {0} /\ left <= q * N /\ (q - 1) * N < left
  <2>1. q = (left + N - 1) \div N
    OBVIOUS
  <2> HIDE DEF left, N
  <2> QED
    BY <1>1, <1>2, <2>1, PiecesNeeded
<1>4. \A k \in 0..q : F + k * N \in Nat
  BY <1>1, <1>3
<1>5. c \in [0..q -> Nat] /\ \A k \in 0..q : c[k] = IF k = q THEN n ELSE F + k * N
  BY <1>4 DEF ChunkEnds
<1> HIDE DEF c
<1>6. c[0] = F /\ c[q] = n
  <2>1. 0 \in 0..q /\ q \in 0..q /\ 0 # q
    BY <1>3
  <2>2. F + 0 * N = F
    BY <1>1
  <2> QED
    BY <1>5, <2>1, <2>2
<1>7. ASSUME NEW k \in 1..q
      PROVE  /\ k - 1 \in 0..q /\ k \in 0..q
             /\ c[k - 1] = F + (k - 1) * N
             /\ c[k] = IF k = q THEN n ELSE F + k * N
             /\ c[k - 1] < c[k] /\ c[k] <= c[k - 1] + N
             /\ k < q => c[k] = c[k - 1] + N
  <2>1. k - 1 \in 0..q /\ k \in 0..q /\ k - 1 # q /\ k \in Nat /\ k - 1 \in Nat
    BY <1>3
  <2>2. c[k - 1] = F + (k - 1) * N /\ c[k] = IF k = q THEN n ELSE F + k * N
    BY <1>5, <2>1
  <2> DEFINE x == (k - 1) * N
  <2>3. k * N = x + N /\ x \in Int
    BY <1>1, <2>1
  <2>4. CASE k = q
    <3>1. left <= x + N /\ x < left
      BY <1>3, <2>3, <2>4
    <3>0. left = n - F
      OBVIOUS
    <3> HIDE DEF x, F, N, left
    <3>2. F + x < n /\ n <= F + x + N
      BY <1>1, <1>2, <2>3, <3>0, <3>1
    <3> QED
      BY <2>1, <2>2, <2>4, <3>2 DEF x
  <2>5. CASE k # q
    <3> HIDE DEF x, F, N
    <3>1. c[k] = F + (x + N) /\ c[k - 1] = F + x
      BY <2>2, <2>3, <2>5 DEF x
    <3>2. F + x < F + (x + N) /\ F + (x + N) = F + x + N
      BY <1>1, <2>3
    <3>3. c[k - 1] < c[k] /\ c[k] <= c[k - 1] + N /\ c[k] = c[k - 1] + N
      BY <1>1, <2>3, <3>1, <3>2
    <3> QED
      BY <2>1, <2>2, <3>3
  <2> QED
    BY <2>4, <2>5
<1> QED
  BY <1>3, <1>5, <1>6, <1>7 DEF c

LEMMA Stretch ==
    ASSUME NEW d \in Seq(Nat), NEW b \in Nat, NEW e \in Nat, b <= e, e <= Len(d)
    PROVE  /\ SubSeq(d, b + 1, e) \in Seq(Nat) /\ Len(SubSeq(d, b + 1, e)) = e - b
           /\ \A i \in 1..(e - b) : SubSeq(d, b + 1, e)[i] = d[b + i]
<1>1. Len(d) \in Nat
  BY LenProperties
<1>2. \A i \in (b + 1)..e : i \in 1..Len(d)
  BY <1>1
<1>3. \A i \in (b + 1)..e : d[i] \in Nat
  BY <1>2, LenProperties
<1>4. b + 1 \in Int /\ e \in Int /\ e - (b + 1) + 1 = e - b /\ (~(b + 1 <= e) => e - b = 0)
  OBVIOUS
<1> DEFINE s == SubSeq(d, b + 1, e)
<1>5. /\ s \in Seq(Nat) /\ Len(s) = IF b + 1 <= e THEN e - (b + 1) + 1 ELSE 0
      /\ \A i \in 1..(e - (b + 1) + 1) : s[i] = d[(b + 1) + i - 1]
  BY <1>3, <1>4, SubSeqProperties
<1>6. \A i \in 1..(e - b) : (b + 1) + i - 1 = b + i
  OBVIOUS
<1> HIDE DEF s
<1>7. s \in Seq(Nat) /\ Len(s) = e - b /\ \A i \in 1..(e - b) : s[i] = d[b + i]
  BY <1>4, <1>5, <1>6
<1> QED
  BY <1>7 DEF s

\* c is a mark and the part of d from b to e.
IsChunk(c, d, b, e) ==
    /\ c \in Seq(Nat) /\ Len(c) = 2 + (e - b) /\ c[1] = 127 /\ c[2] = 255
    /\ \A i \in 1..(e - b) : c[2 + i] = d[b + i]

LEMMA ChunkIs ==
    ASSUME NEW d \in Seq(Nat), NEW b \in Nat, NEW e \in Nat, b <= e, e <= Len(d)
    PROVE  IsChunk(Marker \o SubSeq(d, b + 1, e), d, b, e)
<1> DEFINE u == SubSeq(d, b + 1, e)
           c == Marker \o u
<1>1. u \in Seq(Nat) /\ Len(u) = e - b /\ \A i \in 1..(e - b) : u[i] = d[b + i]
  BY Stretch
<1>2. Marker \in Seq(Nat) /\ Len(Marker) = 2 /\ Marker[1] = 127 /\ Marker[2] = 255
  BY DEF Marker
<1> HIDE DEF u
<1>3. c \in Seq(Nat) /\ Joined(Marker, u, c)
  BY <1>1, <1>2, Joins
<1> HIDE DEF c
<1>4. /\ Len(c) = 2 + (e - b) /\ \A i \in 1..2 : c[i] = Marker[i]
      /\ \A i \in 1..(e - b) : c[2 + i] = u[i]
  BY <1>1, <1>2, <1>3 DEF Joined
<1>5. c[1] = 127 /\ c[2] = 255
  BY <1>2, <1>4
<1>6. \A i \in 1..(e - b) : c[2 + i] = d[b + i]
  BY <1>1, <1>4
<1>7. IsChunk(c, d, b, e)
  BY <1>3, <1>4, <1>5, <1>6 DEF IsChunk
<1> QED
  BY <1>7 DEF c, u

LEMMA CutMarked ==
    ASSUME NEW d \in Seq(Nat), FirstChunk < Len(d)
    PROVE  Cut(d) \in Seq(Nat) /\ \E q, a, o : Marked(Cut(d), d, q, a, o)
<1> DEFINE n == Len(d)
           q == (n - FirstChunk + NextChunk - 1) \div NextChunk
           a == ChunkEnds(n, q)
           E(k) == IF k = q THEN n ELSE FirstChunk + k * NextChunk
           C(k) == Marker \o SubSeq(d, FirstChunk + (k - 1) * NextChunk + 1, E(k))
           B == [k \in 1..q |-> C(k)]
           h == SubSeq(d, 1, FirstChunk)
<1>1. n \in Nat /\ FirstChunk \in Nat \ {0} /\ NextChunk \in Nat \ {0}
  BY LenProperties, DdmAssumption
<1>2. Cut(d) = h \o FlattenSeq(B)
  BY <1>1 DEF Cut
<1>3. q = (n - FirstChunk + NextChunk - 1) \div NextChunk
  OBVIOUS
<1> HIDE DEF q
<1>4. /\ q \in Nat \ {0} /\ a \in [0..q -> Nat] /\ a[0] = FirstChunk /\ a[q] = n
      /\ \A k \in 1..q :
           /\ k - 1 \in 0..q /\ k \in 0..q
           /\ a[k - 1] = FirstChunk + (k - 1) * NextChunk /\ a[k] = E(k)
           /\ a[k - 1] < a[k] /\ a[k] <= a[k - 1] + NextChunk
           /\ k < q => a[k] = a[k - 1] + NextChunk
  <2> HIDE DEF n
  <2> QED
    BY <1>1, <1>3, ChunkEndsAre DEF n
<1> HIDE DEF n, a
<1>5. \A k \in 0..q : a[k] <= n
  <2> DEFINE G == {k \in 0..q : a[q - k] <= n}
  <2>1. 0 \in G
    BY <1>1, <1>4
  <2>2. ASSUME NEW k \in 1..q, k - 1 \in G
        PROVE  k \in G
    <3>1. q - (k - 1) \in 1..q /\ (q - (k - 1)) - 1 = q - k /\ q - k \in 0..q /\ k \in 0..q
      BY <1>4
    <3>2. a[q - (k - 1)] <= n /\ a[q - k] < a[q - (k - 1)]
      BY <1>4, <2>2, <3>1
    <3>3. a[q - (k - 1)] \in Nat /\ a[q - k] \in Nat
      BY <1>4, <3>1
    <3>4. a[q - k] <= n
      BY <1>1, <3>2, <3>3
    <3> QED
      BY <3>1, <3>4
  <2> HIDE DEF G
  <2>3. 0..q \subseteq G
    BY <1>4, <2>1, <2>2, KeptAlong
  <2>4. ASSUME NEW k \in 0..q
        PROVE  a[k] <= n
    <3>1. q - k \in 0..q /\ q - (q - k) = k
      BY <1>4
    <3>2. q - k \in G
      BY <2>3, <3>1
    <3> QED
      BY <3>1, <3>2 DEF G
  <2> QED
    BY <2>4
<1>6. ASSUME NEW k \in 1..q
      PROVE  IsChunk(C(k), d, a[k - 1], a[k])
  <2>1. a[k - 1] \in Nat /\ a[k] \in Nat /\ a[k - 1] <= a[k] /\ a[k] <= Len(d)
    BY <1>4, <1>5 DEF n
  <2>2. IsChunk(Marker \o SubSeq(d, a[k - 1] + 1, a[k]), d, a[k - 1], a[k])
    BY <2>1, ChunkIs
  <2>3. a[k - 1] = FirstChunk + (k - 1) * NextChunk /\ a[k] = E(k)
    BY <1>4
  <2> QED
    BY <2>2, <2>3
<1> HIDE DEF C
<1>7. B \in Seq(Seq(Nat)) /\ Len(B) = q /\ \A k \in 1..q : B[k] = C(k) /\ IsChunk(B[k], d, a[k - 1], a[k])
  <2>1. \A k \in 1..q : C(k) \in Seq(Nat)
    BY <1>6 DEF IsChunk
  <2>2. B \in Seq(Seq(Nat)) /\ Len(B) = q /\ \A k \in 1..q : B[k] = C(k)
    BY <1>4, <2>1
  <2> QED
    BY <1>6, <2>2
<1> HIDE DEF B
<1>8. h \in Seq(Nat) /\ Len(h) = FirstChunk /\ \A i \in 1..FirstChunk : h[i] = d[i]
  <2>1. /\ SubSeq(d, 0 + 1, FirstChunk) \in Seq(Nat)
        /\ Len(SubSeq(d, 0 + 1, FirstChunk)) = FirstChunk - 0
        /\ \A i \in 1..(FirstChunk - 0) : SubSeq(d, 0 + 1, FirstChunk)[i] = d[0 + i]
    <3>1. 0 \in Nat /\ 0 <= FirstChunk /\ FirstChunk <= Len(d)
      BY <1>1 DEF n
    <3> QED
      BY <1>1, <3>1, Stretch
  <2>2. 0 + 1 = 1 /\ FirstChunk - 0 = FirstChunk /\ \A i \in 1..FirstChunk : 0 + i = i
    BY <1>1
  <2> QED
    BY <2>1, <2>2
<1> HIDE DEF h
<1>9. PICK g : Partials(g, B, Nat)
  BY <1>7, PartialsExist
<1>10. FlattenSeq(B) = g[q]
  BY <1>7, <1>9, FlattenIs
<1>11. g \in [0..q -> Seq(Nat)] /\ g[0] = <<>>
  BY <1>7, <1>9 DEF Partials
<1> DEFINE s == h \o g[q]
           o == [k \in 0..q |-> FirstChunk + Len(g[k])]
<1>12. s \in Seq(Nat) /\ Joined(h, g[q], s)
  <2>1. g[q] \in Seq(Nat)
    BY <1>4, <1>11
  <2> QED
    BY <1>8, <2>1, Joins
<1>13. Cut(d) = s
  BY <1>2, <1>10
<1> HIDE DEF s
<1>14. /\ Len(g[q]) \in Nat /\ Len(s) = FirstChunk + Len(g[q])
       /\ \A i \in 1..FirstChunk : s[i] = d[i]
       /\ \A i \in 1..Len(g[q]) : s[FirstChunk + i] = g[q][i]
  BY <1>8, <1>12 DEF Joined
<1>15. /\ o \in [0..q -> Nat] /\ o[0] = FirstChunk /\ o[q] = Len(s)
       /\ \A k \in 0..q : o[k] = FirstChunk + Len(g[k]) /\ Len(g[k]) \in Nat
  <2>1. \A k \in 0..q : Len(g[k]) \in Nat
    BY <1>11, LenProperties
  <2>2. o \in [0..q -> Nat] /\ \A k \in 0..q : o[k] = FirstChunk + Len(g[k])
    BY <1>1, <2>1
  <2>3. 0 \in 0..q /\ q \in 0..q /\ Len(g[0]) = 0
    BY <1>4, <1>11
  <2> HIDE DEF o
  <2>4. o[0] = FirstChunk
    <3>1. o[0] = FirstChunk + Len(g[0])
      BY <2>2, <2>3
    <3> QED
      BY <1>1, <2>3, <3>1
  <2>5. o[q] = Len(s)
    <3>1. o[q] = FirstChunk + Len(g[q])
      BY <2>2, <2>3
    <3> QED
      BY <1>14, <3>1
  <2> QED
    BY <2>1, <2>2, <2>4, <2>5
<1> HIDE DEF o
<1>16. ASSUME NEW k \in 1..q
       PROVE  /\ o[k] = o[k - 1] + 2 + (a[k] - a[k - 1])
              /\ s[o[k - 1] + 1] = 127 /\ s[o[k - 1] + 2] = 255
              /\ \A i \in 1..(a[k] - a[k - 1]) : s[o[k - 1] + 2 + i] = d[a[k - 1] + i]
  <2> DEFINE c == B[k]
             p == Len(g[k - 1])
             w == a[k] - a[k - 1]
  <2>1. /\ Len(g[k]) = p + Len(c) /\ p \in Nat /\ Len(c) \in Nat /\ Stands(c, p, g[q])
    BY <1>7, <1>9, PartialsKept
  <2>2. IsChunk(c, d, a[k - 1], a[k])
    BY <1>7
  <2>3. w \in Nat /\ a[k - 1] \in Nat
    <3>1. a[k] \in Nat /\ a[k - 1] \in Nat /\ a[k - 1] < a[k]
      BY <1>4
    <3> QED
      BY <3>1
  <2>4. k - 1 \in 0..q /\ k \in 0..q /\ o[k - 1] = FirstChunk + p /\ o[k] = FirstChunk + Len(g[k])
    BY <1>4, <1>15
  <2>5. Len(c) = 2 + w /\ c[1] = 127 /\ c[2] = 255 /\ \A i \in 1..w : c[2 + i] = d[a[k - 1] + i]
    BY <2>2 DEF IsChunk
  <2> HIDE DEF c, p, w
  <2>6. p + (2 + w) <= Len(g[q]) /\ \A i \in 1..(2 + w) : g[q][p + i] = c[i]
    BY <2>1, <2>5 DEF Stands
  <2>7. ASSUME NEW i \in 1..(2 + w)
        PROVE  s[o[k - 1] + i] = c[i]
    <3>1. p + i \in 1..Len(g[q]) /\ o[k - 1] + i = FirstChunk + (p + i)
      BY <1>1, <1>14, <2>1, <2>3, <2>4, <2>6
    <3> QED
      BY <1>14, <2>6, <3>1
  <2>8. 1 \in 1..(2 + w) /\ 2 \in 1..(2 + w)
    BY <2>3
  <2>9. s[o[k - 1] + 1] = 127 /\ s[o[k - 1] + 2] = 255
    BY <2>5, <2>7, <2>8
  <2>10. ASSUME NEW i \in 1..w
         PROVE  s[o[k - 1] + 2 + i] = d[a[k - 1] + i]
    <3>1. 2 + i \in 1..(2 + w) /\ o[k - 1] + (2 + i) = o[k - 1] + 2 + i
      BY <1>1, <2>1, <2>3, <2>4
    <3> QED
      BY <2>5, <2>7, <3>1
  <2>11. o[k] = o[k - 1] + 2 + w
    BY <1>1, <2>1, <2>3, <2>4, <2>5
  <2> QED
    BY <2>9, <2>10, <2>11 DEF w
<1>17. Marked(s, d, q, a, o)
  <2>1. a[q] = Len(d)
    BY <1>4 DEF n
  <2>2. ASSUME NEW k \in 1..q
        PROVE  /\ IsMarked(s, d, a[k - 1], a[k], o[k - 1], o[k])
               /\ k < q => a[k] = a[k - 1] + NextChunk
    <3>1. /\ a[k - 1] < a[k] /\ a[k] <= a[k - 1] + NextChunk
          /\ k < q => a[k] = a[k - 1] + NextChunk
      BY <1>4
    <3> QED
      BY <1>16, <3>1 DEF IsMarked
  <2>3. q \in Nat \ {0} /\ a \in [0..q -> Nat] /\ a[0] = FirstChunk
    BY <1>4
  <2>4. o \in [0..q -> Nat] /\ o[0] = FirstChunk /\ o[q] = Len(s)
    BY <1>15
  <2>5. \A i \in 1..FirstChunk : s[i] = d[i]
    BY <1>14
  <2> HIDE DEF E
  <2> QED
    BY <2>1, <2>2, <2>3, <2>4, <2>5 DEF Marked
<1> QED
  BY <1>12, <1>13, <1>17

\* strip_extended_ddm_continuation_markers: where a chunk begins and ends.
From(s, p) == IF IsMarker(s, p) THEN p + 2 ELSE p
To(s, p) == IF From(s, p) + NextChunk < Len(s) THEN From(s, p) + NextChunk ELSE Len(s)

Strips(r, s) ==
    r = [p \in 0..Len(s) |-> IF p >= Len(s) THEN <<>>
                             ELSE SubSeq(s, From(s, p) + 1, To(s, p)) \o r[To(s, p)]]

LEMMA StripsExist ==
    ASSUME NEW s \in Seq(Nat)
    PROVE  \E r : Strips(r, s)
<1> DEFINE n == Len(s)
           stop == [p \in 0..n |-> p >= n]
           add == [p \in 0..n |-> SubSeq(s, From(s, p) + 1, To(s, p))]
           jump == [p \in 0..n |-> To(s, p)]
<1>1. n \in Nat /\ NextChunk \in Nat \ {0}
  BY LenProperties, DdmAssumption
<1>2. ASSUME NEW p \in 0..n, ~stop[p]
      PROVE  jump[p] \in (p + 1)..n
  <2>0. ~(p >= n)
    <3>1. stop[p] = (p >= n)
      BY Zenon
    <3> HIDE DEF stop
    <3> QED
      BY <1>2, <3>1
  <2>1. p < n /\ jump[p] = To(s, p) /\ p \in Nat
    BY <1>1, <2>0
  <2>2. From(s, p) \in {p, p + 2}
    BY DEF From
  <2>3. To(s, p) = IF From(s, p) + NextChunk < n THEN From(s, p) + NextChunk ELSE n
    BY DEF To
  <2> HIDE DEF n, jump
  <2>4. To(s, p) \in (p + 1)..n
    BY <1>1, <2>1, <2>2, <2>3
  <2> QED
    BY <2>1, <2>4
<1>3. \A p \in 0..n : /\ stop[p] = (p >= n)
                      /\ add[p] = SubSeq(s, From(s, p) + 1, To(s, p))
                      /\ jump[p] = To(s, p)
  OBVIOUS
<1> HIDE DEF n, stop, add, jump
<1>4. PICK r : Runs(r, n, stop, add, jump)
  BY <1>1, <1>2, RunsExist DEF Forward
<1>5. r = [p \in 0..n |-> IF stop[p] THEN <<>> ELSE add[p] \o r[jump[p]]]
  BY <1>4 DEF Runs
<1>6. r = [p \in 0..n |-> IF p >= n THEN <<>>
                          ELSE SubSeq(s, From(s, p) + 1, To(s, p)) \o r[To(s, p)]]
  BY <1>3, <1>5
<1> QED
  BY <1>6 DEF Strips, n

StripsOf(r, s) ==
    \A p \in 0..Len(s) : r[p] = IF p >= Len(s) THEN <<>>
                                ELSE SubSeq(s, From(s, p) + 1, To(s, p)) \o r[To(s, p)]

LEMMA StripIs ==
    ASSUME NEW s \in Seq(Nat)
    PROVE  \E r : /\ StripsOf(r, s)
                  /\ Strip(s) = IF Len(s) <= FirstChunk + 2 \/ ~IsMarker(s, FirstChunk) THEN s
                                ELSE SubSeq(s, 1, FirstChunk) \o r[FirstChunk]
<1> DEFINE r == CHOOSE r : Strips(r, s)
<1>1. Strip(s) = IF Len(s) <= FirstChunk + 2 \/ ~IsMarker(s, FirstChunk) THEN s
                 ELSE SubSeq(s, 1, FirstChunk) \o r[FirstChunk]
  BY DEF Strip, Strips, From, To
<1>2. Strips(r, s)
  BY StripsExist
<1> HIDE DEF r
<1> DEFINE E(p) == IF p >= Len(s) THEN <<>>
                   ELSE SubSeq(s, From(s, p) + 1, To(s, p)) \o r[To(s, p)]
<1>3. r = [p \in 0..Len(s) |-> E(p)]
  BY <1>2 DEF Strips
<1> HIDE DEF E
<1>4. \A p \in 0..Len(s) : r[p] = E(p)
  BY <1>3
<1> QED
  BY <1>1, <1>4 DEF E, StripsOf

\* A part and what is left behind it.
LEMMA StretchLeft ==
    ASSUME NEW d \in Seq(Nat), NEW b \in Nat, NEW e \in Nat, b <= e, e <= Len(d)
    PROVE  SubSeq(d, b + 1, e) \o Left(d, e) = Left(d, b)
<1> DEFINE n == Len(d)
           u == SubSeq(d, b + 1, e)
           v == Left(d, e)
           w == Left(d, b)
           c == u \o v
<1>1. n \in Nat /\ e <= n /\ b \in 0..n /\ e \in 0..n
  BY LenProperties
<1>2. u \in Seq(Nat) /\ Len(u) = e - b /\ \A i \in 1..(e - b) : u[i] = d[b + i]
  BY Stretch
<1>3. /\ v \in Seq(Nat) /\ Len(v) = n - e /\ \A i \in 1..(n - e) : v[i] = d[e + i]
      /\ w \in Seq(Nat) /\ Len(w) = n - b /\ \A i \in 1..(n - b) : w[i] = d[b + i]
  BY <1>1, LeftIs
<1> HIDE DEF n, u, v, w
<1>4. c \in Seq(Nat) /\ Joined(u, v, c)
  BY <1>2, <1>3, Joins
<1> HIDE DEF c
<1>5. /\ Len(c) = (e - b) + (n - e)
      /\ \A i \in 1..(e - b) : c[i] = u[i]
      /\ \A i \in 1..(n - e) : c[(e - b) + i] = v[i]
  BY <1>2, <1>3, <1>4 DEF Joined
<1>6. ASSUME NEW i \in 1..(n - b)
      PROVE  c[i] = w[i]
  <2>1. CASE i <= e - b
    <3>1. i \in 1..(e - b)
      BY <2>1
    <3> QED
      BY <1>2, <1>3, <1>5, <3>1
  <2>2. CASE ~(i <= e - b)
    <3> DEFINE j == i - (e - b)
    <3>1. j \in 1..(n - e) /\ (e - b) + j = i /\ e + j = b + i
      BY <1>1, <2>2
    <3> HIDE DEF j
    <3>2. c[i] = v[j] /\ v[j] = d[b + i]
      BY <1>3, <1>5, <3>1
    <3> QED
      BY <1>3, <3>2
  <2> QED
    BY <2>1, <2>2
<1>7. c = w
  <2>1. Len(c) = n - b
    BY <1>1, <1>5
  <2>2. Len(c) = Len(w) /\ \A i \in 1..Len(c) : c[i] = w[i]
    BY <1>3, <1>6, <2>1
  <2> QED
    BY <1>3, <1>4, <2>2, SeqEqual
<1> QED
  BY <1>7 DEF c, u, v, w

LEMMA LeftAll ==
    ASSUME NEW d \in Seq(Nat)
    PROVE  Left(d, 0) = d /\ Left(d, Len(d)) = <<>>
<1> DEFINE u == Left(d, 0)
           v == Left(d, Len(d))
<1>1. Len(d) \in Nat /\ 0 \in 0..Len(d) /\ Len(d) \in 0..Len(d)
  BY LenProperties
<1>2. u \in Seq(Nat) /\ Len(u) = Len(d) - 0 /\ \A i \in 1..(Len(d) - 0) : u[i] = d[0 + i]
  BY <1>1, LeftIs
<1>3. v \in Seq(Nat) /\ Len(v) = Len(d) - Len(d)
  BY <1>1, LeftIs
<1> HIDE DEF u, v
<1>4. Len(d) - 0 = Len(d) /\ Len(d) - Len(d) = 0 /\ \A i \in 1..Len(d) : 0 + i = i
  BY <1>1
<1>5. u = d
  <2>1. Len(u) = Len(d) /\ \A i \in 1..Len(u) : u[i] = d[i]
    BY <1>2, <1>4
  <2> QED
    BY <1>2, <2>1, SeqEqual
<1>6. v = <<>>
  BY <1>3, <1>4, EmptySeq
<1> QED
  BY <1>5, <1>6 DEF u, v

\* The chunk of s at p is the part of d from b to e.
SameChunk(s, p, d, b, e) ==
    SubSeq(s, From(s, p) + 1, To(s, p)) = SubSeq(d, b + 1, e)

\* A mark stands where a chunk begins, and the chunk ends where the next begins.
LEMMA MarkRead ==
    ASSUME NEW d \in Seq(Nat), NEW s \in Seq(Nat), NEW q, NEW a, NEW o, Marked(s, d, q, a, o),
           NEW k \in 1..q
    PROVE  /\ o[k - 1] \in 0..Len(s) /\ o[k - 1] + 2 < o[k] /\ o[k] <= Len(s)
           /\ a[k - 1] \in Nat /\ a[k] \in Nat /\ a[k - 1] <= a[k] /\ a[k] <= Len(d)
           /\ IsMarker(s, o[k - 1])
           /\ To(s, o[k - 1]) = o[k]
           /\ SameChunk(s, o[k - 1], d, a[k - 1], a[k])
<1> DEFINE N == NextChunk
           x == o[k - 1]
           y == o[k]
           b == a[k - 1]
           e == a[k]
           l == Len(s)
           w == e - b
<1>1. /\ q \in Nat \ {0} /\ a \in [0..q -> Nat] /\ o \in [0..q -> Nat]
      /\ a[q] = Len(d) /\ o[q] = Len(s)
      /\ \A i \in 1..q : IsMarked(s, d, a[i - 1], a[i], o[i - 1], o[i])
  BY DEF Marked
<1>2. /\ b < e /\ e <= b + N /\ (k < q => e = b + N)
      /\ y = x + 2 + (e - b) /\ s[x + 1] = 127 /\ s[x + 2] = 255
      /\ \A i \in 1..(e - b) : s[x + 2 + i] = d[b + i]
  <2>1. IsMarked(s, d, b, e, x, y) /\ (k < q => e = b + N)
    BY DEF Marked
  <2> HIDE DEF x, y, b, e
  <2> QED
    BY <2>1 DEF IsMarked
<1>3. x \in Nat /\ y \in Nat /\ b \in Nat /\ e \in Nat /\ l \in Nat /\ N \in Nat /\ w \in Nat
  <2>1. k - 1 \in 0..q /\ k \in 0..q
    BY <1>1
  <2>2. x \in Nat /\ y \in Nat /\ b \in Nat /\ e \in Nat /\ l \in Nat /\ N \in Nat
    BY <1>1, <2>1, LenProperties, DdmAssumption
  <2> HIDE DEF b, e
  <2> QED
    BY <1>2, <2>2
<1>4. ASSUME NEW i \in 0..q
      PROVE  o[i] <= l /\ a[i] <= Len(d) /\ (i < q => o[i] < l)
  <2> DEFINE G == {j \in 0..q : /\ o[q - j] <= l /\ a[q - j] <= Len(d)
                                /\ q - j < q => o[q - j] < l}
  <2>1. 0 \in G
    <3>1. q - 0 = q /\ 0 \in 0..q /\ q \in 0..q /\ ~(q < q)
      BY <1>1
    <3>2. o[q] <= l /\ a[q] <= Len(d)
      <4>1. Len(s) \in Nat /\ Len(d) \in Nat
        BY LenProperties
      <4> QED
        BY <1>1, <4>1
    <3> QED
      BY <3>1, <3>2
  <2>2. ASSUME NEW j \in 1..q, j - 1 \in G
        PROVE  j \in G
    <3> DEFINE m == q - j
    <3>1. m + 1 \in 1..q /\ (m + 1) - 1 = m /\ q - (j - 1) = m + 1 /\ m \in 0..q /\ j \in 0..q
      BY <1>1
    <3>2. o[m + 1] <= l /\ a[m + 1] <= Len(d)
      BY <2>2, <3>1
    <3> HIDE DEF m
    <3>3. a[m] < a[m + 1] /\ o[m + 1] = o[m] + 2 + (a[m + 1] - a[m])
      <4>1. IsMarked(s, d, a[(m + 1) - 1], a[m + 1], o[(m + 1) - 1], o[m + 1])
        BY <1>1, <3>1
      <4>2. IsMarked(s, d, a[m], a[m + 1], o[m], o[m + 1])
        BY <3>1, <4>1
      <4> QED
        BY <4>2 DEF IsMarked
    <3>4. a[m] \in Nat /\ a[m + 1] \in Nat /\ o[m] \in Nat /\ o[m + 1] \in Nat /\ Len(d) \in Nat
      BY <1>1, <3>1, LenProperties
    <3> DEFINE u == a[m]
               v == a[m + 1]
               f == o[m]
               g == o[m + 1]
               n == Len(d)
    <3>6. u < v /\ g = f + 2 + (v - u) /\ g <= l /\ v <= n
          /\ {u, v, f, g, n, l} \subseteq Nat
      BY <1>3, <3>2, <3>3, <3>4
    <3> HIDE DEF u, v, f, g, n, l
    <3>5. f < l /\ f <= l /\ u <= n
      BY <3>6
    <3> QED
      BY <3>1, <3>5 DEF m, u, f, n, l
  <2> HIDE DEF G
  <2>3. 0..q \subseteq G
    BY <1>1, <2>1, <2>2, KeptAlong
  <2>4. q - i \in 0..q /\ q - (q - i) = i
    BY <1>1
  <2>5. q - i \in G
    BY <2>3, <2>4
  <2> QED
    BY <2>4, <2>5 DEF G
<1>5. k \in 0..q /\ y <= l /\ e <= Len(d) /\ (k < q => y < l) /\ (k = q => y = l)
  <2>1. k \in 0..q
    BY <1>1
  <2> QED
    BY <1>1, <1>4, <2>1
<1>6. x + 2 < y /\ x + 2 <= l /\ x \in 0..l
  <2> HIDE DEF x, y, b, e, l
  <2> QED
    BY <1>2, <1>3, <1>5
<1> HIDE DEF x, y, b, e, N
<1>7. IsMarker(s, x)
  <2> DEFINE u == SubSeq(s, x + 1, x + 2)
  <2>1. \A i \in (x + 1)..(x + 2) : i \in 1..Len(s)
    BY <1>3, <1>6
  <2>2. \A i \in (x + 1)..(x + 2) : s[i] \in Nat
    BY <2>1, LenProperties
  <2>3. /\ u \in Seq(Nat) /\ Len(u) = IF x + 1 <= x + 2 THEN (x + 2) - (x + 1) + 1 ELSE 0
        /\ \A i \in 1..((x + 2) - (x + 1) + 1) : u[i] = s[(x + 1) + i - 1]
    BY <1>3, <2>2, SubSeqProperties
  <2>4. x + 1 <= x + 2 /\ (x + 2) - (x + 1) + 1 = 2 /\ (x + 1) + 1 - 1 = x + 1
        /\ (x + 1) + 2 - 1 = x + 2
    BY <1>3
  <2>5. Len(u) = 2 /\ u[1] = s[x + 1] /\ u[2] = s[x + 2]
    <3>1. 1 \in 1..2 /\ 2 \in 1..2
      OBVIOUS
    <3> HIDE DEF u
    <3> QED
      BY <2>3, <2>4, <3>1
  <2> HIDE DEF u
  <2>6. Marker \in Seq(Nat) /\ Len(Marker) = 2 /\ Marker[1] = 127 /\ Marker[2] = 255
    BY DEF Marker
  <2>7. ASSUME NEW i \in 1..2
        PROVE  u[i] = Marker[i]
    <3>1. i = 1 \/ i = 2
      OBVIOUS
    <3> QED
      BY <1>2, <2>5, <2>6, <3>1
  <2>8. u = Marker
    <3>1. Len(u) = Len(Marker) /\ \A i \in 1..Len(u) : u[i] = Marker[i]
      BY <2>5, <2>6, <2>7
    <3> QED
      BY <2>3, <2>6, <3>1, SeqEqual
  <2> QED
    BY <1>6, <2>8 DEF IsMarker, u
<1>8. From(s, x) = x + 2
  BY <1>7 DEF From
<1>9. To(s, x) = y
  <2>1. To(s, x) = IF x + 2 + N < l THEN x + 2 + N ELSE l
    BY <1>8 DEF To, N
  <2> HIDE DEF l
  <2>2. CASE k < q
    <3>1. y = x + 2 + N /\ y < l
      BY <1>2, <1>3, <1>5, <2>2
    <3> QED
      BY <2>1, <3>1
  <2>3. CASE ~(k < q)
    <3>1. k = q
      BY <1>1, <2>3
    <3>2. y = l /\ y <= x + 2 + N
      BY <1>2, <1>3, <1>5, <3>1
    <3>3. ~(x + 2 + N < l)
      BY <1>3, <3>2
    <3> QED
      BY <2>1, <3>2, <3>3
  <2> QED
    BY <2>2, <2>3
<1>10. SubSeq(s, (x + 2) + 1, y) = SubSeq(d, b + 1, e)
  <2> DEFINE u == SubSeq(s, (x + 2) + 1, y)
             v == SubSeq(d, b + 1, e)
  <2>1. u \in Seq(Nat) /\ Len(u) = y - (x + 2) /\ \A i \in 1..(y - (x + 2)) : u[i] = s[(x + 2) + i]
    <3>1. x + 2 \in Nat /\ x + 2 <= y /\ y <= Len(s)
      BY <1>3, <1>5, <1>6
    <3> QED
      BY <1>3, <3>1, Stretch
  <2>2. v \in Seq(Nat) /\ Len(v) = e - b /\ \A i \in 1..(e - b) : v[i] = d[b + i]
    <3>1. b <= e
      BY <1>2, <1>3
    <3> QED
      BY <1>3, <1>5, <3>1, Stretch
  <2> HIDE DEF u, v
  <2>3. y - (x + 2) = e - b
    BY <1>2, <1>3
  <2>4. Len(u) = Len(v) /\ \A i \in 1..Len(u) : u[i] = v[i]
    <3>1. ASSUME NEW i \in 1..(e - b)
          PROVE  u[i] = v[i]
      <4>1. u[i] = s[(x + 2) + i] /\ v[i] = d[b + i]
        BY <2>1, <2>2, <2>3
      <4>2. s[x + 2 + i] = d[b + i]
        BY <1>2
      <4> QED
        BY <4>1, <4>2
    <3> QED
      BY <2>1, <2>2, <2>3, <3>1
  <2>5. u = v
    BY <2>1, <2>2, <2>4, SeqEqual
  <2> QED
    BY <2>5 DEF u, v
<1>11. b <= e
  BY <1>2, <1>3
<1>12. SameChunk(s, x, d, b, e)
  BY <1>8, <1>9, <1>10 DEF SameChunk
<1> QED
  BY <1>3, <1>5, <1>6, <1>7, <1>9, <1>11, <1>12 DEF x, y, b, e, l

\* If the last chunks are stripped, so is the one before them.
LEMMA StripStep ==
    ASSUME NEW d \in Seq(Nat), NEW s \in Seq(Nat), NEW q, NEW a, NEW o, Marked(s, d, q, a, o),
           NEW r, StripsOf(r, s), NEW k \in 1..q, r[o[k]] = Left(d, a[k])
    PROVE  r[o[k - 1]] = Left(d, a[k - 1])
<1> DEFINE x == o[k - 1]
           b == a[k - 1]
           e == a[k]
<1>1. /\ x \in 0..Len(s) /\ x + 2 < o[k] /\ o[k] <= Len(s)
      /\ b \in Nat /\ e \in Nat /\ b <= e /\ e <= Len(d)
      /\ To(s, x) = o[k]
      /\ SameChunk(s, x, d, b, e)
  BY MarkRead
<1>2. r[x] = IF x >= Len(s) THEN <<>>
             ELSE SubSeq(s, From(s, x) + 1, To(s, x)) \o r[To(s, x)]
  BY <1>1 DEF StripsOf
<1>3. ~(x >= Len(s))
  <2>1. o[k] \in Nat
    <3>1. o \in [0..q -> Nat] /\ k \in 0..q
      BY DEF Marked
    <3> QED
      BY <3>1
  <2>2. Len(s) \in Nat
    BY LenProperties
  <2> HIDE DEF x
  <2> QED
    BY <1>1, <2>1, <2>2
<1> HIDE DEF x, b, e
<1>4. r[x] = SubSeq(d, b + 1, e) \o Left(d, e)
  BY <1>1, <1>2, <1>3 DEF e, SameChunk
<1>5. r[x] = Left(d, b)
  BY <1>1, <1>4, StretchLeft
<1> QED
  BY <1>5 DEF x, b

\* The marks are taken out again.
LEMMA StripMarked ==
    ASSUME NEW d \in Seq(Nat), NEW s \in Seq(Nat), NEW q, NEW a, NEW o, Marked(s, d, q, a, o)
    PROVE  Strip(s) = d
<1> DEFINE F == FirstChunk
<1>1. /\ q \in Nat \ {0} /\ a[0] = F /\ o[0] = F /\ a[q] = Len(d) /\ o[q] = Len(s)
      /\ F \in Nat \ {0} /\ Len(s) \in Nat
      /\ \A i \in 1..F : s[i] = d[i]
  BY LenProperties, DdmAssumption DEF Marked
<1>2. PICK r : /\ StripsOf(r, s)
               /\ Strip(s) = IF Len(s) <= FirstChunk + 2 \/ ~IsMarker(s, FirstChunk) THEN s
                             ELSE SubSeq(s, 1, FirstChunk) \o r[FirstChunk]
  BY StripIs
<1> DEFINE G == {k \in 0..q : r[o[q - k]] = Left(d, a[q - k])}
<1>3. 0 \in G
  <2>1. r[Len(s)] = <<>>
    <3>1. Len(s) \in 0..Len(s) /\ Len(s) >= Len(s)
      BY <1>1
    <3> QED
      BY <1>2, <3>1 DEF StripsOf
  <2>2. Left(d, Len(d)) = <<>>
    BY LeftAll
  <2>3. q - 0 = q /\ 0 \in 0..q
    BY <1>1
  <2> QED
    BY <1>1, <2>1, <2>2, <2>3
<1>4. ASSUME NEW k \in 1..q, k - 1 \in G
      PROVE  k \in G
  <2> DEFINE m == q - (k - 1)
  <2>1. m \in 1..q /\ q - k = m - 1 /\ k \in 0..q
    BY <1>1
  <2>2. r[o[m]] = Left(d, a[m])
    BY <1>4
  <2> HIDE DEF m
  <2>3. r[o[m - 1]] = Left(d, a[m - 1])
    <3>1. StripsOf(r, s)
      BY <1>2
    <3>2. m \in 1..q
      BY <2>1
    <3> QED
      BY <2>2, <3>1, <3>2, StripStep
  <2> QED
    BY <2>1, <2>3
<1> HIDE DEF G
<1>5. 0..q \subseteq G
  BY <1>1, <1>3, <1>4, KeptAlong
<1>6. r[F] = Left(d, F)
  <2>1. q \in G /\ q - q = 0
    BY <1>1, <1>5
  <2> QED
    BY <1>1, <2>1 DEF G
<1>7. F + 2 < Len(s) /\ IsMarker(s, F) /\ F <= Len(d) /\ Len(d) \in Nat
  <2>1. 1 \in 1..q /\ 1 - 1 = 0
    BY <1>1
  <2>2. /\ o[1 - 1] + 2 < o[1] /\ o[1] <= Len(s) /\ a[1 - 1] <= a[1] /\ a[1] <= Len(d)
        /\ IsMarker(s, o[1 - 1]) /\ a[1] \in Nat
    BY <2>1, MarkRead
  <2>3. o[1] \in Nat
    <3>1. o \in [0..q -> Nat] /\ 1 \in 0..q
      BY <2>1 DEF Marked
    <3> QED
      BY <3>1
  <2>4. F + 2 < o[1] /\ o[1] <= Len(s) /\ F <= a[1] /\ a[1] <= Len(d) /\ IsMarker(s, F) /\ a[1] \in Nat
    BY <1>1, <2>1, <2>2
  <2> QED
    BY <1>1, <2>3, <2>4, LenProperties
<1>8. Strip(s) = SubSeq(s, 1, F) \o Left(d, F)
  <2>1. ~(Len(s) <= F + 2)
    BY <1>1, <1>7
  <2> QED
    BY <1>2, <1>6, <1>7, <2>1
<1>9. SubSeq(s, 1, F) = SubSeq(d, 1, F)
  <2> DEFINE u == SubSeq(s, 1, F)
             v == SubSeq(d, 1, F)
  <2>0. 0 \in Nat /\ 0 <= F /\ F <= Len(s) /\ F <= Len(d) /\ 0 + 1 = 1 /\ F - 0 = F
        /\ \A i \in 1..F : 0 + i = i
    BY <1>1, <1>7
  <2>1. u \in Seq(Nat) /\ Len(u) = F /\ \A i \in 1..F : u[i] = s[i]
    <3>1. /\ SubSeq(s, 0 + 1, F) \in Seq(Nat) /\ Len(SubSeq(s, 0 + 1, F)) = F - 0
          /\ \A i \in 1..(F - 0) : SubSeq(s, 0 + 1, F)[i] = s[0 + i]
      BY <1>1, <2>0, Stretch
    <3> QED
      BY <2>0, <3>1
  <2>2. v \in Seq(Nat) /\ Len(v) = F /\ \A i \in 1..F : v[i] = d[i]
    <3>1. /\ SubSeq(d, 0 + 1, F) \in Seq(Nat) /\ Len(SubSeq(d, 0 + 1, F)) = F - 0
          /\ \A i \in 1..(F - 0) : SubSeq(d, 0 + 1, F)[i] = d[0 + i]
      BY <1>1, <2>0, Stretch
    <3> QED
      BY <2>0, <3>1
  <2> HIDE DEF u, v
  <2>3. u = v
    <3>1. Len(u) = Len(v) /\ \A i \in 1..Len(u) : u[i] = v[i]
      BY <1>1, <2>1, <2>2
    <3> QED
      BY <2>1, <2>2, <3>1, SeqEqual
  <2> QED
    BY <2>3 DEF u, v
<1>10. SubSeq(d, 1, F) \o Left(d, F) = d
  <2>1. 0 \in Nat /\ 0 <= F /\ 0 + 1 = 1
    BY <1>1
  <2>2. SubSeq(d, 0 + 1, F) \o Left(d, F) = Left(d, 0)
    BY <1>1, <1>7, <2>1, StretchLeft
  <2> QED
    BY <2>1, <2>2, LeftAll
<1> QED
  BY <1>8, <1>9, <1>10

LEMMA StripType ==
    ASSUME NEW s \in Seq(Nat)
    PROVE  Strip(s) \in Seq(Nat)
<1> DEFINE n == Len(s)
           F == FirstChunk
<1>1. n \in Nat /\ F \in Nat \ {0} /\ NextChunk \in Nat \ {0}
  BY LenProperties, DdmAssumption
<1>2. PICK r : /\ StripsOf(r, s)
               /\ Strip(s) = IF Len(s) <= FirstChunk + 2 \/ ~IsMarker(s, FirstChunk) THEN s
                             ELSE SubSeq(s, 1, FirstChunk) \o r[FirstChunk]
  BY StripIs
<1> DEFINE G == {k \in 0..n : \A p \in (n - k)..n : r[p] \in Seq(Nat)}
<1>3. ASSUME NEW p \in 0..n, \A i \in (p + 1)..n : r[i] \in Seq(Nat)
      PROVE  r[p] \in Seq(Nat)
  <2> DEFINE x == From(s, p)
             y == To(s, p)
  <2>1. r[p] = IF p >= n THEN <<>> ELSE SubSeq(s, x + 1, y) \o r[y]
    BY <1>2 DEF StripsOf
  <2>2. x \in {p, p + 2} /\ y = IF x + NextChunk < n THEN x + NextChunk ELSE n
    BY DEF From, To
  <2> HIDE DEF n, x, y
  <2>3. CASE p >= n
    BY <2>1, <2>3
  <2>4. CASE ~(p >= n)
    <3>1. x \in Nat /\ y \in (p + 1)..n
      BY <1>1, <2>2, <2>4
    <3>2. \A i \in (x + 1)..y : i \in 1..n
      BY <1>1, <3>1
    <3>3. \A i \in (x + 1)..y : s[i] \in Nat
      BY <3>2, LenProperties DEF n
    <3>4. SubSeq(s, x + 1, y) \in Seq(Nat)
      BY <1>1, <3>1, <3>3, SubSeqProperties
    <3>5. r[y] \in Seq(Nat)
      BY <1>3, <3>1
    <3> QED
      BY <2>1, <2>4, <3>4, <3>5, ConcatProperties
  <2> QED
    BY <2>3, <2>4
<1> HIDE DEF n
<1>4. 0 \in G
  <2>1. ASSUME NEW p \in (n - 0)..n
        PROVE  r[p] \in Seq(Nat)
    <3>1. p \in 0..n /\ (p + 1)..n = {}
      BY <1>1
    <3> QED
      BY <1>3, <3>1
  <2> QED
    BY <1>1, <2>1
<1>5. ASSUME NEW k \in 1..n, k - 1 \in G
      PROVE  k \in G
  <2>1. \A p \in (n - (k - 1))..n : r[p] \in Seq(Nat)
    BY <1>5
  <2>2. ASSUME NEW p \in (n - k)..n
        PROVE  r[p] \in Seq(Nat)
    <3>1. p \in 0..n /\ (p + 1)..n \subseteq (n - (k - 1))..n
      BY <1>1
    <3>2. \A i \in (p + 1)..n : r[i] \in Seq(Nat)
      BY <2>1, <3>1
    <3> QED
      BY <1>3, <3>1, <3>2
  <2>3. k \in 0..n
    BY <1>1
  <2> QED
    BY <2>2, <2>3
<1> HIDE DEF G
<1>6. 0..n \subseteq G
  BY <1>1, <1>4, <1>5, KeptAlong
<1>7. CASE n <= F + 2 \/ ~IsMarker(s, F)
  BY <1>2, <1>7 DEF n
<1>8. CASE ~(n <= F + 2 \/ ~IsMarker(s, F))
  <2>1. F \in (n - n)..n /\ n \in 0..n
    BY <1>1, <1>8
  <2>2. r[F] \in Seq(Nat)
    BY <1>6, <2>1 DEF G
  <2>3. SubSeq(s, 1, F) \in Seq(Nat)
    <3>1. \A i \in 1..F : i \in 1..Len(s)
      BY <1>1, <1>8 DEF n
    <3>2. \A i \in 1..F : s[i] \in Nat
      BY <3>1, LenProperties
    <3> QED
      BY <1>1, <3>2, SubSeqProperties
  <2>4. Strip(s) = SubSeq(s, 1, F) \o r[F]
    BY <1>2, <1>8 DEF n
  <2> QED
    BY <2>2, <2>3, <2>4, ConcatProperties
<1> QED
  BY <1>7, <1>8

\* The header of an object of unknown length.
OpenHeader == <<HighBit + Header, 0, 8, 0>>

LEMMA ParseOpen ==
    ASSUME NEW d \in Seq(Nat)
    PROVE  /\ OpenHeader \o d \in Seq(Nat)
           /\ ParseAll(OpenHeader \o d) = <<[cp |-> 8, data |-> Strip(d)]>>
<1> DEFINE h == OpenHeader
           b == h \o d
           n == Len(d)
           e == <<>>
<1>1. Inline \in Nat /\ HighBit = Inline + 1 /\ Header = 4 /\ n \in Nat
  BY LenProperties, DdmAssumption DEF HighBit, Header
<1>2. h \in Seq(Nat) /\ Len(h) = 4 /\ h[1] = HighBit + Header /\ h[3] = 8
  BY <1>1 DEF OpenHeader
<1> HIDE DEF h
<1>3. b \in Seq(Nat) /\ Joined(h, d, b)
  BY <1>2, Joins
<1>10. b \o e = b
  BY <1>3, ConcatEmptySeq
<1> HIDE DEF b
<1>4. /\ Len(b) = 4 + n /\ b[1] = HighBit + Header /\ b[3] = 8
      /\ \A i \in 1..n : b[4 + i] = d[i]
  <2>1. /\ Len(b) = 4 + n /\ \A i \in 1..4 : b[i] = h[i]
        /\ \A i \in 1..n : b[4 + i] = d[i]
    BY <1>2, <1>3 DEF Joined
  <2>2. 1 \in 1..4 /\ 3 \in 1..4
    OBVIOUS
  <2> QED
    BY <1>2, <2>1, <2>2
<1> HIDE DEF n
<1>5. Length(b) = [length |-> Len(b), header |-> Header]
  <2> DEFINE raw == b[1]
             head == raw - HighBit
  <2>1. raw = HighBit + Header /\ ~(raw < HighBit) /\ ~(Len(b) < Header)
        /\ head = 4 /\ ~(head < Header) /\ ~(Len(b) < head)
    BY <1>1, <1>4
  <2> HIDE DEF raw, head
  <2> QED
    BY <2>1 DEF Length, raw, head
<1>6. ~Ends(b)
  BY <1>1, <1>4, <1>5 DEF Ends
<1>7. SubSeq(b, Header + 1, Len(b)) = d
  <2> DEFINE u == SubSeq(b, 4 + 1, Len(b))
  <2>1. u \in Seq(Nat) /\ Len(u) = Len(b) - 4 /\ \A i \in 1..(Len(b) - 4) : u[i] = b[4 + i]
    <3>1. 4 \in Nat /\ Len(b) \in Nat /\ 4 <= Len(b) /\ Len(b) <= Len(b)
      BY <1>1, <1>4
    <3> QED
      BY <1>3, <3>1, Stretch
  <2> HIDE DEF u
  <2>2. Len(b) - 4 = n
    BY <1>1, <1>4
  <2>3. Len(u) = Len(d) /\ \A i \in 1..Len(u) : u[i] = d[i]
    BY <1>4, <2>1, <2>2 DEF n
  <2>4. u = d
    BY <2>1, <2>3, SeqEqual
  <2> QED
    BY <1>1, <2>4 DEF u
<1>8. DataOf(b) = Strip(d)
  <2>1. Whole(b)
    BY <1>4 DEF Whole
  <2>2. Length(b).length = Len(b)
    BY <1>5
  <2>3. DataOf(b) = Strip(SubSeq(b, Header + 1, Length(b).length))
    BY <2>1 DEF DataOf
  <2> QED
    BY <1>7, <2>2, <2>3
<1>9. ObjectOf(b) = [cp |-> 8, data |-> Strip(d)]
  BY <1>4, <1>8 DEF ObjectOf
<1>11. ParseAll(b \o e) = <<ObjectOf(b \o e)>> \o ParseAll(e)
  <2>1. e \in Seq(Nat)
    OBVIOUS
  <2> HIDE DEF e
  <2>2. ~Ends(b \o e) /\ Length(b \o e).length = Len(b)
    BY <1>5, <1>6, <1>10
  <2> QED
    BY <1>3, <2>1, <2>2, ParseFirst
<1>12. ParseAll(b) = <<[cp |-> 8, data |-> Strip(d)]>>
  <2> DEFINE o == [cp |-> 8, data |-> Strip(d)]
             l == <<o>>
  <2>1. o \in Objects
    BY StripType DEF Objects
  <2> HIDE DEF o
  <2>2. l \in Seq(Objects)
    BY <2>1
  <2>4. l = <<o>>
    OBVIOUS
  <2> HIDE DEF l
  <2>3. l \o <<>> = l
    BY <2>2, ConcatEmptySeq
  <2> QED
    BY <1>9, <1>10, <1>11, <2>3, <2>4, ParseNone DEF o
<1> QED
  BY <1>3, <1>12 DEF b, h

\* An object of unknown length, cut or not, gives its data.
LEMMA StripStreamed ==
    ASSUME NEW s, s.data \in Seq(Nat), s.cut \in BOOLEAN
    PROVE  LET d == IF s.cut THEN Cut(s.data) ELSE s.data
           IN  d \in Seq(Nat) /\ (~Ambiguous(s) => Strip(d) = s.data)
<1> DEFINE x == s.data
           d == IF s.cut THEN Cut(x) ELSE x
           F == FirstChunk
<1>1. Len(x) \in Nat /\ F \in Nat
  BY LenProperties, DdmAssumption
<1>2. ASSUME NEW y \in Seq(Nat), Len(y) <= F + 2 \/ ~IsMarker(y, F)
      PROVE  Strip(y) = y
  BY <1>2 DEF Strip
<1>3. CASE ~s.cut
  <2>1. d = x
    BY <1>3
  <2>2. ~Ambiguous(s) => ~(Len(x) > F + 2) \/ ~IsMarker(x, F)
    BY <1>3 DEF Ambiguous
  <2>3. ~(Len(x) > F + 2) => Len(x) <= F + 2
    BY <1>1
  <2> QED
    BY <1>2, <2>1, <2>2, <2>3
<1>4. CASE s.cut /\ Len(x) <= F
  <2>1. d = x
    BY <1>4 DEF Cut
  <2>2. Len(x) <= F + 2
    BY <1>1, <1>4
  <2> QED
    BY <1>2, <2>1, <2>2
<1>5. CASE s.cut /\ ~(Len(x) <= F)
  <2>1. d = Cut(x)
    BY <1>5
  <2>2. F < Len(x)
    BY <1>1, <1>5
  <2>3. d \in Seq(Nat) /\ \E q, a, o : Marked(d, x, q, a, o)
    BY <2>1, <2>2, CutMarked
  <2>4. Strip(d) = x
    BY <2>3, StripMarked
  <2> QED
    BY <2>3, <2>4
<1> QED
  BY <1>3, <1>4, <1>5

\* What the builders may have been given.
Built == {p \in Seq(Seq(Nat)) : Len(p) <= MaxParams /\ \A j \in 1..Len(p) : Len(p[j]) <= MaxData}
Streamed == {<<>>} \cup {<<[data |-> d, cut |-> c]>> : d \in Seq(Nat), c \in BOOLEAN}

WireInv == objects \in Seq(Built) /\ streamed \in Streamed

LEMMA BodiesAre == Bodies \subseteq {d \in Seq(Nat) : Len(d) <= MaxData}
<1> SUFFICES ASSUME NEW n \in 0..MaxData
             PROVE  Data(n, FALSE) \in Seq(Nat) /\ Len(Data(n, FALSE)) <= MaxData
  BY DEF Bodies
<1> QED
  BY DdmAssumption DEF Data

LEMMA DataType ==
    ASSUME NEW n \in Nat, NEW marked \in BOOLEAN
    PROVE  Data(n, marked) \in Seq(Nat)
<1>1. ASSUME NEW i \in 1..n
      PROVE  (IF marked /\ i - FirstChunk \in {1, 2} THEN Marker[i - FirstChunk] ELSE 1) \in Nat
  <2>1. Marker[1] \in Nat /\ Marker[2] \in Nat
    BY DEF Marker
  <2>2. CASE marked /\ i - FirstChunk \in {1, 2}
    <3>1. i - FirstChunk = 1 \/ i - FirstChunk = 2
      BY <2>2
    <3> QED
      BY <2>1, <2>2, <3>1
  <2>3. CASE ~(marked /\ i - FirstChunk \in {1, 2})
    BY <2>3
  <2> QED
    BY <2>2, <2>3
<1> DEFINE E(i) == IF marked /\ i - FirstChunk \in {1, 2} THEN Marker[i - FirstChunk] ELSE 1
<1>2. \A i \in 1..n : E(i) \in Nat
  BY <1>1
<1> HIDE DEF E
<1>3. [i \in 1..n |-> E(i)] \in Seq(Nat)
  BY <1>2
<1> QED
  BY <1>3 DEF Data, E

LEMMA LimitFits ==
    /\ MaxParams \in Nat /\ MaxData \in Nat /\ MaxData + 8 \in Nat
    /\ MaxParams * (MaxData + 8) \in Nat /\ Fits(MaxParams * (MaxData + 8))
    /\ MaxData <= MaxParams * (MaxData + 8)
<1> DEFINE c == MaxData + 8
           m == MaxParams * c
<1>1. Shift(Shift(Shift(m + 8))) < 128
  BY DdmAssumption DEF Shift
<1>2. MaxParams \in Nat \ {0} /\ MaxData \in Nat /\ c \in Nat /\ MaxData <= c
  BY DdmAssumption
<1> HIDE DEF c
<1>3. m \in Nat /\ MaxData <= m
  <2>1. 1 * c <= MaxParams * c /\ 1 * c = c
    BY <1>2, Product
  <2>2. m \in Nat
    BY <1>2
  <2> QED
    BY <1>2, <2>1, <2>2
<1> HIDE DEF m
<1>4. Fits(m)
  BY <1>1, <1>3 DEF Fits
<1> QED
  BY <1>2, <1>3, <1>4 DEF c, m

LEMMA BodyFits ==
    ASSUME NEW n \in Nat, n <= MaxData
    PROVE  Fits(n)
<1> DEFINE m == MaxParams * (MaxData + 8)
<1>1. m \in Nat /\ Fits(m) /\ MaxData \in Nat /\ MaxData <= m
  BY LimitFits
<1> HIDE DEF m
<1>2. n <= m
  BY <1>1
<1> QED
  BY <1>1, <1>2, SmallerFits

\* The parameters of an object fit the lengths of four bytes.
LEMMA BuiltFits ==
    ASSUME NEW p \in Built, NEW M \in Seq(Seq(Nat)), Len(M) = Len(p),
           \A j \in 1..Len(p) : M[j] = Marshal(j, p[j])
    PROVE  /\ \A j \in 1..Len(p) : Fits(Len(p[j]))
           /\ FlattenSeq(M) \in Seq(Nat) /\ Fits(Len(FlattenSeq(M)))
<1> DEFINE n == Len(p)
           c == MaxData + 8
           m == MaxParams * c
<1>1. /\ p \in Seq(Seq(Nat)) /\ n \in Nat /\ n <= MaxParams
      /\ \A j \in 1..n : p[j] \in Seq(Nat) /\ Len(p[j]) \in Nat /\ Len(p[j]) <= MaxData
  BY LenProperties DEF Built
<1>2. c \in Nat /\ MaxData \in Nat /\ MaxParams \in Nat /\ m \in Nat /\ Fits(m)
  BY LimitFits
<1>3. n * c <= m /\ n * c \in Nat
  <2> HIDE DEF n, c
  <2> QED
    BY <1>1, <1>2, Product
<1>4. \A j \in 1..n : Fits(Len(p[j]))
  BY <1>1, BodyFits
<1> HIDE DEF n, c, m
<1>6. ASSUME NEW j \in 1..Len(M)
      PROVE  Len(M[j]) <= c
  <2> DEFINE d == p[j]
             o == Marshal(j, d)
  <2>1. j \in Nat /\ j \in 1..n /\ M[j] = o
    BY DEF n
  <2>2. d \in Seq(Nat) /\ Fits(Len(d)) /\ Len(d) \in Nat /\ Len(d) <= MaxData
    BY <1>1, <1>4, <2>1
  <2> HIDE DEF d
  <2>3. o \in Seq(Nat) /\ Len(o) <= Len(d) + 8
    <3>1. <<>> \in Seq(Nat)
      OBVIOUS
    <3> QED
      BY <2>1, <2>2, <3>1, MarshalRead
  <2> HIDE DEF o
  <2>4. Len(o) \in Nat
    BY <2>3, LenProperties
  <2>5. Len(o) <= c
    BY <1>2, <2>2, <2>3, <2>4 DEF c
  <2> QED
    BY <2>1, <2>5
<1>7. Len(FlattenSeq(M)) \in Nat /\ Len(FlattenSeq(M)) <= n * c
  BY <1>2, <1>6, FlattenLength DEF n
<1>8. Fits(Len(FlattenSeq(M)))
  <2> DEFINE l == Len(FlattenSeq(M))
  <2>1. l \in Nat /\ l <= n * c
    BY <1>7
  <2> HIDE DEF l
  <2>2. l <= m
    BY <1>2, <1>3, <2>1
  <2>3. Fits(l)
    BY <1>2, <2>1, <2>2, SmallerFits
  <2> QED
    BY <2>3 DEF l
<1> QED
  BY <1>4, <1>8, FlattenType DEF n

\* The parameters of an object, one behind the other.
ParamsOf(p) == [i \in DOMAIN p |-> Marshal(i, p[i])]
Inside(p) == FlattenSeq(ParamsOf(p))

\* The parameters of an object are parsed back.
LEMMA BuiltParses ==
    ASSUME NEW p \in Built
    PROVE  /\ Inside(p) \in Seq(Nat) /\ Fits(Len(Inside(p)))
           /\ ParseAll(Inside(p)) = [j \in DOMAIN p |-> [cp |-> j, data |-> p[j]]]
<1> DEFINE n == Len(p)
           M == ParamsOf(p)
           cps == [j \in 1..n |-> j]
           x == FlattenSeq(M)
           e == <<>>
<1>1. /\ p \in Seq(Seq(Nat)) /\ n \in Nat /\ DOMAIN p = 1..n
      /\ \A j \in 1..n : p[j] \in Seq(Nat) /\ Len(p[j]) \in Nat /\ Len(p[j]) <= MaxData
  BY LenProperties DEF Built
<1>2. \A j \in 1..n : Marshal(j, p[j]) \in Seq(Nat)
  <2>1. ASSUME NEW j \in 1..n
        PROVE  Marshal(j, p[j]) \in Seq(Nat)
    <3>1. Fits(Len(p[j]))
      BY <1>1, BodyFits
    <3>2. j \in Nat /\ p[j] \in Seq(Nat) /\ <<>> \in Seq(Nat)
      BY <1>1
    <3> QED
      BY <3>1, <3>2, MarshalRead
  <2> QED
    BY <2>1
<1>3. M \in Seq(Seq(Nat)) /\ Len(M) = n /\ \A j \in 1..n : M[j] = Marshal(j, p[j])
  BY <1>1, <1>2 DEF ParamsOf
<1> HIDE DEF M
<1>4. (\A j \in 1..n : Fits(Len(p[j]))) /\ x \in Seq(Nat) /\ Fits(Len(x))
  BY <1>3, BuiltFits
<1>5. cps \in [1..n -> Nat] /\ \A j \in 1..n : cps[j] = j
  OBVIOUS
<1>6. Marshaled(M, cps, p, n)
  BY <1>1, <1>3, <1>4, <1>5 DEF Marshaled
<1>7. ObjectList(cps, p, n) = [j \in 1..n |-> [cp |-> j, data |-> p[j]]]
  BY DEF ObjectList
<1>8. e \in Seq(Nat) /\ ParseAll(e) = <<>> /\ <<>> \in Seq(Objects)
  BY ParseNone
<1> HIDE DEF cps, x, e
<1>9. ParseAll(x \o e) = ObjectList(cps, p, n) \o ParseAll(e)
  <2>1. ParseAll(e) \in Seq(Objects)
    BY <1>8
  <2>2. ParseAll(FlattenSeq(M) \o e) = ObjectList(cps, p, n) \o ParseAll(e)
    <3>1. n \in Nat /\ e \in Seq(Nat)
      BY <1>1, <1>8
    <3> HIDE DEF n
    <3> QED
      BY <1>6, <2>1, <3>1, ParseList
  <2> QED
    BY <2>2 DEF x
<1>10. x \o e = x
  BY <1>4, ConcatEmptySeq DEF e
<1>11. ObjectList(cps, p, n) \in Seq(Objects)
  <2>1. \A j \in 1..n : [cp |-> j, data |-> p[j]] \in Objects
    BY <1>1 DEF Objects
  <2> DEFINE E(j) == [cp |-> j, data |-> p[j]]
  <2>2. \A j \in 1..n : E(j) \in Objects
    BY <2>1
  <2> HIDE DEF E
  <2>3. [j \in 1..n |-> E(j)] \in Seq(Objects)
    BY <1>1, <2>2
  <2> QED
    BY <1>7, <2>3 DEF E
<1>12. ParseAll(x) = ObjectList(cps, p, n)
  <2> DEFINE o == ObjectList(cps, p, n)
  <2>1. o \in Seq(Objects) /\ ParseAll(x) = o \o <<>>
    BY <1>8, <1>9, <1>10, <1>11
  <2> HIDE DEF o
  <2>2. ParseAll(x) = o
    BY <2>1, ConcatEmptySeq
  <2> QED
    BY <2>2 DEF o
<1> QED
  BY <1>1, <1>4, <1>7, <1>12 DEF Inside, M, x

\* An object of unknown length at the end, if any.
Trailing ==
    FlattenSeq([i \in DOMAIN streamed |->
        <<HighBit + Header, 0, 8, 0>>
          \o (IF streamed[i].cut THEN Cut(streamed[i].data) ELSE streamed[i].data)])

LEMMA TrailingParses ==
    ASSUME streamed \in Streamed
    PROVE  /\ Trailing \in Seq(Nat)
           /\ ParseAll(Trailing) \in Seq(Objects) /\ Len(ParseAll(Trailing)) = Len(streamed)
           /\ Len(streamed) \in {0, 1} /\ DOMAIN streamed = 1..Len(streamed)
           /\ \A i \in DOMAIN streamed :
                 ~Ambiguous(streamed[i]) => ParseAll(Trailing)[Len(streamed)].data = streamed[i].data
<1>1. CASE streamed = <<>>
  <2>1. [i \in DOMAIN streamed |->
           <<HighBit + Header, 0, 8, 0>>
             \o (IF streamed[i].cut THEN Cut(streamed[i].data) ELSE streamed[i].data)] = <<>>
    BY <1>1
  <2>2. Trailing = <<>>
    BY <2>1, FlattenNone DEF Trailing
  <2>3. ParseAll(Trailing) = <<>>
    BY <2>2, ParseNone
  <2>4. <<>> \in Seq(Nat) /\ <<>> \in Seq(Objects) /\ Len(<<>>) = 0 /\ DOMAIN <<>> = {} /\ 1..0 = {}
    OBVIOUS
  <2> QED
    BY <1>1, <2>2, <2>3, <2>4
<1>2. ASSUME NEW d \in Seq(Nat), NEW c \in BOOLEAN, streamed = <<[data |-> d, cut |-> c]>>
      PROVE  /\ Trailing \in Seq(Nat)
             /\ ParseAll(Trailing) \in Seq(Objects) /\ Len(ParseAll(Trailing)) = Len(streamed)
             /\ Len(streamed) \in {0, 1} /\ DOMAIN streamed = 1..Len(streamed)
             /\ \A i \in DOMAIN streamed :
                   ~Ambiguous(streamed[i]) => ParseAll(Trailing)[Len(streamed)].data = streamed[i].data
  <2> DEFINE s == [data |-> d, cut |-> c]
             x == IF s.cut THEN Cut(s.data) ELSE s.data
             o == OpenHeader \o x
             r == [cp |-> 8, data |-> Strip(x)]
  <2>1. s.data = d /\ s.cut = c
    OBVIOUS
  <2>2. streamed = <<s>>
    BY <1>2
  <2> HIDE DEF s
  <2>3. x \in Seq(Nat) /\ (~Ambiguous(s) => Strip(x) = s.data)
    BY <2>1, StripStreamed
  <2>4. Len(streamed) = 1 /\ DOMAIN streamed = {1} /\ streamed[1] = s /\ 1..1 = {1}
    BY <2>2
  <2>5. Trailing = FlattenSeq(<<o>>)
    <3> DEFINE E(t) == <<HighBit + Header, 0, 8, 0>> \o (IF t.cut THEN Cut(t.data) ELSE t.data)
    <3>1. o = E(s)
      BY DEF OpenHeader
    <3>2. Trailing = FlattenSeq([i \in DOMAIN streamed |-> E(streamed[i])])
      BY DEF Trailing
    <3> HIDE DEF E, o
    <3>3. [i \in DOMAIN streamed |-> E(streamed[i])] = <<o>>
      BY <2>4, <3>1
    <3> QED
      BY <3>2, <3>3
  <2> HIDE DEF x
  <2>6. o \in Seq(Nat) /\ ParseAll(o) = <<r>>
    BY <2>3, ParseOpen
  <2>7. r \in Objects
    BY <2>3, StripType DEF Objects
  <2>8. r.data = Strip(x)
    OBVIOUS
  <2> HIDE DEF o, r
  <2>9. Trailing = o
    BY <2>5, <2>6, FlattenOne
  <2>10. <<r>> \in Seq(Objects) /\ Len(<<r>>) = 1 /\ <<r>>[1] = r
    BY <2>7
  <2>11. ParseAll(Trailing)[Len(streamed)].data = Strip(x)
    BY <2>4, <2>6, <2>8, <2>9, <2>10
  <2>12. /\ Trailing \in Seq(Nat)
         /\ ParseAll(Trailing) \in Seq(Objects) /\ Len(ParseAll(Trailing)) = 1
    BY <2>6, <2>9, <2>10
  <2> QED
    BY <2>3, <2>4, <2>11, <2>12
<1> QED
  BY <1>1, <1>2 DEF Streamed

\* What the builders were given is read back.
LEMMA BuiltSurvives ==
    ASSUME WireInv
    PROVE  ObjectsSurvive
<1> DEFINE n == Len(objects)
           W == [i \in DOMAIN objects |-> Build(objects[i])]
           cps == [i \in 1..n |-> 9]
           ds == [i \in 1..n |-> Inside(objects[i])]
           t == ParseAll(Trailing)
           l == ObjectList(cps, ds, n)
           z == l \o t
<1>1. /\ n \in Nat /\ DOMAIN objects = 1..n
      /\ \A i \in 1..n : objects[i] \in Built
  BY LenProperties DEF WireInv
<1>2. /\ Trailing \in Seq(Nat)
      /\ t \in Seq(Objects) /\ Len(t) = Len(streamed)
      /\ Len(streamed) \in {0, 1} /\ DOMAIN streamed = 1..Len(streamed)
      /\ \A i \in DOMAIN streamed :
            ~Ambiguous(streamed[i]) => t[Len(streamed)].data = streamed[i].data
  BY TrailingParses DEF WireInv
<1>3. ASSUME NEW i \in 1..n
      PROVE  /\ ds[i] = Inside(objects[i]) /\ ds[i] \in Seq(Nat) /\ Fits(Len(ds[i]))
             /\ Build(objects[i]) = Marshal(9, ds[i]) /\ Build(objects[i]) \in Seq(Nat)
             /\ ParseAll(ds[i]) = [j \in DOMAIN objects[i] |-> [cp |-> j, data |-> objects[i][j]]]
  <2> DEFINE p == objects[i]
             x == Inside(p)
  <2>1. p \in Built
    BY <1>1
  <2> HIDE DEF p
  <2>2. /\ x \in Seq(Nat) /\ Fits(Len(x))
        /\ ParseAll(x) = [j \in DOMAIN p |-> [cp |-> j, data |-> p[j]]]
    BY <2>1, BuiltParses
  <2>3. Build(p) = Marshal(9, x)
    BY DEF Build, Inside, ParamsOf
  <2>4. ds[i] = x
    BY DEF p
  <2> HIDE DEF x, ds
  <2>5. Build(p) \in Seq(Nat)
    <3>1. 9 \in Nat /\ <<>> \in Seq(Nat)
      OBVIOUS
    <3> QED
      BY <2>2, <2>3, <3>1, MarshalRead
  <2> QED
    BY <2>2, <2>3, <2>4, <2>5 DEF p, x
<1> HIDE DEF ds
<1>4. W \in Seq(Seq(Nat)) /\ Len(W) = n /\ \A i \in 1..n : W[i] = Build(objects[i])
  <2> DEFINE B(i) == Build(objects[i])
  <2>1. \A i \in 1..n : B(i) \in Seq(Nat)
    BY <1>3
  <2>2. W = [i \in 1..n |-> B(i)]
    BY <1>1
  <2> HIDE DEF B, W, n
  <2>3. W \in Seq(Seq(Nat)) /\ Len(W) = n /\ \A i \in 1..n : W[i] = B(i)
    BY <1>1, <2>1, <2>2
  <2> QED
    BY <2>3 DEF B
<1>5. cps \in [1..n -> Nat] /\ \A i \in 1..n : cps[i] = 9
  OBVIOUS
<1>6. Wire = FlattenSeq(W) \o Trailing
  BY DEF Wire, Trailing
<1> HIDE DEF W, cps
<1>7. Marshaled(W, cps, ds, n)
  <2>1. \A j \in 1..n : ds[j] \in Seq(Nat) /\ Fits(Len(ds[j])) /\ W[j] = Marshal(cps[j], ds[j])
    BY <1>3, <1>4, <1>5
  <2> QED
    BY <1>4, <1>5, <2>1 DEF Marshaled
<1> HIDE DEF n
<1>8. ParseAll(Wire) = z
  <2>1. n \in Nat /\ Trailing \in Seq(Nat) /\ ParseAll(Trailing) \in Seq(Objects)
    BY <1>1, <1>2
  <2>2. ParseAll(FlattenSeq(W) \o Trailing) = ObjectList(cps, ds, n) \o ParseAll(Trailing)
    BY <1>7, <2>1, ParseList
  <2> QED
    BY <1>6, <2>2
<1>9. l \in Seq(Objects) /\ Len(l) = n /\ \A i \in 1..n : l[i] = [cp |-> cps[i], data |-> ds[i]]
  <2> DEFINE O(i) == [cp |-> cps[i], data |-> ds[i]]
  <2>1. \A i \in 1..n : O(i) \in Objects
    BY <1>3, <1>5 DEF Objects
  <2> HIDE DEF O
  <2>2. l = [i \in 1..n |-> O(i)]
    BY DEF O, ObjectList
  <2> HIDE DEF l
  <2>3. l \in Seq(Objects) /\ Len(l) = n /\ \A i \in 1..n : l[i] = O(i)
    BY <1>1, <2>1, <2>2
  <2> QED
    BY <2>3 DEF O
<1> HIDE DEF l, t
<1>10. z \in Seq(Objects) /\ Joined(l, t, z)
  BY <1>2, <1>9, Joins
<1> HIDE DEF z
<1>11. /\ Len(z) = n + Len(streamed)
       /\ \A i \in 1..n : z[i] = l[i]
       /\ \A i \in 1..Len(streamed) : z[n + i] = t[i]
  BY <1>2, <1>9, <1>10 DEF Joined
<1>12. ASSUME NEW i \in DOMAIN objects
       PROVE  ParseAll(z[i].data) = [j \in DOMAIN objects[i] |-> [cp |-> j, data |-> objects[i][j]]]
  <2>1. i \in 1..n
    BY <1>1
  <2>2. z[i].data = ds[i]
    <3>1. z[i] = [cp |-> cps[i], data |-> ds[i]]
      BY <1>9, <1>11, <2>1
    <3> QED
      BY <3>1
  <2> QED
    BY <1>3, <2>1, <2>2
<1>13. ASSUME NEW i \in DOMAIN streamed, ~Ambiguous(streamed[i])
       PROVE  Last(z).data = streamed[i].data
  <2>1. Len(streamed) = 1
    BY <1>2
  <2>2. Last(z) = t[Len(streamed)]
    <3>1. Len(z) = n + 1 /\ 1 \in 1..Len(streamed)
      BY <1>11, <2>1
    <3>2. z[n + 1] = t[1]
      BY <1>11, <3>1
    <3> QED
      BY <2>1, <3>1, <3>2 DEF Last
  <2> QED
    BY <1>2, <1>13, <2>2
<1> QED
  BY <1>1, <1>8, <1>11, <1>12, <1>13 DEF ObjectsSurvive, n

LEMMA WireInvHolds == DdmSpec => []WireInv
<1>1. DdmInit => WireInv
  BY DEF DdmInit, WireInv, Streamed
<1>2. WireInv /\ [DdmNext]_ddmVars => WireInv'
  <2> SUFFICES ASSUME WireInv, [DdmNext]_ddmVars
               PROVE  WireInv'
    OBVIOUS
  <2>0. MaxParams \in Nat \ {0}
    BY DdmAssumption
  <2>1. CASE NewObject
    <3>1. <<>> \in Built
      <4>1. <<>> \in Seq(Seq(Nat)) /\ Len(<<>>) = 0 /\ 1..0 = {}
        OBVIOUS
      <4> QED
        BY <2>0, <4>1 DEF Built
    <3>2. objects' \in Seq(Built)
      BY <2>1, <3>1, AppendProperties DEF NewObject, WireInv
    <3> QED
      BY <2>1, <3>2 DEF NewObject, WireInv
  <2>2. CASE AddParam
    <3>1. PICK body \in Bodies : objects' = Front(objects) \o <<Append(Last(objects), body)>>
      BY <2>2 DEF AddParam
    <3> DEFINE p == Last(objects)
               q == Append(p, body)
    <3>2. objects # <<>> /\ Len(p) < MaxParams
      BY <2>2 DEF AddParam
    <3>3. Front(objects) \in Seq(Built) /\ p \in Built
      BY <3>2, FrontType DEF WireInv
    <3>4. body \in Seq(Nat) /\ Len(body) <= MaxData
      BY BodiesAre
    <3> HIDE DEF p
    <3>5. p \in Seq(Seq(Nat)) /\ \A j \in 1..Len(p) : Len(p[j]) <= MaxData
      BY <3>3 DEF Built
    <3>6. /\ q \in Seq(Seq(Nat)) /\ Len(q) = Len(p) + 1 /\ Len(p) \in Nat
          /\ \A j \in 1..Len(p) : q[j] = p[j]
          /\ q[Len(p) + 1] = body
      BY <3>4, <3>5, LenProperties, AppendProperties
    <3> HIDE DEF q
    <3>7. q \in Built
      <4>1. ASSUME NEW j \in 1..Len(q)
            PROVE  Len(q[j]) <= MaxData
        <5>1. CASE j <= Len(p)
          <6>1. j \in 1..Len(p)
            BY <3>6, <5>1
          <6> QED
            BY <3>5, <3>6, <6>1
        <5>2. CASE ~(j <= Len(p))
          <6>1. j = Len(p) + 1
            BY <3>6, <5>2
          <6> QED
            BY <3>4, <3>6, <6>1
        <5> QED
          BY <5>1, <5>2
      <4>2. Len(q) <= MaxParams
        BY <2>0, <3>2, <3>6
      <4> QED
        BY <3>6, <4>1, <4>2 DEF Built
    <3>8. objects' \in Seq(Built)
      <4>1. <<q>> \in Seq(Built)
        BY <3>7
      <4> QED
        BY <3>1, <3>3, <4>1, ConcatProperties DEF p, q
    <3> QED
      BY <2>2, <3>8 DEF AddParam, WireInv
  <2>3. CASE Stream
    <3>1. PICK n \in 1..MaxData, marked \in BOOLEAN, cut \in BOOLEAN :
             streamed' = <<[data |-> Data(n, marked), cut |-> cut]>>
      BY <2>3 DEF Stream
    <3>2. Data(n, marked) \in Seq(Nat)
      BY DataType
    <3>3. streamed' \in Streamed
      BY <3>1, <3>2 DEF Streamed
    <3> QED
      BY <2>3, <3>3 DEF Stream, WireInv
  <2>4. CASE UNCHANGED ddmVars
    BY <2>4 DEF ddmVars, WireInv
  <2> QED
    BY <2>1, <2>2, <2>3, <2>4 DEF DdmNext
<1> QED
  BY <1>1, <1>2, PTL DEF DdmSpec

\* DdmBuilder, DdmObject::parse, parse_ddm_objects and parameters: whatever
\* objects were built, whatever their parameters, and however the server cut an
\* object of unknown length at the end, they are read back as they were, at any
\* inline limit and chunk length, as long as a length takes at most four bytes.
THEOREM ObjectsAreParsed == DdmSpec => []ObjectsSurvive
<1>1. WireInv => ObjectsSurvive
  BY BuiltSurvives
<1> QED
  BY <1>1, WireInvHolds, PTL
=============================================================================
