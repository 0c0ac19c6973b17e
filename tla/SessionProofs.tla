---------------------------- MODULE SessionProofs ----------------------------
(***************************************************************************)
(* Proofs about Session for every value of its constants.                  *)
(***************************************************************************)
EXTENDS Session, SequenceLemmas

(***************************************************************************)
(* The inductive invariant.  Generations orders the handles' sessions      *)
(* before the client's, so that a new session invalidates every handle.    *)
(***************************************************************************)
ClientType ==
    [connected : BOOLEAN, connected_once : BOOLEAN,
     closed_explicitly : BOOLEAN, auto_commit : BOOLEAN,
     session_generation : Nat,
     next_prepared_section : 1..(MaxSection + 1),
     free_prepared_sections : Seq(Sections)]
ServerType ==
    [alive : BOOLEAN, open : SUBSET Writes,
     prepared : [Sections -> Stmts \cup {NoStmt}]]

Typed ==
    /\ TypeOK
    /\ \A s \in Stmts : stmt[s] \in {"open", "dropped"} =>
                            section[s] \in Sections

Generations ==
    /\ \A s \in Stmts : stmtSession[s] <= client.session_generation
    /\ \A h \in Txns : txnSession[h] <= client.session_generation

\* SectionPartition for any state c of the client.
HoldsIn(c, s) == /\ stmt[s] \in {"open", "dropped"}
                 /\ c.session_generation = stmtSession[s]
HeldIn(c) == {section[s] : s \in {t \in Stmts : HoldsIn(c, t)}}
Partition(c) ==
    /\ IsInjective(c.free_prepared_sections)
    /\ Range(c.free_prepared_sections) \cap HeldIn(c) = {}
    /\ Range(c.free_prepared_sections) \cup HeldIn(c)
           = 1..(c.next_prepared_section - 1)
    /\ \A s, t \in Stmts : s # t /\ HoldsIn(c, s) /\ HoldsIn(c, t) =>
                               section[s] # section[t]

IInv == Typed /\ Generations /\ SectionPartition

LEMMA PartitionMeans == SectionPartition <=> (client.connected => Partition(client))
BY DEF SectionPartition, Partition, HeldSections, HeldIn, Holds, HoldsIn, Valid

-----------------------------------------------------------------------------
(* What the operators on the client return *)

LEMMA EstablishedType ==
    ASSUME NEW c \in ClientType
    PROVE  /\ Established(c) \in ClientType
           /\ \A e \in BOOLEAN : Reset(c, e) \in ClientType
           /\ \A b \in BOOLEAN : [c EXCEPT !.auto_commit = b] \in ClientType
<1>1. <<>> \in Seq(Sections) /\ 1 \in 1..(MaxSection + 1)
  BY SessionAssumption
<1>2. c.session_generation + 1 \in Nat
  BY DEF ClientType
<1>3. Established(c) \in ClientType
  BY <1>1, <1>2 DEF ClientType, Established
<1>4. ASSUME NEW e \in BOOLEAN
      PROVE  Reset(c, e) \in ClientType
  BY <1>1, <1>4 DEF ClientType, Reset
<1>5. ASSUME NEW b \in BOOLEAN
      PROVE  [c EXCEPT !.auto_commit = b] \in ClientType
  BY <1>5 DEF ClientType
<1> QED
  BY <1>3, <1>4, <1>5

LEMMA ServerTypes ==
    /\ NoSession \in ServerType
    /\ NewSession \in ServerType
BY SessionAssumption DEF NoSession, NewSession, ServerType, Sections

\* A session just established has handed out no section.
LEMMA EstablishedPartition ==
    ASSUME Typed, Generations, NEW c \in ClientType,
           client.session_generation <= c.session_generation
    PROVE  Partition(Established(c))
<1> DEFINE e == Established(c)
<1>1. \A s \in Stmts : stmtSession[s] \in Nat
  BY DEF Typed, TypeOK
<1>2. client.session_generation \in Nat /\ c.session_generation \in Nat
  BY DEF Typed, TypeOK, ClientType
<1>3. \A s \in Stmts : ~HoldsIn(e, s)
  BY <1>1, <1>2 DEF HoldsIn, Established, Generations
<1>4. e.free_prepared_sections = <<>> /\ e.next_prepared_section = 1
  BY DEF Established
<1>5. HeldIn(e) = {}
  BY <1>3 DEF HeldIn
<1>6. Range(<<>>) = {} /\ IsInjective(<<>>)
  BY DEF Range, IsInjective
<1> QED
  BY <1>3, <1>4, <1>5, <1>6 DEF Partition

LEMMA EnteredFacts ==
    ASSUME IInv, Ready
    PROVE  /\ Entered \in ClientType
           /\ ServerAt \in ServerType
           /\ Entered.connected
           /\ client.session_generation <= Entered.session_generation
           /\ Partition(Entered)
<1>1. client \in ClientType /\ server \in ServerType
  BY DEF IInv, Typed, TypeOK, ClientType, ServerType
<1>2. CASE client.connected
  BY <1>1, <1>2, PartitionMeans DEF Entered, ServerAt, IInv, ClientType
<1>3. CASE ~client.connected
  <2>1. Entered = Established(client) /\ ServerAt = NewSession
    BY <1>3 DEF Entered, ServerAt
  <2>2. Partition(Entered)
    BY <1>1, <2>1, EstablishedPartition DEF IInv, ClientType
  <2> QED
    BY <1>1, <2>1, <2>2, EstablishedType, ServerTypes DEF Established, ClientType
<1> QED
  BY <1>2, <1>3
-----------------------------------------------------------------------------
(* Allocating and releasing a section *)

\* allocate_prepared_section hands out a section that no statement holds.
LEMMA AllocationFacts ==
    ASSUME Typed, NEW c \in ClientType, Partition(c), CanAllocate(c)
    PROVE  LET n == Allocated(c)
               a == AfterAllocation(c)
           IN  /\ n \in Sections /\ n \notin HeldIn(c)
               /\ a \in ClientType
               /\ a.connected = c.connected
               /\ a.session_generation = c.session_generation
               /\ IsInjective(a.free_prepared_sections)
               /\ Range(a.free_prepared_sections) \cap HeldIn(c) = {}
               /\ n \notin Range(a.free_prepared_sections)
               /\ Range(a.free_prepared_sections) \cup HeldIn(c) \cup {n}
                      = 1..(a.next_prepared_section - 1)
<1> DEFINE n == Allocated(c)
           a == AfterAllocation(c)
           q == c.free_prepared_sections
<1>1. q \in Seq(Sections) /\ c.next_prepared_section \in 1..(MaxSection + 1)
  BY DEF ClientType
<1>2. /\ IsInjective(q) /\ Range(q) \cap HeldIn(c) = {}
      /\ Range(q) \cup HeldIn(c) = 1..(c.next_prepared_section - 1)
  BY DEF Partition
<1>3. CASE q # <<>>
  <2>1. n = Last(q) /\ a = [c EXCEPT !.free_prepared_sections = Front(q)]
    BY <1>3 DEF Allocated, AfterAllocation
  <2>2. Front(q) \in Seq(Sections) /\ n \in Sections
    BY <1>1, <1>3, <2>1, FrontType
  <2>3. /\ Range(Front(q)) = Range(q) \ {n} /\ IsInjective(Front(q))
        /\ n \in Range(q)
    BY <1>1, <1>2, <1>3, <2>1, FrontOwned
  <2>4. /\ a \in ClientType /\ a.free_prepared_sections = Front(q)
        /\ a.connected = c.connected
        /\ a.session_generation = c.session_generation
        /\ a.next_prepared_section = c.next_prepared_section
    BY <2>1, <2>2 DEF ClientType
  <2> QED
    BY <1>2, <2>2, <2>3, <2>4
<1>4. CASE q = <<>>
  <2>1. /\ n = c.next_prepared_section
        /\ a = [c EXCEPT !.next_prepared_section = @ + 1]
        /\ n <= MaxSection
    BY <1>4 DEF Allocated, AfterAllocation, CanAllocate
  <2>2. n \in Sections /\ n + 1 \in 1..(MaxSection + 1)
    BY <1>1, <2>1, SessionAssumption DEF Sections
  <2>3. /\ a \in ClientType /\ a.free_prepared_sections = <<>>
        /\ a.connected = c.connected
        /\ a.session_generation = c.session_generation
        /\ a.next_prepared_section = n + 1
    BY <1>4, <2>1, <2>2 DEF ClientType
  <2>4. HeldIn(c) = 1..(n - 1)
    BY <1>2, <1>4, <2>1, NoneOwned
  <2>5. n \notin HeldIn(c) /\ HeldIn(c) \cup {n} = 1..((n + 1) - 1)
    BY <2>4, <2>2 DEF Sections
  <2> QED
    BY <2>2, <2>3, <2>5, NoneOwned
<1> QED
  BY <1>3, <1>4

\* release_prepared_section adds a section that was not free, and only it.
LEMMA ReleasedFacts ==
    ASSUME NEW c \in ClientType, NEW n \in Sections
    PROVE  /\ Released(c, n) \in ClientType
           /\ Released(c, n).connected = c.connected
           /\ Released(c, n).session_generation = c.session_generation
           /\ Released(c, n).next_prepared_section = c.next_prepared_section
           /\ IsInjective(c.free_prepared_sections) /\
              n \notin Range(c.free_prepared_sections) =>
                  /\ IsInjective(Released(c, n).free_prepared_sections)
                  /\ Range(Released(c, n).free_prepared_sections)
                         = Range(c.free_prepared_sections) \cup {n}
<1> DEFINE q == c.free_prepared_sections
           r == Released(c, n)
<1>1. q \in Seq(Sections)
  BY DEF ClientType
<1>2. CASE \E i \in DOMAIN q : q[i] = n
  <2>1. n \in Range(q) /\ r = c
    BY <1>2 DEF Range, Released
  <2> QED
    BY <2>1
<1>3. CASE ~\E i \in DOMAIN q : q[i] = n
  <2>1. r = [c EXCEPT !.free_prepared_sections = Append(q, n)]
    BY <1>3 DEF Released
  <2>2. Append(q, n) \in Seq(Sections)
    BY <1>1
  <2>3. /\ r \in ClientType /\ r.free_prepared_sections = Append(q, n)
        /\ r.connected = c.connected
        /\ r.session_generation = c.session_generation
        /\ r.next_prepared_section = c.next_prepared_section
    BY <2>1, <2>2 DEF ClientType
  <2> QED
    BY <1>1, <2>3, AppendOwned
<1> QED
  BY <1>2, <1>3
-----------------------------------------------------------------------------
(* States of the client an operation may leave behind *)

Fine(c) == /\ c \in ClientType
           /\ client.session_generation <= c.session_generation
           /\ c.connected => Partition(c)

LEMMA FineClient ==
    ASSUME IInv
    PROVE  /\ Fine(client) /\ client \in ClientType /\ server \in ServerType
           /\ Ready => Fine(Entered) /\ Entered.connected
                       /\ ServerAt \in ServerType
<1>1. client \in ClientType /\ server \in ServerType
  BY DEF IInv, Typed, TypeOK, ClientType, ServerType
<1>2. client.session_generation \in Nat
  BY <1>1 DEF ClientType
<1>3. Fine(client)
  BY <1>1, <1>2, PartitionMeans DEF Fine, IInv
<1> QED
  BY <1>1, <1>3, EnteredFacts DEF Fine

LEMMA FineAfter ==
    ASSUME IInv, NEW c, Fine(c)
    PROVE  /\ \A e \in BOOLEAN : Fine(Reset(c, e))
           /\ \A b \in BOOLEAN : Fine([c EXCEPT !.auto_commit = b])
           /\ Fine(Established(c))
           /\ c.session_generation < Established(c).session_generation
<1>1. c \in ClientType /\ client \in ClientType
  BY FineClient DEF Fine
<1>2. c.session_generation \in Nat /\ client.session_generation \in Nat
  BY <1>1 DEF ClientType
<1>3. ASSUME NEW e \in BOOLEAN
      PROVE  Fine(Reset(c, e))
  <2>1. /\ Reset(c, e).connected = FALSE
        /\ Reset(c, e).session_generation = c.session_generation
    BY <1>1 DEF Reset, ClientType
  <2> QED
    BY <1>1, <2>1, EstablishedType DEF Fine
<1>4. ASSUME NEW b \in BOOLEAN
      PROVE  Fine([c EXCEPT !.auto_commit = b])
  <2> DEFINE d == [c EXCEPT !.auto_commit = b]
  <2>1. /\ d.connected = c.connected
        /\ d.session_generation = c.session_generation
        /\ d.free_prepared_sections = c.free_prepared_sections
        /\ d.next_prepared_section = c.next_prepared_section
    BY <1>1 DEF ClientType
  <2>2. d \in ClientType
    BY <1>1, EstablishedType
  <2> HIDE DEF d
  <2>3. Partition(c) => Partition(d)
    BY <2>1 DEF Partition, HeldIn, HoldsIn
  <2>4. Fine(d)
    BY <2>1, <2>2, <2>3 DEF Fine
  <2> QED
    BY <2>4 DEF d
<1>5. Fine(Established(c))
  <2>1. Established(c).session_generation = c.session_generation + 1
    BY DEF Established
  <2> QED
    BY <1>1, <1>2, <2>1, EstablishedType, EstablishedPartition DEF Fine, IInv
<1>6. c.session_generation < Established(c).session_generation
  BY <1>2 DEF Established
<1> QED
  BY <1>3, <1>4, <1>5, <1>6

\* A query that was retried leaves the last of several new sessions.
LEMMA FineRetried ==
    ASSUME IInv, NEW c, Fine(c), NEW k \in 1..MaxRetries
    PROVE  LET again == Established(
                   [c EXCEPT !.session_generation = @ + (k - 1)])
           IN  /\ Fine(again)
               /\ c.session_generation < again.session_generation
<1> DEFINE d == [c EXCEPT !.session_generation = @ + (k - 1)]
<1>1. c \in ClientType /\ client \in ClientType
  BY FineClient DEF Fine
<1>2. c.session_generation \in Nat /\ client.session_generation \in Nat
  BY <1>1 DEF ClientType
<1>3. c.session_generation + (k - 1) \in Nat
  BY <1>2, SessionAssumption
<1>4. /\ d \in ClientType
      /\ d.session_generation = c.session_generation + (k - 1)
  BY <1>1, <1>3 DEF ClientType
<1> HIDE DEF d
<1>5. client.session_generation <= d.session_generation
  BY <1>2, <1>4, SessionAssumption DEF Fine
<1>6. Partition(Established(d)) /\ Established(d) \in ClientType
  BY <1>4, <1>5, EstablishedPartition, EstablishedType DEF IInv
<1>7. Established(d).session_generation = c.session_generation + k
  BY <1>2, <1>4, SessionAssumption DEF Established
<1>8. Fine(Established(d))
  BY <1>2, <1>6, <1>7, SessionAssumption DEF Fine
<1>9. c.session_generation < Established(d).session_generation
  BY <1>2, <1>7, SessionAssumption
<1> QED
  BY <1>8, <1>9 DEF d

\* A transaction is begun in the session that the client is in then.
LEMMA GenerationsKept ==
    ASSUME IInv, Fine(client'), UNCHANGED stmtSession,
           UNCHANGED txnSession \/ \E h \in Txns : Begin(h)
    PROVE  Generations' /\ txnSession' \in [Txns -> Nat]
<1>1. client \in ClientType /\ client' \in ClientType
  BY FineClient DEF Fine
<1>2. /\ \A s \in Stmts : stmtSession[s] \in Nat
      /\ txnSession \in [Txns -> Nat]
  BY DEF IInv, Typed, TypeOK
<1>3. client.session_generation \in Nat /\ client'.session_generation \in Nat
  BY <1>1 DEF ClientType
<1>4. \A s \in Stmts : stmtSession'[s] <= client'.session_generation
  BY <1>2, <1>3 DEF IInv, Generations, Fine
<1>5. CASE UNCHANGED txnSession
  BY <1>2, <1>3, <1>4, <1>5 DEF IInv, Generations, Fine
<1>6. ASSUME NEW h \in Txns, Begin(h)
      PROVE  Generations' /\ txnSession' \in [Txns -> Nat]
  <2>1. /\ Entered \in ClientType
        /\ client' = [Entered EXCEPT !.auto_commit = FALSE]
        /\ txnSession' = [txnSession EXCEPT ![h] = Entered.session_generation]
    BY <1>6, FineClient DEF Begin, Fine
  <2>2. /\ client'.session_generation = Entered.session_generation
        /\ Entered.session_generation \in Nat
    BY <2>1 DEF ClientType
  <2> QED
    BY <1>2, <1>3, <1>4, <2>1, <2>2 DEF IInv, Generations, Fine
<1> QED
  BY <1>5, <1>6

\* Without a step of a statement, a fine client is all that has to be shown.
LEMMA FineSuffices ==
    ASSUME IInv, Fine(client'), UNCHANGED stmtVars
    PROVE  SectionPartition'
BY DEF SectionPartition, Fine, Partition, HeldSections, HeldIn, Holds,
       HoldsIn, Valid, stmtVars
-----------------------------------------------------------------------------
(* What the parts of the operations do to the state *)

LEMMA FaultType ==
    ASSUME Typed, Fault \/ UNCHANGED faults
    PROVE  faults' \in Nat
BY DEF Typed, TypeOK, Fault

LEMMA LostFine ==
    ASSUME IInv, NEW c, Fine(c), NEW sv, Lost(c, sv)
    PROVE  Fine(client') /\ server' \in ServerType /\ faults' \in Nat
BY FineAfter, FaultType, ServerTypes DEF Lost, IInv

LEMMA UnitTypes ==
    ASSUME Typed, NEW sv \in ServerType, NEW ws \in SUBSET Writes,
           \/ Commits(sv, ws) \/ Discards(sv) \/ Adds(sv, ws)
    PROVE  server' \in ServerType /\ durable' \subseteq Writes
<1>1. sv.open \subseteq Writes /\ durable \subseteq Writes
  BY DEF ServerType, Typed, TypeOK
<1> QED
  BY <1>1 DEF Commits, Discards, Adds, ServerType

LEMMA LandsTypes ==
    ASSUME Typed, NEW c, NEW sv \in ServerType, NEW ws \in SUBSET Writes,
           Lands(c, sv, ws)
    PROVE  server' \in ServerType /\ durable' \subseteq Writes
BY UnitTypes DEF Lands

LEMMA IssueTypes ==
    ASSUME Typed, NEW ws \in SUBSET Writes, NEW u \in Txns \cup {Nobody},
           Issue(ws, u)
    PROVE  issued' \subseteq Writes /\ unit' \in [Writes -> Txns \cup {Nobody}]
BY DEF Issue, Typed, TypeOK

LEMMA LoosensType ==
    ASSUME Typed, NEW c, NEW ws \in SUBSET Writes, Loosens(c, ws)
    PROVE  loose' \subseteq Writes
BY DEF Loosens, Typed, TypeOK

LEMMA EndsTypes ==
    ASSUME Typed, NEW h \in Txns, NEW how \in Results, Ends(h, how)
    PROVE  txn' \in [Txns -> States] /\ result' \in [Txns -> Results]
BY DEF Ends, Typed, TypeOK, States

\* What TypeOK says of the variables that statements do not touch.
StepType ==
    /\ Fine(client') /\ server' \in ServerType
    /\ durable' \subseteq Writes
    /\ txn' \in [Txns -> States] /\ result' \in [Txns -> Results]
    /\ issued' \subseteq Writes /\ acked' \subseteq Writes
    /\ unit' \in [Writes -> Txns \cup {Nobody}]
    /\ failedRows' \subseteq Writes /\ loose' \subseteq Writes
    /\ userClosed' \in BOOLEAN
    /\ faults' \in Nat

LEMMA StepTypeSuffices ==
    ASSUME IInv, StepType, UNCHANGED stmtVars,
           UNCHANGED txnSession \/ \E h \in Txns : Begin(h)
    PROVE  IInv'
<1>1. Generations' /\ txnSession' \in [Txns -> Nat]
  BY GenerationsKept DEF StepType, stmtVars
<1>2. Typed'
  BY <1>1 DEF IInv, Typed, TypeOK, StepType, Fine, ClientType, ServerType, stmtVars
<1>3. SectionPartition'
  BY FineSuffices DEF StepType
<1> QED
  BY <1>1, <1>2, <1>3 DEF IInv

LEMMA RunTypes ==
    ASSUME IInv, NEW c, Fine(c), NEW sv \in ServerType, NEW w \in Writes,
           NEW u \in Txns \cup {Nobody}, Run(c, sv, w, u)
    PROVE  /\ Fine(client') /\ server' \in ServerType
           /\ durable' \subseteq Writes
           /\ issued' \subseteq Writes /\ acked' \subseteq Writes
           /\ unit' \in [Writes -> Txns \cup {Nobody}]
           /\ faults' \in Nat
<1>1. Typed /\ acked \subseteq Writes /\ durable \subseteq Writes
      /\ faults \in Nat /\ sv.open \subseteq Writes
  BY DEF IInv, Typed, TypeOK, ServerType
<1>2. issued' \subseteq Writes /\ unit' \in [Writes -> Txns \cup {Nobody}]
  BY <1>1, IssueTypes DEF Run
<1>3. CASE sv.alive /\ Lands(c, sv, {w}) /\ client' = c
           /\ acked' = acked \cup {w} /\ UNCHANGED faults
  BY <1>1, <1>2, <1>3, LandsTypes
<1>4. CASE sv.alive /\ Fault /\ Lands(c, sv, {}) /\ client' = c
           /\ UNCHANGED acked
  BY <1>1, <1>2, <1>4, LandsTypes, FaultType
<1>5. CASE /\ Lost(c, sv)
           /\ durable' \in {durable} \cup
                  IF sv.alive /\ c.auto_commit
                  THEN {durable \cup sv.open \cup {w}} ELSE {}
           /\ UNCHANGED acked
  BY <1>1, <1>2, <1>5, LostFine
<1> QED
  BY <1>3, <1>4, <1>5 DEF Run
-----------------------------------------------------------------------------
(* The steps that allocate and release no section *)

LEMMA PlainStep ==
    ASSUME IInv,
           \/ ClientStep
           \/ \E h \in Txns : \/ Begin(h) \/ Commit(h) \/ Rollback(h)
                              \/ Drop(h) \/ Cleanup(h)
                              \/ \E w \in Writes : TxnWrite(h, w)
           \/ \E s \in Stmts : \/ \E w \in Writes : Execute(s, w)
                               \/ \E v, w \in Writes : ExecuteBatch(s, v, w)
           \/ UNCHANGED vars
    PROVE  StepType /\ UNCHANGED stmtVars
<1>1. /\ Typed /\ Fine(client)
      /\ client \in ClientType /\ server \in ServerType
      /\ Ready => Fine(Entered) /\ Entered.connected /\ ServerAt \in ServerType
      /\ NoSession \in ServerType /\ NewSession \in ServerType
  BY FineClient, ServerTypes DEF IInv
<1>2. /\ durable \subseteq Writes
      /\ txn \in [Txns -> States] /\ result \in [Txns -> Results]
      /\ issued \subseteq Writes /\ acked \subseteq Writes
      /\ unit \in [Writes -> Txns \cup {Nobody}]
      /\ failedRows \subseteq Writes /\ loose \subseteq Writes
      /\ userClosed \in BOOLEAN
      /\ faults \in Nat
  BY <1>1 DEF Typed, TypeOK
<1>3. server.open \subseteq Writes /\ (Ready => ServerAt.open \subseteq Writes)
  BY <1>1 DEF ServerType
<1> USE DEF StepType, txnVars, log, history
<1>4. CASE Connect
  BY <1>1, <1>2, <1>4, FineAfter DEF Connect
<1>5. CASE ConnectFails
  <2>1. ASSUME client' = [client EXCEPT !.closed_explicitly = FALSE]
        PROVE  Fine(client')
    <3>1. /\ client' \in ClientType /\ client'.connected = client.connected
          /\ client'.session_generation = client.session_generation
      BY <1>1, <2>1 DEF ClientType
    <3>2. ~client'.connected
      BY <1>5, <3>1 DEF ConnectFails
    <3> QED
      BY <1>1, <3>1, <3>2 DEF Fine
  <2>2. Fine(Reset(Established(client), FALSE))
    BY <1>1, FineAfter
  <2>3. Fine(client')
    BY <1>5, <2>1, <2>2 DEF ConnectFails
  <2> QED
    BY <1>1, <1>2, <1>5, <2>3, FaultType DEF ConnectFails
<1>6. CASE SessionEnds
  BY <1>1, <1>2, <1>6, FaultType DEF SessionEnds
<1>7. CASE ClientClose
  BY <1>1, <1>2, <1>7, FineAfter DEF ClientClose
<1>8. ASSUME NEW w \in Writes, ClientWrite(w)
      PROVE  StepType /\ UNCHANGED stmtVars
  BY <1>1, <1>2, <1>8, RunTypes DEF ClientWrite
<1>9. ASSUME NEW w \in Writes, ClientCall(w)
      PROVE  StepType /\ UNCHANGED stmtVars
  <2>1. /\ issued' \subseteq Writes
        /\ unit' \in [Writes -> Txns \cup {Nobody}]
        /\ Ready
        /\ UNCHANGED <<txnVars, stmtVars, failedRows, userClosed>>
    BY <1>1, <1>9, IssueTypes DEF ClientCall
  <2>2. CASE ServerAt.alive /\ Lands(Entered, ServerAt, {w})
             /\ client' = Entered /\ acked' = acked \cup {w}
             /\ UNCHANGED <<loose, faults>>
    BY <1>1, <1>2, <2>1, <2>2, LandsTypes
  <2>3. CASE ServerAt.alive /\ Fault /\ Adds(ServerAt, {w})
             /\ Loosens(Entered, {w}) /\ client' = Entered
             /\ UNCHANGED acked
    BY <1>1, <1>2, <2>1, <2>3, UnitTypes, LoosensType, FaultType
  <2>4. CASE /\ Lost(Entered, ServerAt)
             /\ durable' \in {durable} \cup
                    IF ServerAt.alive /\ Entered.auto_commit
                    THEN {durable \cup ServerAt.open \cup {w}} ELSE {}
             /\ UNCHANGED <<acked, loose>>
    BY <1>1, <1>2, <1>3, <2>1, <2>4, LostFine
  <2> QED
    BY <1>9, <2>2, <2>3, <2>4 DEF ClientCall
<1>10. ASSUME NEW ws \in SUBSET Writes, ClientQuery(ws)
       PROVE  StepType /\ UNCHANGED stmtVars
  <2>1. /\ issued' \subseteq Writes
        /\ unit' \in [Writes -> Txns \cup {Nobody}]
        /\ Ready
        /\ UNCHANGED <<txnVars, stmtVars, failedRows, userClosed>>
    BY <1>1, <1>10, IssueTypes DEF ClientQuery
  <2>2. CASE ServerAt.alive /\ client' = Entered /\ Adds(ServerAt, ws)
             /\ Loosens(Entered, ws) /\ acked' = acked \cup ws
             /\ UNCHANGED faults
    BY <1>1, <1>2, <2>1, <2>2, UnitTypes, LoosensType
  <2>3. CASE Lost(Entered, ServerAt) /\ UNCHANGED <<durable, acked, loose>>
    BY <1>1, <1>2, <2>1, <2>3, LostFine
  <2>4. ASSUME NEW k \in 1..MaxRetries, NEW again,
               again = Established(
                   [Entered EXCEPT !.session_generation = @ + (k - 1)]),
               faults' = faults + k, UNCHANGED durable,
               \/ /\ client' = again
                  /\ server' = [NewSession EXCEPT !.open = ws]
                  /\ Loosens(again, ws)
                  /\ acked' = acked \cup ws
               \/ /\ client' = Reset(again, FALSE)
                  /\ server' = NoSession
                  /\ UNCHANGED <<acked, loose>>
        PROVE  StepType
    <3>1. Fine(again)
      BY <1>1, <2>1, <2>4, FineRetried
    <3>2. faults' \in Nat
      BY <1>2, <2>4, SessionAssumption
    <3>3. CASE client' = again
               /\ server' = [NewSession EXCEPT !.open = ws]
               /\ Loosens(again, ws) /\ acked' = acked \cup ws
      <4>1. server' \in ServerType
        BY <1>1, <3>3 DEF ServerType
      <4> QED
        BY <1>1, <1>2, <2>1, <2>4, <3>1, <3>2, <3>3, <4>1, LoosensType
    <3>4. CASE client' = Reset(again, FALSE) /\ server' = NoSession
               /\ UNCHANGED <<acked, loose>>
      BY <1>1, <1>2, <2>1, <2>4, <3>1, <3>2, <3>4, FineAfter
    <3> QED
      BY <2>4, <3>3, <3>4
  <2> QED
    BY <1>10, <2>1, <2>2, <2>3, <2>4 DEF ClientQuery
<1>11. ASSUME NEW h \in Txns, Begin(h)
       PROVE  StepType /\ UNCHANGED stmtVars
  BY <1>1, <1>2, <1>11, FineAfter DEF Begin, States
<1>12. ASSUME NEW h \in Txns, Commit(h)
       PROVE  StepType /\ UNCHANGED stmtVars
  <2>1. txn' \in [Txns -> States] /\ result' \in [Txns -> Results]
        /\ UNCHANGED <<txnSession, stmtVars, log, history>>
    BY <1>1, <1>12, EndsTypes DEF Commit, Results
  <2>2. Fine([client EXCEPT !.auto_commit = TRUE])
    BY <1>1, FineAfter
  <2>3. faults' \in Nat
    BY <1>1, <1>2, <1>12, FaultType DEF Commit, Lost
  <2>4. CASE UNCHANGED <<client, server, durable, faults>>
    BY <1>1, <1>2, <2>1, <2>4
  <2>5. CASE Commits(server, {}) /\ client' = [client EXCEPT !.auto_commit = TRUE]
    BY <1>1, <1>2, <2>1, <2>2, <2>3, <2>5, UnitTypes
  <2>6. CASE Discards(server) /\ UNCHANGED client
    <3>1. server' \in ServerType /\ durable' \subseteq Writes
      BY <1>1, <2>6, UnitTypes
    <3> QED
      BY <1>1, <1>2, <2>1, <2>3, <2>6, <3>1
  <2>7. CASE Lost(client, server) /\ durable' \in {durable, durable \cup server.open}
    BY <1>1, <1>2, <1>3, <2>1, <2>7, LostFine
  <2> QED
    BY <1>12, <2>4, <2>5, <2>6, <2>7 DEF Commit
<1>13. ASSUME NEW h \in Txns, Rollback(h)
       PROVE  StepType /\ UNCHANGED stmtVars
  <2>1. txn' \in [Txns -> States] /\ result' \in [Txns -> Results]
        /\ UNCHANGED <<durable, txnSession, stmtVars, log, history>>
    BY <1>1, <1>13, EndsTypes DEF Rollback, Results
  <2>2. Fine([client EXCEPT !.auto_commit = TRUE])
        /\ [server EXCEPT !.open = {}] \in ServerType
    BY <1>1, FineAfter DEF ServerType
  <2>3. faults' \in Nat
    BY <1>1, <1>2, <1>13, FaultType DEF Rollback, Lost
  <2>4. Fine(client') /\ server' \in ServerType
    BY <1>1, <1>2, <1>13, <2>2, LostFine DEF Rollback
  <2> QED
    BY <1>2, <2>1, <2>3, <2>4
<1>14. ASSUME NEW h \in Txns, Drop(h)
       PROVE  StepType /\ UNCHANGED stmtVars
  <2>1. txn' \in [Txns -> States] /\ result' \in [Txns -> Results]
    BY <1>1, <1>14, EndsTypes DEF Drop, Results
  <2> QED
    BY <1>1, <1>2, <1>14, <2>1 DEF Drop
<1>15. ASSUME NEW h \in Txns, Cleanup(h)
       PROVE  StepType /\ UNCHANGED stmtVars
  <2>1. txn' \in [Txns -> States]
        /\ UNCHANGED <<durable, txnSession, result, stmtVars, log, history>>
    BY <1>2, <1>15 DEF Cleanup, States
  <2>2. Fine([client EXCEPT !.auto_commit = TRUE])
        /\ [server EXCEPT !.open = {}] \in ServerType
    BY <1>1, FineAfter DEF ServerType
  <2>3. faults' \in Nat
    BY <1>1, <1>2, <1>15, FaultType DEF Cleanup
  <2>4. Fine(client') /\ server' \in ServerType
    BY <1>1, <1>2, <1>15, <2>2 DEF Cleanup
  <2> QED
    BY <1>2, <2>1, <2>3, <2>4
<1>16. ASSUME NEW h \in Txns, NEW w \in Writes, TxnWrite(h, w)
       PROVE  StepType /\ UNCHANGED stmtVars
  BY <1>1, <1>2, <1>16, RunTypes DEF TxnWrite
<1>17. ASSUME NEW s \in Stmts, NEW w \in Writes, Execute(s, w)
       PROVE  StepType /\ UNCHANGED stmtVars
  <2>1. UnitOf(s) \in Txns \cup {Nobody}
    BY DEF UnitOf
  <2> QED
    BY <1>1, <1>2, <1>17, <2>1, RunTypes DEF Execute
<1>18. ASSUME NEW s \in Stmts, NEW v \in Writes, NEW w \in Writes,
              ExecuteBatch(s, v, w)
       PROVE  StepType /\ UNCHANGED stmtVars
  <2>1. UnitOf(s) \in Txns \cup {Nobody} /\ {v, w} \in SUBSET Writes
    BY DEF UnitOf
  <2>2. /\ issued' \subseteq Writes
        /\ unit' \in [Writes -> Txns \cup {Nobody}]
        /\ UNCHANGED <<txnVars, stmtVars, userClosed>>
    BY <1>1, <1>18, <2>1, IssueTypes DEF ExecuteBatch
  <2>3. acked' \subseteq Writes /\ failedRows' \subseteq Writes
        /\ loose' \subseteq Writes
    BY <1>1, <1>2, <1>18 DEF ExecuteBatch, RowsFail, Loosens
  <2>4. Fine(client') /\ faults' \in Nat
    BY <1>1, <1>2, <1>18, FaultType, LostFine DEF ExecuteBatch
  <2>5. server' \in ServerType /\ durable' \subseteq Writes
    BY <1>1, <1>2, <1>3, <1>18, <2>1, UnitTypes, LandsTypes, LostFine
    DEF ExecuteBatch
  <2> QED
    BY <1>2, <2>2, <2>3, <2>4, <2>5
<1>19. CASE UNCHANGED vars
  BY <1>1, <1>2, <1>19 DEF vars
<1> QED
  BY <1>4, <1>5, <1>6, <1>7, <1>8, <1>9, <1>10, <1>11, <1>12, <1>13, <1>14,
     <1>15, <1>16, <1>17, <1>18, <1>19 DEF ClientStep
-----------------------------------------------------------------------------
(* The steps that allocate or release a section *)

\* The statement s takes section n, which no other statement holds.
LEMMA PrepareStep ==
    ASSUME IInv, NEW c, Fine(c), c.connected, NEW sv \in ServerType,
           NEW s \in Stmts, NEW h \in Txns \cup {Nobody}, PrepareOn(c, sv, s, h),
           UNCHANGED <<durable, txnVars, log, history>>
    PROVE  IInv'
<1> DEFINE n == Allocated(c)
           a == AfterAllocation(c)
<1>1. Typed /\ c \in ClientType /\ client \in ClientType /\ Partition(c)
  BY FineClient DEF IInv, Fine
<1>2. CanAllocate(c) /\ stmt[s] = "new"
  BY DEF PrepareOn
<1>3. /\ n \in Sections /\ n \notin HeldIn(c)
      /\ a \in ClientType /\ a.connected = c.connected
      /\ a.session_generation = c.session_generation
      /\ IsInjective(a.free_prepared_sections)
      /\ Range(a.free_prepared_sections) \cap HeldIn(c) = {}
      /\ n \notin Range(a.free_prepared_sections)
      /\ Range(a.free_prepared_sections) \cup HeldIn(c) \cup {n}
             = 1..(a.next_prepared_section - 1)
  BY <1>1, <1>2, AllocationFacts
<1>4. sv \in ServerType /\ [sv EXCEPT !.prepared[n] = s] \in ServerType
  BY <1>3 DEF ServerType
<1> HIDE DEF n, a
<1>5. CASE /\ client' = a
           /\ server' = [sv EXCEPT !.prepared[n] = s]
           /\ stmt' = [stmt EXCEPT ![s] = "open"]
           /\ stmtSession' = [stmtSession EXCEPT ![s] = c.session_generation]
           /\ section' = [section EXCEPT ![s] = n]
           /\ stmtTxn' = [stmtTxn EXCEPT ![s] = h]
           /\ UNCHANGED faults
  <2>1. /\ client.session_generation \in Nat
        /\ c.session_generation \in Nat
        /\ client.session_generation <= client'.session_generation
        /\ client'.session_generation = c.session_generation
    BY <1>1, <1>3, <1>5 DEF ClientType, Fine
  <2>2. /\ stmt \in [Stmts -> States] /\ stmtSession \in [Stmts -> Nat]
        /\ section \in [Stmts -> 0..MaxSection]
        /\ stmtTxn \in [Stmts -> Txns \cup {Nobody}]
        /\ txnSession \in [Txns -> Nat]
    BY <1>1 DEF Typed, TypeOK
  <2>3. /\ stmt' \in [Stmts -> States] /\ stmtSession' \in [Stmts -> Nat]
        /\ section' \in [Stmts -> 0..MaxSection]
        /\ stmtTxn' \in [Stmts -> Txns \cup {Nobody}]
    BY <1>3, <1>5, <2>1, <2>2, SessionAssumption DEF States, Sections
  <2>4. /\ client' \in ClientType /\ server' \in ServerType
        /\ \A t \in Stmts : stmt'[t] \in {"open", "dropped"} =>
                                section'[t] \in Sections
    BY <1>1, <1>3, <1>4, <1>5, <2>2 DEF Typed
  <2>5. Typed'
    BY <1>1, <1>5, <2>3, <2>4
    DEF Typed, TypeOK, ClientType, ServerType, txnVars, log, history
  <2>6. Generations'
    BY <1>5, <2>1, <2>2 DEF IInv, Generations, txnVars
  <2>7. /\ stmt'[s] = "open" /\ stmtSession'[s] = c.session_generation
        /\ section'[s] = n
        /\ \A t \in Stmts \ {s} : /\ stmt'[t] = stmt[t]
                                  /\ stmtSession'[t] = stmtSession[t]
                                  /\ section'[t] = section[t]
    BY <1>5, <2>2
  <2>8. /\ Holds(s)' /\ ~HoldsIn(c, s)
        /\ \A t \in Stmts \ {s} : Holds(t)' <=> HoldsIn(c, t)
    BY <1>2, <2>1, <2>7 DEF Holds, HoldsIn, Valid
  <2>9. HeldSections' = HeldIn(c) \cup {n}
    BY <2>7, <2>8 DEF HeldSections, HeldIn
  <2>10. \A t \in Stmts : HoldsIn(c, t) => section[t] \in HeldIn(c)
    BY DEF HeldIn
  <2>11. \A t, r \in Stmts : t # r /\ Holds(t)' /\ Holds(r)' =>
                                 section'[t] # section'[r]
    BY <1>1, <1>3, <2>7, <2>8, <2>10 DEF Partition
  <2>12. client'.free_prepared_sections = a.free_prepared_sections
         /\ client'.next_prepared_section = a.next_prepared_section
    BY <1>5
  <2>13. SectionPartition'
    BY <1>3, <2>9, <2>11, <2>12 DEF SectionPartition
  <2> QED
    BY <2>5, <2>6, <2>13 DEF IInv
<1>6. CASE /\ Fault /\ client' = Released(a, n)
           /\ server' \in {sv, [sv EXCEPT !.prepared[n] = s]}
           /\ UNCHANGED stmtVars
  <2>1. /\ client' \in ClientType
        /\ client'.connected = c.connected
        /\ client'.session_generation = c.session_generation
        /\ client'.next_prepared_section = a.next_prepared_section
        /\ IsInjective(client'.free_prepared_sections)
        /\ Range(client'.free_prepared_sections)
               = Range(a.free_prepared_sections) \cup {n}
    BY <1>3, <1>6, ReleasedFacts
  <2>2. /\ HeldSections' = HeldIn(c)
        /\ \A t \in Stmts : Holds(t)' <=> HoldsIn(c, t)
    BY <1>6, <2>1 DEF HeldSections, HeldIn, Holds, HoldsIn, Valid, stmtVars
  <2>3. \A t, r \in Stmts : t # r /\ Holds(t)' /\ Holds(r)' =>
                                section'[t] # section'[r]
    BY <1>1, <1>6, <2>2 DEF Partition, stmtVars
  <2>4. SectionPartition'
    BY <1>3, <2>1, <2>2, <2>3 DEF SectionPartition
  <2>5. client.session_generation <= client'.session_generation
    BY <2>1 DEF Fine
  <2>6. faults' \in Nat /\ server' \in ServerType
    BY <1>1, <1>4, <1>6, FaultType
  <2>7. Typed'
    BY <1>1, <1>6, <2>1, <2>6
    DEF Typed, TypeOK, ClientType, ServerType, txnVars, stmtVars, log, history
  <2>8. Generations'
    BY <1>1, <1>6, <2>1, <2>5
    DEF IInv, Generations, Typed, TypeOK, ClientType, txnVars, stmtVars
  <2> QED
    BY <2>4, <2>7, <2>8 DEF IInv
<1>7. CASE Lost(c, sv) /\ UNCHANGED stmtVars
  <2>1. Fine(client') /\ server' \in ServerType /\ faults' \in Nat
    BY <1>7, LostFine
  <2>2. StepType
    BY <1>1, <2>1 DEF StepType, Typed, TypeOK, txnVars, log, history
  <2> QED
    BY <1>7, <2>2, StepTypeSuffices DEF txnVars
<1> QED
  BY <1>5, <1>6, <1>7 DEF PrepareOn, n, a

\* A statement keeps its section until it is closed or its cleanup has run,
\* and a section given back then was not free before.
LEMMA ReleaseStep ==
    ASSUME IInv, NEW s \in Stmts,
           CloseStmt(s) \/ DropStmt(s) \/ CleanupStmt(s)
    PROVE  IInv'
<1>1. Typed /\ client \in ClientType /\ (client.connected => Partition(client))
  BY FineClient, PartitionMeans DEF IInv
<1>2. /\ stmt[s] \in {"open", "dropped"} /\ section[s] \in Sections
      /\ UNCHANGED <<server, durable, txnVars, stmtSession, section, stmtTxn,
                     log, history, faults>>
  BY <1>1 DEF CloseStmt, DropStmt, CleanupStmt, Typed
<1>3. /\ stmt \in [Stmts -> States]
      /\ stmt' = [stmt EXCEPT ![s] = stmt'[s]]
      /\ stmt'[s] \in {"dropped", "gone"}
  BY <1>1 DEF CloseStmt, DropStmt, CleanupStmt, Typed, TypeOK
<1>4. client' = client \/ client' = Released(client, section[s])
  BY DEF CloseStmt, DropStmt, CleanupStmt, ReleaseSection
<1>5. /\ client' \in ClientType
      /\ client'.connected = client.connected
      /\ client'.session_generation = client.session_generation
      /\ client'.next_prepared_section = client.next_prepared_section
  BY <1>1, <1>2, <1>4, ReleasedFacts
<1>6. Typed'
  <2>1. stmt' \in [Stmts -> States]
    BY <1>3 DEF States
  <2>2. \A t \in Stmts : stmt'[t] \in {"open", "dropped"} =>
                             section'[t] \in Sections
    BY <1>1, <1>2, <1>3 DEF Typed
  <2> QED
    BY <1>1, <1>2, <1>5, <2>1, <2>2
    DEF Typed, TypeOK, ClientType, txnVars, log, history
<1>7. Generations'
  BY <1>2, <1>5 DEF IInv, Generations, txnVars
<1>8. \A t \in Stmts \ {s} : Holds(t)' <=> Holds(t)
  BY <1>2, <1>3, <1>5 DEF Holds, Valid
<1>9. SectionPartition'
  <2> SUFFICES ASSUME client'.connected
               PROVE  LET free == client'.free_prepared_sections IN
                      /\ IsInjective(free)
                      /\ Range(free) \cap HeldSections' = {}
                      /\ Range(free) \cup HeldSections'
                             = 1..(client'.next_prepared_section - 1)
                      /\ \A r, t \in Stmts : r # t /\ Holds(r)' /\ Holds(t)' =>
                                                 section'[r] # section'[t]
    BY DEF SectionPartition
  <2>1. LET free == client.free_prepared_sections IN
        /\ IsInjective(free)
        /\ Range(free) \cap HeldSections = {}
        /\ Range(free) \cup HeldSections = 1..(client.next_prepared_section - 1)
        /\ \A r, t \in Stmts : r # t /\ Holds(r) /\ Holds(t) =>
                                   section[r] # section[t]
    BY <1>5 DEF IInv, SectionPartition
  <2>2. CASE client' = client /\ (Holds(s)' <=> Holds(s))
    <3>1. \A t \in Stmts : Holds(t)' <=> Holds(t)
      BY <1>8, <2>2
    <3>2. HeldSections' = HeldSections
      BY <1>2, <3>1 DEF HeldSections
    <3> QED
      BY <1>2, <2>1, <2>2, <3>1, <3>2
  <2>3. CASE client' = Released(client, section[s]) /\ Holds(s) /\ ~Holds(s)'
    <3>1. section[s] \in HeldSections
      BY <2>3 DEF HeldSections
    <3>2. HeldSections' = HeldSections \ {section[s]}
      BY <1>2, <1>8, <2>1, <2>3 DEF HeldSections
    <3>3. /\ IsInjective(client'.free_prepared_sections)
          /\ Range(client'.free_prepared_sections)
                 = Range(client.free_prepared_sections) \cup {section[s]}
      BY <1>1, <1>2, <2>1, <2>3, <3>1, ReleasedFacts
    <3>4. \A r, t \in Stmts : r # t /\ Holds(r)' /\ Holds(t)' =>
                                  section'[r] # section'[t]
      BY <1>2, <1>8, <2>1, <2>3
    <3> QED
      BY <1>5, <2>1, <3>1, <3>2, <3>3, <3>4
  <2>4. \/ client' = client /\ (Holds(s)' <=> Holds(s))
        \/ client' = Released(client, section[s]) /\ Holds(s) /\ ~Holds(s)'
    <3>1. CASE DropStmt(s)
      BY <1>2, <1>3, <3>1 DEF DropStmt, Holds, Valid
    <3>2. CASE CloseStmt(s) \/ CleanupStmt(s)
      <4>1. stmt'[s] = "gone" /\ ReleaseSection(s)
        BY <1>3, <3>2 DEF CloseStmt, CleanupStmt
      <4> QED
        BY <1>2, <4>1 DEF ReleaseSection, Holds, Valid
    <3> QED
      BY <3>1, <3>2
  <2> QED
    BY <2>2, <2>3, <2>4
<1> QED
  BY <1>6, <1>7, <1>9 DEF IInv
-----------------------------------------------------------------------------
LEMMA InitIInv == Init => IInv
<1> SUFFICES ASSUME Init PROVE IInv
  OBVIOUS
<1>1. <<>> \in Seq(Sections) /\ 1 \in 1..(MaxSection + 1) /\ 0 \in 0..MaxSection
  BY SessionAssumption
<1>2. server \in ServerType
  BY ServerTypes DEF Init
<1>3. Typed
  BY <1>1, <1>2 DEF Init, Typed, TypeOK, ServerType, States, Results
<1>4. Generations /\ SectionPartition
  BY DEF Init, Generations, SectionPartition
<1> QED
  BY <1>3, <1>4 DEF IInv

LEMMA NextIInv == IInv /\ [Next]_vars => IInv'
<1> SUFFICES ASSUME IInv, [Next]_vars PROVE IInv'
  OBVIOUS
<1>1. CASE \/ ClientStep
           \/ \E h \in Txns : \/ Begin(h) \/ Commit(h) \/ Rollback(h)
                              \/ Drop(h) \/ Cleanup(h)
                              \/ \E w \in Writes : TxnWrite(h, w)
           \/ \E s \in Stmts : \/ \E w \in Writes : Execute(s, w)
                               \/ \E v, w \in Writes : ExecuteBatch(s, v, w)
           \/ UNCHANGED vars
  <2>1. StepType /\ UNCHANGED stmtVars
    BY <1>1, PlainStep
  <2>2. UNCHANGED txnSession \/ \E h \in Txns : Begin(h)
    <3>1. CASE ClientStep
      BY <3>1 DEF ClientStep, Connect, ConnectFails, SessionEnds, ClientClose,
                  ClientWrite, ClientCall, ClientQuery, txnVars
    <3>2. CASE \E h \in Txns : \/ Commit(h) \/ Rollback(h) \/ Drop(h) \/ Cleanup(h)
                               \/ \E w \in Writes : TxnWrite(h, w)
      BY <3>2 DEF Commit, Rollback, Drop, Cleanup, TxnWrite, txnVars
    <3>3. CASE \E s \in Stmts : \/ \E w \in Writes : Execute(s, w)
                                \/ \E v, w \in Writes : ExecuteBatch(s, v, w)
      BY <3>3 DEF Execute, ExecuteBatch, txnVars
    <3>4. CASE UNCHANGED vars
      BY <3>4 DEF vars, txnVars
    <3> QED
      BY <1>1, <3>1, <3>2, <3>3, <3>4
  <2> QED
    BY <2>1, <2>2, StepTypeSuffices
<1>2. ASSUME NEW h \in Txns, NEW s \in Stmts, TxnPrepare(h, s)
      PROVE  IInv'
  BY <1>2, FineClient, PrepareStep DEF TxnPrepare
<1>3. ASSUME NEW s \in Stmts, ClientPrepare(s)
      PROVE  IInv'
  BY <1>3, FineClient, PrepareStep DEF ClientPrepare
<1>4. ASSUME NEW s \in Stmts, CloseStmt(s) \/ DropStmt(s) \/ CleanupStmt(s)
      PROVE  IInv'
  BY <1>4, ReleaseStep
<1> QED
  BY <1>1, <1>2, <1>3, <1>4 DEF Next, TxnStep, StmtStep

THEOREM Invariance == Spec => []IInv
BY InitIInv, NextIInv, PTL DEF Spec

\* ClientInner, the server's session and the handles stay well typed through
\* every operation, refusal, lost reply and cleanup; in particular a section
\* number never leaves 0..MaxSection and next_prepared_section never passes
\* PREPARED_STATEMENT_MAX_SECTION + 1 (connection.rs allocate_prepared_section).
THEOREM TypeCorrect == Spec => []TypeOK
<1>1. IInv => TypeOK
  BY DEF IInv, Typed
<1> QED
  BY Invariance, <1>1, PTL

\* allocate_prepared_section and release_prepared_section (connection.rs),
\* called by prepare, close and the cleanup of a dropped statement, keep the
\* sections handed out in a session partitioned into free and owned ones.
THEOREM SectionsPartitioned == Spec => []SectionPartition
<1>1. IInv => SectionPartition
  BY DEF IInv
<1> QED
  BY Invariance, <1>1, PTL
-----------------------------------------------------------------------------
(* The statement that a section executes *)

\* RunsItsOwnSql, also for the statements that are due for cleanup.
OwnSql == \A s \in Stmts :
    client.connected /\ server.alive /\ Holds(s) => server.prepared[section[s]] = s

\* A step that touches no statement ends the session, starts another one, or
\* leaves the server's sections alone.
Kept == \/ ~client'.connected
        \/ ~server'.alive
        \/ client.session_generation < client'.session_generation
        \/ /\ client.connected /\ server.alive
           /\ server'.prepared = server.prepared
           /\ client'.session_generation = client.session_generation

LEMMA KeptSuffices ==
    ASSUME IInv, OwnSql, UNCHANGED stmtVars, client' \in ClientType, Kept
    PROVE  OwnSql'
<1>1. \A s \in Stmts : stmtSession[s] \in Nat
  BY DEF IInv, Typed, TypeOK
<1>2. client.session_generation \in Nat /\ client'.session_generation \in Nat
  BY FineClient DEF ClientType
<1>3. CASE client.session_generation < client'.session_generation
  <2>1. \A s \in Stmts : ~Holds(s)'
    BY <1>1, <1>2, <1>3 DEF Holds, Valid, IInv, Generations, stmtVars
  <2> QED
    BY <2>1 DEF OwnSql
<1> QED
  BY <1>3 DEF Kept, OwnSql, Holds, Valid, stmtVars

\* An operation starts in the session the client is in, or in a new one.
LEMMA EnteredKept ==
    ASSUME IInv, Ready
    PROVE  /\ Entered.session_generation \in Nat
           /\ \/ client.session_generation < Entered.session_generation
              \/ client.connected /\ Entered = client /\ ServerAt = server
<1>1. client \in ClientType /\ Fine(client)
  BY FineClient
<1>2. CASE client.connected
  BY <1>1, <1>2 DEF Entered, ServerAt, ClientType
<1>3. CASE ~client.connected
  BY <1>1, <1>3 DEF Entered, Established, ClientType
<1> QED
  BY <1>2, <1>3

LEMMA UnitKeepsSections ==
    ASSUME NEW sv \in ServerType, NEW ws,
           Commits(sv, ws) \/ Discards(sv) \/ Adds(sv, ws)
    PROVE  server'.prepared = sv.prepared /\ server'.alive = sv.alive
BY DEF Commits, Discards, Adds, ServerType

LEMMA LostKept ==
    ASSUME NEW c, NEW sv, Lost(c, sv)
    PROVE  ~server'.alive
BY DEF Lost, NoSession

\* The client and the server after an operation that began with c and sv.
LEMMA PlainKept ==
    ASSUME IInv,
           \/ ClientStep
           \/ \E h \in Txns : \/ Begin(h) \/ Commit(h) \/ Rollback(h)
                              \/ Drop(h) \/ Cleanup(h)
                              \/ \E w \in Writes : TxnWrite(h, w)
           \/ \E s \in Stmts : \/ \E w \in Writes : Execute(s, w)
                               \/ \E v, w \in Writes : ExecuteBatch(s, v, w)
           \/ UNCHANGED vars
    PROVE  Kept
<1>1. /\ client \in ClientType /\ server \in ServerType
      /\ Fine(client)
      /\ Ready => Fine(Entered) /\ Entered \in ClientType
                  /\ Entered.connected /\ ServerAt \in ServerType
      /\ Ready => \/ client.session_generation < Entered.session_generation
                  \/ client.connected /\ Entered = client /\ ServerAt = server
  BY FineClient, EnteredKept DEF Fine
<1>2. \A b \in BOOLEAN :
          LET c == [client EXCEPT !.auto_commit = b] IN
          /\ c.connected = client.connected
          /\ c.session_generation = client.session_generation
  BY <1>1 DEF ClientType
<1>3. /\ [server EXCEPT !.open = {}].prepared = server.prepared
      /\ [server EXCEPT !.open = {}].alive = server.alive
      /\ ~NoSession.alive
  BY <1>1 DEF ServerType, NoSession
<1>4. ASSUME NEW c \in ClientType, NEW sv \in ServerType, NEW w \in Writes,
             NEW u, Run(c, sv, w, u),
             \/ client.session_generation < c.session_generation
             \/ client.connected /\ c = client /\ sv = server
      PROVE  Kept
  <2>1. CASE Lost(c, sv)
    BY <2>1, LostKept DEF Kept
  <2>2. CASE sv.alive /\ client' = c /\ (Lands(c, sv, {w}) \/ Lands(c, sv, {}))
    <3>1. server'.prepared = sv.prepared
      BY <2>2, UnitKeepsSections DEF Lands
    <3> QED
      BY <1>1, <1>4, <2>2, <3>1 DEF Kept, Fine
  <2> QED
    BY <1>4, <2>1, <2>2 DEF Run
<1>5. CASE Connect \/ ConnectFails
  BY <1>1, <1>5, FineAfter
  DEF Connect, ConnectFails, Established, Reset, Kept, ClientType
<1>6. CASE SessionEnds \/ ClientClose
  BY <1>3, <1>6 DEF SessionEnds, ClientClose, Kept
<1>7. ASSUME NEW w \in Writes, ClientWrite(w)
      PROVE  Kept
  BY <1>1, <1>4, <1>7 DEF ClientWrite
<1>8. ASSUME NEW w \in Writes, ClientCall(w)
      PROVE  Kept
  <2>1. CASE Lost(Entered, ServerAt)
    BY <2>1, LostKept DEF Kept
  <2>2. CASE /\ ServerAt.alive /\ client' = Entered
             /\ Lands(Entered, ServerAt, {w}) \/ Adds(ServerAt, {w})
    <3>1. server'.prepared = ServerAt.prepared
      BY <1>1, <1>8, <2>2, UnitKeepsSections DEF Lands, ClientCall
    <3> QED
      BY <1>1, <1>8, <2>2, <3>1 DEF Kept, ClientCall
  <2> QED
    BY <1>8, <2>1, <2>2 DEF ClientCall
<1>9. ASSUME NEW ws \in SUBSET Writes, ClientQuery(ws)
      PROVE  Kept
  <2>1. CASE Lost(Entered, ServerAt)
    BY <2>1, LostKept DEF Kept
  <2>2. CASE ServerAt.alive /\ client' = Entered /\ Adds(ServerAt, ws)
    <3>1. server'.prepared = ServerAt.prepared
      BY <1>1, <1>9, <2>2, UnitKeepsSections DEF ClientQuery
    <3> QED
      BY <1>1, <1>9, <2>2, <3>1 DEF Kept, ClientQuery
  <2>3. ASSUME NEW k \in 1..MaxRetries, NEW again,
               again = Established(
                   [Entered EXCEPT !.session_generation = @ + (k - 1)]),
               client' = again \/ server' = NoSession
        PROVE  Kept
    <3>1. Ready /\ Entered.session_generation < again.session_generation
      BY <1>1, <1>9, <2>3, FineRetried DEF ClientQuery
    <3>2. /\ client.session_generation \in Nat
          /\ client.session_generation <= Entered.session_generation
          /\ Entered.session_generation \in Nat
          /\ again.session_generation \in Nat
      BY <1>1, <1>9, <2>3, <3>1, FineRetried DEF Fine, ClientType
    <3>3. client.session_generation < again.session_generation
      BY <3>1, <3>2
    <3> QED
      BY <1>3, <2>3, <3>3 DEF Kept
  <2> QED
    BY <1>9, <2>1, <2>2, <2>3 DEF ClientQuery
<1>10. ASSUME NEW h \in Txns, Begin(h)
       PROVE  Kept
  <2>1. /\ client'.session_generation = Entered.session_generation
        /\ server' = ServerAt /\ Ready
    BY <1>1, <1>10 DEF Begin, ClientType
  <2>2. CASE client.connected /\ Entered = client /\ ServerAt = server
    BY <2>1, <2>2 DEF Kept
  <2> QED
    BY <1>1, <2>1, <2>2 DEF Kept
<1>11. ASSUME NEW h \in Txns, Commit(h)
       PROVE  Kept
  <2>1. CASE Lost(client, server)
    BY <2>1, LostKept DEF Kept
  <2>2. CASE /\ Commits(server, {}) \/ Discards(server)
             /\ client' \in {client, [client EXCEPT !.auto_commit = TRUE]}
    BY <1>1, <1>2, <2>2, UnitKeepsSections DEF Kept
  <2>3. CASE UNCHANGED <<client, server>>
    BY <2>3 DEF Kept
  <2> QED
    BY <1>11, <2>1, <2>2, <2>3 DEF Commit
<1>12. ASSUME NEW h \in Txns, Rollback(h) \/ Drop(h) \/ Cleanup(h)
       PROVE  Kept
  <2>1. CASE Lost(client, server)
    BY <2>1, LostKept DEF Kept
  <2>2. CASE /\ server' \in {server, NoSession, [server EXCEPT !.open = {}]}
             /\ client' \in {client, [client EXCEPT !.auto_commit = TRUE]}
    <3>1. CASE server' = NoSession
      BY <1>3, <3>1 DEF Kept
    <3>2. CASE server' # NoSession
      <4>1. /\ server'.prepared = server.prepared
            /\ server'.alive = server.alive
        BY <1>3, <2>2, <3>2
      <4>2. /\ client'.connected = client.connected
            /\ client'.session_generation = client.session_generation
        BY <1>2, <2>2
      <4> QED
        BY <4>1, <4>2 DEF Kept
    <3> QED
      BY <3>1, <3>2
  <2> QED
    BY <1>12, <2>1, <2>2 DEF Rollback, Drop, Cleanup
<1>13. ASSUME NEW h \in Txns, NEW w \in Writes, TxnWrite(h, w)
       PROVE  Kept
  BY <1>1, <1>4, <1>13 DEF TxnWrite
<1>14. ASSUME NEW s \in Stmts, NEW w \in Writes, Execute(s, w)
       PROVE  Kept
  BY <1>1, <1>4, <1>14 DEF Execute, Executable
<1>15. ASSUME NEW s \in Stmts, NEW v \in Writes, NEW w \in Writes,
              ExecuteBatch(s, v, w)
       PROVE  Kept
  <2>1. CASE Lost(client, server)
    BY <2>1, LostKept DEF Kept
  <2>2. CASE /\ UNCHANGED client
             /\ \/ Lands(client, server, {v, w}) \/ Discards(server)
                \/ \E ws \in SUBSET Writes : Adds(server, ws)
    <3>1. server'.prepared = server.prepared /\ server'.alive = server.alive
      BY <1>1, <2>2, UnitKeepsSections DEF Lands
    <3> QED
      BY <2>2, <3>1 DEF Kept
  <2>3. {v} \in SUBSET Writes /\ {} \in SUBSET Writes
    OBVIOUS
  <2> QED
    BY <1>15, <2>1, <2>2, <2>3 DEF ExecuteBatch
<1>16. CASE UNCHANGED vars
  BY <1>16 DEF vars, Kept
<1> QED
  BY <1>5, <1>6, <1>7, <1>8, <1>9, <1>10, <1>11, <1>12, <1>13, <1>14, <1>15,
     <1>16 DEF ClientStep

\* The section a statement is prepared in belongs to no other statement, so
\* the server forgets nothing that another one still executes.
LEMMA PrepareOwnSql ==
    ASSUME IInv, OwnSql, Ready, NEW s \in Stmts, NEW h,
           PrepareOn(Entered, ServerAt, s, h)
    PROVE  OwnSql'
<1> DEFINE n == Allocated(Entered)
           a == AfterAllocation(Entered)
<1>1. /\ Entered \in ClientType /\ ServerAt \in ServerType
      /\ Partition(Entered) /\ Typed /\ client \in ClientType
      /\ Fine(Entered)
  BY EnteredFacts, FineClient DEF IInv
<1>2. CanAllocate(Entered) /\ stmt[s] = "new"
  BY DEF PrepareOn
<1>3. /\ n \in Sections /\ n \notin HeldIn(Entered)
      /\ a \in ClientType
      /\ a.session_generation = Entered.session_generation
  BY <1>1, <1>2, AllocationFacts
<1>4. /\ stmt \in [Stmts -> States] /\ stmtSession \in [Stmts -> Nat]
      /\ section \in [Stmts -> 0..MaxSection]
  BY <1>1 DEF Typed, TypeOK
\* What the server has for the statements of the session before the step.
<1>5. ASSUME NEW t \in Stmts, HoldsIn(Entered, t), ServerAt.alive
      PROVE  section[t] \in HeldIn(Entered) /\ ServerAt.prepared[section[t]] = t
  <2>1. section[t] \in HeldIn(Entered)
    BY <1>5 DEF HeldIn
  <2>2. client.connected /\ Entered = client /\ ServerAt = server
    BY <1>1, <1>4, <1>5, EnteredKept
    DEF HoldsIn, IInv, Generations, ClientType
  <2> QED
    BY <1>5, <2>1, <2>2 DEF OwnSql, Holds, HoldsIn, Valid
<1> HIDE DEF n, a
<1>6. [ServerAt EXCEPT !.prepared[n] = s].prepared
          = [ServerAt.prepared EXCEPT ![n] = s]
  BY <1>1 DEF ServerType
<1>7. /\ n \in DOMAIN ServerAt.prepared
      /\ \A t \in Stmts : HoldsIn(Entered, t) => section[t] # n
  BY <1>1, <1>3 DEF ServerType, HeldIn
<1>8. \A t \in Stmts : HoldsIn(Entered, t) /\ ServerAt.alive =>
          /\ ServerAt.prepared[section[t]] = t
          /\ [ServerAt.prepared EXCEPT ![n] = s][section[t]] = t
  BY <1>1, <1>5, <1>7 DEF ServerType
<1>9. CASE /\ ServerAt.alive /\ client' = a
           /\ server' = [ServerAt EXCEPT !.prepared[n] = s]
           /\ stmt' = [stmt EXCEPT ![s] = "open"]
           /\ stmtSession' = [stmtSession EXCEPT ![s] = Entered.session_generation]
           /\ section' = [section EXCEPT ![s] = n]
  <2>1. section'[s] = n /\ server'.prepared[n] = s
    BY <1>4, <1>6, <1>7, <1>9
  <2>2. ASSUME NEW t \in Stmts \ {s}, Holds(t)'
        PROVE  server'.prepared[section'[t]] = t
    <3>1. HoldsIn(Entered, t) /\ section'[t] = section[t]
      BY <1>3, <1>4, <1>9, <2>2 DEF Holds, HoldsIn, Valid
    <3> QED
      BY <1>6, <1>8, <1>9, <3>1
  <2> QED
    BY <2>1, <2>2 DEF OwnSql
<1>10. CASE /\ ServerAt.alive /\ client' = Released(a, n)
            /\ server' \in {ServerAt, [ServerAt EXCEPT !.prepared[n] = s]}
            /\ UNCHANGED stmtVars
  <2>1. client'.session_generation = Entered.session_generation
    BY <1>3, <1>10, ReleasedFacts
  <2>2. \A t \in Stmts : Holds(t)' => HoldsIn(Entered, t)
    BY <1>10, <2>1 DEF Holds, HoldsIn, Valid, stmtVars
  <2>3. ASSUME NEW t \in Stmts, Holds(t)'
        PROVE  server'.prepared[section'[t]] = t
    BY <1>6, <1>8, <1>10, <2>2, <2>3 DEF stmtVars
  <2> QED
    BY <2>3 DEF OwnSql
<1>11. CASE Lost(Entered, ServerAt)
  BY <1>11, LostKept DEF OwnSql
<1> QED
  BY <1>9, <1>10, <1>11 DEF PrepareOn, n, a

LEMMA ReleaseOwnSql ==
    ASSUME IInv, OwnSql, NEW s \in Stmts,
           CloseStmt(s) \/ DropStmt(s) \/ CleanupStmt(s)
    PROVE  OwnSql'
<1>1. /\ stmt[s] \in {"open", "dropped"} /\ section[s] \in Sections
      /\ UNCHANGED <<server, stmtSession, section>>
      /\ stmt \in [Stmts -> States] /\ client \in ClientType
  BY FineClient DEF CloseStmt, DropStmt, CleanupStmt, IInv, Typed, TypeOK
<1>2. \A t \in Stmts : stmt'[t] \in {"open", "dropped"} =>
                           stmt[t] \in {"open", "dropped"}
  BY <1>1 DEF CloseStmt, DropStmt, CleanupStmt
<1>3. client' = client \/ client' = Released(client, section[s])
  BY DEF CloseStmt, DropStmt, CleanupStmt, ReleaseSection
<1>4. /\ client'.connected = client.connected
      /\ client'.session_generation = client.session_generation
  BY <1>1, <1>3, ReleasedFacts
<1> QED
  BY <1>1, <1>2, <1>4 DEF OwnSql, Holds, Valid

LEMMA InitOwnSql == Init => OwnSql
BY DEF Init, OwnSql

LEMMA NextOwnSql == IInv /\ IInv' /\ OwnSql /\ [Next]_vars => OwnSql'
<1> SUFFICES ASSUME IInv, IInv', OwnSql, [Next]_vars PROVE OwnSql'
  OBVIOUS
<1>1. CASE \/ ClientStep
           \/ \E h \in Txns : \/ Begin(h) \/ Commit(h) \/ Rollback(h)
                              \/ Drop(h) \/ Cleanup(h)
                              \/ \E w \in Writes : TxnWrite(h, w)
           \/ \E s \in Stmts : \/ \E w \in Writes : Execute(s, w)
                               \/ \E v, w \in Writes : ExecuteBatch(s, v, w)
           \/ UNCHANGED vars
  <2>1. StepType /\ UNCHANGED stmtVars
    BY <1>1, PlainStep
  <2> QED
    BY <1>1, <2>1, PlainKept, KeptSuffices DEF StepType, Fine
<1>2. ASSUME NEW h \in Txns, NEW s \in Stmts, TxnPrepare(h, s)
      PROVE  OwnSql'
  <2>1. Ready /\ Entered = client /\ ServerAt = server
    BY <1>2 DEF TxnPrepare, Ready, Entered, ServerAt
  <2> QED
    BY <1>2, <2>1, PrepareOwnSql DEF TxnPrepare
<1>3. ASSUME NEW s \in Stmts, ClientPrepare(s)
      PROVE  OwnSql'
  BY <1>3, PrepareOwnSql DEF ClientPrepare
<1>4. ASSUME NEW s \in Stmts, CloseStmt(s) \/ DropStmt(s) \/ CleanupStmt(s)
      PROVE  OwnSql'
  BY <1>4, ReleaseOwnSql
<1> QED
  BY <1>1, <1>2, <1>3, <1>4 DEF Next, TxnStep, StmtStep

\* The generation check and the allocation of sections (statement.rs, and
\* connection.rs allocate_prepared_section) see to it that the section of a
\* statement the handle lets through holds that statement's SQL, across
\* reconnects, refused prepares and cleanups that run late.
THEOREM ExecutesOwnSql == Spec => []RunsItsOwnSql
<1>1. IInv /\ OwnSql => RunsItsOwnSql
  BY DEF OwnSql, RunsItsOwnSql, Executable, Holds
<1> QED
  BY Invariance, InitOwnSql, NextOwnSql, <1>1, PTL DEF Spec
-----------------------------------------------------------------------------
(***************************************************************************)
(* The units of work: who may have work in the server's open unit, when    *)
(* the client is in auto_commit, and what becomes durable.                 *)
(***************************************************************************)

(***************************************************************************)
(* The inductive invariant.  Units says whose work is in the open unit of  *)
(* a server sv that a client c talks to; Ledger says what the writes and   *)
(* the results so far amount to.  Both are stated for any c and sv, since  *)
(* an operation first enters a session and then works in it.               *)
(***************************************************************************)
Live(h) == txn[h] \in {"open", "dropped"}
InSession(c, h) == c.session_generation = txnSession[h]

\* A server that lives has a client that counts as connected; one that does
\* not has rolled its unit back.
Lives(c, sv) ==
    /\ sv.alive => c.connected
    /\ ~sv.alive => sv.open = {}

\* The unit holds acknowledged work of no transaction but a live one of this
\* session, which is in manual mode, and all of that one's while it is open.
Units(c, sv) ==
    /\ Lives(c, sv)
    /\ sv.open \subseteq issued
    /\ \A h \in Txns :
        /\ Live(h) /\ InSession(c, h) /\ c.connected => ~c.auto_commit
        /\ Mine(h) \cap sv.open # {} => Live(h) /\ InSession(c, h)
        /\ txn[h] = "open" /\ InSession(c, h) /\ sv.alive =>
               Mine(h) \subseteq sv.open

\* What the program may be told of a transaction in each state of its handle.
Outcome(h) ==
    /\ txn[h] \in {"new", "open"} => result[h] = "none"
    /\ txn[h] = "dropped" => result[h] \in {"failed", "abandoned"}
    /\ result[h] = "committed" => Mine(h) \subseteq durable
    /\ txn[h] = "open" \/ result[h] \in {"rolled back", "abandoned"} =>
           Mine(h) \cap durable = {}
    /\ Mine(h) \subseteq durable \/ Mine(h) \cap durable = {}

Ledger ==
    /\ durable \cup acked \subseteq issued
    /\ \A g, h \in Txns : Live(g) /\ Live(h) => g = h
    /\ \A h \in Txns : txn[h] = "new" => Mine(h) = {}
    /\ \A h \in Txns : Outcome(h)

\* A statement of a transaction was prepared in the transaction's session.
Makers == \A s \in Stmts : stmtTxn[s] \in Txns =>
              /\ txn[stmtTxn[s]] # "new"
              /\ stmtSession[s] = txnSession[stmtTxn[s]]

UnitInv == Units(client, server) /\ Ledger /\ Makers

-----------------------------------------------------------------------------
(* What a step does to the transactions' work *)

\* A write that is issued is new, and belongs to the transaction it is
\* issued in.
LEMMA MineGrows ==
    ASSUME Typed, Ledger, NEW ws \in SUBSET Writes, NEW u, Issue(ws, u),
           acked' \in {acked, acked \cup ws}
    PROVE  /\ issued' = issued \cup ws
           /\ acked' \subseteq issued'
           /\ ws \cap (issued \cup acked \cup durable) = {}
           /\ \A h \in Txns : /\ Mine(h) \cap ws = {}
                              /\ Mine(h)' \subseteq Mine(h) \cup ws
                              /\ h # u \/ acked' = acked => Mine(h)' = Mine(h)
<1>1. /\ issued' = issued \cup ws /\ ws \cap issued = {}
      /\ unit' = [w \in Writes |-> IF w \in ws THEN u ELSE unit[w]]
  BY DEF Issue
<1>2. acked \subseteq issued /\ durable \subseteq issued /\ acked \subseteq Writes
  BY DEF Ledger, Typed, TypeOK
<1>3. ASSUME NEW h \in Txns
      PROVE  /\ Mine(h) \cap ws = {}
             /\ Mine(h)' \subseteq Mine(h) \cup ws
             /\ h # u \/ acked' = acked => Mine(h)' = Mine(h)
  BY <1>1, <1>2 DEF Mine
<1> QED
  BY <1>1, <1>2, <1>3

\* What became durable is no transaction's, and only an open one has got more
\* work, none of it durable.
LEMMA LedgerKept ==
    ASSUME Ledger, UNCHANGED <<txn, result>>, durable \subseteq durable',
           durable' \cup acked' \subseteq issued',
           \A h \in Txns : Mine(h) \cap durable' \subseteq durable,
           \A h \in Txns : \/ Mine(h)' = Mine(h)
                           \/ txn[h] = "open" /\ Mine(h)' \cap durable' = {}
    PROVE  Ledger'
<1>1. ASSUME NEW h \in Txns
      PROVE  Outcome(h)'
  <2>1. Outcome(h)
    BY DEF Ledger
  <2>2. CASE Mine(h)' = Mine(h)
    BY <2>1, <2>2 DEF Outcome
  <2>3. CASE txn[h] = "open" /\ Mine(h)' \cap durable' = {}
    BY <2>1, <2>3 DEF Outcome
  <2> QED
    BY <2>2, <2>3
<1>2. \A h \in Txns : txn'[h] = "new" => Mine(h)' = {}
  BY DEF Ledger
<1> QED
  BY <1>1, <1>2 DEF Ledger, Live

\* In auto_commit the unit holds no transaction's work, and nobody's work is
\* issued in a transaction.
LEMMA AutoCommitFree ==
    ASSUME NEW c, NEW sv, Units(c, sv), c.connected, c.auto_commit
    PROVE  /\ \A h \in Txns : Mine(h) \cap sv.open = {}
           /\ \A h \in Txns : ~(Live(h) /\ InSession(c, h))
BY DEF Units

-----------------------------------------------------------------------------
(* What a request leaves behind *)

\* Work in a session: writes ws are issued, in transaction u if u is one.
Works(c, ws, u) ==
    /\ c.connected
    /\ Issue(ws, u)
    /\ u \in Txns => txn[u] = "open" /\ InSession(c, u)
    /\ UNCHANGED <<txnVars, stmtVars>>

SameClient(c) == /\ client'.connected = c.connected
                 /\ client'.auto_commit = c.auto_commit
                 /\ client'.session_generation = c.session_generation

LEMMA MakersKept ==
    ASSUME Makers, UNCHANGED <<txnVars, stmtVars>>
    PROVE  Makers'
BY DEF Makers, txnVars, stmtVars

\* The unit ends, and may have become durable with the new writes.
LEMMA WorkSettles ==
    ASSUME Typed, Ledger, Makers, NEW c, NEW sv, Units(c, sv),
           NEW ws \in SUBSET Writes, NEW u, Works(c, ws, u), c.auto_commit,
           \/ SameClient(c) /\ server'.alive
           \/ ~client'.connected /\ ~server'.alive,
           server'.open = {}, acked' \in {acked, acked \cup ws},
           durable \subseteq durable', durable' \subseteq durable \cup sv.open \cup ws
    PROVE  UnitInv'
<1>1. /\ \A h \in Txns : Mine(h) \cap sv.open = {}
      /\ u \notin Txns
  BY AutoCommitFree DEF Works, Live
<1>2. /\ issued' = issued \cup ws /\ acked' \subseteq issued'
      /\ \A h \in Txns : Mine(h) \cap ws = {} /\ Mine(h)' = Mine(h)
  <2>1. Issue(ws, u)
    BY DEF Works
  <2>2. /\ issued' = issued \cup ws
        /\ acked' \subseteq issued'
        /\ \A h \in Txns : /\ Mine(h) \cap ws = {}
                           /\ h # u => Mine(h)' = Mine(h)
    BY <2>1, MineGrows
  <2> QED
    BY <1>1, <2>2
<1>3. Ledger'
  <2>1. \A h \in Txns : Mine(h) \cap durable' \subseteq durable
    BY <1>1, <1>2
  <2>2. durable' \subseteq issued'
    BY <1>2 DEF Ledger, Units
  <2> QED
    BY <1>2, <2>1, <2>2, LedgerKept DEF Works, txnVars
<1>4. Units(client, server)'
  <2>1. /\ \A h \in Txns : /\ Live(h)' = Live(h)
                           /\ txn'[h] = txn[h] /\ txnSession'[h] = txnSession[h]
    BY DEF Works, txnVars, Live
  <2>2. CASE SameClient(c) /\ server'.alive
    <3>1. \A h \in Txns : ~(Live(h) /\ InSession(c, h))
      BY AutoCommitFree DEF Works
    <3>2. \A h \in Txns : InSession(client, h)' <=> InSession(c, h)
      BY <2>1, <2>2 DEF InSession, SameClient
    <3> QED
      BY <2>1, <2>2, <3>1, <3>2 DEF Units, Lives, SameClient, Works, Live
  <2>3. CASE ~client'.connected /\ ~server'.alive
    BY <2>3 DEF Units, Lives
  <2> QED
    BY <2>2, <2>3
<1> QED
  BY <1>3, <1>4, MakersKept DEF UnitInv, Works

\* Some of the new writes, or all that are acknowledged, join the unit.
LEMMA WorkAdds ==
    ASSUME Typed, Ledger, Makers, NEW c, NEW sv, Units(c, sv), sv.alive,
           NEW ws \in SUBSET Writes, NEW u, Works(c, ws, u),
           SameClient(c), server'.alive, UNCHANGED durable,
           NEW done \in SUBSET ws, server'.open = sv.open \cup done,
           \/ acked' = acked
           \/ acked' = acked \cup ws /\ done = ws
    PROVE  UnitInv'
<1>1. /\ issued' = issued \cup ws /\ acked' \subseteq issued'
      /\ ws \cap (issued \cup acked \cup durable) = {}
      /\ \A h \in Txns : /\ Mine(h) \cap ws = {}
                         /\ Mine(h)' \subseteq Mine(h) \cup ws
                         /\ h # u \/ acked' = acked => Mine(h)' = Mine(h)
  <2>1. Issue(ws, u) /\ acked' \in {acked, acked \cup ws}
    BY DEF Works
  <2> QED
    BY <2>1, MineGrows
<1>2. Ledger'
  <2>1. ASSUME NEW h \in Txns
        PROVE  \/ Mine(h)' = Mine(h)
               \/ txn[h] = "open" /\ Mine(h)' \cap durable' = {}
    <3>1. CASE h = u
      <4>1. txn[h] = "open" /\ Outcome(h)
        BY <3>1 DEF Works, Ledger
      <4> QED
        BY <1>1, <4>1 DEF Outcome
    <3> QED
      BY <1>1, <3>1
  <2>2. durable' \subseteq issued' /\ \A h \in Txns : Mine(h) \cap durable' \subseteq durable
    BY <1>1 DEF Ledger
  <2> QED
    BY <1>1, <2>1, <2>2, LedgerKept DEF Works, txnVars
<1>3. Units(client, server)'
  <2>1. \A h \in Txns : /\ Live(h)' <=> Live(h)
                        /\ txn'[h] = txn[h]
                        /\ InSession(client, h)' <=> InSession(c, h)
    BY DEF Works, txnVars, Live, InSession, SameClient
  <2>2. Lives(client, server)' /\ (server.open \subseteq issued)'
    BY <1>1 DEF Units, Lives, SameClient
  <2>3. ASSUME NEW h \in Txns
        PROVE  /\ Live(h)' /\ InSession(client, h)' /\ client'.connected
                      => ~client'.auto_commit
               /\ Mine(h)' \cap server'.open # {}
                      => Live(h)' /\ InSession(client, h)'
               /\ txn'[h] = "open" /\ InSession(client, h)' /\ server'.alive
                      => Mine(h)' \subseteq server'.open
    <3>1. CASE h = u
      BY <1>1, <2>1, <3>1 DEF Works, Units, SameClient, Live
    <3>2. CASE h # u
      BY <1>1, <2>1, <3>2 DEF Units, SameClient
    <3> QED
      BY <3>1, <3>2
  <2> QED
    BY <2>2, <2>3 DEF Units
<1> QED
  BY <1>2, <1>3, MakersKept DEF UnitInv, Works

\* The session is lost, and its unit with it unless a commit had got through.
LEMMA WorkLost ==
    ASSUME Typed, Ledger, Makers, NEW c \in ClientType, NEW sv, Units(c, sv),
           NEW ws \in SUBSET Writes, NEW u, Works(c, ws, u),
           Lost(c, sv), UNCHANGED acked,
           \/ UNCHANGED durable
           \/ c.auto_commit /\ durable' = durable \cup sv.open \cup ws
    PROVE  UnitInv'
<1>1. ~client'.connected /\ ~server'.alive /\ server'.open = {}
  BY DEF Lost, Reset, ClientType, NoSession
<1>2. CASE UNCHANGED durable
  <2>1. Issue(ws, u) /\ acked' \in {acked, acked \cup ws}
    BY DEF Works
  <2>2. acked' \subseteq issued' /\ issued' = issued \cup ws
        /\ \A h \in Txns : Mine(h)' = Mine(h)
    BY <2>1, MineGrows
  <2>3. Ledger'
    BY <1>2, <2>2, LedgerKept DEF Works, txnVars, Ledger
  <2>4. Units(client, server)'
    BY <1>1 DEF Units, Lives
  <2> QED
    BY <2>3, <2>4, MakersKept DEF UnitInv, Works
<1>3. CASE c.auto_commit /\ durable' = durable \cup sv.open \cup ws
  BY <1>1, <1>3, WorkSettles
<1> QED
  BY <1>2, <1>3

LEMMA RunUnits ==
    ASSUME Typed, Ledger, Makers, NEW c \in ClientType, NEW sv \in ServerType,
           Units(c, sv), NEW w \in Writes, NEW u, Run(c, sv, w, u),
           Works(c, {w}, u)
    PROVE  UnitInv'
<1>1. {w} \in SUBSET Writes
  OBVIOUS
<1>2. CASE sv.alive /\ Lands(c, sv, {w}) /\ client' = c
           /\ acked' = acked \cup {w}
  <2>1. CASE c.auto_commit
    <3>1. server'.open = {} /\ server'.alive
          /\ durable' = durable \cup sv.open \cup {w}
      BY <1>2, <2>1 DEF Lands, Commits, ServerType
    <3> QED
      BY <1>1, <1>2, <2>1, <3>1, WorkSettles DEF SameClient
  <2>2. CASE ~c.auto_commit
    <3>1. server'.open = sv.open \cup {w} /\ server'.alive /\ UNCHANGED durable
      BY <1>2, <2>2 DEF Lands, Adds, ServerType
    <3> QED
      BY <1>1, <1>2, <3>1, WorkAdds DEF SameClient
  <2> QED
    BY <2>1, <2>2
<1>3. CASE sv.alive /\ Lands(c, sv, {}) /\ client' = c /\ UNCHANGED acked
  <2>1. CASE c.auto_commit
    <3>1. server'.open = {} /\ server'.alive /\ durable' = durable \cup sv.open
      BY <1>3, <2>1 DEF Lands, Commits, ServerType
    <3> QED
      BY <1>1, <1>3, <2>1, <3>1, WorkSettles DEF SameClient
  <2>2. CASE ~c.auto_commit
    <3>1. server'.open = sv.open \cup {} /\ server'.alive /\ UNCHANGED durable
      BY <1>3, <2>2 DEF Lands, Adds, ServerType
    <3>2. {} \in SUBSET {w}
      OBVIOUS
    <3> QED
      BY <1>1, <1>3, <3>1, <3>2, WorkAdds DEF SameClient
  <2> QED
    BY <2>1, <2>2
<1>4. CASE /\ Lost(c, sv)
           /\ durable' \in {durable} \cup
                  IF sv.alive /\ c.auto_commit
                  THEN {durable \cup sv.open \cup {w}} ELSE {}
           /\ UNCHANGED acked
  <2>1. \/ UNCHANGED durable
        \/ c.auto_commit /\ durable' = durable \cup sv.open \cup {w}
    BY <1>4
  <2> QED
    BY <1>1, <1>4, <2>1, WorkLost
<1> QED
  BY <1>2, <1>3, <1>4 DEF Run
-----------------------------------------------------------------------------
(* Entering a session *)

\* No transaction was begun in a session that is just being established.
LEMMA NewSessionUnits ==
    ASSUME IInv, UnitInv, NEW c \in ClientType,
           client.session_generation <= c.session_generation
    PROVE  Units(Established(c), NewSession)
<1>1. /\ client.session_generation \in Nat /\ c.session_generation \in Nat
      /\ \A h \in Txns : /\ txnSession[h] \in Nat
                         /\ txnSession[h] <= client.session_generation
  BY DEF IInv, Typed, TypeOK, ClientType, Generations
<1>2. /\ Established(c).session_generation = c.session_generation + 1
      /\ Established(c).connected
  BY DEF Established
<1>3. \A h \in Txns : ~InSession(Established(c), h)
  BY <1>1, <1>2 DEF InSession
<1>4. NewSession.alive /\ NewSession.open = {}
  BY DEF NewSession, NoSession
<1> QED
  BY <1>2, <1>3, <1>4 DEF Units, Lives

LEMMA EnteredUnits ==
    ASSUME IInv, UnitInv
    PROVE  /\ Typed /\ Ledger /\ Makers /\ Units(client, server)
           /\ client \in ClientType /\ server \in ServerType
           /\ Ready => /\ Units(Entered, ServerAt) /\ Entered.connected
                       /\ Entered \in ClientType /\ ServerAt \in ServerType
<1>1. /\ Typed /\ Ledger /\ Makers /\ Units(client, server)
      /\ client \in ClientType /\ server \in ServerType
      /\ client.session_generation <= client.session_generation
  BY FineClient DEF IInv, UnitInv, Fine
<1>2. ASSUME Ready PROVE Units(Entered, ServerAt)
  BY <1>1, NewSessionUnits DEF Entered, ServerAt
<1> QED
  BY <1>1, <1>2, EnteredFacts
-----------------------------------------------------------------------------
(* The steps that leave the transactions as they are *)

\* No work is done, in a session whose unit stays or is lost.
LEMMA IdleUnits ==
    ASSUME Ledger, UNCHANGED <<durable, txnVars, log>>, NEW c, NEW sv, Units(c, sv),
           \/ /\ SameClient(c)
              /\ server'.alive = sv.alive
              /\ server'.open = sv.open
           \/ /\ SameClient(c) \/ ~client'.connected
              /\ server' = NoSession
    PROVE  Ledger' /\ Units(client, server)'
<1>1. \A h \in Txns : Mine(h)' = Mine(h)
  BY DEF Mine, log
<1>2. Ledger'
  BY <1>1, LedgerKept DEF Ledger, txnVars, log
<1>3. \A h \in Txns : /\ Live(h)' <=> Live(h)
                      /\ txn'[h] = txn[h]
                      /\ SameClient(c) => (InSession(client, h)' <=> InSession(c, h))
  BY DEF txnVars, Live, InSession, SameClient
<1>4. CASE SameClient(c) /\ server'.alive = sv.alive /\ server'.open = sv.open
  BY <1>1, <1>2, <1>3, <1>4 DEF Units, Lives, SameClient, log
<1>5. CASE (SameClient(c) \/ ~client'.connected) /\ server' = NoSession
  <2>1. ~server'.alive /\ server'.open = {}
    BY <1>5 DEF NoSession
  <2>2. CASE SameClient(c)
    BY <1>1, <1>2, <1>3, <2>1, <2>2 DEF Units, Lives, SameClient
  <2>3. CASE ~client'.connected
    BY <1>2, <2>1, <2>3 DEF Units, Lives
  <2> QED
    BY <1>5, <2>2, <2>3
<1> QED
  BY <1>2, <1>4, <1>5

LEMMA SessionUnits ==
    ASSUME IInv, UnitInv,
           Connect \/ ConnectFails \/ SessionEnds \/ ClientClose
    PROVE  UnitInv'
<1>1. /\ Ledger /\ Makers /\ Units(client, server)
      /\ client \in ClientType /\ server \in ServerType
  BY EnteredUnits
<1>2. /\ UNCHANGED <<durable, txnVars, log>> /\ Makers'
  BY <1>1, MakersKept DEF Connect, ConnectFails, SessionEnds, ClientClose
<1>3. CASE Connect
  <2>1. Units(Established(client), NewSession)
    BY <1>1, NewSessionUnits, FineClient DEF Fine
  <2>2. SameClient(Established(client)) /\ server' = NewSession
    BY <1>3 DEF Connect, SameClient
  <2> QED
    BY <1>1, <1>2, <2>1, <2>2, IdleUnits DEF UnitInv
<1>4. CASE ConnectFails
  <2>1. ~client'.connected
    BY <1>1, <1>4 DEF ConnectFails, ClientType, Reset, Established
  <2>2. ~server'.alive /\ server'.open = {}
    BY <1>1, <1>4 DEF ConnectFails, Units, Lives
  <2>3. \A h \in Txns : Mine(h)' = Mine(h)
    BY <1>2 DEF Mine, log
  <2>4. Ledger'
    BY <1>1, <1>2, <2>3, LedgerKept DEF Ledger, txnVars, log
  <2> QED
    BY <1>2, <2>1, <2>2, <2>4 DEF UnitInv, Units, Lives
<1>5. CASE SessionEnds
  BY <1>1, <1>2, <1>5, IdleUnits DEF SessionEnds, SameClient, UnitInv
<1>6. CASE ClientClose
  <2>1. ~client'.connected /\ server' = NoSession
    BY <1>1, <1>6 DEF ClientClose, Reset, ClientType
  <2> QED
    BY <1>1, <1>2, <2>1, IdleUnits DEF UnitInv
<1> QED
  BY <1>3, <1>4, <1>5, <1>6

LEMMA CallUnits ==
    ASSUME IInv, UnitInv, NEW w \in Writes, ClientCall(w)
    PROVE  UnitInv'
<1>1. /\ Typed /\ Ledger /\ Makers /\ Units(Entered, ServerAt)
      /\ Entered.connected /\ Entered \in ClientType /\ ServerAt \in ServerType
  BY EnteredUnits DEF ClientCall
<1>2. Works(Entered, {w}, Nobody) /\ {w} \in SUBSET Writes
  BY <1>1, SessionAssumption DEF ClientCall, Works
<1>3. CASE /\ ServerAt.alive
           /\ Lands(Entered, ServerAt, {w})
           /\ client' = Entered
           /\ acked' = acked \cup {w}
  <2>1. CASE Entered.auto_commit
    <3>1. server'.open = {} /\ server'.alive
          /\ durable' = durable \cup ServerAt.open \cup {w}
      BY <1>1, <1>3, <2>1 DEF Lands, Commits, ServerType
    <3> QED
      BY <1>1, <1>2, <1>3, <2>1, <3>1, WorkSettles DEF SameClient
  <2>2. CASE ~Entered.auto_commit
    <3>1. server'.open = ServerAt.open \cup {w} /\ server'.alive
          /\ UNCHANGED durable
      BY <1>1, <1>3, <2>2 DEF Lands, Adds, ServerType
    <3> QED
      BY <1>1, <1>2, <1>3, <3>1, WorkAdds DEF SameClient
  <2> QED
    BY <2>1, <2>2
<1>4. CASE /\ ServerAt.alive
           /\ Adds(ServerAt, {w})
           /\ client' = Entered
           /\ UNCHANGED acked
  <2>1. server'.open = ServerAt.open \cup {w} /\ server'.alive
        /\ UNCHANGED durable
    BY <1>1, <1>4 DEF Adds, ServerType
  <2>2. {w} \in SUBSET {w} /\ SameClient(Entered) /\ acked' = acked
    BY <1>4 DEF SameClient
  <2>3. ServerAt.alive
    BY <1>4
  <2> QED
    BY <1>1, <1>2, <2>1, <2>2, <2>3, WorkAdds
<1>5. CASE /\ Lost(Entered, ServerAt)
           /\ durable' \in {durable} \cup
                  IF ServerAt.alive /\ Entered.auto_commit
                  THEN {durable \cup ServerAt.open \cup {w}} ELSE {}
           /\ UNCHANGED <<acked, loose>>
  <2>1. \/ UNCHANGED durable
        \/ Entered.auto_commit /\ durable' = durable \cup ServerAt.open \cup {w}
    BY <1>5
  <2> QED
    BY <1>1, <1>2, <1>5, <2>1, WorkLost
<1> QED
  BY <1>3, <1>4, <1>5 DEF ClientCall

LEMMA QueryUnits ==
    ASSUME IInv, UnitInv, NEW ws \in SUBSET Writes, ClientQuery(ws)
    PROVE  UnitInv'
<1>1. /\ Typed /\ Ledger /\ Makers /\ Units(Entered, ServerAt)
      /\ Entered.connected /\ Entered \in ClientType /\ ServerAt \in ServerType
      /\ Fine(Entered)
  BY EnteredUnits, FineClient DEF ClientQuery
<1>2. Works(Entered, ws, Nobody) /\ Issue(ws, Nobody)
      /\ UNCHANGED <<txnVars, stmtVars>>
  BY <1>1, SessionAssumption DEF ClientQuery, Works
<1>3. CASE /\ ServerAt.alive
           /\ client' = Entered
           /\ Adds(ServerAt, ws)
           /\ acked' = acked \cup ws
  <2>1. server'.open = ServerAt.open \cup ws /\ server'.alive
        /\ UNCHANGED durable
    BY <1>1, <1>3 DEF Adds, ServerType
  <2>2. ws \in SUBSET ws
    OBVIOUS
  <2> QED
    BY <1>1, <1>2, <1>3, <2>1, <2>2, WorkAdds DEF SameClient
<1>4. CASE Lost(Entered, ServerAt) /\ UNCHANGED <<durable, acked, loose>>
  BY <1>1, <1>2, <1>4, WorkLost
<1>5. ASSUME NEW k \in 1..MaxRetries, NEW again,
             again = Established(
                 [Entered EXCEPT !.session_generation = @ + (k - 1)]),
             UNCHANGED durable,
             \/ /\ client' = again
                /\ server' = [NewSession EXCEPT !.open = ws]
                /\ acked' = acked \cup ws
             \/ /\ client' = Reset(again, FALSE)
                /\ server' = NoSession
                /\ UNCHANGED acked
      PROVE  UnitInv'
  <2> DEFINE d == [Entered EXCEPT !.session_generation = @ + (k - 1)]
  <2>1. Entered.session_generation \in Nat /\ client.session_generation \in Nat
    BY <1>1, EnteredUnits DEF ClientType
  <2>2. Entered.session_generation + (k - 1) \in Nat
    BY <2>1, SessionAssumption
  <2>3. d \in ClientType
        /\ d.session_generation = Entered.session_generation + (k - 1)
    BY <1>1, <2>2 DEF ClientType
  <2>4. client.session_generation <= d.session_generation
    BY <1>1, <2>1, <2>3, SessionAssumption DEF Fine
  <2> HIDE DEF d
  <2>5. Units(again, NewSession) /\ again \in ClientType
    BY <1>5, <2>3, <2>4, NewSessionUnits, EstablishedType DEF d
  <2>6. Works(again, ws, Nobody)
    BY <1>2, <1>5, SessionAssumption DEF Works, Established
  <2>7. CASE /\ client' = again
             /\ server' = [NewSession EXCEPT !.open = ws]
             /\ acked' = acked \cup ws
    <3>1. NewSession.alive /\ NewSession.open = {} /\ NewSession \in ServerType
      BY ServerTypes DEF NewSession, NoSession
    <3>2. server'.open = NewSession.open \cup ws /\ server'.alive
      BY <2>7, <3>1 DEF ServerType
    <3>3. ws \in SUBSET ws
      OBVIOUS
    <3> QED
      BY <1>1, <1>5, <2>5, <2>6, <2>7, <3>1, <3>2, <3>3, WorkAdds DEF SameClient
  <2>8. CASE /\ client' = Reset(again, FALSE)
             /\ server' = NoSession
             /\ UNCHANGED acked
    <3>1. ~client'.connected /\ ~server'.alive /\ server'.open = {}
      BY <2>5, <2>8 DEF Reset, ClientType, NoSession
    <3>2. again.auto_commit /\ acked' \in {acked, acked \cup ws}
      BY <1>5, <2>8 DEF Established
    <3> QED
      BY <1>1, <1>5, <2>5, <2>6, <3>1, <3>2, WorkSettles
  <2> QED
    BY <1>5, <2>7, <2>8
<1> QED
  BY <1>3, <1>4, <1>5 DEF ClientQuery

\* Work of the statement s, issued in the transaction that made s as long as
\* that one is open: it is then a transaction of this session.
LEMMA StatementWorks ==
    ASSUME IInv, UnitInv, NEW s \in Stmts, Executable(s), NEW ws,
           Issue(ws, UnitOf(s)), UNCHANGED <<txnVars, stmtVars>>
    PROVE  Works(client, ws, UnitOf(s))
<1>1. ASSUME UnitOf(s) \in Txns
      PROVE  txn[UnitOf(s)] = "open" /\ InSession(client, UnitOf(s))
  <2>1. /\ stmtTxn[s] \in Txns /\ UnitOf(s) = stmtTxn[s]
        /\ txn[stmtTxn[s]] = "open"
    BY <1>1, SessionAssumption DEF UnitOf
  <2> QED
    BY <2>1 DEF UnitInv, Makers, Executable, Valid, InSession
<1> QED
  BY <1>1 DEF Works, Executable

LEMMA BatchUnits ==
    ASSUME IInv, UnitInv, NEW s \in Stmts, NEW v \in Writes, NEW w \in Writes,
           ExecuteBatch(s, v, w)
    PROVE  UnitInv'
<1> DEFINE ws == {v, w}
<1>1. /\ Typed /\ Ledger /\ Makers /\ Units(client, server)
      /\ client \in ClientType /\ server \in ServerType
      /\ ws \in SUBSET Writes /\ {v} \in SUBSET ws /\ {} \in SUBSET ws
      /\ ws \in SUBSET ws
  BY EnteredUnits
<1>2. Works(client, ws, UnitOf(s))
  BY StatementWorks DEF ExecuteBatch
<1> HIDE DEF ws
<1>3. CASE /\ server.alive
           /\ Lands(client, server, ws)
           /\ acked' = acked \cup ws
           /\ UNCHANGED client
  <2>1. SameClient(client)
    BY <1>3 DEF SameClient
  <2>2. CASE client.auto_commit
    <3>1. server'.open = {} /\ server'.alive
          /\ durable' = durable \cup server.open \cup ws
      BY <1>1, <1>3, <2>2 DEF Lands, Commits, ServerType
    <3> QED
      BY <1>1, <1>2, <1>3, <2>1, <2>2, <3>1, WorkSettles
  <2>3. CASE ~client.auto_commit
    <3>1. server'.open = server.open \cup ws /\ server'.alive
          /\ UNCHANGED durable
      BY <1>1, <1>3, <2>3 DEF Lands, Adds, ServerType
    <3> QED
      BY <1>1, <1>2, <1>3, <2>1, <3>1, WorkAdds
  <2> QED
    BY <2>2, <2>3
<1>4. CASE /\ server.alive
           /\ \E done \in {{}, {v}} : Adds(server, done)
           /\ UNCHANGED <<client, acked>>
  <2>1. PICK done \in {{}, {v}} : Adds(server, done)
    BY <1>4
  <2>2. /\ server'.open = server.open \cup done /\ server'.alive
        /\ UNCHANGED durable /\ done \in SUBSET ws
    BY <1>1, <1>4, <2>1 DEF Adds, ServerType
  <2>3. SameClient(client)
    BY <1>4 DEF SameClient
  <2> QED
    BY <1>1, <1>2, <1>4, <2>2, <2>3, WorkAdds
<1>5. CASE /\ server.alive
           /\ client.auto_commit
           /\ Discards(server)
           /\ UNCHANGED <<client, acked>>
  <2>1. server'.open = {} /\ server'.alive /\ UNCHANGED durable
    BY <1>1, <1>5 DEF Discards, ServerType
  <2>2. SameClient(client) /\ acked' \in {acked, acked \cup ws}
    BY <1>5 DEF SameClient
  <2> QED
    BY <1>1, <1>2, <1>5, <2>1, <2>2, WorkSettles
<1>6. CASE /\ Lost(client, server)
           /\ durable' \in {durable} \cup
                  IF server.alive /\ client.auto_commit
                  THEN {durable \cup server.open \cup ws} ELSE {}
           /\ UNCHANGED acked
  <2>1. \/ UNCHANGED durable
        \/ client.auto_commit /\ durable' = durable \cup server.open \cup ws
    BY <1>6
  <2> QED
    BY <1>1, <1>2, <1>6, <2>1, WorkLost
<1> QED
  BY <1>3, <1>4, <1>5, <1>6 DEF ExecuteBatch, ws

LEMMA WorkUnits ==
    ASSUME IInv, UnitInv,
           \/ \E w \in Writes : ClientWrite(w)
           \/ \E h \in Txns : \E w \in Writes : TxnWrite(h, w)
           \/ \E s \in Stmts : \E w \in Writes : Execute(s, w)
    PROVE  UnitInv'
<1>1. ASSUME NEW w \in Writes, ClientWrite(w)
      PROVE  UnitInv'
  <2>1. Run(Entered, ServerAt, w, Nobody) /\ Works(Entered, {w}, Nobody)
    BY <1>1, EnteredUnits, SessionAssumption DEF ClientWrite, Run, Works
  <2> QED
    BY <1>1, <2>1, EnteredUnits, RunUnits DEF ClientWrite
<1>2. ASSUME NEW h \in Txns, NEW w \in Writes, TxnWrite(h, w)
      PROVE  UnitInv'
  <2>1. Run(client, server, w, h) /\ Works(client, {w}, h)
    BY <1>2 DEF TxnWrite, Run, Works, Valid, InSession
  <2> QED
    BY <2>1, EnteredUnits, RunUnits
<1>3. ASSUME NEW s \in Stmts, NEW w \in Writes, Execute(s, w)
      PROVE  UnitInv'
  <2>1. Run(client, server, w, UnitOf(s)) /\ Works(client, {w}, UnitOf(s))
    BY <1>3, StatementWorks DEF Execute, Run
  <2> QED
    BY <2>1, EnteredUnits, RunUnits
<1> QED
  BY <1>1, <1>2, <1>3
-----------------------------------------------------------------------------
(* The steps of prepared statements *)

LEMMA SectionKeeps ==
    ASSUME NEW c \in ClientType
    PROVE  /\ AfterAllocation(c).connected = c.connected
           /\ AfterAllocation(c).auto_commit = c.auto_commit
           /\ AfterAllocation(c).session_generation = c.session_generation
           /\ \A n : /\ Released(c, n).connected = c.connected
                     /\ Released(c, n).auto_commit = c.auto_commit
                     /\ Released(c, n).session_generation = c.session_generation
BY DEF AfterAllocation, Released, ClientType

LEMMA PrepareUnits ==
    ASSUME IInv, UnitInv, NEW c \in ClientType, NEW sv \in ServerType,
           Units(c, sv), NEW s \in Stmts, NEW h \in Txns \cup {Nobody},
           PrepareOn(c, sv, s, h), UNCHANGED <<durable, txnVars, log>>,
           CanAllocate(c) => AfterAllocation(c) \in ClientType,
           h \in Txns => txn[h] = "open" /\ InSession(c, h)
    PROVE  UnitInv'
<1> DEFINE n == Allocated(c)
<1>1. Ledger /\ Makers /\ AfterAllocation(c) \in ClientType
  BY DEF UnitInv, PrepareOn
<1>2. SameClient(AfterAllocation(c)) => SameClient(c)
  BY SectionKeeps DEF SameClient
<1>3. CASE /\ client' = AfterAllocation(c)
           /\ server' = [sv EXCEPT !.prepared[n] = s]
           /\ stmtSession' = [stmtSession EXCEPT ![s] = c.session_generation]
           /\ stmtTxn' = [stmtTxn EXCEPT ![s] = h]
  <2>1. /\ SameClient(c)
        /\ server'.alive = sv.alive /\ server'.open = sv.open
    BY <1>2, <1>3 DEF SameClient, ServerType
  <2>2. Ledger' /\ Units(client, server)'
    BY <1>1, <2>1, IdleUnits
  <2>3. /\ stmtTxn \in [Stmts -> Txns \cup {Nobody}]
        /\ stmtSession \in [Stmts -> Nat]
    BY DEF IInv, Typed, TypeOK
  <2>4. ASSUME NEW t \in Stmts, stmtTxn'[t] \in Txns
        PROVE  /\ txn'[stmtTxn'[t]] # "new"
               /\ stmtSession'[t] = txnSession'[stmtTxn'[t]]
    <3>1. CASE t = s
      BY <1>3, <2>3, <2>4, <3>1 DEF InSession, txnVars
    <3>2. CASE t # s
      BY <1>1, <1>3, <2>3, <2>4, <3>2 DEF Makers, txnVars
    <3> QED
      BY <3>1, <3>2
  <2>5. Makers'
    BY <2>4 DEF Makers
  <2> QED
    BY <2>2, <2>5 DEF UnitInv
<1>4. CASE /\ client' = Released(AfterAllocation(c), n)
           /\ server' \in {sv, [sv EXCEPT !.prepared[n] = s]}
           /\ UNCHANGED stmtVars
  <2>1. /\ SameClient(c)
        /\ server'.alive = sv.alive /\ server'.open = sv.open
    BY <1>1, <1>4, SectionKeeps DEF SameClient, ServerType
  <2>2. Ledger' /\ Units(client, server)'
    BY <1>1, <2>1, IdleUnits
  <2> QED
    BY <1>1, <1>4, <2>2, MakersKept DEF UnitInv
<1>5. CASE Lost(c, sv) /\ UNCHANGED stmtVars
  <2>1. ~client'.connected /\ server' = NoSession
    BY <1>5 DEF Lost, Reset, ClientType
  <2>2. Ledger' /\ Units(client, server)'
    BY <1>1, <2>1, IdleUnits
  <2> QED
    BY <1>1, <1>5, <2>2, MakersKept DEF UnitInv
<1> QED
  BY <1>3, <1>4, <1>5 DEF PrepareOn

LEMMA StatementUnits ==
    ASSUME IInv, UnitInv, NEW s \in Stmts,
           \/ ClientPrepare(s)
           \/ \E h \in Txns : TxnPrepare(h, s)
           \/ CloseStmt(s) \/ DropStmt(s) \/ CleanupStmt(s)
    PROVE  UnitInv'
<1>1. CASE ClientPrepare(s)
  <2>1. CanAllocate(Entered) => AfterAllocation(Entered) \in ClientType
    BY <1>1, EnteredUnits, EnteredFacts, AllocationFacts DEF ClientPrepare
  <2> QED
    BY <1>1, <2>1, EnteredUnits, PrepareUnits, SessionAssumption
    DEF ClientPrepare
<1>2. ASSUME NEW h \in Txns, TxnPrepare(h, s)
      PROVE  UnitInv'
  <2>1. Ready /\ Entered = client /\ client.connected
    BY <1>2 DEF TxnPrepare, Ready, Entered
  <2>2. CanAllocate(client) => AfterAllocation(client) \in ClientType
    BY <2>1, EnteredUnits, EnteredFacts, AllocationFacts
  <2> QED
    BY <1>2, <2>2, EnteredUnits, PrepareUnits DEF TxnPrepare, Valid, InSession
<1>3. CASE CloseStmt(s) \/ DropStmt(s) \/ CleanupStmt(s)
  <2>1. client' \in {client, Released(client, section[s])}
        /\ UNCHANGED <<server, durable, txnVars, stmtSession, stmtTxn, log>>
    BY <1>3 DEF CloseStmt, DropStmt, CleanupStmt, ReleaseSection
  <2>2. SameClient(client)
    BY <2>1, EnteredUnits, SectionKeeps DEF SameClient
  <2>3. Ledger' /\ Units(client, server)'
    BY <2>1, <2>2, EnteredUnits, IdleUnits
  <2>4. Makers'
    BY <2>1, EnteredUnits DEF Makers, txnVars
  <2> QED
    BY <2>3, <2>4 DEF UnitInv
<1> QED
  BY <1>1, <1>2, <1>3
-----------------------------------------------------------------------------
(* The steps that begin and end a transaction *)

\* A program that begins a transaction once the last one is settled starts
\* with nobody's transaction around.
LEMMA BeginUnits ==
    ASSUME IInv, UnitInv, Discipline = "settled", NEW h \in Txns, Begin(h)
    PROVE  UnitInv'
<1>1. /\ Typed /\ Ledger /\ Makers /\ Units(Entered, ServerAt)
      /\ Entered \in ClientType
  BY EnteredUnits DEF Begin
<1>2. /\ txn[h] = "new" /\ \A g \in Txns : ~Live(g)
      /\ txn \in [Txns -> States] /\ txnSession \in [Txns -> Nat]
  BY <1>1 DEF Begin, MayBegin, Live, Typed, TypeOK
<1>3. /\ client' = [Entered EXCEPT !.auto_commit = FALSE] /\ server' = ServerAt
      /\ txn' = [txn EXCEPT ![h] = "open"]
      /\ txnSession' = [txnSession EXCEPT ![h] = Entered.session_generation]
      /\ UNCHANGED <<durable, result, stmtVars, log>>
  BY DEF Begin
<1>4. /\ client'.connected = Entered.connected /\ ~client'.auto_commit
      /\ client'.session_generation = Entered.session_generation
      /\ txn'[h] = "open"
      /\ \A g \in Txns \ {h} : txn'[g] = txn[g] /\ txnSession'[g] = txnSession[g]
      /\ \A g \in Txns : Mine(g)' = Mine(g)
  BY <1>1, <1>2, <1>3 DEF ClientType, Mine, log
<1>5. Ledger'
  <2>1. ASSUME NEW g \in Txns
        PROVE  Outcome(g)'
    <3>1. Outcome(g) /\ Mine(g)' = Mine(g) /\ (g = h => Mine(g) = {})
      BY <1>1, <1>2, <1>4 DEF Ledger
    <3>2. result[h] = "none"
      BY <1>1, <1>2 DEF Ledger, Outcome
    <3>3. CASE g = h
      BY <1>3, <1>4, <3>1, <3>2, <3>3 DEF Outcome
    <3>4. CASE g # h
      BY <1>3, <1>4, <3>1, <3>4 DEF Outcome
    <3> QED
      BY <3>3, <3>4
  <2>2. \A g \in Txns : Live(g)' => g = h
    BY <1>2, <1>4 DEF Live
  <2> QED
    BY <1>1, <1>3, <1>4, <2>1, <2>2 DEF Ledger, log
<1>6. Units(client, server)'
  <2>1. Lives(client, server)' /\ (server.open \subseteq issued)'
    BY <1>1, <1>3, <1>4 DEF Units, Lives, log
  <2>2. \A g \in Txns : Mine(g) \cap server'.open = {}
    BY <1>1, <1>2, <1>3 DEF Units
  <2>3. \A g \in Txns : txn'[g] = "open" => g = h
    BY <1>2, <1>4 DEF Live
  <2>4. Mine(h) = {}
    BY <1>1, <1>2 DEF Ledger
  <2> QED
    BY <1>4, <2>1, <2>2, <2>3, <2>4 DEF Units
<1>7. Makers'
  BY <1>1, <1>2, <1>3, <1>4 DEF Makers, stmtVars
<1> QED
  BY <1>5, <1>6, <1>7 DEF UnitInv

\* The live transaction h ends, or its cleanup is done: the unit keeps nothing
\* of a transaction that is gone.
LEMMA EndUnits ==
    ASSUME UnitInv, NEW h \in Txns, Live(h),
           UNCHANGED <<txnSession, stmtVars, log>>,
           txn'[h] \in {"dropped", "gone"},
           \A g \in Txns \ {h} : txn'[g] = txn[g] /\ result'[g] = result[g],
           durable \subseteq durable', durable' \subseteq durable \cup server.open,
           Mine(h)' = Mine(h) => Outcome(h)',
           Lives(client, server)', server'.open \subseteq server.open,
           client'.session_generation = client.session_generation,
           /\ Live(h)' /\ InSession(client, h) /\ client'.connected =>
                  ~client'.auto_commit
           /\ txn'[h] = "gone" => Mine(h) \cap server'.open = {}
    PROVE  UnitInv'
<1>1. Ledger /\ Makers /\ Units(client, server)
  BY DEF UnitInv
<1>2. /\ \A g \in Txns : Mine(g)' = Mine(g)
      /\ \A g \in Txns : InSession(client, g)' <=> InSession(client, g)
      /\ \A g \in Txns \ {h} : /\ ~Live(g) /\ ~Live(g)'
                               /\ Mine(g) \cap server.open = {}
      /\ \A g \in Txns : txn'[g] = "new" => txn[g] = "new"
  BY <1>1 DEF Mine, log, InSession, Ledger, Units, Live
<1>3. Ledger'
  <2>1. ASSUME NEW g \in Txns
        PROVE  Outcome(g)'
    <3>1. CASE g = h
      BY <1>2, <3>1
    <3>2. CASE g # h
      <4>1. /\ Outcome(g) /\ Mine(g)' = Mine(g)
            /\ Mine(g) \cap durable' = Mine(g) \cap durable
            /\ txn'[g] = txn[g] /\ result'[g] = result[g]
        BY <1>1, <1>2, <3>2 DEF Ledger
      <4> QED
        BY <4>1 DEF Outcome
    <3> QED
      BY <3>1, <3>2
  <2>2. durable' \cup acked' \subseteq issued'
    BY <1>1 DEF Ledger, Units, log
  <2>3. \A g, k \in Txns : Live(g)' /\ Live(k)' => g = k
    BY <1>2
  <2> QED
    BY <1>1, <1>2, <2>1, <2>2, <2>3 DEF Ledger
<1>4. Units(client, server)'
  <2>1. \A g \in Txns : txn'[g] # "open"
    BY <1>2 DEF Live
  <2>2. \A g \in Txns : Live(g)' => g = h
    BY <1>2
  <2>3. Live(h)' <=> txn'[h] = "dropped"
    BY DEF Live
  <2>4. (server.open \subseteq issued)'
    BY <1>1 DEF Units, log
  <2>5. ASSUME NEW g \in Txns
        PROVE  /\ Live(g)' /\ InSession(client, g)' /\ client'.connected
                      => ~client'.auto_commit
               /\ Mine(g)' \cap server'.open # {}
                      => Live(g)' /\ InSession(client, g)'
    BY <1>1, <1>2, <2>2, <2>3 DEF Units
  <2> QED
    BY <2>1, <2>4, <2>5 DEF Units
<1>5. Makers'
  BY <1>1, <1>2 DEF Makers, stmtVars
<1> QED
  BY <1>3, <1>4, <1>5 DEF UnitInv

\* What is known of an open transaction when it ends.
LEMMA OpenFacts ==
    ASSUME IInv, UnitInv, NEW h \in Txns, txn[h] = "open"
    PROVE  /\ Live(h) /\ Lives(client, server)
           /\ Mine(h) \cap durable = {}
           /\ Valid(txnSession[h]) =>
                  /\ InSession(client, h)
                  /\ server.alive => Mine(h) \subseteq server.open
                  /\ ~server.alive => server.open = {}
                  /\ client.connected => ~client.auto_commit
           /\ client \in ClientType /\ server \in ServerType
           /\ txn \in [Txns -> States] /\ result \in [Txns -> Results]
BY EnteredUnits DEF Live, Ledger, Outcome, Units, Lives, Valid, InSession, Typed, TypeOK

LEMMA CommitUnits ==
    ASSUME IInv, UnitInv, NEW h \in Txns, Commit(h)
    PROVE  UnitInv'
<1>1. /\ txn[h] = "open" /\ UNCHANGED <<txnSession, stmtVars, log>>
  BY DEF Commit
<1>2. /\ Live(h) /\ Lives(client, server)
      /\ Mine(h) \cap durable = {}
      /\ client \in ClientType /\ server \in ServerType
      /\ txn \in [Txns -> States] /\ result \in [Txns -> Results]
      /\ Units(client, server)
  BY <1>1, OpenFacts, EnteredUnits
<1>3. ASSUME Ends(h, "failed")
      PROVE  /\ txn'[h] = "dropped" /\ result'[h] = "failed" /\ Live(h)'
             /\ \A g \in Txns \ {h} : txn'[g] = txn[g] /\ result'[g] = result[g]
  BY <1>2, <1>3 DEF Ends, Live
<1>4. CASE /\ ~Valid(txnSession[h])
           /\ Ends(h, "failed")
           /\ UNCHANGED <<client, server, durable, faults>>
  <2>1. Mine(h)' = Mine(h) => Outcome(h)'
    BY <1>2, <1>3, <1>4 DEF Outcome
  <2>2. Lives(client, server)' /\ ~InSession(client, h)
    BY <1>2, <1>4 DEF Lives, Valid, InSession
  <2> QED
    BY <1>1, <1>2, <1>3, <1>4, <2>1, <2>2, EndUnits
<1>5. CASE /\ Valid(txnSession[h]) /\ server.alive
           /\ Commits(server, {})
           /\ client' = [client EXCEPT !.auto_commit = TRUE]
           /\ Ends(h, "committed")
           /\ UNCHANGED faults
  <2>1. Mine(h) \subseteq server.open
    BY <1>1, <1>5, OpenFacts
  <2>2. /\ durable' = durable \cup server.open
        /\ server'.open = {} /\ server'.alive
        /\ client'.connected = client.connected
        /\ client'.session_generation = client.session_generation
    BY <1>2, <1>5 DEF Commits, ServerType, ClientType
  <2>3. /\ txn'[h] = "gone" /\ result'[h] = "committed" /\ ~Live(h)'
        /\ \A g \in Txns \ {h} : txn'[g] = txn[g] /\ result'[g] = result[g]
    BY <1>2, <1>5 DEF Ends, Live
  <2>4. Mine(h)' = Mine(h) => Outcome(h)'
    BY <2>1, <2>2, <2>3 DEF Outcome
  <2>5. Lives(client, server)'
    BY <1>2, <1>5, <2>2 DEF Lives
  <2> QED
    BY <1>1, <1>2, <2>2, <2>3, <2>4, <2>5, EndUnits
<1>6. CASE /\ Valid(txnSession[h]) /\ server.alive
           /\ Fault
           /\ Discards(server)
           /\ Ends(h, "failed")
           /\ UNCHANGED client
  <2>1. UNCHANGED durable /\ server'.open = {} /\ server'.alive = server.alive
    BY <1>2, <1>6 DEF Discards, ServerType
  <2>2. Mine(h)' = Mine(h) => Outcome(h)'
    BY <1>2, <1>3, <1>6, <2>1 DEF Outcome
  <2>3. Lives(client, server)'
        /\ (InSession(client, h) /\ client.connected => ~client.auto_commit)
    BY <1>1, <1>2, <1>6, <2>1, OpenFacts DEF Lives
  <2> QED
    BY <1>1, <1>2, <1>3, <1>6, <2>1, <2>2, <2>3, EndUnits
<1>7. CASE /\ Valid(txnSession[h])
           /\ Lost(client, server)
           /\ durable' \in {durable, durable \cup server.open}
           /\ Ends(h, "failed")
  <2>1. Mine(h) \subseteq server.open \/ server.open = {}
    BY <1>1, <1>7, OpenFacts
  <2>2. /\ ~client'.connected /\ ~server'.alive /\ server'.open = {}
        /\ client'.session_generation = client.session_generation
    BY <1>2, <1>7 DEF Lost, Reset, ClientType, NoSession
  <2>3. Mine(h)' = Mine(h) => Outcome(h)'
    BY <1>2, <1>3, <1>7, <2>1 DEF Outcome
  <2>4. Lives(client, server)'
    BY <2>2 DEF Lives
  <2> QED
    BY <1>1, <1>2, <1>3, <1>7, <2>2, <2>3, <2>4, EndUnits
<1> QED
  BY <1>4, <1>5, <1>6, <1>7 DEF Commit

LEMMA RollbackUnits ==
    ASSUME IInv, UnitInv, NEW h \in Txns, Rollback(h) \/ Drop(h)
    PROVE  UnitInv'
<1>1. /\ txn[h] = "open" /\ UNCHANGED <<durable, txnSession, stmtVars, log>>
  BY DEF Rollback, Drop
<1>2. /\ Live(h) /\ Lives(client, server)
      /\ Mine(h) \cap durable = {}
      /\ client \in ClientType /\ server \in ServerType
      /\ txn \in [Txns -> States] /\ result \in [Txns -> Results]
      /\ (InSession(client, h) /\ client.connected => ~client.auto_commit)
  BY <1>1, OpenFacts, EnteredUnits DEF Valid, InSession
<1>3. ASSUME NEW how \in {"abandoned", "rolled back"}, Ends(h, how)
      PROVE  /\ txn'[h] \in {"dropped", "gone"}
             /\ (txn'[h] = "dropped" <=> how = "abandoned")
             /\ (Live(h)' <=> how = "abandoned")
             /\ \A g \in Txns \ {h} : txn'[g] = txn[g] /\ result'[g] = result[g]
             /\ (Mine(h)' = Mine(h) => Outcome(h)')
  <2>1. /\ result'[h] = how
        /\ txn'[h] = IF how = "rolled back" THEN "gone" ELSE "dropped"
        /\ \A g \in Txns \ {h} : txn'[g] = txn[g] /\ result'[g] = result[g]
    BY <1>2, <1>3 DEF Ends
  <2>2. Mine(h)' = Mine(h) => Outcome(h)'
    BY <1>1, <1>2, <2>1 DEF Outcome
  <2> QED
    BY <2>1, <2>2 DEF Live
<1>4. CASE Ends(h, "abandoned") /\ UNCHANGED <<client, server>>
  <2>1. Lives(client, server)'
    BY <1>2, <1>4 DEF Lives
  <2> QED
    BY <1>1, <1>2, <1>3, <1>4, <2>1, EndUnits
<1>5. CASE /\ server.alive
           /\ server' = [server EXCEPT !.open = {}]
           /\ client' = [client EXCEPT !.auto_commit = TRUE]
           /\ Ends(h, "rolled back")
  <2>1. /\ server'.open = {} /\ server'.alive
        /\ client'.connected = client.connected
        /\ client'.session_generation = client.session_generation
    BY <1>2, <1>5 DEF ServerType, ClientType
  <2>2. Lives(client, server)'
    BY <1>2, <1>5, <2>1 DEF Lives
  <2> QED
    BY <1>1, <1>2, <1>3, <1>5, <2>1, <2>2, EndUnits
<1>6. CASE /\ server.alive
           /\ server' = [server EXCEPT !.open = {}]
           /\ Ends(h, "abandoned")
           /\ UNCHANGED client
  <2>1. server'.open = {} /\ server'.alive = server.alive
    BY <1>2, <1>6 DEF ServerType
  <2>2. Lives(client, server)'
    BY <1>2, <1>6, <2>1 DEF Lives
  <2> QED
    BY <1>1, <1>2, <1>3, <1>6, <2>1, <2>2, EndUnits
<1>7. CASE Lost(client, server) /\ Ends(h, "abandoned")
  <2>1. /\ ~client'.connected /\ ~server'.alive /\ server'.open = {}
        /\ client'.session_generation = client.session_generation
    BY <1>2, <1>7 DEF Lost, Reset, ClientType, NoSession
  <2>2. Lives(client, server)'
    BY <2>1 DEF Lives
  <2> QED
    BY <1>1, <1>2, <1>3, <1>7, <2>1, <2>2, EndUnits
<1> QED
  BY <1>4, <1>5, <1>6, <1>7 DEF Rollback, Drop

LEMMA CleanupUnits ==
    ASSUME IInv, UnitInv, NEW h \in Txns, Cleanup(h)
    PROVE  UnitInv'
<1>1. /\ txn[h] = "dropped" /\ Live(h)
      /\ UNCHANGED <<durable, txnSession, result, stmtVars, log>>
      /\ txn' = [txn EXCEPT ![h] = "gone"]
  BY DEF Cleanup, Live
<1>2. /\ Outcome(h) /\ Units(client, server) /\ Lives(client, server)
      /\ client \in ClientType /\ server \in ServerType
      /\ txn \in [Txns -> States]
  BY <1>1, EnteredUnits DEF Ledger, Units, Typed, TypeOK
<1>3. /\ txn'[h] = "gone" /\ ~Live(h)'
      /\ \A g \in Txns \ {h} : txn'[g] = txn[g] /\ result'[g] = result[g]
      /\ (Mine(h)' = Mine(h) => Outcome(h)')
  BY <1>1, <1>2 DEF Outcome, Live
<1>4. ASSUME Lives(client, server)', server'.open \subseteq server.open,
             client'.session_generation = client.session_generation,
             Mine(h) \cap server'.open = {}
      PROVE  UnitInv'
  BY <1>1, <1>3, <1>4, EndUnits
<1>5. CASE ~Valid(txnSession[h]) /\ UNCHANGED <<client, server>>
  <2>1. Mine(h) \cap server.open = {}
    BY <1>2, <1>5 DEF Units, Valid, InSession
  <2> QED
    BY <1>2, <1>4, <1>5, <2>1 DEF Lives
<1>6. CASE /\ Valid(txnSession[h]) /\ (~client.connected \/ client.auto_commit)
           /\ client' = [client EXCEPT !.auto_commit = TRUE]
           /\ UNCHANGED server
  <2>1. Mine(h) \cap server.open = {}
    BY <1>1, <1>2, <1>6 DEF Units, Lives, Valid, InSession
  <2>2. /\ client'.connected = client.connected
        /\ client'.session_generation = client.session_generation
    BY <1>2, <1>6 DEF ClientType
  <2> QED
    BY <1>2, <1>4, <1>6, <2>1, <2>2 DEF Lives
<1>7. CASE /\ client' \in {client, [client EXCEPT !.auto_commit = TRUE]}
           /\ \/ server' \in {NoSession, [server EXCEPT !.open = {}]}
              \/ UNCHANGED server /\ ~server.alive
           /\ client.connected
  <2>1. /\ client'.connected
        /\ client'.session_generation = client.session_generation
    BY <1>2, <1>7 DEF ClientType
  <2>2. server'.open = {}
    BY <1>2, <1>7 DEF ServerType, NoSession, Lives
  <2> QED
    BY <1>4, <2>1, <2>2 DEF Lives
<1> QED
  BY <1>5, <1>6, <1>7 DEF Cleanup
-----------------------------------------------------------------------------
(* Every transaction is a unit *)

LEMMA InitUnits == Init => UnitInv
<1> SUFFICES ASSUME Init PROVE UnitInv
  OBVIOUS
<1>1. /\ ~server.alive /\ server.open = {} /\ ~client.connected
      /\ durable = {} /\ acked = {} /\ issued = {}
      /\ \A h \in Txns : txn[h] = "new" /\ result[h] = "none" /\ Mine(h) = {}
      /\ \A s \in Stmts : stmtTxn[s] \notin Txns
  BY SessionAssumption DEF Init, NoSession, Mine
<1>2. Units(client, server) /\ Makers
  BY <1>1 DEF Units, Lives, Makers
<1>3. Ledger
  BY <1>1 DEF Ledger, Outcome, Live
<1> QED
  BY <1>2, <1>3 DEF UnitInv

LEMMA NextUnits ==
    ASSUME IInv, UnitInv, Discipline = "settled", [Next]_vars
    PROVE  UnitInv'
<1>1. CASE ClientStep
  <2>1. {} \in SUBSET Writes /\ \A w \in Writes : {w} \in SUBSET Writes
    OBVIOUS
  <2> QED
    BY <1>1, <2>1, SessionUnits, CallUnits, QueryUnits, WorkUnits DEF ClientStep
<1>2. ASSUME NEW h \in Txns, TxnStep(h)
      PROVE  UnitInv'
  BY <1>2, BeginUnits, CommitUnits, RollbackUnits, CleanupUnits, WorkUnits,
     StatementUnits DEF TxnStep
<1>3. ASSUME NEW s \in Stmts, StmtStep(s)
      PROVE  UnitInv'
  BY <1>3, StatementUnits, WorkUnits, BatchUnits DEF StmtStep
<1>4. CASE UNCHANGED vars
  <2>1. SameClient(client) /\ UNCHANGED <<server, durable, txnVars, stmtVars, log>>
    BY <1>4 DEF SameClient, vars
  <2>2. Ledger' /\ Units(client, server)'
    BY <2>1, IdleUnits DEF UnitInv
  <2> QED
    BY <2>1, <2>2, MakersKept DEF UnitInv
<1> QED
  BY <1>1, <1>2, <1>3, <1>4 DEF Next

LEMMA UnitsMean == UnitInv => Atomic
<1> SUFFICES ASSUME UnitInv, NEW h \in Txns
             PROVE  /\ result[h] = "committed" => Mine(h) \subseteq durable
                    /\ txn[h] = "open" \/ result[h] \in {"rolled back", "abandoned"}
                           => Mine(h) \cap durable = {}
                    /\ Mine(h) \subseteq durable \/ Mine(h) \cap durable = {}
                    /\ txn[h] = "gone" => Mine(h) \cap server.open = {}
  BY DEF Atomic
<1>1. Outcome(h)
  BY DEF UnitInv, Ledger
<1>2. txn[h] = "gone" => Mine(h) \cap server.open = {}
  BY DEF UnitInv, Units, Live
<1> QED
  BY <1>1, <1>2 DEF Outcome

\* transaction.rs, "groups multiple operations into an atomic unit": in a
\* program that begins a transaction once the last one is settled, what a
\* transaction did is durable as a whole or not at all, as its caller was told,
\* across retried queries, lost sessions and lost replies to a commit.
THEOREM TransactionsAtomic ==
    ASSUME Discipline = "settled"
    PROVE  Spec => []Atomic
<1>1. IInv /\ UnitInv /\ [Next]_vars => UnitInv'
  BY NextUnits
<1> QED
  BY <1>1, Invariance, InitUnits, UnitsMean, PTL DEF Spec
-----------------------------------------------------------------------------
(* The unit of work under auto_commit, whatever the program does *)

Waits(c, sv) == /\ Lives(c, sv)
                /\ c.connected /\ c.auto_commit => sv.open \subseteq loose

WaitInv == Waits(client, server)

\* The unit is empty, or it has got more in manual mode, or more that is loose.
LEMMA WaitsKept ==
    ASSUME NEW c, NEW sv, Waits(c, sv), loose \subseteq loose',
           \/ /\ server'.open = {}
              /\ server'.alive => client'.connected
           \/ /\ client'.connected = c.connected
              /\ client'.auto_commit = c.auto_commit
              /\ server'.alive = sv.alive
              /\ server'.open = sv.open
           \/ /\ client'.connected
              /\ server'.alive
              /\ client'.auto_commit => /\ c.connected /\ c.auto_commit
                                        /\ server'.open \subseteq sv.open \cup loose'
    PROVE  WaitInv'
BY DEF Waits, WaitInv, Lives

LEMMA EnteredWaits ==
    ASSUME IInv, WaitInv
    PROVE  /\ client \in ClientType /\ server \in ServerType
           /\ Ready => /\ Waits(Entered, ServerAt) /\ Entered.connected
                       /\ Entered \in ClientType /\ ServerAt \in ServerType
<1>1. NewSession.open = {} /\ Established(client).connected
      /\ NewSession.alive
  BY DEF NewSession, NoSession, Established
<1>2. Ready => Waits(Entered, ServerAt)
  BY <1>1 DEF Entered, ServerAt, WaitInv, Waits, Lives
<1> QED
  BY <1>2, EnteredFacts, FineClient

LEMMA LostWaits ==
    ASSUME NEW c \in ClientType, NEW sv, Lost(c, sv)
    PROVE  WaitInv'
BY DEF Lost, Reset, ClientType, NoSession, WaitInv, Waits, Lives

LEMMA RunWaits ==
    ASSUME NEW c \in ClientType, NEW sv \in ServerType, Waits(c, sv),
           c.connected, UNCHANGED loose,
           NEW w \in Writes, NEW u, Run(c, sv, w, u)
    PROVE  WaitInv'
<1>1. ASSUME NEW ws \in SUBSET Writes, sv.alive, Lands(c, sv, ws), client' = c
      PROVE  WaitInv'
  <2>1. CASE c.auto_commit
    <3>1. server'.open = {} /\ server'.alive
      BY <1>1, <2>1 DEF Lands, Commits, ServerType
    <3> QED
      BY <1>1, <3>1, WaitsKept
  <2>2. CASE ~c.auto_commit
    <3>1. server'.alive
      BY <1>1, <2>2 DEF Lands, Adds, ServerType
    <3> QED
      BY <1>1, <2>2, <3>1, WaitsKept
  <2> QED
    BY <2>1, <2>2
<1>2. {w} \in SUBSET Writes /\ {} \in SUBSET Writes
  OBVIOUS
<1> QED
  BY <1>1, <1>2, LostWaits DEF Run

LEMMA ClientWaits ==
    ASSUME IInv, WaitInv,
           \/ Connect \/ ConnectFails \/ SessionEnds \/ ClientClose
           \/ \E w \in Writes : ClientWrite(w) \/ ClientCall(w)
           \/ \E ws \in SUBSET Writes : ClientQuery(ws)
    PROVE  WaitInv'
<1>1. client \in ClientType /\ server \in ServerType /\ Waits(client, server)
  BY EnteredWaits DEF WaitInv
<1>2. NewSession.open = {} /\ NoSession.open = {} /\ ~NoSession.alive
      /\ NewSession.alive /\ Established(client).connected
  BY DEF NewSession, NoSession, Established
<1>3. CASE Connect
  BY <1>1, <1>2, <1>3, WaitsKept DEF Connect
<1>4. CASE ConnectFails
  BY <1>1, <1>4, WaitsKept DEF ConnectFails, Waits, Lives
<1>5. CASE SessionEnds
  BY <1>1, <1>2, <1>5, WaitsKept DEF SessionEnds, history
<1>6. CASE ClientClose
  BY <1>1, <1>2, <1>6, WaitsKept DEF ClientClose
<1>7. ASSUME NEW w \in Writes, ClientWrite(w)
      PROVE  WaitInv'
  BY <1>7, EnteredWaits, RunWaits DEF ClientWrite, history
<1>8. ASSUME NEW w \in Writes, ClientCall(w)
      PROVE  WaitInv'
  <2>1. Waits(Entered, ServerAt) /\ Entered.connected
        /\ Entered \in ClientType /\ ServerAt \in ServerType
    BY <1>8, EnteredWaits DEF ClientCall
  <2>2. CASE Lands(Entered, ServerAt, {w}) /\ client' = Entered /\ ServerAt.alive
             /\ UNCHANGED loose
    <3>1. CASE Entered.auto_commit
      <4>1. server'.open = {} /\ server'.alive
        BY <2>1, <2>2, <3>1 DEF Lands, Commits, ServerType
      <4> QED
        BY <2>1, <2>2, <4>1, WaitsKept
    <3>2. CASE ~Entered.auto_commit
      <4>1. server'.alive
        BY <2>1, <2>2, <3>2 DEF Lands, Adds, ServerType
      <4> QED
        BY <2>1, <2>2, <3>2, <4>1, WaitsKept
    <3> QED
      BY <3>1, <3>2
  <2>3. CASE Adds(ServerAt, {w}) /\ Loosens(Entered, {w}) /\ client' = Entered
             /\ ServerAt.alive
    <3>1. /\ server'.alive /\ server'.open = ServerAt.open \cup {w}
          /\ loose \subseteq loose' /\ (Entered.auto_commit => {w} \subseteq loose')
      BY <2>1, <2>3 DEF Adds, Loosens, ServerType
    <3> QED
      BY <2>1, <2>3, <3>1, WaitsKept
  <2>4. CASE Lost(Entered, ServerAt)
    BY <2>1, <2>4, LostWaits
  <2> QED
    BY <1>8, <2>2, <2>3, <2>4 DEF ClientCall
<1>9. ASSUME NEW ws \in SUBSET Writes, ClientQuery(ws)
      PROVE  WaitInv'
  <2>1. Waits(Entered, ServerAt) /\ Entered.connected
        /\ Entered \in ClientType /\ ServerAt \in ServerType
    BY <1>9, EnteredWaits DEF ClientQuery
  <2>2. CASE Adds(ServerAt, ws) /\ Loosens(Entered, ws) /\ client' = Entered
             /\ ServerAt.alive
    <3>1. /\ server'.alive /\ server'.open = ServerAt.open \cup ws
          /\ loose \subseteq loose' /\ (Entered.auto_commit => ws \subseteq loose')
      BY <2>1, <2>2 DEF Adds, Loosens, ServerType
    <3> QED
      BY <2>1, <2>2, <3>1, WaitsKept
  <2>3. CASE Lost(Entered, ServerAt)
    BY <2>1, <2>3, LostWaits
  <2>4. ASSUME NEW again, again.connected,
               \/ /\ client' = again
                  /\ server' = [NewSession EXCEPT !.open = ws]
                  /\ Loosens(again, ws)
               \/ /\ client' = Reset(again, FALSE)
                  /\ server' = NoSession
        PROVE  WaitInv'
    <3>1. CASE /\ client' = again
               /\ server' = [NewSession EXCEPT !.open = ws]
               /\ Loosens(again, ws)
      <4>1. /\ server'.open = ws /\ server'.alive
            /\ again.auto_commit => ws \subseteq loose'
        BY <1>2, <3>1, ServerTypes DEF ServerType, Loosens
      <4> QED
        BY <2>4, <3>1, <4>1 DEF WaitInv, Waits, Lives
    <3>2. CASE server' = NoSession
      BY <1>2, <3>2 DEF WaitInv, Waits, Lives
    <3> QED
      BY <2>4, <3>1, <3>2
  <2>5. \A d : Established(d).connected
    BY DEF Established
  <2> QED
    BY <1>9, <2>2, <2>3, <2>4, <2>5 DEF ClientQuery
<1> QED
  BY <1>3, <1>4, <1>5, <1>6, <1>7, <1>8, <1>9

LEMMA TxnWaits ==
    ASSUME IInv, WaitInv, NEW h \in Txns,
           \/ Begin(h) \/ Commit(h) \/ Rollback(h) \/ Drop(h) \/ Cleanup(h)
           \/ \E w \in Writes : TxnWrite(h, w)
    PROVE  WaitInv'
<1>1. client \in ClientType /\ server \in ServerType /\ Waits(client, server)
      /\ Lives(client, server)
  BY EnteredWaits DEF WaitInv, Waits
<1>2. loose' = loose
  BY DEF Begin, Commit, Rollback, Drop, Cleanup, TxnWrite, history
<1>3. CASE Begin(h)
  <2>1. Waits(Entered, ServerAt) /\ Entered \in ClientType
        /\ client' = [Entered EXCEPT !.auto_commit = FALSE]
        /\ server' = ServerAt
    BY <1>3, EnteredWaits DEF Begin
  <2>2. ~client'.auto_commit /\ client'.connected = Entered.connected
    BY <2>1 DEF ClientType
  <2> QED
    BY <2>1, <2>2 DEF WaitInv, Waits, Lives
<1>4. CASE \/ UNCHANGED <<client, server>>
           \/ /\ client' \in {client, [client EXCEPT !.auto_commit = TRUE]}
              /\ server' = [server EXCEPT !.open = {}]
           \/ /\ client' \in {client, [client EXCEPT !.auto_commit = TRUE]}
              /\ server' = NoSession
           \/ /\ client' = [client EXCEPT !.auto_commit = TRUE]
              /\ UNCHANGED server
              /\ ~client.connected \/ client.auto_commit
  <2>1. client'.connected = client.connected
    BY <1>1, <1>4 DEF ClientType
  <2>2. CASE UNCHANGED <<client, server>>
    BY <1>1, <1>2, <2>2 DEF WaitInv, Waits, Lives
  <2>3. CASE server' = [server EXCEPT !.open = {}]
    <3>1. server'.open = {} /\ server'.alive = server.alive
      BY <1>1, <2>3 DEF ServerType
    <3> QED
      BY <1>1, <2>1, <3>1 DEF WaitInv, Waits, Lives
  <2>4. CASE server' = NoSession
    BY <2>4 DEF WaitInv, Waits, Lives, NoSession
  <2>5. CASE UNCHANGED server /\ (~client.connected \/ client.auto_commit)
    BY <1>1, <1>2, <2>1, <2>5 DEF WaitInv, Waits, Lives
  <2> QED
    BY <1>4, <2>2, <2>3, <2>4, <2>5
<1>5. CASE Commit(h)
  BY <1>1, <1>4, <1>5, LostWaits DEF Commit, Commits, Discards
<1>6. CASE Rollback(h)
  BY <1>1, <1>4, <1>6, LostWaits DEF Rollback
<1>7. CASE Drop(h)
  BY <1>4, <1>7 DEF Drop
<1>8. CASE Cleanup(h)
  BY <1>4, <1>8 DEF Cleanup
<1>9. ASSUME NEW w \in Writes, TxnWrite(h, w)
      PROVE  WaitInv'
  BY <1>1, <1>2, <1>9, RunWaits DEF TxnWrite
<1> QED
  BY <1>3, <1>5, <1>6, <1>7, <1>8, <1>9

LEMMA StmtWaits ==
    ASSUME IInv, WaitInv, NEW s \in Stmts,
           \/ StmtStep(s)
           \/ \E h \in Txns : TxnPrepare(h, s)
    PROVE  WaitInv'
<1>1. client \in ClientType /\ server \in ServerType /\ Waits(client, server)
  BY EnteredWaits DEF WaitInv
<1>2. ASSUME NEW c \in ClientType, NEW sv \in ServerType, Waits(c, sv),
             NEW h, PrepareOn(c, sv, s, h), UNCHANGED loose,
             AfterAllocation(c) \in ClientType
      PROVE  WaitInv'
  <2>1. CASE /\ client' \in {AfterAllocation(c),
                             Released(AfterAllocation(c), Allocated(c))}
             /\ server' \in {sv, [sv EXCEPT !.prepared[Allocated(c)] = s]}
    <3>1. SameClient(c) /\ server'.alive = sv.alive /\ server'.open = sv.open
      BY <1>2, <2>1, SectionKeeps DEF SameClient, ServerType
    <3> QED
      BY <1>2, <3>1, WaitsKept DEF SameClient
  <2> QED
    BY <1>2, <2>1, LostWaits DEF PrepareOn
<1>3. CASE ClientPrepare(s)
  <2>1. AfterAllocation(Entered) \in ClientType
    BY <1>3, EnteredFacts, AllocationFacts DEF ClientPrepare, PrepareOn, IInv
  <2> QED
    BY <1>2, <1>3, <2>1, EnteredWaits DEF ClientPrepare, history
<1>4. ASSUME NEW h \in Txns, TxnPrepare(h, s)
      PROVE  WaitInv'
  <2>1. Ready /\ Entered = client
    BY <1>4 DEF TxnPrepare, Ready, Entered
  <2>2. AfterAllocation(client) \in ClientType
    BY <1>4, <2>1, EnteredFacts, AllocationFacts DEF TxnPrepare, PrepareOn, IInv
  <2> QED
    BY <1>1, <1>2, <1>4, <2>2 DEF TxnPrepare, history
<1>5. CASE CloseStmt(s) \/ DropStmt(s) \/ CleanupStmt(s)
  <2>1. client' \in {client, Released(client, section[s])}
        /\ UNCHANGED <<server, history>>
    BY <1>5 DEF CloseStmt, DropStmt, CleanupStmt, ReleaseSection
  <2>2. SameClient(client) /\ UNCHANGED loose
    BY <1>1, <2>1, SectionKeeps DEF SameClient, history
  <2> QED
    BY <1>1, <2>1, <2>2, WaitsKept DEF SameClient
<1>6. ASSUME NEW w \in Writes, Execute(s, w)
      PROVE  WaitInv'
  BY <1>1, <1>6, RunWaits DEF Execute, Executable, history
<1>7. ASSUME NEW v \in Writes, NEW w \in Writes, ExecuteBatch(s, v, w)
      PROVE  WaitInv'
  <2>1. client.connected /\ {v, w} \in SUBSET Writes
    BY <1>7 DEF ExecuteBatch, Executable
  <2>2. CASE server.alive /\ UNCHANGED client /\ server'.open = {}
             /\ server'.alive /\ UNCHANGED loose
    BY <1>1, <2>1, <2>2, WaitsKept
  <2>3. CASE server.alive /\ UNCHANGED client /\ server'.alive
             /\ ~client.auto_commit /\ UNCHANGED loose
    BY <1>1, <2>1, <2>3, WaitsKept
  <2>4. CASE server.alive /\ Adds(server, {v}) /\ Loosens(client, {v})
             /\ UNCHANGED client
    <3>1. /\ server'.alive /\ server'.open = server.open \cup {v}
          /\ loose \subseteq loose' /\ (client.auto_commit => {v} \subseteq loose')
      BY <1>1, <2>4 DEF Adds, Loosens, ServerType
    <3> QED
      BY <1>1, <2>1, <2>4, <3>1, WaitsKept
  <2>5. ASSUME NEW ws, Lands(client, server, ws)
        PROVE  /\ server'.alive = server.alive
               /\ client.auto_commit => server'.open = {}
    BY <1>1, <2>5 DEF Lands, Commits, Adds, ServerType
  <2>6. Discards(server) => server'.open = {} /\ server'.alive = server.alive
    BY <1>1 DEF Discards, ServerType
  <2>7. \A ws : Adds(server, ws) => server'.alive = server.alive
    BY <1>1 DEF Adds, ServerType
  <2> QED
    BY <1>1, <1>7, <2>2, <2>3, <2>4, <2>5, <2>6, <2>7, LostWaits DEF ExecuteBatch
<1> QED
  BY <1>3, <1>4, <1>5, <1>6, <1>7 DEF StmtStep

LEMMA NextWaits == IInv /\ WaitInv /\ [Next]_vars => WaitInv'
<1> SUFFICES ASSUME IInv, WaitInv, [Next]_vars PROVE WaitInv'
  OBVIOUS
<1>1. CASE ClientStep
  <2>1. {} \in SUBSET Writes /\ \A w \in Writes : {w} \in SUBSET Writes
    OBVIOUS
  <2> QED
    BY <1>1, <2>1, ClientWaits DEF ClientStep
<1>2. ASSUME NEW h \in Txns, TxnStep(h)
      PROVE  WaitInv'
  BY <1>2, TxnWaits, StmtWaits DEF TxnStep
<1>3. ASSUME NEW s \in Stmts, StmtStep(s)
      PROVE  WaitInv'
  BY <1>3, StmtWaits
<1>4. CASE UNCHANGED vars
  BY <1>4 DEF vars, history, WaitInv, Waits, Lives
<1> QED
  BY <1>1, <1>2, <1>3, <1>4 DEF Next

\* Under auto_commit the server's unit of work holds only what the code is
\* known to leave there, however transactions, retries and cleanups interleave
\* and whenever the program begins one.
THEOREM NothingWaits == Spec => []AutoCommitSettled
<1>1. Init => WaitInv
  BY DEF Init, NoSession, WaitInv, Waits, Lives
<1>2. WaitInv => AutoCommitSettled
  BY DEF WaitInv, Waits, AutoCommitSettled
<1> QED
  BY <1>1, <1>2, Invariance, NextWaits, PTL DEF Spec
-----------------------------------------------------------------------------
(* Who ends the manual mode *)

\* The transactions stay, and so does the session, or it starts in auto_commit.
Stays == /\ UNCHANGED txnVars
         /\ \/ client'.auto_commit
            \/ client'.session_generation = client.session_generation

LEMMA StaysOwned ==
    ASSUME Stays, ~client'.auto_commit, Owned
    PROVE  Owned'
BY DEF Stays, Owned, Valid, txnVars

LEMMA EnteredStays ==
    ASSUME IInv, Ready
    PROVE  /\ \/ Entered.auto_commit
              \/ Entered.session_generation = client.session_generation
           /\ Entered \in ClientType
BY EnteredFacts DEF Entered, Established

LEMMA LostStays ==
    ASSUME NEW c \in ClientType, NEW sv, Lost(c, sv)
    PROVE  client'.auto_commit
BY DEF Lost, Reset, ClientType

LEMMA PlainStays ==
    ASSUME IInv,
           \/ ClientStep
           \/ \E h \in Txns : \E w \in Writes : TxnWrite(h, w)
           \/ \E h \in Txns : \E s \in Stmts : TxnPrepare(h, s)
           \/ \E s \in Stmts : StmtStep(s)
           \/ UNCHANGED vars
    PROVE  Stays
<1>1. client \in ClientType
  BY FineClient
<1>2. CASE Connect
  BY <1>2 DEF Connect, Established, Stays
<1>3. CASE ConnectFails
  BY <1>1, <1>3 DEF ConnectFails, Established, Reset, ClientType, Stays
<1>4. CASE SessionEnds
  BY <1>4 DEF SessionEnds, Stays
<1>5. CASE ClientClose
  BY <1>1, <1>5 DEF ClientClose, Reset, ClientType, Stays
<1>6. ASSUME NEW c \in ClientType, NEW sv, NEW w, NEW u, Run(c, sv, w, u)
      PROVE  client'.auto_commit \/ client' = c
  BY <1>6, LostStays DEF Run
<1>7. ASSUME NEW w \in Writes, ClientWrite(w)
      PROVE  Stays
  BY <1>6, <1>7, EnteredStays DEF ClientWrite, Stays
<1>8. ASSUME NEW w \in Writes, ClientCall(w)
      PROVE  Stays
  BY <1>8, EnteredStays, LostStays DEF ClientCall, Stays
<1>9. ASSUME NEW ws, ClientQuery(ws)
      PROVE  Stays
  <2>1. UNCHANGED txnVars /\ Ready
    BY <1>9 DEF ClientQuery
  <2>2. \A d : /\ Established(d).auto_commit
               /\ Reset(Established(d), FALSE).auto_commit
    BY DEF Established, Reset
  <2>3. \/ client' = Entered \/ Lost(Entered, ServerAt)
        \/ \E d : client' \in {Established(d), Reset(Established(d), FALSE)}
    BY <1>9 DEF ClientQuery
  <2> QED
    BY <2>1, <2>2, <2>3, EnteredStays, LostStays DEF Stays
<1>10. ASSUME NEW h \in Txns, NEW w \in Writes, TxnWrite(h, w)
       PROVE  Stays
  BY <1>1, <1>6, <1>10 DEF TxnWrite, Stays
<1>11. ASSUME NEW c \in ClientType, NEW sv, NEW s, NEW h, PrepareOn(c, sv, s, h),
              AfterAllocation(c) \in ClientType
       PROVE  \/ client'.auto_commit
              \/ client'.session_generation = c.session_generation
  BY <1>11, SectionKeeps, LostStays DEF PrepareOn
<1>12. ASSUME NEW h \in Txns, NEW s \in Stmts, TxnPrepare(h, s)
       PROVE  Stays
  <2>1. Ready /\ Entered = client
    BY <1>12 DEF TxnPrepare, Ready, Entered
  <2>2. AfterAllocation(client) \in ClientType
    BY <1>12, <2>1, EnteredFacts, AllocationFacts DEF TxnPrepare, PrepareOn, IInv
  <2> QED
    BY <1>1, <1>11, <1>12, <2>2 DEF TxnPrepare, Stays
<1>13. ASSUME NEW s \in Stmts, ClientPrepare(s)
       PROVE  Stays
  <2>1. AfterAllocation(Entered) \in ClientType
    BY <1>13, EnteredFacts, AllocationFacts DEF ClientPrepare, PrepareOn, IInv
  <2>2. CASE ~client.connected
    <3>1. Entered.auto_commit /\ AfterAllocation(Entered).auto_commit
          /\ \A n : Released(AfterAllocation(Entered), n).auto_commit
      BY <1>13, <2>1, <2>2, EnteredFacts, SectionKeeps
      DEF Entered, Established, ClientPrepare
    <3> QED
      BY <1>13, <3>1, EnteredStays, LostStays DEF ClientPrepare, PrepareOn, Stays
  <2>3. CASE client.connected
    BY <1>1, <1>11, <1>13, <2>1, <2>3 DEF ClientPrepare, Entered, Stays
  <2> QED
    BY <2>2, <2>3
<1>14. ASSUME NEW s \in Stmts, CloseStmt(s) \/ DropStmt(s) \/ CleanupStmt(s)
       PROVE  Stays
  <2>1. client' \in {client, Released(client, section[s])} /\ UNCHANGED txnVars
    BY <1>14 DEF CloseStmt, DropStmt, CleanupStmt, ReleaseSection
  <2> QED
    BY <1>1, <2>1, SectionKeeps DEF Stays
<1>15. ASSUME NEW s \in Stmts, NEW w \in Writes, Execute(s, w)
       PROVE  Stays
  BY <1>1, <1>6, <1>15 DEF Execute, Stays
<1>16. ASSUME NEW s \in Stmts, NEW v \in Writes, NEW w \in Writes,
              ExecuteBatch(s, v, w)
       PROVE  Stays
  BY <1>1, <1>16, LostStays DEF ExecuteBatch, Stays
<1>17. CASE UNCHANGED vars
  BY <1>17 DEF vars, Stays
<1> QED
  BY <1>2, <1>3, <1>4, <1>5, <1>7, <1>8, <1>9, <1>10, <1>12, <1>13, <1>14,
     <1>15, <1>16, <1>17 DEF ClientStep, StmtStep

LEMMA OwnerStep ==
    ASSUME IInv, NEW h \in Txns, Owned,
           \/ Begin(h) \/ Commit(h) \/ Rollback(h) \/ Drop(h) \/ Cleanup(h)
    PROVE  Owned' \/ client'.auto_commit \/ faults' > faults \/ ~server.alive
<1>1. /\ client \in ClientType /\ faults \in Nat
      /\ txn \in [Txns -> States] /\ txnSession \in [Txns -> Nat]
  BY FineClient DEF IInv, Typed, TypeOK
<1>2. PICK g \in Txns : txn[g] \in {"open", "dropped"} /\ Valid(txnSession[g])
  BY DEF Owned
<1>3. CASE Begin(h)
  <2>1. /\ client' = [Entered EXCEPT !.auto_commit = FALSE]
        /\ Entered \in ClientType
        /\ txn'[h] = "open" /\ txnSession'[h] = Entered.session_generation
    BY <1>1, <1>3, EnteredStays DEF Begin
  <2>2. client'.session_generation = txnSession'[h]
    BY <2>1 DEF ClientType
  <2> QED
    BY <2>1, <2>2 DEF Owned, Valid
<1>4. ASSUME \E how \in {"failed", "abandoned"} : Ends(h, how),
             UNCHANGED <<client, txnSession>>
      PROVE  Owned'
  <2>1. txn'[h] = "dropped" /\ \A k \in Txns \ {h} : txn'[k] = txn[k]
    BY <1>1, <1>4 DEF Ends
  <2>2. txn'[g] \in {"open", "dropped"} /\ Valid(txnSession[g])'
    BY <1>2, <1>4, <2>1 DEF Valid
  <2> QED
    BY <2>2 DEF Owned
<1>5. [client EXCEPT !.auto_commit = TRUE].auto_commit
  BY <1>1 DEF ClientType
<1>6. CASE Commit(h)
  BY <1>1, <1>4, <1>5, <1>6, LostStays DEF Commit
<1>7. CASE Rollback(h)
  BY <1>1, <1>4, <1>5, <1>7, LostStays DEF Rollback
<1>8. CASE Drop(h)
  BY <1>4, <1>8 DEF Drop
<1>9. CASE Cleanup(h)
  <2>1. CASE ~Valid(txnSession[h]) /\ UNCHANGED client
    <3>1. g # h /\ txn'[g] = txn[g] /\ UNCHANGED txnSession
      BY <1>1, <1>2, <1>9, <2>1 DEF Cleanup
    <3> QED
      BY <1>2, <2>1, <3>1 DEF Owned, Valid
  <2>2. CASE Fault
    BY <1>1, <2>2 DEF Fault
  <2> QED
    BY <1>5, <1>9, <2>1, <2>2 DEF Cleanup
<1> QED
  BY <1>3, <1>6, <1>7, <1>8, <1>9

\* transaction.rs puts the client back in auto_commit when the transaction
\* that took it out of it ends: no step leaves the client in manual mode with
\* no transaction of its session to end it, unless that step is a rollback
\* that failed or the server had already ended the session.
THEOREM ManualModeAlwaysEnds == Spec => ManualModeEnds
<1>1. IInv /\ [Next]_vars =>
          [Owned /\ ~Owned' => client'.auto_commit \/ faults' > faults
                                 \/ ~server.alive]_vars
  <2> SUFFICES ASSUME IInv, [Next]_vars, Owned, ~Owned'
               PROVE  client'.auto_commit \/ faults' > faults \/ ~server.alive
    OBVIOUS
  <2>1. CASE \E h \in Txns : \/ Begin(h) \/ Commit(h) \/ Rollback(h)
                             \/ Drop(h) \/ Cleanup(h)
    BY <2>1, OwnerStep
  <2>2. CASE ~\E h \in Txns : \/ Begin(h) \/ Commit(h) \/ Rollback(h)
                              \/ Drop(h) \/ Cleanup(h)
    <3>1. Stays
      BY <2>2, PlainStays DEF Next, TxnStep
    <3> QED
      BY <3>1, StaysOwned
  <2> QED
    BY <2>1, <2>2
<1> QED
  BY <1>1, Invariance, PTL DEF Spec, ManualModeEnds
=============================================================================
