---------------------------- MODULE AnswerProofs ----------------------------
(***************************************************************************)
(* Proofs about Conversation for any number of operations, rows, faults    *)
(* and fetches: what an operation returns on a session that has not lost   *)
(* its place is its own, whole and in order; and its state has its types.  *)
(***************************************************************************)
EXTENDS ConversationProofs, FiniteSetTheorems

\* Frames s with this body are those numbered after a up to b of operation op:
\* n tells for each prefix of s how far it comes.
Counts(n, s, body, op, a, b) ==
    /\ n \in [0..Len(s) -> a..b] /\ n[0] = a /\ n[Len(s)] = b
    /\ \A i \in 1..Len(s) :
          IF s[i].body = body
          THEN n[i] = n[i - 1] + 1 /\ s[i].row = n[i] /\ s[i].op = op
          ELSE n[i] = n[i - 1]

Counted(s, body, op, a, b) ==
    \E n \in [0..Len(s) -> a..b] : Counts(n, s, body, op, a, b)

\* What may stand in the LOB column of a row before the operation is over:
\* LUW keeps the references to the end, z/OS resolves them fetch by fetch.
LobsOf(op, kind) ==
    IF kind # "lob" THEN {Unneeded}
    ELSE IF Zos THEN {NoLob} \cup ({op} \X Nat)
    ELSE {NoLob}

RowsOf(op, kind) == [id : {op} \X Nat, lob : LobsOf(op, kind)]

\* The rows of an operation after number a up to number b, and their payloads.
OwnRows(rows, op, kind, a, b) ==
    /\ rows \in Seq(RowsOf(op, kind)) /\ Len(rows) = b - a
    /\ \A i \in 1..Len(rows) : rows[i].id = <<op, a + i>>

OwnLobs(lobs, op, a, b) ==
    /\ lobs \in Seq({op} \X Nat) /\ Len(lobs) = b - a
    /\ \A i \in 1..Len(lobs) : lobs[i] = <<op, a + i>>

Blank(c) ==
    /\ c.rows = <<>> /\ c.lobs = <<>> /\ c.pending = <<>> /\ c.fetched = NoFetch
    /\ ~c.closing

\* The operation has m rows and l payloads, of which the current fetch brought
\* those after a and b.
Got(c, m, l) ==
    /\ c.pending = <<>>
    /\ c.fetched = [rows |-> c.fetched.rows, lobs |-> c.fetched.lobs]
    /\ \E a \in 0..m : /\ OwnRows(c.rows, c.op, c.kind, 0, a)
                       /\ OwnRows(c.fetched.rows, c.op, c.kind, a, m)
    /\ \E b \in 0..l : /\ OwnLobs(c.lobs, c.op, 0, b)
                       /\ OwnLobs(c.fetched.lobs, c.op, b, l)

\* All that the server has to send.
Whole(kind, m, l) == m = total /\ (kind = "lob" => l = total)

\* The cursor has sent m rows and l payloads of the operation in progress.
Sent(m, l) ==
    /\ cursor.op = call.op =>
          /\ cursor \in Cursors /\ cursor.sent = m /\ cursor.lobs = l
          /\ cursor.total = total /\ cursor.kind = call.kind
    /\ \/ /\ cursor.op = call.op /\ ~call.end
          /\ \A f \in Unread : f.body # "end"
       \/ Whole(call.kind, m, l)

\* The requests of a fetch that are not answered; with CLSQRY next, or
\* answered, the fetch in front of it has brought everything.
Fetching(m, l) ==
    /\ ~call.closing => Len(asked) <= 1 /\ (asked # <<>> => asked[1].cmd = "fetch")
    /\ call.closing =>
          /\ asked # <<>> => asked[Len(asked)].cmd = "close"
          /\ asked = <<>> \/ asked[1].cmd = "close" => Whole(call.kind, m, l)

\* Rows and payloads from the operation over the current read to the line are
\* in order and without a gap, up to row b and payload l.
Along(b, l) ==
    \E m, n \in 0..b, i, j \in 0..l :
        /\ Got(call, m, i) /\ m <= n /\ i <= j
        /\ Counted(inbox, "row", call.op, m, n) /\ Counted(line, "row", call.op, n, b)
        /\ Counted(inbox, "lob", call.op, i, j) /\ Counted(line, "lob", call.op, j, l)

Flowing ==
    \E b, l \in 0..total : /\ call.kind # "lob" => l = 0
                          /\ Along(b, l) /\ Sent(b, l) /\ Fetching(b, l)

\* z/OS closes a cursor early: the rows of the operation have their payloads.
Resolved(c) ==
    /\ Zos /\ c.kind = "lob" /\ c.desc /\ c.pending = <<>>
    /\ Len(c.rows) <= total /\ OwnRows(c.rows, c.op, c.kind, 0, Len(c.rows))
    /\ ~Unresolved(c.rows)

\* The commit of the operation is on its way, or performed.
Performing ==
    IF asked = <<>> THEN call.op \in performed ELSE asked[Len(asked)].cmd = "commit"

Advancing ==
    CASE call.at \in {"execute", "commit"} -> Performing
      [] call.at = "open" -> asked = <<>> => Flowing
      [] call.at \in {"fetch", "more", "closing"} ->
           Flowing /\ (call.at = "closing" => call.closing)
      [] call.at = "close" -> Resolved(call)
      [] call.at = "descriptors" -> FALSE
      [] OTHER -> TRUE

Refused == \E f \in Unread : f.body = "sqlerror"

\* What an operation may return with Ok.
Right(op, kind, rows) ==
    CASE kind \in {"change", "commit"} -> op \in performed
      [] kind = "lob" /\ Zos ->
           /\ Len(rows) <= total
           /\ \A i \in DOMAIN rows : rows[i].id = <<op, i>> /\ rows[i].lob[1] = op
      [] OTHER -> rows = Own(op, kind)

Suited ==
    /\ call.kind = "change" <=> call.at = "execute"
    /\ call.kind = "commit" <=> call.at = "commit"

Answers ==
    /\ total \in Nat /\ total <= MaxRows
    /\ Sound => ~Busy /\ asked = <<>> /\ Right(answer.op, answer.kind, answer.rows)
    /\ call.at \in Reads => Suited
    /\ call.at \in {"ready", "prepare", "describe", "open"} => Blank(call)
    /\ causes = {} /\ call.at \in Reads => Refused \/ Advancing

AInv == CInv /\ Answers
-----------------------------------------------------------------------------
(* Numbered frames *)

LEMMA LeastNat ==
    ASSUME NEW T, T \subseteq Nat, T # {}
    PROVE  \E x \in T : \A y \in T : x <= y
<1>1. PICK x \in T : \A y \in T : ~(<<y, x>> \in OpToRel(<, Nat))
  BY WFMin, NatLessThanWellFounded
<1>2. \A y \in T : ~(y < x)
  BY <1>1 DEF OpToRel
<1>3. \A y \in T : x <= y
  BY <1>2
<1> QED
  BY <1>3

LEMMA CountsGrow ==
    ASSUME NEW s \in Seq(AnyFrame), NEW body, NEW op, NEW a \in Nat, NEW b \in Nat,
           NEW n, Counts(n, s, body, op, a, b), NEW i \in 0..Len(s),
           NEW j \in i..Len(s)
    PROVE  n[i] <= n[j]
<1> DEFINE T == {k \in i..Len(s) : n[k] < n[i]}
<1>1. Len(s) \in Nat /\ n \in [0..Len(s) -> a..b]
  BY LenProperties DEF Counts
<1>2. \A k \in 0..Len(s) : n[k] \in Nat
  BY <1>1
<1>3. ASSUME T # {}
      PROVE  FALSE
  <2>1. T \subseteq Nat
    BY <1>1
  <2>2. PICK k \in T : \A y \in T : k <= y
    BY <1>3, <2>1, LeastNat
  <2>3. k # i /\ k \in i..Len(s) /\ n[k] < n[i]
    BY <1>2, <2>2
  <2>4. k - 1 \in i..Len(s) /\ k \in 1..Len(s) /\ k - 1 \in 0..Len(s)
    BY <1>1, <2>3
  <2>5. n[k - 1] <= n[k]
    <3>1. IF s[k].body = body THEN n[k] = n[k - 1] + 1 ELSE n[k] = n[k - 1]
      BY <2>4 DEF Counts
    <3>2. n[k - 1] \in Nat /\ n[k] \in Nat
      BY <1>1, <1>2, <2>4
    <3> QED
      BY <3>1, <3>2
  <2>6. k - 1 \in T
    BY <1>2, <2>3, <2>4, <2>5
  <2> QED
    BY <2>2, <2>4, <2>6
<1> QED
  BY <1>1, <1>2, <1>3

LEMMA CountedNone ==
    ASSUME NEW s \in Seq(AnyFrame), NEW body, NEW op, NEW a \in Nat,
           \A i \in 1..Len(s) : s[i].body # body
    PROVE  Counted(s, body, op, a, a)
<1> DEFINE n == [i \in 0..Len(s) |-> a]
<1>1. Len(s) \in Nat
  BY LenProperties
<1>2. n \in [0..Len(s) -> a..a] /\ n[0] = a /\ n[Len(s)] = a
  BY <1>1
<1>3. \A i \in 1..Len(s) : n[i] = n[i - 1]
  BY <1>1
<1> HIDE DEF n
<1> QED
  BY <1>2, <1>3 DEF Counted, Counts

LEMMA CountedEmpty ==
    ASSUME NEW body, NEW op, NEW a, NEW b, Counted(<<>>, body, op, a, b)
    PROVE  a = b
BY DEF Counted, Counts

LEMMA CountedOrder ==
    ASSUME NEW s \in Seq(AnyFrame), NEW body, NEW op, NEW a \in Nat, NEW b \in Nat,
           Counted(s, body, op, a, b)
    PROVE  a <= b
<1>1. Len(s) \in Nat
  BY LenProperties
<1> QED
  BY <1>1 DEF Counted, Counts

LEMMA CountedSame ==
    ASSUME NEW s, NEW t, Len(t) = Len(s), NEW body, NEW op, NEW a, NEW b,
           \A i \in 1..Len(s) : /\ t[i].body = s[i].body /\ t[i].row = s[i].row
                                /\ t[i].op = s[i].op,
           Counted(s, body, op, a, b)
    PROVE  Counted(t, body, op, a, b)
BY DEF Counted, Counts

LEMMA CountedConcat ==
    ASSUME NEW s \in Seq(AnyFrame), NEW t \in Seq(AnyFrame), NEW body, NEW op,
           NEW a \in Nat, NEW b \in Nat, NEW c \in Nat,
           Counted(s, body, op, a, b), Counted(t, body, op, b, c)
    PROVE  Counted(s \o t, body, op, a, c)
<1>1. PICK n \in [0..Len(s) -> a..b] : Counts(n, s, body, op, a, b)
  BY DEF Counted
<1>2. PICK p \in [0..Len(t) -> b..c] : Counts(p, t, body, op, b, c)
  BY DEF Counted
<1> DEFINE u == s \o t
           q == [i \in 0..(Len(s) + Len(t)) |-> IF i <= Len(s) THEN n[i] ELSE p[i - Len(s)]]
<1>3. /\ Len(u) = Len(s) + Len(t)
      /\ \A i \in 1..(Len(s) + Len(t)) : u[i] = IF i <= Len(s) THEN s[i] ELSE t[i - Len(s)]
  BY ConcatProperties
<1>4. Len(s) \in Nat /\ Len(t) \in Nat
  BY LenProperties
<1>5. a <= b /\ b <= c
  BY CountedOrder
<1>6. /\ \A i \in 0..Len(s) : n[i] \in a..b
      /\ \A i \in 0..Len(t) : p[i] \in b..c
      /\ n[0] = a /\ n[Len(s)] = b /\ p[0] = b /\ p[Len(t)] = c
  BY <1>1, <1>2 DEF Counts
<1> HIDE DEF u
<1>7. q \in [0..Len(u) -> a..c] /\ q[0] = a /\ q[Len(u)] = c
  <2>1. \A i \in 0..(Len(s) + Len(t)) : q[i] \in a..c
    <3> SUFFICES ASSUME NEW i \in 0..(Len(s) + Len(t))
                 PROVE  q[i] \in a..c
      OBVIOUS
    <3>1. CASE i <= Len(s)
      BY <1>4, <1>5, <1>6, <3>1
    <3>2. CASE ~(i <= Len(s))
      <4>1. i - Len(s) \in 0..Len(t)
        BY <1>4, <3>2
      <4> QED
        BY <1>5, <1>6, <3>2, <4>1
    <3> QED
      BY <3>1, <3>2
  <2>2. q[0] = a
    BY <1>4, <1>6
  <2>3. q[Len(s) + Len(t)] = c
    <3>1. CASE Len(t) = 0
      <4>1. q[Len(s) + Len(t)] = n[Len(s)] /\ b = c
        BY <1>4, <1>6, <3>1
      <4> QED
        BY <1>6, <4>1
    <3>2. CASE Len(t) # 0
      <4>1. q[Len(s) + Len(t)] = p[(Len(s) + Len(t)) - Len(s)]
        BY <1>4, <3>2
      <4>2. (Len(s) + Len(t)) - Len(s) = Len(t)
        BY <1>4
      <4> QED
        BY <1>6, <4>1, <4>2
    <3> QED
      BY <3>1, <3>2
  <2> QED
    BY <1>3, <2>1, <2>2, <2>3
<1>8. ASSUME NEW i \in 1..Len(u)
      PROVE  IF u[i].body = body
             THEN q[i] = q[i - 1] + 1 /\ u[i].row = q[i] /\ u[i].op = op
             ELSE q[i] = q[i - 1]
  <2>1. CASE i <= Len(s)
    <3>1. i \in 1..Len(s) /\ u[i] = s[i] /\ q[i] = n[i] /\ q[i - 1] = n[i - 1]
      BY <1>3, <1>4, <1>8, <2>1
    <3> HIDE DEF q
    <3> QED
      BY <1>1, <3>1 DEF Counts
  <2>2. CASE ~(i <= Len(s))
    <3> DEFINE j == i - Len(s)
    <3>1. j \in 1..Len(t) /\ u[i] = t[j] /\ q[i] = p[j]
      BY <1>3, <1>4, <1>8, <2>2
    <3>2. q[i - 1] = p[j - 1]
      <4>1. CASE i - 1 <= Len(s)
        <5>1. i - 1 = Len(s) /\ j - 1 = 0
          BY <1>3, <1>4, <1>8, <2>2, <4>1
        <5>2. q[i - 1] = n[i - 1]
          BY <1>4, <5>1
        <5> QED
          BY <1>6, <5>1, <5>2
      <4>2. CASE ~(i - 1 <= Len(s))
        BY <1>3, <1>4, <1>8, <4>2
      <4> QED
        BY <4>1, <4>2
    <3> HIDE DEF q, j
    <3> QED
      BY <1>2, <3>1, <3>2 DEF Counts
  <2> QED
    BY <2>1, <2>2
<1> HIDE DEF q
<1> QED
  BY <1>7, <1>8 DEF Counted, Counts, u

LEMMA CountedSplit ==
    ASSUME NEW s \in Seq(AnyFrame), NEW body, NEW op, NEW a \in Nat, NEW b \in Nat,
           Counted(s, body, op, a, b), NEW k \in 0..Len(s),
           NEW t \in Seq(AnyFrame), Len(t) = k, \A i \in 1..k : t[i] = s[i],
           NEW u \in Seq(AnyFrame), Len(u) = Len(s) - k,
           \A i \in 1..Len(u) : u[i] = s[k + i]
    PROVE  \E c \in a..b : Counted(t, body, op, a, c) /\ Counted(u, body, op, c, b)
<1>1. PICK n \in [0..Len(s) -> a..b] : Counts(n, s, body, op, a, b)
  BY DEF Counted
<1>2. Len(s) \in Nat /\ Len(u) \in Nat
  BY LenProperties
<1>3. /\ \A i \in 0..Len(s) : n[i] \in a..b
      /\ n[0] = a /\ n[Len(s)] = b
      /\ \A i \in 1..Len(s) :
            IF s[i].body = body
            THEN n[i] = n[i - 1] + 1 /\ s[i].row = n[i] /\ s[i].op = op
            ELSE n[i] = n[i - 1]
  BY <1>1 DEF Counts
<1> DEFINE c == n[k]
           p == [i \in 0..k |-> n[i]]
           q == [i \in 0..Len(u) |-> n[k + i]]
<1>4. c \in a..b
  BY <1>3
<1>5. Counted(t, body, op, a, c)
  <2>1. \A i \in 0..k : n[i] <= c
    <3> SUFFICES ASSUME NEW i \in 0..k
                 PROVE  n[i] <= n[k]
      OBVIOUS
    <3>1. i \in 0..Len(s) /\ k \in i..Len(s)
      BY <1>2
    <3> QED
      BY <1>1, <3>1, CountsGrow
  <2>2. p \in [0..k -> a..c] /\ p[0] = a /\ p[k] = c
    <3>1. \A i \in 0..k : p[i] = n[i] /\ i \in 0..Len(s)
      BY <1>2
    <3>2. \A i \in 0..k : p[i] \in a..c
      <4>1. \A i \in 0..k : n[i] \in a..b /\ n[i] <= c
        BY <1>3, <2>1, <3>1
      <4> QED
        BY <1>4, <3>1, <4>1
    <3> QED
      BY <1>3, <3>1, <3>2
  <2>3. \A i \in 1..k : /\ i \in 1..Len(s) /\ p[i] = n[i] /\ p[i - 1] = n[i - 1]
                        /\ t[i] = s[i]
    BY <1>2
  <2> HIDE DEF p, c
  <2>4. Counts(p, t, body, op, a, c)
    BY <1>3, <2>2, <2>3 DEF Counts
  <2> QED
    BY <2>2, <2>4 DEF Counted
<1>6. Counted(u, body, op, c, b)
  <2>1. \A i \in 0..Len(u) : k + i \in 0..Len(s) /\ c <= n[k + i]
    <3> SUFFICES ASSUME NEW i \in 0..Len(u)
                 PROVE  k + i \in 0..Len(s) /\ c <= n[k + i]
      OBVIOUS
    <3>1. k + i \in k..Len(s) /\ k \in 0..Len(s) /\ k + i \in 0..Len(s)
      BY <1>2
    <3> QED
      BY <1>1, <3>1, CountsGrow
  <2>2. q \in [0..Len(u) -> c..b] /\ q[0] = c /\ q[Len(u)] = b
    <3>1. \A i \in 0..Len(u) : q[i] \in c..b
      BY <1>3, <1>4, <2>1
    <3>2. q[0] = n[k + 0] /\ q[Len(u)] = n[k + Len(u)]
      BY <1>2
    <3>3. k + 0 = k /\ k + Len(u) = Len(s)
      BY <1>2
    <3> QED
      BY <1>3, <3>1, <3>2, <3>3
  <2>3. \A i \in 1..Len(u) : /\ k + i \in 1..Len(s) /\ q[i] = n[k + i]
                             /\ q[i - 1] = n[(k + i) - 1] /\ u[i] = s[k + i]
    BY <1>2
  <2> HIDE DEF q, c
  <2>4. ASSUME NEW i \in 1..Len(u)
        PROVE  IF u[i].body = body
               THEN q[i] = q[i - 1] + 1 /\ u[i].row = q[i] /\ u[i].op = op
               ELSE q[i] = q[i - 1]
    <3> DEFINE j == k + i
    <3>1. j \in 1..Len(s) /\ q[i] = n[j] /\ q[i - 1] = n[j - 1] /\ u[i] = s[j]
      BY <2>3
    <3> HIDE DEF j
    <3> QED
      BY <1>3, <3>1
  <2>5. Counts(q, u, body, op, c, b)
    BY <2>2, <2>4 DEF Counts
  <2> QED
    BY <2>2, <2>5 DEF Counted
<1> HIDE DEF c
<1> QED
  BY <1>4, <1>5, <1>6
-----------------------------------------------------------------------------
(* The frames of the server *)

LEMMA CountedRun ==
    ASSUME NEW op \in Nat, NEW body \in Bodies, NEW first \in Nat, NEW k \in Nat
    PROVE  /\ Counted(Run(op, body, first, k), body, op, first, first + k)
           /\ \A other, by : \A a \in Nat : other # body =>
                  Counted(Run(op, body, first, k), other, by, a, a)
<1> DEFINE s == Run(op, body, first, k)
           n == [i \in 0..k |-> first + i]
<1>1. s \in Seq(AnyFrame) /\ Len(s) = k
  BY DraftMany DEF Draft
<1>2. \A i \in 1..k : s[i].body = body /\ s[i].op = op /\ s[i].row = first + i
  BY DEF Run, Frame
<1>3. /\ n \in [0..k -> first..(first + k)] /\ n[0] = first /\ n[k] = first + k
      /\ \A i \in 1..k : n[i] = n[i - 1] + 1 /\ n[i] = first + i
  OBVIOUS
<1> HIDE DEF s, n
<1>4. Counts(n, s, body, op, first, first + k)
  BY <1>1, <1>2, <1>3 DEF Counts
<1>5. Counted(s, body, op, first, first + k)
  BY <1>1, <1>3, <1>4 DEF Counted
<1>6. \A other, by : \A a \in Nat : other # body => Counted(s, other, by, a, a)
  BY <1>1, <1>2, CountedNone
<1> QED
  BY <1>5, <1>6 DEF s

\* What a list of frames carries of an operation.
Carries(frames, op, a, b, i, j) ==
    Counted(frames, "row", op, a, b) /\ Counted(frames, "lob", op, i, j)

LEMMA CarriesNothing ==
    ASSUME NEW s \in Seq(AnyFrame), NEW op, NEW b \in Nat, NEW l \in Nat,
           \A i \in 1..Len(s) : s[i].body \notin {"row", "lob"}
    PROVE  Carries(s, op, b, b, l, l)
BY CountedNone DEF Carries

LEMMA CarriesConcat ==
    ASSUME NEW s \in Seq(AnyFrame), NEW t \in Seq(AnyFrame), NEW op,
           NEW a \in Nat, NEW b \in Nat, NEW c \in Nat,
           NEW i \in Nat, NEW j \in Nat, NEW k \in Nat,
           Carries(s, op, a, b, i, j), Carries(t, op, b, c, j, k)
    PROVE  Carries(s \o t, op, a, c, i, k)
BY CountedConcat DEF Carries

LEMMA RunCarries ==
    ASSUME NEW op \in Nat, NEW first \in Nat, NEW k \in Nat, NEW a \in Nat
    PROVE  /\ Carries(Run(op, "row", first, k), op, first, first + k, a, a)
           /\ Carries(Run(op, "lob", first, k), op, a, a, first, first + k)
           /\ Run(op, "row", first, k) \in Seq(AnyFrame)
           /\ Run(op, "lob", first, k) \in Seq(AnyFrame)
<1>1. "row" \in Bodies /\ "lob" \in Bodies
  BY DEF Bodies
<1>2. /\ Run(op, "row", first, k) \in Seq(AnyFrame)
      /\ Run(op, "lob", first, k) \in Seq(AnyFrame)
  BY <1>1, DraftMany DEF Draft
<1>3. /\ Counted(Run(op, "row", first, k), "row", op, first, first + k)
      /\ Counted(Run(op, "row", first, k), "lob", op, a, a)
  BY <1>1, CountedRun
<1>4. /\ Counted(Run(op, "lob", first, k), "lob", op, first, first + k)
      /\ Counted(Run(op, "lob", first, k), "row", op, a, a)
  BY <1>1, CountedRun
<1> QED
  BY <1>2, <1>3, <1>4 DEF Carries

LEMMA BlockCarries ==
    ASSUME NEW q \in Cursors, NEW rows \in Nat, NEW lobs \in Nat, NEW ends \in BOOLEAN
    PROVE  /\ Carries(Block(q, rows, lobs, ends), q.op, q.sent, q.sent + rows,
                      q.lobs, q.lobs + lobs)
           /\ ~ends => \A i \in DOMAIN Block(q, rows, lobs, ends) :
                          Block(q, rows, lobs, ends)[i].body # "end"
<1> DEFINE a == Run(q.op, "row", q.sent, rows)
           b == Run(q.op, "lob", q.lobs, lobs)
           z == IF ends THEN <<Frame(q.op, "end", 0), Frame(q.op, "done", 0)>> ELSE <<>>
           m == q.sent + rows
           l == q.lobs + lobs
<1>1. q.op \in Nat /\ q.sent \in Nat /\ q.lobs \in Nat /\ m \in Nat /\ l \in Nat
  BY DEF Cursors
<1>2. {"row", "lob", "end", "done"} \subseteq Bodies
  BY DEF Bodies
<1>3. Carries(a, q.op, q.sent, m, q.lobs, q.lobs) /\ a \in Seq(AnyFrame)
  BY <1>1, RunCarries
<1>4. Carries(b, q.op, m, m, q.lobs, l) /\ b \in Seq(AnyFrame)
  BY <1>1, RunCarries
<1>5. Carries(z, q.op, m, m, l, l) /\ z \in Seq(AnyFrame)
  <2> DEFINE f == Frame(q.op, "end", 0)
             g == Frame(q.op, "done", 0)
  <2>1. f \in AnyFrame /\ g \in AnyFrame /\ f.body = "end" /\ g.body = "done"
    BY <1>1, <1>2, FrameType
  <2> HIDE DEF f, g
  <2>2. z \in Seq(AnyFrame) /\ \A i \in 1..Len(z) : z[i].body \notin {"row", "lob"}
    <3>1. CASE ends
      BY <2>1, <3>1 DEF f, g
    <3>2. CASE ~ends
      BY <3>2
    <3> QED
      BY <3>1, <3>2
  <2> HIDE DEF z
  <2> QED
    BY <1>1, <2>2, CarriesNothing
<1>6. Block(q, rows, lobs, ends) = a \o b \o z
  BY DEF Block, Run
<1>7. ~ends => Unended(Block(q, rows, lobs, ends))
  BY BlockDraft
<1> HIDE DEF a, b, z, m, l
<1>8. Carries(a \o b, q.op, q.sent, m, q.lobs, l) /\ a \o b \in Seq(AnyFrame)
  BY <1>1, <1>3, <1>4, CarriesConcat, ConcatProperties
<1>9. Carries(a \o b \o z, q.op, q.sent, m, q.lobs, l)
  BY <1>1, <1>5, <1>8, CarriesConcat
<1> QED
  BY <1>6, <1>7, <1>9 DEF m, l, Unended, Final

LEMMA ReplyCarries ==
    ASSUME NEW r, NEW frames, Draft(frames), Len(frames) > 0,
           NEW op, NEW a, NEW b, NEW i, NEW j, Carries(frames, op, a, b, i, j)
    PROVE  Carries(Reply(r, frames), op, a, b, i, j) /\ Reply(r, frames) \in Seq(AnyFrame)
<1> DEFINE n == Len(frames)
           e == [frames[n] EXCEPT !.chained = FALSE]
           g == [frames EXCEPT ![n] = e]
<1>1. frames \in Seq(AnyFrame) /\ n \in 1..Len(frames)
  BY LenProperties DEF Draft
<1>2. frames[n] \in AnyFrame
  BY <1>1
<1>3. /\ e \in AnyFrame /\ e.body = frames[n].body /\ e.row = frames[n].row
      /\ e.op = frames[n].op
  BY <1>2 DEF AnyFrame
<1>4. Reply(r, frames) = IF r.chained THEN frames ELSE g
  BY DEF Reply
<1> HIDE DEF e
<1>5. /\ g \in Seq(AnyFrame) /\ Len(g) = n
      /\ \A k \in 1..n : g[k] = IF k = n THEN e ELSE frames[k]
  BY <1>1, <1>3, ExceptSeq
<1> HIDE DEF g
<1>6. \A k \in 1..Len(frames) : /\ g[k].body = frames[k].body /\ g[k].row = frames[k].row
                                /\ g[k].op = frames[k].op
  BY <1>3, <1>5
<1>7. Carries(g, op, a, b, i, j)
  BY <1>5, <1>6, CountedSame DEF Carries
<1> QED
  BY <1>1, <1>4, <1>5, <1>7
-----------------------------------------------------------------------------
(* What a reply adds to the line *)

LEMMA LineGrows ==
    ASSUME Typed, NEW r, NEW frames, Draft(frames), Len(frames) > 0,
           line' = line \o Reply(r, frames)
    PROVE  /\ Range(line) \subseteq Range(line')
           /\ \A k \in DOMAIN frames : \E x \in Range(line') : x.body = frames[k].body
           /\ \A x \in Range(line') :
                 x \in Range(line) \/ \E i \in DOMAIN frames : x.body = frames[i].body
<1> DEFINE g == Reply(r, frames)
<1>1. /\ g \in Seq(AnyFrame) /\ Len(g) = Len(frames)
      /\ \A i \in 1..Len(g) : g[i].body = frames[i].body
  BY ReplyKeeps
<1>0. line' = line \o g
  OBVIOUS
<1> HIDE DEF g
<1>2. /\ line \in Seq(AnyFrame) /\ Len(line) \in Nat /\ DOMAIN line = 1..Len(line)
      /\ DOMAIN frames = 1..Len(frames) /\ Len(g) \in Nat
  BY <1>1, LenProperties DEF Typed, Draft
<1>3. /\ line' \in Seq(AnyFrame) /\ Len(line') = Len(line) + Len(g)
      /\ \A i \in 1..(Len(line) + Len(g)) :
            line'[i] = IF i <= Len(line) THEN line[i] ELSE g[i - Len(line)]
  <2> DEFINE l == line \o g
  <2>1. /\ l \in Seq(AnyFrame) /\ Len(l) = Len(line) + Len(g)
        /\ \A i \in 1..(Len(line) + Len(g)) :
              l[i] = IF i <= Len(line) THEN line[i] ELSE g[i - Len(line)]
    <3>1. line \in Seq(AnyFrame) /\ g \in Seq(AnyFrame)
      BY <1>1, <1>2
    <3> QED
      BY <3>1, ConcatProperties
  <2>2. line' = l
    BY <1>0
  <2> HIDE DEF l
  <2> QED
    BY <2>1, <2>2
<1>4. DOMAIN line' = 1..(Len(line) + Len(g))
  BY <1>3, LenProperties
<1>5. \A i \in 1..Len(line) : i \in DOMAIN line' /\ line'[i] = line[i]
  BY <1>2, <1>3, <1>4
<1>6. \A k \in 1..Len(g) : Len(line) + k \in DOMAIN line' /\ line'[Len(line) + k] = g[k]
  <2> SUFFICES ASSUME NEW k \in 1..Len(g)
               PROVE  Len(line) + k \in DOMAIN line' /\ line'[Len(line) + k] = g[k]
    OBVIOUS
  <2> DEFINE i == Len(line) + k
  <2>1. i \in 1..(Len(line) + Len(g)) /\ ~(i <= Len(line)) /\ i - Len(line) = k
    BY <1>2
  <2> HIDE DEF i
  <2>2. i \in DOMAIN line' /\ line'[i] = g[k]
    BY <1>3, <1>4, <2>1
  <2> QED
    BY <2>2 DEF i
<1>7. Range(line) \subseteq Range(line')
  BY <1>2, <1>5 DEF Range
<1>8. \A k \in DOMAIN frames : \E x \in Range(line') : x.body = frames[k].body
  <2> SUFFICES ASSUME NEW k \in DOMAIN frames
               PROVE  \E x \in Range(line') : x.body = frames[k].body
    OBVIOUS
  <2>1. line'[Len(line) + k] \in Range(line') /\ line'[Len(line) + k].body = frames[k].body
    BY <1>1, <1>2, <1>6 DEF Range
  <2> QED
    BY <2>1
<1> QED
  BY <1>7, <1>8, AnsweredLine

LEMMA GotSame ==
    ASSUME system' = system, call' = call, NEW m, NEW l, Got(call, m, l)
    PROVE  Got(call, m, l)'
BY DEF Got, OwnRows, OwnLobs, RowsOf, LobsOf, Zos

LEMMA AlongGrows ==
    ASSUME Typed, system' = system, call' = call, inbox' = inbox,
           NEW b \in Nat, NEW l \in Nat, Along(b, l),
           NEW m \in Nat, b <= m, NEW k \in Nat, l <= k,
           NEW r, NEW frames, Draft(frames), Len(frames) > 0,
           Carries(frames, call.op, b, m, l, k), line' = line \o Reply(r, frames)
    PROVE  Along(m, k)'
<1>1. PICK a \in 0..b, n \in 0..b, i \in 0..l, j \in 0..l :
        /\ Got(call, a, i) /\ a <= n /\ i <= j
        /\ Counted(inbox, "row", call.op, a, n) /\ Counted(line, "row", call.op, n, b)
        /\ Counted(inbox, "lob", call.op, i, j) /\ Counted(line, "lob", call.op, j, l)
  BY DEF Along
<1>2. line \in Seq(AnyFrame) /\ Reply(r, frames) \in Seq(AnyFrame)
  BY ReplyCarries DEF Typed
<1>3. Carries(Reply(r, frames), call.op, b, m, l, k)
  BY ReplyCarries
<1>4. Carries(line, call.op, n, b, j, l)
  BY <1>1 DEF Carries
<1>5. n \in Nat /\ j \in Nat
  OBVIOUS
<1>6. Carries(line', call.op, n, m, j, k)
  BY <1>2, <1>3, <1>4, <1>5, CarriesConcat
<1>7. Got(call, a, i)'
  BY <1>1, GotSame
<1>8. a \in 0..m /\ n \in 0..m /\ i \in 0..k /\ j \in 0..k
  OBVIOUS
<1>9. /\ Counted(inbox, "row", call.op, a, n)' /\ Counted(line, "row", call.op, n, m)'
      /\ Counted(inbox, "lob", call.op, i, j)' /\ Counted(line, "lob", call.op, j, k)'
  BY <1>1, <1>6 DEF Carries, Counted, Counts
<1> QED
  BY <1>1, <1>7, <1>8, <1>9 DEF Along

\* The reply to a request in the course of an operation.
Serving(r) ==
    /\ Typed /\ Waits /\ asked # <<>> /\ r = asked[1] /\ r \in Requests
    /\ asked' = Tail(asked) /\ asked' \in Seq(Requests)
    /\ Len(asked) \in Nat \ {0} /\ Len(asked') = Len(asked) - 1
    /\ \A i \in 1..Len(asked') : asked'[i] = asked[i + 1]
    /\ UNCHANGED <<system, call, inbox>>
    /\ call.at \in Reads /\ total \in Nat

LEMMA ServingFacts ==
    ASSUME NEW r, Serving(r)
    PROVE  /\ system' = system /\ call' = call /\ inbox' = inbox
           /\ r.op = call.op /\ r.kind = call.kind /\ r.cmd \in Due(call.at)
           /\ r.op \in Nat /\ r.kind \in Asked
           /\ Len(asked) \in {1, 2}
           /\ r.cmd \notin {"close", "commit"} => line = <<>> /\ inbox = <<>>
           /\ asked' = <<>> <=> Len(asked) = 1
           /\ asked' # <<>> => /\ Len(asked') = 1 /\ asked'[1] = asked[2]
                              /\ asked[2].cmd \in {"close", "commit"} \cap Due(call.at)
<1>1. Len(asked) \in {1, 2}
  <2> DEFINE n == Len(asked)
  <2>1. n \in Nat \ {0} /\ n <= 2
    BY DEF Serving, Waits
  <2> HIDE DEF n
  <2>2. n \in {1, 2}
    BY <2>1
  <2> QED
    BY <2>2 DEF n
<1>2. 1 \in 1..Len(asked) /\ (Len(asked) = 2 => 2 \in 1..Len(asked))
  BY <1>1
<1>3. r.op = call.op /\ r.kind = call.kind /\ r.cmd \in Due(call.at)
  BY <1>2 DEF Serving, Waits
<1>4. asked' = <<>> <=> Len(asked) = 1
  BY <1>1, EmptySeq DEF Serving
<1>5. Len(asked) = 2 => asked[2].cmd \in {"close", "commit"} \cap Due(call.at)
  BY <1>2 DEF Serving, Waits
<1>6. Len(asked) = 2 => Len(asked') = 1 /\ asked'[1] = asked[2]
  BY <1>1 DEF Serving
<1>7. r.cmd \notin {"close", "commit"} => line = <<>> /\ inbox = <<>>
  BY DEF Serving, Waits
<1>8. system' = system /\ call' = call /\ inbox' = inbox /\ r.op \in Nat /\ r.kind \in Asked
  BY DEF Serving, Requests
<1> QED
  BY <1>1, <1>3, <1>4, <1>5, <1>6, <1>7, <1>8

LEMMA OpenAnswers ==
    ASSUME NEW r, Serving(r), AnswerOpen, Head(asked) = r, Blank(call)
    PROVE  Flowing' /\ total' \in 0..MaxRows
<1>1. PICK all \in 0..MaxRows, rows \in 0..MaxRows, lobs \in 0..MaxRows, ends \in BOOLEAN :
        LET q == [op |-> r.op, kind |-> r.kind, total |-> all, sent |-> 0, lobs |-> 0]
        IN  /\ MayBlock(q, rows, lobs, ends)
            /\ Sends(<<Frame(r.op, "opened", 0), Frame(r.op, "format", 0)>>
                     \o Block(q, rows, lobs, ends))
            /\ cursor' = After(q, rows, lobs, ends)
            /\ total' = all
  BY DEF AnswerOpen, Serving
<1> DEFINE q == [op |-> r.op, kind |-> r.kind, total |-> all, sent |-> 0, lobs |-> 0]
           head == <<Frame(r.op, "opened", 0), Frame(r.op, "format", 0)>>
           block == Block(q, rows, lobs, ends)
<1>2. /\ MayBlock(q, rows, lobs, ends) /\ Sends(head \o block)
      /\ cursor' = After(q, rows, lobs, ends) /\ total' = all
  BY <1>1
<1>3. /\ q \in Cursors /\ q.op = r.op /\ q.kind = r.kind /\ r.op \in Nat
      /\ q.sent = 0 /\ q.lobs = 0 /\ q.total = all
      /\ r.cmd = "open" /\ r.op = call.op /\ r.kind = call.kind
      /\ r.cmd \in Due(call.at)
      /\ all \in Nat /\ rows \in Nat /\ lobs \in Nat /\ all <= MaxRows
  BY ConversationAssumption, ServingFacts DEF Cursors, AnswerOpen
<1>4. call.at = "open" /\ line = <<>> /\ inbox = <<>> /\ ~call.end
  BY <1>3, ServingFacts DEF Due, Reads, Serving, Typed
<1>5. /\ asked' = <<>> /\ call' = call /\ inbox' = <<>> /\ system' = system
      /\ Typed /\ total' = all
  BY <1>2, <1>4, ServingFacts DEF Due, Serving
<1>6. Draft(head) /\ Len(head) = 2 /\ Carries(head, call.op, 0, 0, 0, 0)
      /\ \A i \in DOMAIN head : head[i].body # "end"
  <2> DEFINE f == Frame(r.op, "opened", 0)
             g == Frame(r.op, "format", 0)
  <2>1. "opened" \in Bodies /\ "format" \in Bodies /\ 0 \in Nat
    BY DEF Bodies
  <2>2. /\ f \in AnyFrame /\ f.chained /\ f.body = "opened"
        /\ g \in AnyFrame /\ g.chained /\ g.body = "format"
    BY <1>3, <2>1, FrameType
  <2>3. head = <<f, g>>
    OBVIOUS
  <2> HIDE DEF f, g, head
  <2>4. Draft(head) /\ Len(head) = 2
    BY <2>2, <2>3, DraftTwo
  <2>5. \A i \in 1..Len(head) : head[i].body \notin {"row", "lob"}
    BY <2>2, <2>3
  <2>6. Carries(head, call.op, 0, 0, 0, 0)
    BY <2>4, <2>5, CarriesNothing DEF Draft
  <2> QED
    BY <2>2, <2>3, <2>4, <2>6
<1> HIDE DEF q, head
<1>7. /\ Draft(block) /\ Carries(block, call.op, 0, rows, 0, lobs)
      /\ ~ends => \A i \in DOMAIN block : block[i].body # "end"
  <2>1. Draft(block)
    BY <1>3, BlockDraft
  <2>2. /\ Carries(block, q.op, q.sent, q.sent + rows, q.lobs, q.lobs + lobs)
        /\ ~ends => \A i \in DOMAIN block : block[i].body # "end"
    BY <1>3, BlockCarries
  <2>3. 0 + rows = rows /\ 0 + lobs = lobs
    BY <1>3
  <2> QED
    BY <1>3, <2>1, <2>2, <2>3
<1> HIDE DEF block
<1>8. /\ Draft(head \o block) /\ Len(head \o block) > 0
      /\ Carries(head \o block, call.op, 0, rows, 0, lobs)
      /\ ~ends => \A i \in DOMAIN (head \o block) : (head \o block)[i].body # "end"
  <2>1. Draft(head \o block) /\ Len(head \o block) = 2 + Len(block) /\ Len(block) \in Nat
    <3>1. head \in Seq(AnyFrame) /\ block \in Seq(AnyFrame) /\ Len(head) = 2
      BY <1>6, <1>7 DEF Draft
    <3>2. Draft(head \o block)
      BY <1>6, <1>7, DraftConcat
    <3>3. Len(head \o block) = Len(head) + Len(block) /\ Len(block) \in Nat
      BY <3>1, ConcatProperties, LenProperties
    <3> QED
      BY <3>1, <3>2, <3>3
  <2>2. Carries(head \o block, call.op, 0, rows, 0, lobs)
    BY <1>3, <1>6, <1>7, CarriesConcat DEF Draft
  <2>3. /\ \A i \in 1..(2 + Len(block)) :
              (head \o block)[i] = IF i <= 2 THEN head[i] ELSE block[i - 2]
        /\ DOMAIN (head \o block) = 1..(2 + Len(block))
        /\ DOMAIN head = 1..2 /\ DOMAIN block = 1..Len(block)
    BY <1>6, <1>7, <2>1, ConcatProperties, LenProperties DEF Draft
  <2> QED
    BY <1>6, <1>7, <2>1, <2>2, <2>3
<1> DEFINE frames == head \o block
<1>9. line' = line \o Reply(r, frames)
  BY <1>2 DEF Sends, Serving
<1>15. Draft(frames) /\ Len(frames) > 0 /\ Carries(frames, call.op, 0, rows, 0, lobs)
  BY <1>8
<1>16. ~ends => \A i \in DOMAIN frames : frames[i].body # "end"
  BY <1>8
<1> HIDE DEF frames
<1>10. /\ rows <= total' /\ lobs <= total' /\ (call.kind # "lob" => lobs = 0)
       /\ ends => rows = total' /\ (call.kind = "lob" => lobs = total')
  BY <1>2, <1>3 DEF MayBlock
<1>11. Along(rows, lobs)'
  <2>1. Got(call, 0, 0)
    <3>1. /\ call.pending = <<>> /\ call.rows = <<>> /\ call.lobs = <<>>
          /\ call.fetched.rows = <<>> /\ call.fetched.lobs = <<>>
          /\ call.fetched = [rows |-> call.fetched.rows, lobs |-> call.fetched.lobs]
      BY DEF Blank, NoFetch
    <3>2. \A kind : OwnRows(<<>>, call.op, kind, 0, 0) /\ OwnLobs(<<>>, call.op, 0, 0)
      BY DEF OwnRows, OwnLobs
    <3> QED
      BY <3>1, <3>2 DEF Got
  <2>2. Carries(<<>>, call.op, 0, 0, 0, 0)
    <3>1. <<>> \in Seq(AnyFrame) /\ \A i \in 1..Len(<<>>) : <<>>[i].body \notin {"row", "lob"}
      OBVIOUS
    <3> QED
      BY <3>1, CarriesNothing
  <2>3. Along(0, 0)
    BY <1>4, <2>1, <2>2 DEF Along, Carries
  <2> QED
    <3>1. 0 <= rows /\ 0 <= lobs /\ 0 \in Nat /\ inbox' = inbox
      BY <1>3, <1>4, <1>5
    <3> QED
      <4>1. Typed /\ system' = system /\ call' = call /\ inbox' = inbox
        BY <1>5, <3>1
      <4>2. rows \in Nat /\ lobs \in Nat
        BY <1>3
      <4> QED
      BY <4>1, <4>2, <1>15, <1>9, <2>3, <3>1, AlongGrows
<1>12. Fetching(rows, lobs)'
  <2>1. ~call'.closing /\ Len(asked') = 0
    BY <1>5 DEF Blank
  <2> QED
    BY <1>5, <2>1 DEF Fetching
<1>13. Sent(rows, lobs)'
  <2>1. CASE ends
    BY <1>2, <1>3, <1>5, <1>10, <2>1 DEF Sent, Whole, After, NoCursor
  <2>2. CASE ~ends
    <3>1. cursor' = [q EXCEPT !.sent = 0 + rows, !.lobs = 0 + lobs]
      BY <1>2, <1>3, <2>2 DEF After
    <3>2. /\ cursor' \in Cursors /\ cursor'.op = call.op /\ cursor'.kind = call.kind
          /\ cursor'.sent = rows /\ cursor'.lobs = lobs /\ cursor'.total = total'
      <4>1. 0 + rows = rows /\ 0 + lobs = lobs /\ rows \in Nat /\ lobs \in Nat
        BY <1>3
      <4>2. cursor' = [q EXCEPT !.sent = rows, !.lobs = lobs]
        BY <3>1, <4>1
      <4> QED
        BY <1>2, <1>3, <4>1, <4>2 DEF Cursors
    <3>3. \A f \in Unread' : f.body # "end"
      <4>1. Unread' = Range(line')
        BY <1>5 DEF Unread, Range
      <4>2. Range(line) = {}
        BY <1>4 DEF Range
      <4>3. \A x \in Range(line') : \E i \in DOMAIN frames : x.body = frames[i].body
        <5>1. Typed /\ Draft(frames) /\ Len(frames) > 0
          BY <1>5, <1>15
        <5>2. \A x \in Range(line') :
                 x \in Range(line) \/ \E i \in DOMAIN frames : x.body = frames[i].body
          BY <1>9, <5>1, LineGrows
        <5> QED
          BY <4>2, <5>2
      <4> QED
        BY <1>16, <2>2, <4>1, <4>3
    <3> QED
      BY <1>4, <1>5, <3>2, <3>3 DEF Sent
  <2> QED
    BY <2>1, <2>2
<1>14. rows \in 0..total' /\ lobs \in 0..total' /\ call' = call
  BY <1>3, <1>5, <1>10
<1> QED
  BY <1>3, <1>5, <1>10, <1>11, <1>12, <1>13, <1>14 DEF Flowing

\* A fetch or a close while a query is read: which of its requests is next.
LEMMA FetchingNext ==
    ASSUME NEW r, Serving(r), call.at \in {"fetch", "more", "closing"},
           NEW b, NEW l, Fetching(b, l), NEW m, NEW k,
           call.closing => m = total' /\ (call.kind = "lob" => k = total')
    PROVE  Fetching(m, k)'
<1>1. call' = call /\ Len(asked) \in {1, 2}
  BY ServingFacts
<1>2. CASE ~call.closing
  <2>1. Len(asked) = 1 /\ asked' = <<>>
    <3>1. Len(asked) <= 1
      BY <1>2 DEF Fetching
    <3>2. Len(asked) = 1
      <4> DEFINE n == Len(asked)
      <4>1. n \in {1, 2} /\ n <= 1
        BY <1>1, <3>1
      <4> HIDE DEF n
      <4>2. n = 1
        BY <4>1
      <4> QED
        BY <4>2 DEF n
    <3> QED
      BY <3>2, ServingFacts
  <2> QED
    BY <1>1, <1>2, <2>1 DEF Fetching
<1>3. CASE call.closing
  <2>1. asked' # <<>> => asked'[Len(asked')].cmd = "close"
    <3>1. asked' # <<>> => Len(asked') = 1 /\ asked'[1].cmd \in {"close", "commit"} \cap Due(call.at)
      BY ServingFacts
    <3> QED
      BY <3>1 DEF Due
  <2>2. Whole(call.kind, m, k)'
    BY <1>1, <1>3 DEF Whole
  <2> QED
    BY <1>1, <1>3, <2>1, <2>2 DEF Fetching
<1> QED
  BY <1>2, <1>3

\* A reply without rows: the cursor stays, or has nothing more to send.
LEMMA BareAnswers ==
    ASSUME NEW r, Serving(r), call.at \in {"fetch", "more", "closing"}, Flowing,
           NEW body \in Bodies \ {"row", "lob", "end"}, Sends(<<Frame(r.op, body, 0)>>),
           Head(asked) = r, total' = total,
           \A b, l : Sent(b, l) /\ Fetching(b, l) =>
               \/ Whole(call.kind, b, l)
               \/ cursor' = cursor /\ ~call.closing,
           cursor' = cursor \/ cursor' = NoCursor
    PROVE  Flowing'
<1> DEFINE f == Frame(r.op, body, 0)
           frames == <<f>>
<1>1. PICK b \in 0..total, l \in 0..total :
        /\ call.kind # "lob" => l = 0
        /\ Along(b, l) /\ Sent(b, l) /\ Fetching(b, l)
  BY DEF Flowing
<1>2. b \in Nat /\ l \in Nat /\ Typed /\ b <= b /\ l <= l
  BY DEF Serving
<1>3. /\ system' = system /\ call' = call /\ inbox' = inbox /\ r.op = call.op
      /\ r.op \in Nat
  BY ServingFacts
<1>4. f \in AnyFrame /\ f.chained /\ f.body = body /\ 0 \in Nat
  BY <1>3, FrameType
<1>5. line' = line \o Reply(r, frames)
  BY DEF Sends
<1> HIDE DEF f
<1>6. Draft(frames) /\ Len(frames) > 0
  BY <1>4, DraftOne
<1>7. \A i \in DOMAIN frames : frames[i].body = body
  BY <1>4, DraftOne
<1>8. Carries(frames, call.op, b, b, l, l)
  <2>1. \A i \in 1..Len(frames) : frames[i].body \notin {"row", "lob"}
    BY <1>4
  <2>2. frames \in Seq(AnyFrame)
    BY <1>6 DEF Draft
  <2> QED
    BY <1>2, <2>1, <2>2, CarriesNothing
<1> HIDE DEF frames
<1>9. Along(b, l)'
  BY <1>1, <1>2, <1>3, <1>5, <1>6, <1>8, AlongGrows
<1>10. Whole(call.kind, b, l) \/ (cursor' = cursor /\ ~call.closing)
  BY <1>1
<1>11. Fetching(b, l)'
  BY <1>1, <1>10, FetchingNext DEF Whole
<1>12. Whole(call.kind, b, l) => Whole(call.kind, b, l)'
  BY <1>3 DEF Whole
<1>13. cursor.op = call.op /\ cursor' = cursor =>
          /\ cursor' \in Cursors /\ cursor'.sent = b /\ cursor'.lobs = l
          /\ cursor'.total = total' /\ cursor'.kind = call'.kind
  BY <1>1, <1>3 DEF Sent
<1>14. (\A x \in Unread : x.body # "end") => \A x \in Unread' : x.body # "end"
  <2>1. \A x \in Range(line') :
           x \in Range(line) \/ \E i \in DOMAIN frames : x.body = frames[i].body
    BY <1>2, <1>5, <1>6, LineGrows
  <2>2. \A x \in Range(line') : x \in Range(line) \/ x.body # "end"
    BY <1>7, <2>1
  <2>3. Range(inbox') = Range(inbox)
    BY <1>3
  <2> QED
    BY <2>2, <2>3 DEF Unread
<1>15. Sent(b, l)'
  <2>1. CASE cursor' = cursor
    BY <1>1, <1>3, <1>12, <1>13, <1>14, <2>1 DEF Sent
  <2>2. CASE cursor' = NoCursor /\ cursor' # cursor
    <3>1. cursor'.op # call'.op
      BY <1>3, <2>2 DEF NoCursor
    <3> QED
      BY <1>10, <1>12, <2>2, <3>1 DEF Sent
  <2> QED
    BY <2>1, <2>2
<1>16. call'.kind # "lob" => l = 0
  BY <1>1, <1>3
<1>17. b \in 0..total' /\ l \in 0..total'
  OBVIOUS
<1> QED
  BY <1>9, <1>11, <1>15, <1>16, <1>17 DEF Flowing

\* The next block of a result.
LEMMA BlockAnswers ==
    ASSUME NEW r, Serving(r), call.at \in {"fetch", "more", "closing"}, Flowing,
           r.cmd = "fetch", Head(asked) = r, cursor.op = r.op, total' = total,
           NEW rows \in 0..MaxRows, NEW lobs \in 0..MaxRows, NEW ends \in BOOLEAN,
           rows + lobs > 0 \/ ends,
           r.kind = "limited" => cursor.sent + rows = cursor.total,
           MayBlock(cursor, rows, lobs, ends),
           Sends(Block(cursor, rows, lobs, ends)),
           cursor' = After(cursor, rows, lobs, ends)
    PROVE  Flowing'
<1> DEFINE frames == Block(cursor, rows, lobs, ends)
<1>1. PICK b \in 0..total, l \in 0..total :
        /\ call.kind # "lob" => l = 0
        /\ Along(b, l) /\ Sent(b, l) /\ Fetching(b, l)
  BY DEF Flowing
<1> DEFINE m == b + rows
           k == l + lobs
<1>2. /\ b \in Nat /\ l \in Nat /\ Typed /\ rows \in Nat /\ lobs \in Nat /\ total \in Nat
      /\ m \in Nat /\ k \in Nat /\ b <= m /\ l <= k
  BY ConversationAssumption DEF Serving
<1>3. /\ system' = system /\ call' = call /\ inbox' = inbox /\ r.op = call.op
      /\ r.op \in Nat /\ r.kind = call.kind /\ line = <<>> /\ inbox = <<>>
  BY ServingFacts
<1>4. /\ cursor \in Cursors /\ cursor.sent = b /\ cursor.lobs = l
      /\ cursor.total = total /\ cursor.kind = call.kind /\ cursor.op = call.op
  BY <1>1, <1>3 DEF Sent
<1>5. /\ m <= total /\ (call.kind # "lob" => lobs = 0) /\ (call.kind = "lob" => k <= m)
      /\ ends => m = total /\ (call.kind = "lob" => k = total)
  BY <1>4 DEF MayBlock
<1>6. k <= total /\ (call.kind # "lob" => k = 0)
  BY <1>1, <1>2, <1>5
<1>7. line' = line \o Reply(r, frames)
  BY DEF Sends
<1>8. Draft(frames) /\ Len(frames) > 0
  BY <1>2, <1>4, BlockDraft
<1>9. Carries(frames, call.op, b, m, l, k)
  BY <1>2, <1>4, BlockCarries
<1>10. ~ends => \A i \in DOMAIN frames : frames[i].body # "end"
  BY <1>2, <1>4, BlockCarries
<1> HIDE DEF frames, m, k
<1>11. Along(m, k)'
  BY <1>1, <1>2, <1>3, <1>7, <1>8, <1>9, AlongGrows
<1>12. Fetching(m, k)'
  <2>1. call.closing => call.kind = "limited"
    BY <1>2 DEF Typed, Formed
  <2>2. call.closing => m = total' /\ (call.kind = "lob" => k = total')
    BY <1>3, <1>4, <2>1 DEF m
  <2> QED
    BY <1>1, <2>2, FetchingNext
<1>13. Sent(m, k)'
  <2>1. CASE ends
    <3>1. cursor'.op # call'.op
      BY <1>3, <2>1 DEF After, NoCursor
    <3>2. Whole(call.kind, m, k)'
      BY <1>3, <1>5, <2>1 DEF Whole
    <3> QED
      BY <3>1, <3>2 DEF Sent
  <2>2. CASE ~ends
    <3>1. cursor' = [cursor EXCEPT !.sent = m, !.lobs = k]
      BY <1>4, <2>2 DEF After, m, k
    <3>2. /\ cursor' \in Cursors /\ cursor'.op = call.op /\ cursor'.kind = call.kind
          /\ cursor'.sent = m /\ cursor'.lobs = k /\ cursor'.total = total'
      BY <1>2, <1>4, <3>1 DEF Cursors
    <3>3. ~Whole(call.kind, b, l)
      <4> SUFFICES ASSUME Whole(call.kind, b, l)
                   PROVE  FALSE
        OBVIOUS
      <4>1. b = total /\ (call.kind = "lob" => l = total)
        BY DEF Whole
      <4>2. rows = 0
        BY <1>2, <1>5, <4>1 DEF m
      <4>3. lobs = 0
        BY <1>2, <1>5, <4>1, <4>2 DEF m, k
      <4> QED
        BY <2>2, <4>2, <4>3
    <3>4. ~call.end
      BY <1>1, <3>3 DEF Sent
    <3>5. \A f \in Unread' : f.body # "end"
      <4>1. Unread' = Range(line')
        BY <1>3 DEF Unread, Range
      <4>2. Range(line) = {}
        BY <1>3 DEF Range
      <4>3. \A x \in Range(line') :
               x \in Range(line) \/ \E i \in DOMAIN frames : x.body = frames[i].body
        BY <1>2, <1>7, <1>8, LineGrows
      <4> QED
        BY <1>10, <2>2, <4>1, <4>2, <4>3
    <3> QED
      BY <1>3, <3>2, <3>4, <3>5 DEF Sent
  <2> QED
    BY <2>1, <2>2
<1>14. m \in 0..total' /\ k \in 0..total' /\ (call'.kind # "lob" => k = 0)
  BY <1>2, <1>3, <1>5, <1>6
<1> QED
  BY <1>11, <1>12, <1>13, <1>14 DEF Flowing

LEMMA FetchAnswers ==
    ASSUME NEW r, Serving(r), Flowing, AnswerFetch, Head(asked) = r,
           call.at \in {"fetch", "more", "closing"}
    PROVE  Flowing' /\ total' = total
<1>1. r.cmd = "fetch" /\ r.op = call.op /\ r.kind = call.kind
  BY ServingFacts DEF AnswerFetch
<1>2. CASE cursor.op # r.op
  <2>1. Sends(<<Frame(r.op, "noquery", 0)>>) /\ cursor' = cursor /\ total' = total
    BY <1>2 DEF AnswerFetch, server
  <2>2. \A b, l : Sent(b, l) /\ Fetching(b, l) => Whole(call.kind, b, l)
    BY <1>1, <1>2 DEF Sent
  <2>3. "noquery" \in Bodies \ {"row", "lob", "end"}
    BY DEF Bodies
  <2> QED
    BY <2>1, <2>2, <2>3, BareAnswers
<1>3. CASE /\ cursor.op = r.op /\ r.kind # "limited"
           /\ Sends(<<Frame(r.op, "done", 0)>>) /\ UNCHANGED server
  <2>1. Sends(<<Frame(r.op, "done", 0)>>) /\ cursor' = cursor /\ total' = total
    BY <1>3 DEF server
  <2>2. ~call.closing
    BY <1>1, <1>3 DEF Serving, Typed, Formed
  <2>3. "done" \in Bodies \ {"row", "lob", "end"}
    BY DEF Bodies
  <2> QED
    BY <2>1, <2>2, <2>3, BareAnswers
<1>4. ASSUME cursor.op = r.op,
             NEW rows \in 0..MaxRows, NEW lobs \in 0..MaxRows, NEW ends \in BOOLEAN,
             rows + lobs > 0 \/ ends,
             r.kind = "limited" => cursor.sent + rows = cursor.total,
             MayBlock(cursor, rows, lobs, ends),
             Sends(Block(cursor, rows, lobs, ends)),
             cursor' = After(cursor, rows, lobs, ends), total' = total
      PROVE  Flowing'
  BY <1>1, <1>4, BlockAnswers
<1>5. CASE cursor.op = r.op
  <2>1. \/ r.kind # "limited" /\ Sends(<<Frame(r.op, "done", 0)>>) /\ UNCHANGED server
        \/ \E rows \in 0..MaxRows, lobs \in 0..MaxRows, ends \in BOOLEAN :
             /\ rows + lobs > 0 \/ ends
             /\ r.kind = "limited" => cursor.sent + rows = cursor.total
             /\ MayBlock(cursor, rows, lobs, ends)
             /\ Sends(Block(cursor, rows, lobs, ends))
             /\ cursor' = After(cursor, rows, lobs, ends)
             /\ total' = total
    BY <1>5 DEF AnswerFetch
  <2> QED
    BY <1>3, <1>4, <1>5, <2>1
<1> QED
  BY <1>2, <1>5

\* The reply to CLSQRY behind the fetch of a bounded result.
LEMMA CloseAnswers ==
    ASSUME NEW r, Serving(r), Flowing, AnswerOther, Head(asked) = r, r.cmd = "close",
           call.at \in {"fetch", "more", "closing"}
    PROVE  Flowing'
<1> DEFINE body == IF cursor.op = r.op THEN "closed" ELSE "nocursor"
<1>1. /\ Sends(<<Frame(r.op, body, 0)>>) /\ total' = total
      /\ cursor' = cursor \/ cursor' = NoCursor
  BY DEF AnswerOther
<1>2. body \in Bodies \ {"row", "lob", "end"}
  BY DEF Bodies
<1>3. \A b, l : Sent(b, l) /\ Fetching(b, l) => Whole(call.kind, b, l)
  <2> SUFFICES ASSUME NEW b, NEW l, Fetching(b, l)
               PROVE  Whole(call.kind, b, l)
    OBVIOUS
  <2>1. asked # <<>> /\ asked[1].cmd = "close"
    BY DEF Serving
  <2> QED
    BY <2>1 DEF Fetching
<1> HIDE DEF body
<1> QED
  BY <1>1, <1>2, <1>3, BareAnswers

\* A reply to a commit, or to the change before it.
LEMMA ChangeAnswers ==
    ASSUME NEW r, Serving(r), Performing, AnswerOther, Head(asked) = r,
           call.at \in {"execute", "commit"}
    PROVE  Performing'
<1>1. /\ call' = call /\ r.op = call.op /\ Len(asked) \in {1, 2}
      /\ r.cmd \in {"change", "commit"}
  BY ServingFacts DEF Due
<1>2. asked # <<>> /\ asked[Len(asked)].cmd = "commit"
  BY DEF Performing, Serving
<1>3. CASE Len(asked) = 1
  <2>1. asked' = <<>> /\ r.cmd = "commit"
    BY <1>2, <1>3, ServingFacts DEF Serving
  <2>2. performed' = performed \cup {r.op}
    BY <2>1 DEF AnswerOther
  <2> QED
    BY <1>1, <2>1, <2>2 DEF Performing
<1>4. CASE Len(asked) = 2
  <2>1. asked' # <<>> /\ Len(asked') = 1 /\ asked'[1] = asked[2]
    BY <1>4, ServingFacts
  <2> QED
    BY <1>2, <1>4, <2>1 DEF Performing
<1> QED
  BY <1>1, <1>3, <1>4

LEMMA ErrorAnswers ==
    ASSUME NEW r, Serving(r), AnswerError, Head(asked) = r
    PROVE  Refused' /\ total' = total
<1> DEFINE f == Frame(r.op, "refused", 0)
           error == Frame(r.op, "sqlerror", 0)
           frames == IF r.cmd = "open" THEN <<f, error>> ELSE <<error>>
<1>1. Sends(frames) /\ total' = total
  BY DEF AnswerError
<1>2. r.op \in Nat /\ {"refused", "sqlerror"} \subseteq Bodies /\ Typed
  BY DEF Serving, Requests, Bodies
<1>3. /\ f \in AnyFrame /\ f.chained
      /\ error \in AnyFrame /\ error.chained /\ error.body = "sqlerror"
  BY <1>2, FrameType
<1> HIDE DEF f, error
<1>4. Draft(frames) /\ Len(frames) > 0
  BY <1>3, DraftOne, DraftTwo
<1>5. \E k \in DOMAIN frames : frames[k].body = "sqlerror"
  <2>1. CASE r.cmd = "open"
    <3>1. 2 \in DOMAIN <<f, error>> /\ <<f, error>>[2] = error
      OBVIOUS
    <3> QED
      BY <1>3, <2>1, <3>1
  <2>2. CASE r.cmd # "open"
    <3>1. 1 \in DOMAIN <<error>> /\ <<error>>[1] = error
      OBVIOUS
    <3> QED
      BY <1>3, <2>2, <3>1
  <2> QED
    BY <2>1, <2>2
<1> HIDE DEF frames
<1>6. line' = line \o Reply(r, frames)
  BY <1>1 DEF Sends, Serving
<1>7. \E x \in Range(line') : x.body = "sqlerror"
  BY <1>2, <1>4, <1>5, <1>6, LineGrows
<1> QED
  BY <1>1, <1>7 DEF Refused, Unread

LEMMA OtherTotal ==
    ASSUME AnswerOther, Head(asked) \in Requests
    PROVE  total' = total /\ Head(asked).cmd \notin {"open", "fetch"}
<1> DEFINE cmd == Head(asked).cmd
<1>1. cmd \in Cmds \ {"open", "fetch"}
  BY DEF AnswerOther, Requests
<1>2. CASE cmd \in {"setup", "prepare", "describe", "change"}
  BY <1>2 DEF AnswerOther, server
<1>3. CASE cmd = "close"
  BY <1>3 DEF AnswerOther
<1>4. CASE cmd = "commit"
  BY <1>4 DEF AnswerOther
<1> QED
  BY <1>1, <1>2, <1>3, <1>4 DEF Cmds

LEMMA AnswerAnswers ==
    ASSUME AInv, Answer
    PROVE  Answers'
<1> DEFINE r == Head(asked)
<1>1. /\ asked # <<>> /\ asked' = Tail(asked)
      /\ AnswerOpen \/ AnswerFetch \/ AnswerOther \/ AnswerError
      /\ UNCHANGED <<fixed, connected, call, inbox, ops, answer, causes>>
  BY DEF Answer
<1>2. /\ system' = system /\ call' = call /\ inbox' = inbox /\ answer' = answer
      /\ causes' = causes
  BY <1>1 DEF fixed
<1>3. CInv /\ Answers /\ Typed
  BY DEF AInv, CInv
<1>4. asked \in Seq(Requests)
  BY <1>3 DEF Typed
<1>5. /\ r = asked[1] /\ r \in Requests /\ Len(asked) \in Nat \ {0}
      /\ asked' \in Seq(Requests) /\ Len(asked') = Len(asked) - 1
      /\ \A i \in 1..Len(asked') : asked'[i] = asked[i + 1]
  BY <1>1, <1>4, TailAsked
<1>6. total' \in Nat /\ total' <= MaxRows
  <2>1. CASE AnswerOpen
    BY <2>1, ConversationAssumption DEF AnswerOpen
  <2>2. CASE AnswerFetch \/ AnswerOther \/ AnswerError
    <3>1. total' = total
      BY <1>5, <2>2, OtherTotal DEF AnswerFetch, AnswerError, server
    <3> QED
      BY <1>3, <3>1 DEF Answers
  <2> QED
    BY <1>1, <2>1, <2>2
<1>7. ~Sound'
  BY <1>1, <1>2, <1>3 DEF Answers, Sound
<1>8. ASSUME causes = {}, call.at \in Reads
      PROVE  (Refused \/ Advancing)'
  <2>1. Waits /\ (Refused \/ Advancing) /\ total \in Nat
    BY <1>3, <1>8 DEF CInv, InOrder, Answers
  <2>2. Serving(r)
    BY <1>1, <1>2, <1>3, <1>5, <1>8, <2>1 DEF Serving
  <2>3. r.cmd \in Due(call.at)
    BY <2>2, ServingFacts
  <2>4. CASE Refused
    <3>1. PICK frames : Serves(r, frames)
      BY <1>1, <1>3, <1>5, OpenServes, FetchServes, OtherServes, ErrorServes
    <3>2. Draft(frames) /\ Len(frames) > 0 /\ line' = line \o Reply(r, frames)
      BY <3>1 DEF Serves, Sends
    <3>3. Range(line) \subseteq Range(line')
      BY <1>3, <3>2, LineGrows
    <3> QED
      BY <1>2, <2>4, <3>3 DEF Refused, Unread
  <2>5. CASE AnswerError
    BY <2>2, <2>5, ErrorAnswers
  <2>6. CASE Advancing /\ AnswerOpen
    <3>1. call.at = "open"
      BY <1>8, <2>3, <2>6 DEF AnswerOpen, Due, Reads
    <3>2. Blank(call)
      BY <1>3, <3>1 DEF Answers
    <3>3. Flowing'
      BY <2>2, <2>6, <3>2, OpenAnswers
    <3> QED
      BY <1>2, <3>1, <3>3 DEF Advancing
  <2>7. CASE Advancing /\ AnswerFetch
    <3>1. call.at \in {"descriptors", "fetch", "more", "closing"}
      BY <1>8, <2>3, <2>7 DEF AnswerFetch, Due, Reads
    <3>2. /\ call.at \in {"fetch", "more", "closing"} /\ Flowing
          /\ call.at = "closing" => call.closing
      BY <2>7, <3>1 DEF Advancing
    <3>3. Flowing'
      BY <2>2, <2>7, <3>2, FetchAnswers
    <3> QED
      BY <1>2, <3>2, <3>3 DEF Advancing
  <2>8. CASE Advancing /\ AnswerOther
    <3>1. r.cmd \notin {"open", "fetch"} /\ total' = total
      BY <1>5, <2>8, OtherTotal
    <3>2. CASE call.at \in {"ready", "prepare", "describe"}
      BY <1>2, <3>2 DEF Advancing
    <3>3. CASE call.at \in {"open", "descriptors"}
      BY <2>3, <3>1, <3>3 DEF Due
    <3>4. CASE call.at \in {"fetch", "more", "closing"}
      <4>1. /\ Flowing /\ r.cmd = "close"
            /\ call.at = "closing" => call.closing
        BY <2>3, <2>8, <3>1, <3>4 DEF Advancing, Due
      <4>2. Flowing'
        BY <2>2, <2>8, <3>4, <4>1, CloseAnswers
      <4> QED
        BY <1>2, <3>4, <4>1, <4>2 DEF Advancing
    <3>5. CASE call.at = "close"
      <4>1. Resolved(call)
        BY <2>8, <3>5 DEF Advancing
      <4>2. Resolved(call)'
        BY <1>2, <3>1, <4>1 DEF Resolved, OwnRows, RowsOf, LobsOf, Zos
      <4> QED
        BY <1>2, <3>5, <4>2 DEF Advancing
    <3>6. CASE call.at \in {"execute", "commit"}
      <4>1. Performing
        BY <2>8, <3>6 DEF Advancing
      <4>2. Performing'
        BY <2>2, <2>8, <3>6, <4>1, ChangeAnswers
      <4> QED
        BY <1>2, <3>6, <4>2 DEF Advancing
    <3> QED
      BY <1>8, <3>2, <3>3, <3>4, <3>5, <3>6 DEF Reads
  <2> QED
    BY <1>1, <2>1, <2>4, <2>5, <2>6, <2>7, <2>8
<1>9. call'.at \in Reads => Suited'
  BY <1>2, <1>3 DEF Answers, Suited
<1>10. call'.at \in {"ready", "prepare", "describe", "open"} => Blank(call')
  BY <1>2, <1>3 DEF Answers
<1> QED
  BY <1>2, <1>6, <1>7, <1>8, <1>9, <1>10 DEF Answers, Blank
-----------------------------------------------------------------------------
(* Payloads and rows *)

LEMMA RankBounds ==
    ASSUME NEW n \in Nat, NEW open, open \subseteq 1..n, NEW i \in open
    PROVE  /\ Cardinality({j \in open : j <= i}) \in 1..i
           /\ open = 1..n => Cardinality({j \in open : j <= i}) = i
<1> DEFINE S == {j \in open : j <= i}
<1>1. i \in 1..n /\ i \in Nat
  OBVIOUS
<1>2. IsFiniteSet(1..i) /\ Cardinality(1..i) = i
  BY <1>1, FS_Interval
<1>3. S \subseteq 1..i /\ S # {}
  <2>1. i <= i /\ i \in S
    BY <1>1
  <2>2. \A j \in 1..n : j <= i => j \in 1..i
    BY <1>1
  <2> QED
    BY <2>1, <2>2
<1>4. open = 1..n => S = 1..i
  BY <1>1
<1> HIDE DEF S
<1>5. IsFiniteSet(S) /\ Cardinality(S) <= i
  BY <1>2, <1>3, FS_Subset
<1>6. Cardinality(S) \in Nat /\ Cardinality(S) # 0
  BY <1>3, <1>5, FS_CardinalityType, FS_EmptySet
<1>7. Cardinality(S) \in 1..i
  BY <1>1, <1>5, <1>6
<1>8. open = 1..n => Cardinality(S) = i
  BY <1>2, <1>4
<1> QED
  BY <1>7, <1>8 DEF S

\* Where a payload goes: the rows without one, and which of them row i is.
Open(rows) == {i \in DOMAIN rows : rows[i].lob = NoLob}
Rank(rows, i) == Cardinality({j \in Open(rows) : j <= i})

LEMMA AppliedRows ==
    ASSUME NEW S, NEW rows \in Seq(S), NEW payloads
    PROVE  /\ DOMAIN Applied(rows, payloads) = 1..Len(rows)
           /\ Applied(rows, payloads) = [i \in 1..Len(rows) |-> Applied(rows, payloads)[i]]
           /\ \A i \in 1..Len(rows) :
                 Applied(rows, payloads)[i] =
                     IF rows[i].lob = NoLob /\ Rank(rows, i) <= Len(payloads)
                     THEN [rows[i] EXCEPT !.lob = payloads[Rank(rows, i)]] ELSE rows[i]
<1>1. DOMAIN rows = 1..Len(rows)
  BY LenProperties
<1>2. Applied(rows, payloads) =
        [i \in DOMAIN rows |->
            IF i \in Open(rows) /\ Rank(rows, i) <= Len(payloads)
            THEN [rows[i] EXCEPT !.lob = payloads[Rank(rows, i)]] ELSE rows[i]]
  BY DEF Applied, Open, Rank
<1>3. \A i \in 1..Len(rows) : i \in Open(rows) <=> rows[i].lob = NoLob
  BY <1>1 DEF Open
<1> QED
  BY <1>1, <1>2, <1>3

LEMMA RankInRange ==
    ASSUME NEW S, NEW rows \in Seq(S), NEW i \in 1..Len(rows), rows[i].lob = NoLob
    PROVE  /\ Rank(rows, i) \in 1..i
           /\ (\A j \in 1..Len(rows) : rows[j].lob = NoLob) => Rank(rows, i) = i
<1>1. DOMAIN rows = 1..Len(rows) /\ Len(rows) \in Nat
  BY LenProperties
<1>2. Open(rows) \subseteq 1..Len(rows) /\ i \in Open(rows)
  BY <1>1 DEF Open
<1>3. (\A j \in 1..Len(rows) : rows[j].lob = NoLob) => Open(rows) = 1..Len(rows)
  BY <1>1 DEF Open
<1> QED
  BY <1>1, <1>2, <1>3, RankBounds DEF Rank

\* The same rows with other payloads.
SameRows(S, g, rows) ==
    /\ g \in Seq(S) /\ Len(g) = Len(rows)
    /\ \A i \in 1..Len(rows) : g[i].id = rows[i].id

LEMMA AppliedKeeps ==
    ASSUME NEW op, NEW kind, Zos \/ kind # "lob",
           NEW rows, rows \in Seq(RowsOf(op, kind)),
           NEW payloads, payloads \in Seq({op} \X Nat)
    PROVE  SameRows(RowsOf(op, kind), Applied(rows, payloads), rows)
<1> DEFINE g == Applied(rows, payloads)
<1>1. Len(rows) \in Nat /\ Len(payloads) \in Nat
  BY LenProperties
<1>2. ASSUME NEW i \in 1..Len(rows)
      PROVE  g[i] \in RowsOf(op, kind) /\ g[i].id = rows[i].id
  <2>1. rows[i] \in RowsOf(op, kind)
    OBVIOUS
  <2>2. CASE rows[i].lob = NoLob /\ Rank(rows, i) <= Len(payloads)
    <3>1. g[i] = [rows[i] EXCEPT !.lob = payloads[Rank(rows, i)]]
      BY <2>2, AppliedRows
    <3>2. Rank(rows, i) \in 1..Len(payloads)
      BY <1>1, <2>2, RankInRange
    <3>3. payloads[Rank(rows, i)] \in {op} \X Nat
      BY <3>2
    <3>4. kind = "lob" /\ Zos
      <4>1. rows[i].lob \in LobsOf(op, kind)
        BY <2>1 DEF RowsOf
      <4> QED
        BY <2>2, <4>1 DEF LobsOf, NoLob, Unneeded
    <3>5. payloads[Rank(rows, i)] \in LobsOf(op, kind)
      BY <3>3, <3>4 DEF LobsOf
    <3> HIDE DEF g
    <3> QED
      BY <2>1, <3>1, <3>5 DEF RowsOf
  <2>3. CASE ~(rows[i].lob = NoLob /\ Rank(rows, i) <= Len(payloads))
    <3>1. g[i] = rows[i]
      BY <2>3, AppliedRows
    <3> QED
      BY <2>1, <3>1
  <2> QED
    BY <2>2, <2>3
<1>3. g = [i \in 1..Len(rows) |-> g[i]]
  BY AppliedRows
<1> HIDE DEF g
<1>4. g \in Seq(RowsOf(op, kind)) /\ Len(g) = Len(rows)
  BY <1>1, <1>2, <1>3
<1> QED
  BY <1>2, <1>4 DEF g, SameRows

\* Rows none of which waits for a payload stay as they are.
LEMMA AppliedNone ==
    ASSUME NEW S, NEW rows \in Seq(S), NEW payloads,
           \A i \in 1..Len(rows) : rows[i].lob # NoLob
    PROVE  Applied(rows, payloads) = rows
<1>1. \A i \in 1..Len(rows) : Applied(rows, payloads)[i] = rows[i]
  BY AppliedRows
<1>2. Applied(rows, payloads) = [i \in 1..Len(rows) |-> Applied(rows, payloads)[i]]
  BY AppliedRows
<1>3. rows = [i \in 1..Len(rows) |-> rows[i]]
  BY LenProperties
<1> QED
  BY <1>1, <1>2, <1>3

\* With a payload for every row none is left without.
LEMMA AppliedAll ==
    ASSUME NEW op, NEW rows \in Seq(RowsOf(op, "lob")), NEW payloads \in Seq({op} \X Nat),
           Len(rows) <= Len(payloads), NEW i \in 1..Len(rows)
    PROVE  /\ Applied(rows, payloads)[i].lob \in {op} \X Nat
           /\ ~Zos => Applied(rows, payloads)[i] = [id |-> rows[i].id, lob |-> payloads[i]]
<1> DEFINE g == Applied(rows, payloads)
<1>1. Len(rows) \in Nat /\ Len(payloads) \in Nat
  BY LenProperties
<1>2. rows[i] \in RowsOf(op, "lob")
  OBVIOUS
<1>3. CASE rows[i].lob = NoLob
  <2>1. Rank(rows, i) \in 1..i
    BY <1>3, RankInRange
  <2>2. Rank(rows, i) <= Len(payloads) /\ Rank(rows, i) \in 1..Len(payloads)
    BY <1>1, <2>1
  <2>3. g[i] = [rows[i] EXCEPT !.lob = payloads[Rank(rows, i)]]
    BY <1>3, <2>2, AppliedRows
  <2>4. payloads[Rank(rows, i)] \in {op} \X Nat
    BY <2>2
  <2>5. ~Zos => Rank(rows, i) = i
    <3>1. \A j \in 1..Len(rows) : rows[j] \in RowsOf(op, "lob")
      OBVIOUS
    <3>2. ~Zos => \A row \in RowsOf(op, "lob") : row.lob = NoLob
      BY DEF RowsOf, LobsOf
    <3>3. ~Zos => \A j \in 1..Len(rows) : rows[j].lob = NoLob
      BY <3>1, <3>2
    <3> QED
      BY <1>3, <3>3, RankInRange
  <2> HIDE DEF g
  <2>6. g[i] = [id |-> rows[i].id, lob |-> payloads[Rank(rows, i)]]
    BY <1>2, <2>3 DEF RowsOf
  <2> QED
    BY <2>4, <2>5, <2>6 DEF g
<1>4. CASE rows[i].lob # NoLob
  <2>1. g[i] = rows[i]
    BY <1>4, AppliedRows
  <2>2. rows[i].lob \in LobsOf(op, "lob")
    BY <1>2 DEF RowsOf
  <2>3. Zos /\ rows[i].lob \in {op} \X Nat
    BY <1>4, <2>2 DEF LobsOf
  <2> QED
    BY <2>1, <2>3
<1> QED
  BY <1>3, <1>4
-----------------------------------------------------------------------------
(* Reading frame by frame *)

\* The sequence s of the items after number a up to m, continued up to x.
Extended(s, item, a, m, x) ==
    [k \in 1..(x - a) |-> IF k <= m - a THEN s[k] ELSE item[a + k]]

Longer(s, x) == Append(s, x)

Grows(S, s, item, a, m, x) ==
    /\ Extended(s, item, a, m, m) = s
    /\ Extended(s, item, a, m, x) \in Seq(S)
    /\ Len(Extended(s, item, a, m, x)) = x - a
    /\ Longer(Extended(s, item, a, m, x), item[x + 1]) = Extended(s, item, a, m, x + 1)

LEMMA ExtendedGrows ==
    ASSUME NEW S, NEW s \in Seq(S), NEW item \in [Nat -> S], NEW a \in Nat, NEW m \in Nat,
           a <= m, Len(s) = m - a, NEW x \in Nat, m <= x
    PROVE  Grows(S, s, item, a, m, x)
<1> DEFINE t == Extended(s, item, a, m, x)
           u == Extended(s, item, a, m, x + 1)
<1>1. x - a \in Nat /\ m - a \in Nat /\ (x + 1) - a = (x - a) + 1
  OBVIOUS
<1>2. Extended(s, item, a, m, m) = s
  <2>1. s = [k \in 1..(m - a) |-> s[k]]
    BY LenProperties
  <2>2. Extended(s, item, a, m, m) = [k \in 1..(m - a) |-> s[k]]
    BY <1>1 DEF Extended
  <2> QED
    BY <2>1, <2>2
<1>3. ASSUME NEW k \in 1..(x - a)
      PROVE  t[k] \in S /\ u[k] = t[k]
  <2>1. CASE k <= m - a
    <3>1. k \in 1..Len(s) /\ k \in 1..((x + 1) - a)
      BY <1>1, <2>1
    <3>2. t[k] = s[k] /\ u[k] = s[k]
      BY <2>1, <3>1 DEF Extended
    <3> QED
      BY <3>1, <3>2
  <2>2. CASE ~(k <= m - a)
    <3>1. a + k \in Nat /\ k \in 1..((x + 1) - a)
      BY <1>1
    <3>2. t[k] = item[a + k] /\ u[k] = item[a + k]
      BY <2>2, <3>1 DEF Extended
    <3> QED
      BY <3>1, <3>2
  <2> QED
    BY <2>1, <2>2
<1>4. t = [k \in 1..(x - a) |-> t[k]]
  BY DEF Extended
<1>5. u = [k \in 1..((x - a) + 1) |-> u[k]]
  BY <1>1 DEF Extended
<1>6. u[(x - a) + 1] = item[x + 1]
  <2>1. /\ (x - a) + 1 \in 1..((x + 1) - a) /\ ~((x - a) + 1 <= m - a)
        /\ a + ((x - a) + 1) = x + 1
    BY <1>1
  <2> QED
    BY <2>1 DEF Extended
<1>7. item[x + 1] \in S
  OBVIOUS
<1> DEFINE n == x - a
           z == item[x + 1]
<1>8. n \in Nat /\ z \in S
  BY <1>1, <1>7
<1> HIDE DEF t, u
<1>9. t \in Seq(S) /\ Len(t) = n
  BY <1>1, <1>3, <1>4
<1>10. u[n + 1] = z /\ u = [k \in 1..(n + 1) |-> u[k]] /\ \A k \in 1..n : u[k] = t[k]
  BY <1>3, <1>5, <1>6
<1> HIDE DEF n, z
<1>11. Append(t, z) = u
  <2>1. /\ Append(t, z) \in Seq(S) /\ Len(Append(t, z)) = n + 1
        /\ \A k \in 1..n : Append(t, z)[k] = t[k]
        /\ Append(t, z)[n + 1] = z
    BY <1>8, <1>9, AppendProperties
  <2>2. Append(t, z) = [k \in 1..(n + 1) |-> Append(t, z)[k]]
    BY <2>1, LenProperties
  <2>3. ASSUME NEW k \in 1..(n + 1)
        PROVE  Append(t, z)[k] = u[k]
    <3>1. k \in 1..n \/ k = n + 1
      BY <1>8
    <3> QED
      BY <1>10, <2>1, <3>1
  <2> QED
    BY <1>10, <2>2, <2>3
<1> QED
  BY <1>2, <1>9, <1>11 DEF t, u, n, z, Longer, Grows

\* The recursion has one solution.
QuerySolved(g, c, frames, n) ==
    g = [i \in 0..n |-> IF i = 0 THEN c ELSE QueryFrame(g[i - 1], frames[i])]

LEMMA QueryReadsIs ==
    ASSUME NEW c, NEW frames, NEW n \in Nat, Len(frames) = n, NEW g,
           QuerySolved(g, c, frames, n)
    PROVE  QueryReads(c, frames)[n] = g[n]
<1> DEFINE h == QueryReads(c, frames)
<1>1. h = [i \in 0..n |-> IF i = 0 THEN c ELSE QueryFrame(h[i - 1], frames[i])]
  BY DEF QueryReads, QuerySolved
<1> HIDE DEF h
<1>0. g = [i \in 0..n |-> IF i = 0 THEN c ELSE QueryFrame(g[i - 1], frames[i])]
  BY DEF QuerySolved
<1>2. SUFFICES ASSUME h[n] # g[n]
               PROVE  FALSE
  BY DEF h
<1> DEFINE T == {i \in 0..n : h[i] # g[i]}
<1>3. PICK i \in T : \A j \in T : i <= j
  <2>1. T \subseteq Nat /\ n \in T
    BY <1>2
  <2> HIDE DEF T
  <2> QED
    BY <2>1, LeastNat
<1>4. i # 0
  BY <1>0, <1>1, <1>3
<1>5. i - 1 \in 0..n /\ i - 1 \notin T
  BY <1>3, <1>4
<1>6. h[i - 1] = g[i - 1]
  BY <1>5
<1>7. h[i] = QueryFrame(h[i - 1], frames[i]) /\ g[i] = QueryFrame(g[i - 1], frames[i])
  BY <1>0, <1>1, <1>3, <1>4
<1> QED
  BY <1>3, <1>6, <1>7

FetchSolved(g, c, frames, n) ==
    g = [i \in 0..n |-> IF i = 0 THEN c ELSE FetchFrame(g[i - 1], frames[i])]

LEMMA FetchReadsIs ==
    ASSUME NEW c, NEW frames, NEW n \in Nat, Len(frames) = n, NEW g,
           FetchSolved(g, c, frames, n)
    PROVE  FetchReads(c, frames)[n] = g[n]
<1> DEFINE h == FetchReads(c, frames)
<1>1. h = [i \in 0..n |-> IF i = 0 THEN c ELSE FetchFrame(h[i - 1], frames[i])]
  BY DEF FetchReads, FetchSolved
<1> HIDE DEF h
<1>0. g = [i \in 0..n |-> IF i = 0 THEN c ELSE FetchFrame(g[i - 1], frames[i])]
  BY DEF FetchSolved
<1>2. SUFFICES ASSUME h[n] # g[n]
               PROVE  FALSE
  BY DEF h
<1> DEFINE T == {i \in 0..n : h[i] # g[i]}
<1>3. PICK i \in T : \A j \in T : i <= j
  <2>1. T \subseteq Nat /\ n \in T
    BY <1>2
  <2> HIDE DEF T
  <2> QED
    BY <2>1, LeastNat
<1>4. i # 0
  BY <1>0, <1>1, <1>3
<1>5. i - 1 \in 0..n /\ i - 1 \notin T
  BY <1>3, <1>4
<1>6. h[i - 1] = g[i - 1]
  BY <1>5
<1>7. h[i] = FetchFrame(h[i - 1], frames[i]) /\ g[i] = FetchFrame(g[i - 1], frames[i])
  BY <1>0, <1>1, <1>3, <1>4
<1> QED
  BY <1>3, <1>6, <1>7

RowItem(op, kind) ==
    [k \in Nat |-> [id |-> <<op, k>>, lob |-> IF kind = "lob" THEN NoLob ELSE Unneeded]]
LobItem(op) == [k \in Nat |-> <<op, k>>]

LEMMA RowsExtended ==
    ASSUME NEW op, NEW kind, NEW a \in Nat, NEW m \in Nat, a <= m, NEW x \in Nat, m <= x,
           NEW rows, OwnRows(rows, op, kind, a, m)
    PROVE  LET next == Extended(rows, RowItem(op, kind), a, m, x)
           IN  /\ Extended(rows, RowItem(op, kind), a, m, m) = rows
               /\ OwnRows(next, op, kind, a, x)
               /\ Longer(next, RowItem(op, kind)[x + 1])
                      = Extended(rows, RowItem(op, kind), a, m, x + 1)
<1> DEFINE item == RowItem(op, kind)
           next == Extended(rows, item, a, m, x)
<1>1. item \in [Nat -> RowsOf(op, kind)] /\ \A k \in Nat : item[k].id = <<op, k>>
  BY DEF RowItem, RowsOf, LobsOf
<1>2. /\ rows \in Seq(RowsOf(op, kind)) /\ Len(rows) = m - a
      /\ \A i \in 1..(m - a) : rows[i].id = <<op, a + i>>
  BY DEF OwnRows
<1> HIDE DEF item
<1>3. /\ Extended(rows, item, a, m, m) = rows
      /\ next \in Seq(RowsOf(op, kind)) /\ Len(next) = x - a
      /\ Longer(next, item[x + 1]) = Extended(rows, item, a, m, x + 1)
  <2> DEFINE S == RowsOf(op, kind)
  <2>1. item \in [Nat -> S]
    BY <1>1
  <2>3. rows \in Seq(S)
    BY <1>2
  <2>4. Len(rows) = m - a
    BY <1>2
  <2> HIDE DEF S
  <2>2. Grows(S, rows, item, a, m, x)
    BY <2>1, <2>3, <2>4, ExtendedGrows
  <2> QED
    BY <2>2 DEF S, Grows
<1>4. ASSUME NEW i \in 1..(x - a)
      PROVE  next[i].id = <<op, a + i>>
  <2>1. CASE i <= m - a
    BY <1>2, <2>1 DEF Extended
  <2>2. CASE ~(i <= m - a)
    <3>1. next[i] = item[a + i] /\ a + i \in Nat
      BY <2>2 DEF Extended
    <3> QED
      BY <1>1, <3>1
  <2> QED
    BY <2>1, <2>2
<1> HIDE DEF next
<1>5. OwnRows(next, op, kind, a, x)
  BY <1>3, <1>4 DEF OwnRows
<1> QED
  BY <1>3, <1>5 DEF item, next

LEMMA LobsExtended ==
    ASSUME NEW op, NEW a \in Nat, NEW m \in Nat, a <= m, NEW x \in Nat, m <= x,
           NEW lobs, OwnLobs(lobs, op, a, m)
    PROVE  LET next == Extended(lobs, LobItem(op), a, m, x)
           IN  /\ Extended(lobs, LobItem(op), a, m, m) = lobs
               /\ OwnLobs(next, op, a, x)
               /\ Longer(next, LobItem(op)[x + 1]) = Extended(lobs, LobItem(op), a, m, x + 1)
<1> DEFINE item == LobItem(op)
           next == Extended(lobs, item, a, m, x)
<1>1. item \in [Nat -> {op} \X Nat] /\ \A k \in Nat : item[k] = <<op, k>>
  BY DEF LobItem
<1>2. /\ lobs \in Seq({op} \X Nat) /\ Len(lobs) = m - a
      /\ \A i \in 1..(m - a) : lobs[i] = <<op, a + i>>
  BY DEF OwnLobs
<1> HIDE DEF item
<1>3. /\ Extended(lobs, item, a, m, m) = lobs
      /\ next \in Seq({op} \X Nat) /\ Len(next) = x - a
      /\ Longer(next, item[x + 1]) = Extended(lobs, item, a, m, x + 1)
  <2> DEFINE S == {op} \X Nat
  <2>1. item \in [Nat -> S]
    BY <1>1
  <2>3. lobs \in Seq(S)
    BY <1>2
  <2>4. Len(lobs) = m - a
    BY <1>2
  <2> HIDE DEF S
  <2>2. Grows(S, lobs, item, a, m, x)
    BY <2>1, <2>3, <2>4, ExtendedGrows
  <2> QED
    BY <2>2 DEF S, Grows
<1>4. ASSUME NEW i \in 1..(x - a)
      PROVE  next[i] = <<op, a + i>>
  <2>1. CASE i <= m - a
    BY <1>2, <2>1 DEF Extended
  <2>2. CASE ~(i <= m - a)
    <3>1. next[i] = item[a + i] /\ a + i \in Nat
      BY <2>2 DEF Extended
    <3> QED
      BY <1>1, <3>1
  <2> QED
    BY <2>1, <2>2
<1> HIDE DEF next
<1>5. OwnLobs(next, op, a, x)
  BY <1>3, <1>4 DEF OwnLobs
<1> QED
  BY <1>3, <1>5 DEF item, next

\* The rows and payloads after one more frame.
RowOf(kind, f) ==
    [id |-> <<f.op, f.row>>, lob |-> IF kind = "lob" THEN NoLob ELSE Unneeded]
NextRows(kind, rows, f) == IF f.body = "row" THEN Longer(rows, RowOf(kind, f)) ELSE rows
NextLobs(lobs, f) == IF f.body = "lob" THEN Longer(lobs, <<f.op, f.row>>) ELSE lobs

\* An operation with other rows and payloads.
Holding(c, rows, lobs) == [c EXCEPT !.rows = rows, !.lobs = lobs]

LEMMA QueryFrameStep ==
    ASSUME NEW c, Formed(c), c.desc, c.pending = <<>>, NEW S, NEW rows \in Seq(S),
           NEW lobs, NEW f
    PROVE  QueryFrame(Holding(c, rows, lobs), f) =
               Holding(c, NextRows(c.kind, rows, f), NextLobs(lobs, f))
<1> DEFINE d == Holding(c, rows, lobs)
<1>1. c = [x \in Fields |-> c[x]]
  BY DEF Formed
<1>2. /\ d = [x \in Fields |-> d[x]] /\ d.rows = rows /\ d.lobs = lobs /\ d.desc
      /\ d.desc = c.desc /\ d.pending = <<>> /\ d.kind = c.kind
  BY <1>1 DEF Holding, Fields
<1>3. c.desc = TRUE
  BY DEF Formed
<1>4. CASE f.body \in {"format", "described"}
  <2>1. QueryFrame(d, f) = [d EXCEPT !.desc = TRUE, !.rows = rows \o <<>>, !.pending = <<>>]
    BY <1>2, <1>4 DEF QueryFrame
  <2>2. rows \o <<>> = rows
    BY ConcatEmptySeq
  <2>3. [d EXCEPT !.desc = TRUE, !.rows = rows, !.pending = <<>>] = d
    <3> HIDE DEF d
    <3> QED
      BY <1>2, <1>3 DEF Fields
  <2> QED
    BY <1>4, <2>1, <2>2, <2>3 DEF NextRows, NextLobs
<1>5. CASE f.body = "row"
  <2>1. QueryFrame(d, f) = [d EXCEPT !.rows = Append(rows, Value(d, f))]
    BY <1>2, <1>5 DEF QueryFrame
  <2>2. Value(d, f) = RowOf(c.kind, f)
    BY <1>2 DEF Value, RowOf
  <2> QED
    BY <1>1, <1>5, <2>1, <2>2 DEF Holding, Fields, Longer, NextRows, NextLobs
<1>6. CASE f.body = "lob"
  <2>1. QueryFrame(d, f) = [d EXCEPT !.lobs = Append(lobs, <<f.op, f.row>>)]
    BY <1>2, <1>6 DEF QueryFrame
  <2> QED
    BY <1>1, <1>6, <2>1 DEF Holding, Fields, Longer, NextRows, NextLobs
<1>7. CASE f.body \notin {"format", "described", "row", "lob"}
  BY <1>7 DEF QueryFrame, NextRows, NextLobs
<1> QED
  BY <1>4, <1>5, <1>6, <1>7

\* An operation with another fetch.
Bringing(c, rows, lobs) == [c EXCEPT !.fetched = [rows |-> rows, lobs |-> lobs]]

LEMMA FetchFrameStep ==
    ASSUME NEW c, Formed(c), NEW rows, NEW lobs, NEW f
    PROVE  FetchFrame(Bringing(c, rows, lobs), f) =
               Bringing(c, NextRows(c.kind, rows, f), NextLobs(lobs, f))
<1> DEFINE d == Bringing(c, rows, lobs)
<1>1. c = [x \in Fields |-> c[x]]
  BY DEF Formed
<1>2. /\ d.fetched = [rows |-> rows, lobs |-> lobs] /\ d.kind = c.kind
      /\ \A x : [d EXCEPT !.fetched = x] = [c EXCEPT !.fetched = x]
  BY <1>1 DEF Bringing, Fields
<1>3. CASE f.body = "row"
  <2>1. FetchFrame(d, f) =
          [d EXCEPT !.fetched = [rows |-> Longer(rows, Value(d, f)), lobs |-> lobs]]
    <3> DEFINE v == Append(rows, Value(d, f))
    <3>1. d.fetched = [rows |-> rows, lobs |-> lobs] /\ d.fetched.rows = rows
      BY <1>2
    <3> HIDE DEF d
    <3>2. FetchFrame(d, f) = [d EXCEPT !.fetched.rows = v]
      BY <1>3, <3>1 DEF FetchFrame
    <3> HIDE DEF v
    <3>3. [d.fetched EXCEPT !.rows = v] = [rows |-> v, lobs |-> lobs]
      BY <3>1
    <3>4. [d EXCEPT !.fetched.rows = v] = [d EXCEPT !.fetched = [d.fetched EXCEPT !.rows = v]]
      OBVIOUS
    <3> QED
      BY <3>2, <3>3, <3>4 DEF v, Longer
  <2>2. Value(d, f) = RowOf(c.kind, f)
    BY <1>2 DEF Value, RowOf
  <2> QED
    BY <1>2, <1>3, <2>1, <2>2 DEF Bringing, NextRows, NextLobs
<1>4. CASE f.body = "lob"
  <2>1. FetchFrame(d, f) =
          [d EXCEPT !.fetched = [rows |-> rows, lobs |-> Longer(lobs, <<f.op, f.row>>)]]
    <3> DEFINE v == <<f.op, f.row>>
    <3>1. FetchFrame(d, f) = [d EXCEPT !.fetched.lobs = Append(d.fetched.lobs, v)]
      BY <1>4 DEF FetchFrame
    <3> DEFINE x == Append(d.fetched.lobs, v)
    <3>2. x = Longer(lobs, v)
      BY <1>2 DEF Longer
    <3> HIDE DEF d, v, x
    <3>3. [d EXCEPT !.fetched.lobs = x] = [d EXCEPT !.fetched = [d.fetched EXCEPT !.lobs = x]]
      OBVIOUS
    <3>4. [d.fetched EXCEPT !.lobs = x] = [rows |-> rows, lobs |-> x]
      BY <1>2
    <3> QED
      BY <3>1, <3>2, <3>3, <3>4 DEF x, v
  <2> QED
    BY <1>2, <1>4, <2>1 DEF Bringing, NextRows, NextLobs
<1>5. CASE f.body \notin {"row", "lob"}
  BY <1>5 DEF FetchFrame, NextRows, NextLobs
<1> QED
  BY <1>3, <1>4, <1>5

\* The rows, and the payloads, after each of the frames.
LEMMA FrameRows ==
    ASSUME NEW frames \in Seq(AnyFrame), NEW op, NEW kind, NEW a \in Nat, NEW m \in Nat, a <= m,
           NEW n \in Nat, NEW nr, Counts(nr, frames, "row", op, m, n),
           NEW rows, OwnRows(rows, op, kind, a, m), NEW k \in 1..Len(frames),
           NEW item, item = RowItem(op, kind)
    PROVE  Extended(rows, item, a, m, nr[k]) =
               NextRows(kind, Extended(rows, item, a, m, nr[k - 1]), frames[k])
<1> DEFINE x == nr[k - 1]
<1>1. Len(frames) \in Nat /\ nr \in [0..Len(frames) -> m..n]
  BY LenProperties DEF Counts
<1>2. k - 1 \in 0..Len(frames) /\ x \in m..n
  BY <1>1
<1>3. x \in Nat /\ m <= x /\ x + 1 \in Nat
  BY <1>2
<1>4. IF frames[k].body = "row"
      THEN nr[k] = x + 1 /\ frames[k].row = x + 1 /\ frames[k].op = op
      ELSE nr[k] = x
  BY DEF Counts
<1>5. frames[k].body = "row" => item[x + 1] = RowOf(kind, frames[k])
  BY <1>3, <1>4 DEF RowItem, RowOf
<1> HIDE DEF x
<1>6. Longer(Extended(rows, item, a, m, x), item[x + 1]) = Extended(rows, item, a, m, x + 1)
  BY <1>3, RowsExtended
<1>7. Extended(rows, item, a, m, nr[k]) =
        NextRows(kind, Extended(rows, item, a, m, x), frames[k])
  BY <1>4, <1>5, <1>6 DEF NextRows
<1> QED
  BY <1>7 DEF x

LEMMA FrameLobs ==
    ASSUME NEW frames \in Seq(AnyFrame), NEW op, NEW a \in Nat, NEW m \in Nat, a <= m,
           NEW n \in Nat, NEW nl, Counts(nl, frames, "lob", op, m, n),
           NEW lobs, OwnLobs(lobs, op, a, m), NEW k \in 1..Len(frames)
    PROVE  LET at(i) == Extended(lobs, LobItem(op), a, m, nl[i])
           IN  at(k) = NextLobs(at(k - 1), frames[k])
<1> DEFINE item == LobItem(op)
           x == nl[k - 1]
<1>1. Len(frames) \in Nat /\ nl \in [0..Len(frames) -> m..n]
  BY LenProperties DEF Counts
<1>2. k - 1 \in 0..Len(frames) /\ x \in m..n
  BY <1>1
<1>3. x \in Nat /\ m <= x /\ x + 1 \in Nat
  BY <1>2
<1>4. IF frames[k].body = "lob"
      THEN nl[k] = x + 1 /\ frames[k].row = x + 1 /\ frames[k].op = op
      ELSE nl[k] = x
  BY DEF Counts
<1>5. frames[k].body = "lob" => item[x + 1] = <<frames[k].op, frames[k].row>>
  BY <1>3, <1>4 DEF LobItem
<1> HIDE DEF x, item
<1>6. Longer(Extended(lobs, item, a, m, x), item[x + 1]) = Extended(lobs, item, a, m, x + 1)
  BY <1>3, LobsExtended DEF item
<1>7. Extended(lobs, item, a, m, nl[k]) =
        NextLobs(Extended(lobs, item, a, m, x), frames[k])
  BY <1>4, <1>5, <1>6 DEF NextLobs
<1> QED
  BY <1>7 DEF item, x

\* What the rows, and the payloads, are after each of the frames.
RowTrack(R, op, kind, frames, rows) ==
    /\ R[0] = rows
    /\ \A k \in 1..Len(frames) : /\ R[k - 1] \in Seq(RowsOf(op, kind))
                                 /\ R[k] = NextRows(kind, R[k - 1], frames[k])

LobTrack(L, frames, lobs) ==
    /\ L[0] = lobs
    /\ \A k \in 1..Len(frames) : L[k] = NextLobs(L[k - 1], frames[k])

LEMMA RowsTracked ==
    ASSUME NEW frames \in Seq(AnyFrame), NEW op, NEW kind, NEW a \in Nat, NEW m \in Nat, a <= m,
           NEW n \in Nat, Counted(frames, "row", op, m, n),
           NEW rows, OwnRows(rows, op, kind, a, m)
    PROVE  \E R : /\ RowTrack(R, op, kind, frames, rows)
                  /\ OwnRows(R[Len(frames)], op, kind, a, n)
<1>1. PICK nr \in [0..Len(frames) -> m..n] : Counts(nr, frames, "row", op, m, n)
  BY DEF Counted
<1> DEFINE len == Len(frames)
           item == RowItem(op, kind)
           R == [k \in 0..len |-> Extended(rows, item, a, m, nr[k])]
<1>2. len \in Nat /\ nr \in [0..len -> m..n] /\ nr[0] = m /\ nr[len] = n
  BY <1>1, LenProperties DEF Counts
<1>3. m <= n
  BY CountedOrder
<1>4. Extended(rows, item, a, m, m) = rows /\ OwnRows(Extended(rows, item, a, m, n), op, kind, a, n)
  BY <1>3, RowsExtended
<1>5. R[0] = rows /\ OwnRows(R[len], op, kind, a, n)
  BY <1>2, <1>4
<1>6. ASSUME NEW k \in 1..Len(frames)
      PROVE  /\ R[k - 1] \in Seq(RowsOf(op, kind))
             /\ R[k] = NextRows(kind, R[k - 1], frames[k])
  <2>1. k \in 0..len /\ k - 1 \in 0..len
    BY <1>2
  <2>2. /\ R[k] = Extended(rows, item, a, m, nr[k])
        /\ R[k - 1] = Extended(rows, item, a, m, nr[k - 1])
    BY <2>1
  <2>3. item = RowItem(op, kind)
    OBVIOUS
  <2> HIDE DEF R, item, len
  <2>4. Extended(rows, item, a, m, nr[k]) =
            NextRows(kind, Extended(rows, item, a, m, nr[k - 1]), frames[k])
    BY <1>1, <2>3, FrameRows, SMTT(60)
  <2> DEFINE x == nr[k - 1]
             y == k - 1
  <2>5. y \in 0..len
    BY <2>1
  <2>6. nr[y] \in m..n
    BY <1>2, <2>5
  <2> HIDE DEF x, y
  <2>7. x \in Nat /\ m <= x
    BY <1>2, <2>6 DEF x, y
  <2>8. OwnRows(Extended(rows, item, a, m, x), op, kind, a, x)
    BY <2>3, <2>7, RowsExtended
  <2> QED
    BY <2>2, <2>4, <2>8 DEF OwnRows, x
<1> HIDE DEF R
<1> QED
  BY <1>5, <1>6 DEF RowTrack

LEMMA LobsTracked ==
    ASSUME NEW frames \in Seq(AnyFrame), NEW op, NEW a \in Nat, NEW m \in Nat, a <= m,
           NEW n \in Nat, Counted(frames, "lob", op, m, n),
           NEW lobs, OwnLobs(lobs, op, a, m)
    PROVE  \E L : /\ LobTrack(L, frames, lobs)
                  /\ OwnLobs(L[Len(frames)], op, a, n)
<1>1. PICK nl \in [0..Len(frames) -> m..n] : Counts(nl, frames, "lob", op, m, n)
  BY DEF Counted
<1> DEFINE len == Len(frames)
           item == LobItem(op)
           L == [k \in 0..len |-> Extended(lobs, item, a, m, nl[k])]
<1>2. len \in Nat /\ nl \in [0..len -> m..n] /\ nl[0] = m /\ nl[len] = n
  BY <1>1, LenProperties DEF Counts
<1>3. m <= n
  BY CountedOrder
<1>4. Extended(lobs, item, a, m, m) = lobs /\ OwnLobs(Extended(lobs, item, a, m, n), op, a, n)
  BY <1>3, LobsExtended
<1>5. L[0] = lobs /\ OwnLobs(L[len], op, a, n)
  BY <1>2, <1>4
<1>6. ASSUME NEW k \in 1..Len(frames)
      PROVE  L[k] = NextLobs(L[k - 1], frames[k])
  <2>1. k \in 0..len /\ k - 1 \in 0..len
    BY <1>2
  <2>2. /\ L[k] = Extended(lobs, item, a, m, nl[k])
        /\ L[k - 1] = Extended(lobs, item, a, m, nl[k - 1])
    BY <2>1
  <2>3. item = LobItem(op)
    OBVIOUS
  <2> HIDE DEF L, item, len
  <2>4. Extended(lobs, item, a, m, nl[k]) =
            NextLobs(Extended(lobs, item, a, m, nl[k - 1]), frames[k])
    BY <1>1, <2>3, FrameLobs, SMTT(60)
  <2> QED
    BY <2>2, <2>4
<1> HIDE DEF L
<1> QED
  BY <1>5, <1>6 DEF LobTrack

LEMMA ReadBrings ==
    ASSUME NEW c, Formed(c), c.desc, c.pending = <<>>, NEW frames \in Seq(AnyFrame),
           NEW m \in Nat, NEW n \in Nat, NEW i \in Nat, NEW j \in Nat,
           OwnRows(c.rows, c.op, c.kind, 0, m), OwnLobs(c.lobs, c.op, 0, i),
           Carries(frames, c.op, m, n, i, j)
    PROVE  LET d == Read(c, frames)
           IN  /\ OwnRows(d.rows, c.op, c.kind, 0, n) /\ OwnLobs(d.lobs, c.op, 0, j)
               /\ d.pending = <<>> /\ d.fetched = c.fetched /\ d.closing = c.closing
<1>1. PICK R : /\ RowTrack(R, c.op, c.kind, frames, c.rows)
               /\ OwnRows(R[Len(frames)], c.op, c.kind, 0, n)
  BY RowsTracked DEF Carries
<1>2. PICK L : /\ LobTrack(L, frames, c.lobs)
               /\ OwnLobs(L[Len(frames)], c.op, 0, j)
  BY LobsTracked DEF Carries
<1> DEFINE len == Len(frames)
           g == [k \in 0..len |-> Holding(c, R[k], L[k])]
<1>3. len \in Nat /\ Len(frames) = len
  BY LenProperties
<1>4. R[0] = c.rows /\ L[0] = c.lobs
  BY <1>1, <1>2 DEF RowTrack, LobTrack
<1>5. ASSUME NEW k \in 1..len
      PROVE  QueryFrame(Holding(c, R[k - 1], L[k - 1]), frames[k]) = Holding(c, R[k], L[k])
  <2>1. /\ R[k - 1] \in Seq(RowsOf(c.op, c.kind))
        /\ R[k] = NextRows(c.kind, R[k - 1], frames[k])
    BY <1>1 DEF RowTrack
  <2>2. L[k] = NextLobs(L[k - 1], frames[k])
    BY <1>2 DEF LobTrack
  <2> QED
    BY <2>1, <2>2, QueryFrameStep
<1>6. Holding(c, R[0], L[0]) = c
  <2>1. c = [x \in Fields |-> c[x]]
    BY DEF Formed
  <2> QED
    BY <1>4, <2>1 DEF Holding, Fields
<1> HIDE DEF len
<1>7. QuerySolved(g, c, frames, len)
  <2>1. ASSUME NEW k \in 0..len
        PROVE  Holding(c, R[k], L[k]) = IF k = 0 THEN c ELSE QueryFrame(g[k - 1], frames[k])
    <3>1. CASE k = 0
      BY <1>6, <3>1
    <3>2. CASE k # 0
      <4>1. k \in 1..len /\ k - 1 \in 0..len
        BY <1>3, <3>2
      <4>2. g[k - 1] = Holding(c, R[k - 1], L[k - 1])
        BY <4>1
      <4> HIDE DEF g
      <4> QED
        BY <1>5, <3>2, <4>1, <4>2
    <3> QED
      BY <3>1, <3>2
  <2> DEFINE E(k) == IF k = 0 THEN c ELSE QueryFrame(g[k - 1], frames[k])
             H(k) == Holding(c, R[k], L[k])
  <2>2. \A k \in 0..len : H(k) = E(k)
    BY <2>1
  <2>3. g = [k \in 0..len |-> H(k)]
    OBVIOUS
  <2> HIDE DEF E, H, g
  <2>4. g = [k \in 0..len |-> E(k)]
    BY <2>2, <2>3
  <2> QED
    BY <2>4 DEF E, QuerySolved
<1> DEFINE read == Holding(c, R[len], L[len])
           d == Read(c, frames)
<1>8. g[len] = read
  BY <1>3
<1> HIDE DEF g
<1>9. QueryReads(c, frames)[len] = read
  BY <1>3, <1>7, <1>8, QueryReadsIs
<1>10. read.rows = R[len] /\ read.lobs = L[len] /\ read.pending = <<>>
  BY DEF Holding, Formed, Fields
<1> HIDE DEF read
<1>11. d = [c EXCEPT !.rows = read.rows, !.pending = read.pending, !.lobs = read.lobs,
                     !.desc = c.desc \/ Sees(frames, {"format", "described"}),
                     !.end = c.end \/ Sees(frames, {"end"})]
  BY <1>3, <1>9 DEF Read
<1>12. /\ d.rows = R[len] /\ d.lobs = L[len] /\ d.pending = <<>>
       /\ d.fetched = c.fetched /\ d.closing = c.closing
  BY <1>10, <1>11 DEF Formed, Fields
<1> HIDE DEF d
<1> QED
  BY <1>1, <1>2, <1>3, <1>12 DEF d

LEMMA FetchedBrings ==
    ASSUME NEW c, Formed(c), NEW frames \in Seq(AnyFrame),
           NEW rows, NEW lobs, c.fetched = [rows |-> rows, lobs |-> lobs],
           NEW a \in Nat, NEW b \in Nat,
           NEW m \in Nat, NEW n \in Nat, NEW i \in Nat, NEW j \in Nat, a <= m, b <= i,
           OwnRows(rows, c.op, c.kind, a, m), OwnLobs(lobs, c.op, b, i),
           Carries(frames, c.op, m, n, i, j)
    PROVE  LET d == Fetched(c, frames)
           IN  /\ OwnRows(d.fetched.rows, c.op, c.kind, a, n)
               /\ OwnLobs(d.fetched.lobs, c.op, b, j)
               /\ d.fetched = [rows |-> d.fetched.rows, lobs |-> d.fetched.lobs]
               /\ d.pending = c.pending /\ d.rows = c.rows /\ d.lobs = c.lobs
<1>1. PICK R : /\ RowTrack(R, c.op, c.kind, frames, rows)
               /\ OwnRows(R[Len(frames)], c.op, c.kind, a, n)
  <2>1. Counted(frames, "row", c.op, m, n)
    BY DEF Carries
  <2> QED
    BY <2>1, RowsTracked, SMTT(60)
<1>2. PICK L : /\ LobTrack(L, frames, lobs)
               /\ OwnLobs(L[Len(frames)], c.op, b, j)
  <2>1. Counted(frames, "lob", c.op, i, j)
    BY DEF Carries
  <2> QED
    BY <2>1, LobsTracked, SMTT(60)
<1> DEFINE len == Len(frames)
           g == [k \in 0..len |-> Bringing(c, R[k], L[k])]
<1>3. len \in Nat /\ Len(frames) = len
  BY LenProperties
<1>4. R[0] = rows /\ L[0] = lobs
  BY <1>1, <1>2 DEF RowTrack, LobTrack
<1>5. ASSUME NEW k \in 1..len
      PROVE  FetchFrame(Bringing(c, R[k - 1], L[k - 1]), frames[k]) = Bringing(c, R[k], L[k])
  <2>1. R[k] = NextRows(c.kind, R[k - 1], frames[k])
    BY <1>1 DEF RowTrack
  <2>2. L[k] = NextLobs(L[k - 1], frames[k])
    BY <1>2 DEF LobTrack
  <2> QED
    BY <2>1, <2>2, FetchFrameStep
<1>6. Bringing(c, R[0], L[0]) = c
  <2>1. c = [x \in Fields |-> c[x]]
    BY DEF Formed
  <2>2. [c EXCEPT !.fetched = c.fetched] = c
    BY <2>1
  <2> QED
    BY <1>4, <2>2 DEF Bringing
<1> HIDE DEF len
<1>7. FetchSolved(g, c, frames, len)
  <2>1. ASSUME NEW k \in 0..len
        PROVE  Bringing(c, R[k], L[k]) = IF k = 0 THEN c ELSE FetchFrame(g[k - 1], frames[k])
    <3>1. CASE k = 0
      BY <1>6, <3>1
    <3>2. CASE k # 0
      <4>1. k \in 1..len /\ k - 1 \in 0..len
        BY <1>3, <3>2
      <4>2. g[k - 1] = Bringing(c, R[k - 1], L[k - 1])
        BY <4>1
      <4> HIDE DEF g
      <4> QED
        BY <1>5, <3>2, <4>1, <4>2
    <3> QED
      BY <3>1, <3>2
  <2> DEFINE E(k) == IF k = 0 THEN c ELSE FetchFrame(g[k - 1], frames[k])
             H(k) == Bringing(c, R[k], L[k])
  <2>2. \A k \in 0..len : H(k) = E(k)
    BY <2>1
  <2>3. g = [k \in 0..len |-> H(k)]
    OBVIOUS
  <2> HIDE DEF E, H, g
  <2>4. g = [k \in 0..len |-> E(k)]
    BY <2>2, <2>3
  <2> QED
    BY <2>4 DEF E, FetchSolved
<1> DEFINE read == Bringing(c, R[len], L[len])
           fetch == [rows |-> R[len], lobs |-> L[len]]
           d == Fetched(c, frames)
<1>8. g[len] = read
  BY <1>3
<1> HIDE DEF g
<1>9. read.fetched = fetch /\ fetch.rows = R[len] /\ fetch.lobs = L[len]
  BY DEF Bringing, Formed, Fields
<1> HIDE DEF read, fetch
<1>10. FetchReads(c, frames)[len] = read
  BY <1>3, <1>7, <1>8, FetchReadsIs
<1>11. d = [c EXCEPT !.fetched = fetch, !.end = c.end \/ Sees(frames, {"end"})]
  BY <1>3, <1>9, <1>10 DEF Fetched
<1>12. d.fetched = fetch /\ d.pending = c.pending /\ d.rows = c.rows /\ d.lobs = c.lobs
  BY <1>11 DEF Formed, Fields
<1> HIDE DEF d
<1>13. fetch = [rows |-> fetch.rows, lobs |-> fetch.lobs]
  <2>1. \A x, y : [rows |-> x, lobs |-> y] =
            [rows |-> [rows |-> x, lobs |-> y].rows, lobs |-> [rows |-> x, lobs |-> y].lobs]
    OBVIOUS
  <2> QED
    BY <2>1 DEF fetch
<1> QED
  BY <1>1, <1>2, <1>3, <1>9, <1>12, <1>13 DEF d
-----------------------------------------------------------------------------
(* What a complete read leads to *)

LEMMA SqlErrorFails ==
    ASSUME NEW frames \in Seq(AnyFrame), NEW k \in DOMAIN frames,
           frames[k].body = "sqlerror", NEW c
    PROVE  FirstFailure(frames) # "none" /\ FetchFailure(c, frames) # "none"
<1>1. DOMAIN frames \subseteq Nat
  BY LenProperties
<1>2. Failure(frames[k]) = "sql"
  BY DEF Failure
<1>3. FirstFailure(frames) # "none"
  <2> DEFINE bad == {i \in DOMAIN frames : Failure(frames[i]) # "none"}
  <2>1. k \in bad /\ bad \subseteq Nat
    BY <1>1, <1>2
  <2> HIDE DEF bad
  <2>2. \E i \in bad : \A j \in bad : i <= j
    BY <2>1, LeastNat
  <2> DEFINE first == CHOOSE i \in bad : \A j \in bad : i <= j
  <2>3. first \in bad
    BY <2>2
  <2>4. FirstFailure(frames) = Failure(frames[first])
    BY <2>1 DEF FirstFailure, bad
  <2> HIDE DEF first
  <2> QED
    BY <2>3, <2>4 DEF bad
<1>4. FetchFailure(c, frames) # "none"
  <2> DEFINE ended(i) == c.end \/ \E j \in 1..(i - 1) : frames[j].body = "end"
             bad == {i \in DOMAIN frames :
                       /\ Failure(frames[i]) # "none"
                       /\ ~(Failure(frames[i]) = "protocol" /\ ended(i))}
  <2>1. k \in bad /\ bad \subseteq Nat
    BY <1>1, <1>2
  <2>5. \A i \in bad : Failure(frames[i]) # "none"
    OBVIOUS
  <2>6. FetchFailure(c, frames) =
          IF bad = {} THEN "none"
          ELSE Failure(frames[CHOOSE i \in bad : \A j \in bad : i <= j])
    BY DEF FetchFailure
  <2> HIDE DEF bad
  <2>2. \E i \in bad : \A j \in bad : i <= j
    BY <2>1, LeastNat
  <2> DEFINE first == CHOOSE i \in bad : \A j \in bad : i <= j
  <2>3. first \in bad
    BY <2>2
  <2>4. FetchFailure(c, frames) = Failure(frames[first])
    BY <2>1, <2>6
  <2> HIDE DEF first
  <2> QED
    BY <2>3, <2>4, <2>5
<1> QED
  BY <1>3, <1>4

LEMMA OwnRowsAre ==
    ASSUME NEW op, NEW kind, NEW rows, NEW n \in Nat, OwnRows(rows, op, kind, 0, n)
    PROVE  /\ rows \in Seq(RowsOf(op, kind)) /\ Len(rows) = n /\ DOMAIN rows = 1..n
           /\ \A i \in 1..n : rows[i].id = <<op, i>> /\ rows[i].lob \in LobsOf(op, kind)
<1>1. rows \in Seq(RowsOf(op, kind)) /\ Len(rows) = n
  BY DEF OwnRows
<1>2. DOMAIN rows = 1..n
  BY <1>1, LenProperties
<1>3. \A row \in RowsOf(op, kind) : row.lob \in LobsOf(op, kind)
  BY DEF RowsOf
<1>4. ASSUME NEW i \in 1..n
      PROVE  rows[i].id = <<op, i>> /\ rows[i].lob \in LobsOf(op, kind)
  <2>1. rows[i] \in RowsOf(op, kind) /\ 0 + i = i
    BY <1>1
  <2>2. rows[i].id = <<op, i>>
    BY <1>1, <2>1 DEF OwnRows
  <2> QED
    BY <1>3, <2>1, <2>2
<1> QED
  BY <1>1, <1>2, <1>4

LEMMA OwnLobsAre ==
    ASSUME NEW op, NEW lobs, NEW n \in Nat, OwnLobs(lobs, op, 0, n)
    PROVE  /\ lobs \in Seq({op} \X Nat) /\ Len(lobs) = n
           /\ \A i \in 1..n : lobs[i] = <<op, i>>
<1>1. \A i \in 1..n : 0 + i = i
  OBVIOUS
<1> QED
  BY <1>1 DEF OwnLobs

\* All the rows with all their payloads.
LEMMA AppliedIsRight ==
    ASSUME NEW op, NEW kind, kind \notin {"change", "commit"}, total \in Nat,
           NEW n \in Nat, NEW l \in Nat, NEW rows, NEW lobs,
           OwnRows(rows, op, kind, 0, n), OwnLobs(lobs, op, 0, l), Whole(kind, n, l)
    PROVE  Right(op, kind, Applied(rows, lobs))
<1> DEFINE g == Applied(rows, lobs)
<1>0. n = total /\ (kind = "lob" => l = total)
  BY DEF Whole
<1>2. /\ rows \in Seq(RowsOf(op, kind)) /\ Len(rows) = total
      /\ \A i \in 1..total : rows[i].id = <<op, i>> /\ rows[i].lob \in LobsOf(op, kind)
  BY <1>0, OwnRowsAre
<1>3. lobs \in Seq({op} \X Nat) /\ Len(lobs) = l /\ \A i \in 1..l : lobs[i] = <<op, i>>
  BY OwnLobsAre
<1>4. CASE kind # "lob"
  <2>1. \A i \in 1..total : rows[i].lob = Unneeded
    BY <1>2, <1>4 DEF LobsOf
  <2>2. \A i \in 1..Len(rows) : rows[i].lob # NoLob
    BY <1>2, <2>1 DEF Unneeded, NoLob
  <2>3. g = rows
    BY <1>2, <2>2, AppliedNone
  <2>4. \A row \in RowsOf(op, kind) : row = [id |-> row.id, lob |-> row.lob]
    BY DEF RowsOf
  <2>5. ASSUME NEW i \in 1..total
        PROVE  rows[i] = [id |-> <<op, i>>, lob |-> Unneeded]
    <3>1. rows[i] \in RowsOf(op, kind)
      BY <1>2
    <3>2. rows[i] = [id |-> rows[i].id, lob |-> rows[i].lob]
      BY <2>4, <3>1
    <3> QED
      BY <1>2, <2>1, <3>2
  <2>6. rows = [i \in 1..total |-> rows[i]]
    BY <1>2, LenProperties
  <2>7. rows = Own(op, kind)
    BY <1>4, <2>5, <2>6 DEF Own
  <2> QED
    BY <1>4, <2>3, <2>7 DEF Right
<1>5. CASE kind = "lob"
  <2>1. l = total /\ Len(rows) <= Len(lobs)
    BY <1>0, <1>2, <1>3, <1>5
  <2>2. rows \in Seq(RowsOf(op, "lob"))
    BY <1>2, <1>5
  <2>3. ASSUME NEW i \in 1..total
        PROVE  /\ g[i].lob \in {op} \X Nat
               /\ ~Zos => g[i] = [id |-> rows[i].id, lob |-> lobs[i]]
    <3>1. i \in 1..Len(rows)
      BY <1>2
    <3> QED
      BY <1>3, <2>1, <2>2, <3>1, AppliedAll
  <2>4. DOMAIN g = 1..total
    BY <1>2, AppliedRows
  <2>7. g = [i \in 1..total |-> g[i]]
    BY <1>2, AppliedRows
  <2>5. CASE ~Zos
    <3>1. ASSUME NEW i \in 1..total
          PROVE  g[i] = [id |-> <<op, i>>, lob |-> <<op, i>>]
      <4>1. g[i] = [id |-> rows[i].id, lob |-> lobs[i]]
        BY <2>3, <2>5
      <4>2. lobs[i] = <<op, i>> /\ rows[i].id = <<op, i>>
        BY <1>2, <1>3, <2>1
      <4> QED
        BY <4>1, <4>2
    <3> HIDE DEF g
    <3>2. g = Own(op, kind)
      BY <1>5, <2>7, <3>1 DEF Own
    <3> QED
      BY <1>5, <2>5, <3>2 DEF Right, g
  <2>6. CASE Zos
    <3>0. /\ Zos \/ kind # "lob"
          /\ rows \in Seq(RowsOf(op, kind)) /\ lobs \in Seq({op} \X Nat)
      BY <1>2, <1>3, <2>6
    <3>4. SameRows(RowsOf(op, kind), g, rows)
      BY <3>0, AppliedKeeps
    <3>1. Len(g) = Len(rows) /\ \A i \in 1..Len(rows) : g[i].id = rows[i].id
      BY <3>4 DEF SameRows
    <3>2. \A i \in 1..total : g[i].lob[1] = op
      BY <2>3
    <3> HIDE DEF g
    <3>3. Len(g) <= total /\ \A i \in DOMAIN g : g[i].id = <<op, i>> /\ g[i].lob[1] = op
      BY <1>2, <2>4, <3>1, <3>2
    <3> QED
      BY <1>5, <2>6, <3>3 DEF Right, g
  <2> QED
    BY <2>5, <2>6
<1> QED
  BY <1>4, <1>5

LEMMA FinishRows ==
    ASSUME NEW c, Formed(c), c.desc
    PROVE  Finish(c).call.rows = Applied(c.rows, c.lobs)
<1> DEFINE g == Applied(c.rows, c.lobs)
           done == [c EXCEPT !.rows = g]
<1>1. Finish(c).call = done
  BY DEF Finish, Ends
<1>2. done.rows = g
  <2> HIDE DEF g
  <2> QED
    BY DEF Formed, Fields
<1> QED
  BY <1>1, <1>2

LEMMA FinishWhole ==
    ASSUME NEW c, Formed(c), c.desc, c.kind \notin {"change", "commit"}, total \in Nat,
           NEW n \in Nat, NEW l \in Nat,
           OwnRows(c.rows, c.op, c.kind, 0, n), OwnLobs(c.lobs, c.op, 0, l),
           Whole(c.kind, n, l)
    PROVE  Right(c.op, c.kind, Finish(c).call.rows)
<1>1. Finish(c).call.rows = Applied(c.rows, c.lobs)
  BY FinishRows
<1>2. Right(c.op, c.kind, Applied(c.rows, c.lobs))
  BY AppliedIsRight
<1> QED
  BY <1>1, <1>2

\* Rows of a cursor that is closed early.
LEMMA FinishResolved ==
    ASSUME NEW c, Formed(c), total \in Nat, Resolved(c)
    PROVE  Right(c.op, c.kind, Finish(c).call.rows)
<1> DEFINE rows == c.rows
           op == c.op
           n == Len(rows)
<1>1. Finish(c).call.rows = Applied(rows, c.lobs)
  BY FinishRows DEF Resolved
<1>2. Zos /\ c.kind = "lob" /\ n <= total /\ OwnRows(rows, op, "lob", 0, n) /\ ~Unresolved(rows)
  BY DEF Resolved
<1> HIDE DEF rows, op
<1>3. n \in Nat
  BY <1>2, LenProperties DEF OwnRows
<1> HIDE DEF n
<1>4. /\ rows \in Seq(RowsOf(op, "lob")) /\ Len(rows) = n /\ DOMAIN rows = 1..n
      /\ \A i \in 1..n : rows[i].id = <<op, i>> /\ rows[i].lob \in LobsOf(op, "lob")
  BY <1>2, <1>3, OwnRowsAre
<1>5. \A i \in 1..n : rows[i].lob # NoLob
  BY <1>2, <1>4 DEF Unresolved
<1>6. Applied(rows, c.lobs) = rows
  BY <1>4, <1>5, AppliedNone
<1>7. \A i \in 1..n : rows[i].lob \in {op} \X Nat
  BY <1>2, <1>4, <1>5 DEF LobsOf
<1>8. \A i \in 1..n : rows[i].lob[1] = op
  BY <1>7
<1>9. Right(op, "lob", rows)
  BY <1>2, <1>4, <1>8 DEF Right
<1> QED
  BY <1>1, <1>2, <1>6, <1>9 DEF op

OwnedNone(op, kind, n) ==
    OwnRows(NoFetch.rows, op, kind, n, n) /\ OwnLobs(NoFetch.lobs, op, n, n)

LEMMA OwnNothing ==
    ASSUME NEW op, NEW kind, NEW n \in Nat
    PROVE  OwnedNone(op, kind, n)
BY DEF OwnedNone, OwnRows, OwnLobs, NoFetch

LEMMA OwnRowsConcat ==
    ASSUME NEW op, NEW kind, NEW a \in Nat, NEW n \in Nat, NEW s, NEW t,
           OwnRows(s, op, kind, 0, a), OwnRows(t, op, kind, a, n)
    PROVE  OwnRows(s \o t, op, kind, 0, n)
<1> DEFINE S == RowsOf(op, kind)
           u == s \o t
           k == Len(t)
<1>1. s \in Seq(S) /\ t \in Seq(S) /\ Len(s) = a /\ k = n - a /\ k \in Nat
  BY LenProperties DEF OwnRows
<1>2. /\ \A i \in 1..a : s[i].id = <<op, 0 + i>>
      /\ \A i \in 1..k : t[i].id = <<op, a + i>>
  BY <1>1 DEF OwnRows
<1> HIDE DEF S, k
<1>3. /\ u \in Seq(S) /\ Len(u) = a + Len(t)
      /\ \A i \in 1..(a + Len(t)) : u[i] = IF i <= a THEN s[i] ELSE t[i - a]
  BY <1>1, ConcatProperties
<1> HIDE DEF u
<1>4. Len(u) = a + k /\ a + k = n
  BY <1>1, <1>3 DEF k
<1>5. ASSUME NEW i \in 1..n
      PROVE  u[i].id = <<op, 0 + i>>
  <2>1. i \in 1..(a + Len(t)) /\ i \in 1..(a + k)
    BY <1>4 DEF k
  <2>2. u[i] = IF i <= a THEN s[i] ELSE t[i - a]
    BY <1>3, <2>1
  <2>3. CASE i <= a
    BY <1>2, <2>2, <2>3
  <2>4. CASE ~(i <= a)
    <3> DEFINE j == i - a
    <3>1. j \in 1..k /\ a + j = 0 + i
      BY <1>1, <2>1, <2>4
    <3> HIDE DEF j
    <3>2. t[j].id = <<op, 0 + i>>
      BY <1>2, <3>1
    <3> QED
      BY <2>2, <2>4, <3>2 DEF j
  <2> QED
    BY <2>3, <2>4
<1>6. Len(u) = n - 0
  BY <1>4
<1>7. \A i \in 1..Len(u) : u[i].id = <<op, 0 + i>>
  BY <1>4, <1>5
<1> QED
  BY <1>3, <1>6, <1>7 DEF OwnRows, S, u

LEMMA OwnLobsConcat ==
    ASSUME NEW op, NEW a \in Nat, NEW n \in Nat, NEW s, NEW t,
           OwnLobs(s, op, 0, a), OwnLobs(t, op, a, n)
    PROVE  OwnLobs(s \o t, op, 0, n)
<1> DEFINE S == {op} \X Nat
           u == s \o t
           k == Len(t)
<1>1. s \in Seq(S) /\ t \in Seq(S) /\ Len(s) = a /\ k = n - a /\ k \in Nat
  BY LenProperties DEF OwnLobs
<1>2. /\ \A i \in 1..a : s[i] = <<op, 0 + i>>
      /\ \A i \in 1..k : t[i] = <<op, a + i>>
  BY <1>1 DEF OwnLobs
<1> HIDE DEF S, k
<1>3. /\ u \in Seq(S) /\ Len(u) = a + Len(t)
      /\ \A i \in 1..(a + Len(t)) : u[i] = IF i <= a THEN s[i] ELSE t[i - a]
  BY <1>1, ConcatProperties
<1> HIDE DEF u
<1>4. Len(u) = a + k /\ a + k = n
  BY <1>1, <1>3 DEF k
<1>5. ASSUME NEW i \in 1..n
      PROVE  u[i] = <<op, 0 + i>>
  <2>1. i \in 1..(a + Len(t)) /\ i \in 1..(a + k)
    BY <1>4 DEF k
  <2>2. u[i] = IF i <= a THEN s[i] ELSE t[i - a]
    BY <1>3, <2>1
  <2>3. CASE i <= a
    BY <1>2, <2>2, <2>3
  <2>4. CASE ~(i <= a)
    <3> DEFINE j == i - a
    <3>1. j \in 1..k /\ a + j = 0 + i
      BY <1>1, <2>1, <2>4
    <3> HIDE DEF j
    <3>2. t[j] = <<op, 0 + i>>
      BY <1>2, <3>1
    <3> QED
      BY <2>2, <2>4, <3>2 DEF j
  <2> QED
    BY <2>3, <2>4
<1>6. Len(u) = n - 0
  BY <1>4
<1>7. \A i \in 1..Len(u) : u[i] = <<op, 0 + i>>
  BY <1>4, <1>5
<1> QED
  BY <1>3, <1>6, <1>7 DEF OwnLobs, S, u

LEMMA OwnRowsApplied ==
    ASSUME NEW op, NEW kind, Zos, NEW n \in Nat, NEW a \in Nat, NEW rows, NEW lobs,
           OwnRows(rows, op, kind, a, n), lobs \in Seq({op} \X Nat)
    PROVE  OwnRows(Applied(rows, lobs), op, kind, a, n)
<1> DEFINE S == RowsOf(op, kind)
           g == Applied(rows, lobs)
<1>1. rows \in Seq(RowsOf(op, kind)) /\ (Zos \/ kind # "lob")
  BY DEF OwnRows
<1>2. SameRows(S, g, rows)
  BY <1>1, AppliedKeeps
<1>3. /\ Len(rows) = n - a /\ \A i \in 1..Len(rows) : rows[i].id = <<op, a + i>>
  BY DEF OwnRows
<1> HIDE DEF S, g
<1>4. g \in Seq(S) /\ Len(g) = n - a
  BY <1>2, <1>3 DEF SameRows
<1>5. \A i \in 1..Len(g) : g[i].id = <<op, a + i>>
  BY <1>2, <1>3 DEF SameRows
<1> QED
  BY <1>4, <1>5 DEF OwnRows, S, g

\* An operation with rows and payloads of its own, all taken over.
Holds(c, n, l) ==
    /\ Formed(c) /\ c.desc /\ c.pending = <<>> /\ c.kind \notin {"change", "commit"}
    /\ total \in Nat /\ total <= MaxRows /\ n \in 0..total /\ l \in 0..total
    /\ c.kind # "lob" => l = 0
    /\ OwnRows(c.rows, c.op, c.kind, 0, n) /\ OwnLobs(c.lobs, c.op, 0, l)

\* The same with the current fetch.
Fed(c, n, l) ==
    /\ Formed(c) /\ c.desc /\ c.kind \notin {"change", "commit"}
    /\ total \in Nat /\ total <= MaxRows /\ n \in 0..total /\ l \in 0..total
    /\ c.kind # "lob" => l = 0
    /\ Got(c, n, l)

\* Where a step from there leads, and what an operation returns that is over.
Leads(c, step, ends, n, l) ==
    /\ step.outcome = "goes" =>
         \/ /\ step.cmds = <<>> /\ step.call.at \in {"more", "closing"}
            /\ step.call.closing = c.closing /\ Got(step.call, n, l)
            /\ step.call.at = "closing" => c.closing
         \/ /\ step.call.at = "fetch" /\ Got(step.call, n, l)
            /\ step.cmds = IF step.call.closing THEN FetchAndClose(c) ELSE One(c, "fetch")
         \/ step.call.at = "close" /\ step.cmds = One(c, "close") /\ Resolved(step.call)
    /\ step.outcome = "ok" /\ (ends => Whole(c.kind, n, l)) =>
           Right(c.op, c.kind, step.call.rows)

LEMMA GotMoves ==
    ASSUME NEW c, NEW d, d.op = c.op, d.kind = c.kind, d.pending = c.pending,
           d.rows = c.rows, d.lobs = c.lobs, d.fetched = c.fetched,
           NEW n, NEW l, Got(c, n, l)
    PROVE  Got(d, n, l)
BY DEF Got

LEMMA HoldsGot ==
    ASSUME NEW c, NEW n \in Nat, NEW l \in Nat, c.pending = <<>>, c.fetched = NoFetch,
           OwnRows(c.rows, c.op, c.kind, 0, n), OwnLobs(c.lobs, c.op, 0, l)
    PROVE  Got(c, n, l)
<1>1. OwnedNone(c.op, c.kind, n) /\ OwnedNone(c.op, c.kind, l)
  BY OwnNothing
<1>2. n \in 0..n /\ l \in 0..l
  OBVIOUS
<1>3. NoFetch = [rows |-> NoFetch.rows, lobs |-> NoFetch.lobs]
  BY DEF NoFetch
<1>4. c.fetched.rows = NoFetch.rows /\ c.fetched.lobs = NoFetch.lobs
  OBVIOUS
<1>5. c.fetched = [rows |-> c.fetched.rows, lobs |-> c.fetched.lobs]
  BY <1>3
<1> QED
  BY <1>1, <1>2, <1>4, <1>5 DEF Got, OwnedNone

LEMMA FetchLeads ==
    ASSUME NEW c, NEW n, NEW l, Holds(c, n, l)
    PROVE  /\ Fetch(c).outcome = "goes" /\ Fetch(c).call.at = "fetch"
           /\ Got(Fetch(c).call, n, l)
           /\ Fetch(c).cmds = IF Fetch(c).call.closing THEN FetchAndClose(c)
                              ELSE One(c, "fetch")
<1> DEFINE d == [c EXCEPT !.at = "fetch", !.fetched = NoFetch]
<1>1. /\ d.op = c.op /\ d.kind = c.kind /\ d.pending = c.pending /\ d.rows = c.rows
      /\ d.lobs = c.lobs /\ d.fetched = NoFetch /\ d.at = "fetch" /\ d.closing = c.closing
  BY DEF Holds, Formed, Fields
<1>2. Fetch(c) = Goes(d, IF c.closing THEN FetchAndClose(c) ELSE One(c, "fetch"))
  BY DEF Fetch, FetchAndClose, One, Ask
<1> HIDE DEF d
<1>3. /\ n \in Nat /\ l \in Nat /\ c.pending = <<>>
      /\ OwnRows(c.rows, c.op, c.kind, 0, n) /\ OwnLobs(c.lobs, c.op, 0, l)
  BY DEF Holds
<1>4. Got(d, n, l)
  BY <1>1, <1>3, HoldsGot
<1> QED
  BY <1>1, <1>2, <1>4 DEF Goes

LEMMA OpenedLeads ==
    ASSUME NEW c, NEW n, NEW l, Holds(c, n, l), c.fetched = NoFetch
    PROVE  Leads(c, Opened(c), c.end, n, l)
<1>1. /\ Formed(c) /\ c.desc /\ c.kind \notin {"change", "commit"} /\ total \in Nat
      /\ total <= MaxRows /\ n \in 0..total /\ n \in Nat /\ l \in Nat
      /\ OwnRows(c.rows, c.op, c.kind, 0, n) /\ OwnLobs(c.lobs, c.op, 0, l)
      /\ c.pending = <<>>
  BY DEF Holds
<1>2. CASE c.end
  <2>1. Opened(c) = Finish(c) /\ Finish(c).outcome # "goes"
    BY <1>2, FinishFollows, <1>1 DEF Opened
  <2>2. Whole(c.kind, n, l) => Right(c.op, c.kind, Finish(c).call.rows)
    BY <1>1, FinishWhole
  <2> QED
    BY <1>2, <2>1, <2>2 DEF Leads
<1>3. CASE ~c.end
  <2>1. ~Searches(c)
    BY <1>1 DEF Searches
  <2>2. CASE /\ Zos /\ c.kind = "limited" /\ c.lobs = <<>>
             /\ Len(c.rows) >= MaxRows
    <3> DEFINE d == [c EXCEPT !.end = TRUE]
    <3>1. Opened(c) = Finish(d)
      BY <1>1, <1>3, <2>1, <2>2 DEF Opened
    <3>2. /\ Formed(d) /\ d.op = c.op /\ d.kind = c.kind /\ d.desc = c.desc
          /\ d.rows = c.rows /\ d.lobs = c.lobs
      BY <1>1 DEF Formed, Fields
    <3> HIDE DEF d
    <3>3. Finish(d).outcome # "goes"
      BY <3>2, FinishFollows
    <3>4. Len(c.rows) = n
      BY <1>1 DEF OwnRows
    <3>5. MaxRows \in Nat
      BY ConversationAssumption
    <3>6. n = total
      BY <1>1, <2>2, <3>4, <3>5
    <3>7. Whole(d.kind, n, l)
      BY <2>2, <3>2, <3>6 DEF Whole
    <3>8. Right(d.op, d.kind, Finish(d).call.rows)
      BY <1>1, <3>2, <3>7, FinishWhole
    <3> QED
      BY <3>1, <3>2, <3>3, <3>8 DEF Leads
  <2>3. CASE ~(/\ Zos /\ c.kind = "limited" /\ c.lobs = <<>>
               /\ Len(c.rows) >= MaxRows)
    <3> DEFINE d == [c EXCEPT !.closing = Zos /\ c.kind = "limited" /\ c.rows = <<>>]
    <3>1. Opened(c) = Fetch(d)
      BY <1>1, <1>3, <2>1, <2>3 DEF Opened
    <3>2. /\ Formed(d) /\ d.op = c.op /\ d.kind = c.kind /\ d.desc = c.desc
          /\ d.rows = c.rows /\ d.lobs = c.lobs /\ d.pending = c.pending
      BY <1>1 DEF Formed, Fields
    <3> HIDE DEF d
    <3>3. Holds(d, n, l)
      BY <3>2 DEF Holds
    <3>4. One(d, "fetch") = One(c, "fetch") /\ FetchAndClose(d) = FetchAndClose(c)
      BY <3>2 DEF One, FetchAndClose
    <3>5. /\ Fetch(d).outcome = "goes" /\ Fetch(d).call.at = "fetch"
          /\ Got(Fetch(d).call, n, l)
          /\ Fetch(d).cmds = IF Fetch(d).call.closing THEN FetchAndClose(d)
                             ELSE One(d, "fetch")
      BY <3>3, FetchLeads
    <3> QED
      BY <3>1, <3>4, <3>5 DEF Leads
  <2> QED
    BY <2>2, <2>3
<1> QED
  BY <1>2, <1>3

LEMMA CollectedLeads ==
    ASSUME NEW c, NEW n, NEW l, Fed(c, n, l)
    PROVE  Leads(c, Collected(c), c.end, n, l)
<1> DEFINE f == c.fetched
           rows == IF Zos THEN Applied(c.rows \o f.rows, f.lobs) ELSE c.rows \o f.rows
           moved == f.rows # <<>> \/ f.lobs # <<>> \/ c.end
           d == [c EXCEPT !.rows = rows, !.lobs = @ \o f.lobs, !.fetched = NoFetch,
                          !.closing = FALSE, !.stalled = IF moved THEN 0 ELSE @ + 1]
           e == [d EXCEPT !.at = "close", !.verified = FALSE]
<1>1. /\ Formed(c) /\ c.desc /\ c.kind \notin {"change", "commit"} /\ total \in Nat
      /\ total <= MaxRows /\ n \in 0..total /\ n \in Nat /\ l \in Nat /\ l \in 0..total
      /\ c.pending = <<>> /\ (c.kind # "lob" => l = 0)
  BY DEF Fed, Got
<1>2. PICK a \in 0..n : /\ OwnRows(c.rows, c.op, c.kind, 0, a)
                        /\ OwnRows(f.rows, c.op, c.kind, a, n)
  BY DEF Fed, Got
<1>3. PICK b \in 0..l : /\ OwnLobs(c.lobs, c.op, 0, b)
                        /\ OwnLobs(f.lobs, c.op, b, l)
  BY DEF Fed, Got
<1>4. OwnRows(c.rows \o f.rows, c.op, c.kind, 0, n)
  <2>1. a \in Nat
    BY <1>1
  <2> QED
    BY <1>1, <1>2, <2>1, OwnRowsConcat
<1>5. OwnRows(rows, c.op, c.kind, 0, n)
  <2>1. f.lobs \in Seq({c.op} \X Nat)
    BY <1>3 DEF OwnLobs
  <2>2. Zos => OwnRows(Applied(c.rows \o f.rows, f.lobs), c.op, c.kind, 0, n)
    BY <1>1, <1>4, <2>1, OwnRowsApplied
  <2> QED
    BY <1>4, <2>2
<1>6. OwnLobs(c.lobs \o f.lobs, c.op, 0, l)
  <2>1. b \in Nat
    BY <1>1
  <2> QED
    BY <1>1, <1>3, <2>1, OwnLobsConcat
<1>7. f.lobs # <<>> => c.kind = "lob"
  <2>1. Len(f.lobs) = l - b /\ f.lobs \in Seq({c.op} \X Nat)
    BY <1>3 DEF OwnLobs
  <2>2. c.kind # "lob" => Len(f.lobs) = 0
    BY <1>1, <2>1
  <2> QED
    BY <2>1, <2>2, EmptySeq
<1>8. /\ Formed(d) /\ d.op = c.op /\ d.kind = c.kind /\ d.desc = c.desc
      /\ d.end = c.end /\ d.rows = rows /\ d.lobs = c.lobs \o f.lobs
      /\ d.pending = c.pending
  <2> HIDE DEF rows, moved, f
  <2> QED
    BY <1>1 DEF Formed, Fields
<1>9. Collected(c) = IF c.end THEN Finish(d)
       ELSE IF Zos /\ f.lobs # <<>> /\ ~Unresolved(rows) THEN Goes(e, Ask(c, "close"))
       ELSE IF Stuck(d) THEN Ends(d, "protocol")
       ELSE Fetch(d)
  BY DEF Collected
<1> HIDE DEF d
<1>10. /\ e.op = c.op /\ e.kind = c.kind /\ e.desc = c.desc /\ e.rows = rows
       /\ e.pending = c.pending /\ e.at = "close"
  BY <1>8 DEF Formed, Fields
<1> HIDE DEF rows, f
<1>11. CASE c.end
  <2>1. Collected(c) = Finish(d) /\ Finish(d).outcome # "goes"
    BY <1>8, <1>9, <1>11, FinishFollows
  <2>2. Whole(d.kind, n, l) => Right(d.op, d.kind, Finish(d).call.rows)
    BY <1>1, <1>5, <1>6, <1>8, FinishWhole
  <2> QED
    BY <1>8, <1>11, <2>1, <2>2 DEF Leads
<1>12. CASE ~c.end /\ Zos /\ f.lobs # <<>> /\ ~Unresolved(rows)
  <2>1. Collected(c) = Goes(e, One(c, "close"))
    BY <1>9, <1>12 DEF Ask, One
  <2>2. Len(rows) = n /\ n <= total
    BY <1>1, <1>5 DEF OwnRows
  <2> HIDE DEF e
  <2>3. Resolved(e)
    BY <1>1, <1>5, <1>7, <1>10, <1>12, <2>2 DEF Resolved
  <2> QED
    BY <1>10, <2>1, <2>3 DEF Leads, Goes
<1>13. CASE ~c.end /\ ~(Zos /\ f.lobs # <<>> /\ ~Unresolved(rows)) /\ Stuck(d)
  <2>1. Collected(c) = Ends(d, "protocol")
    BY <1>9, <1>13
  <2> QED
    BY <2>1 DEF Leads, Ends
<1>14. CASE ~c.end /\ ~(Zos /\ f.lobs # <<>> /\ ~Unresolved(rows)) /\ ~Stuck(d)
  <2>1. Collected(c) = Fetch(d)
    BY <1>9, <1>14
  <2>2. Holds(d, n, l)
    BY <1>1, <1>5, <1>6, <1>8 DEF Holds
  <2>3. One(d, "fetch") = One(c, "fetch") /\ FetchAndClose(d) = FetchAndClose(c)
    BY <1>8 DEF One, FetchAndClose
  <2>4. /\ Fetch(d).outcome = "goes" /\ Fetch(d).call.at = "fetch"
        /\ Got(Fetch(d).call, n, l)
        /\ Fetch(d).cmds = IF Fetch(d).call.closing THEN FetchAndClose(d)
                           ELSE One(d, "fetch")
    BY <2>2, FetchLeads
  <2> QED
    BY <2>1, <2>3, <2>4 DEF Leads
<1> QED
  BY <1>11, <1>12, <1>13, <1>14

LEMMA FetchOverLeads ==
    ASSUME NEW c, NEW n, NEW l, Fed(c, n, l)
    PROVE  Leads(c, FetchOver(c), c.end \/ c.closing, n, l)
<1> DEFINE d == [c EXCEPT !.end = @ \/ (c.closing /\ c.fetched.rows # <<>>)]
<1>1. /\ Formed(d) /\ d.op = c.op /\ d.kind = c.kind /\ d.desc = c.desc
      /\ d.end = (c.end \/ (c.closing /\ c.fetched.rows # <<>>))
      /\ d.rows = c.rows /\ d.lobs = c.lobs /\ d.pending = c.pending
      /\ d.fetched = c.fetched /\ d.closing = c.closing
  BY DEF Formed, Fields, Fed
<1>2. FetchOver(c) = Collected(d)
  BY DEF FetchOver
<1> HIDE DEF d
<1>3. Got(d, n, l)
  BY <1>1, GotMoves DEF Fed
<1>4. Fed(d, n, l)
  BY <1>1, <1>3 DEF Fed
<1> DEFINE step == Collected(d)
<1>5. Leads(d, step, d.end, n, l)
  BY <1>4, CollectedLeads
<1>6. One(d, "fetch") = One(c, "fetch") /\ One(d, "close") = One(c, "close")
      /\ FetchAndClose(d) = FetchAndClose(c)
  BY <1>1 DEF One, FetchAndClose
<1> HIDE DEF step
<1>7. Leads(c, step, c.end \/ c.closing, n, l)
  BY <1>1, <1>5, <1>6 DEF Leads
<1> QED
  BY <1>2, <1>7 DEF step

LEMMA AfterFetchLeads ==
    ASSUME NEW c, NEW n, NEW l, Fed(c, n, l)
    PROVE  Leads(c, AfterFetch(c), c.end \/ c.closing, n, l)
<1> DEFINE d == [c EXCEPT !.at = "more"]
<1>1. /\ d.op = c.op /\ d.kind = c.kind /\ d.rows = c.rows /\ d.lobs = c.lobs
      /\ d.pending = c.pending /\ d.fetched = c.fetched /\ d.closing = c.closing
      /\ d.at = "more"
  BY DEF Formed, Fields, Fed
<1>2. CASE WaitsForMore(c)
  <2>1. AfterFetch(c) = Goes(d, <<>>)
    BY <1>2 DEF AfterFetch
  <2> HIDE DEF d
  <2>2. Got(d, n, l)
    BY <1>1, GotMoves DEF Fed
  <2> QED
    BY <1>1, <2>1, <2>2 DEF Leads, Goes
<1>3. CASE ~WaitsForMore(c)
  BY <1>3, FetchOverLeads DEF AfterFetch
<1> QED
  BY <1>2, <1>3

\* The outcome of an operation that fails.
LEMMA EndsLeads ==
    ASSUME NEW c, NEW d, NEW outcome, outcome \notin {"goes", "ok"}, NEW ends, NEW n, NEW l
    PROVE  Leads(c, Ends(d, outcome), ends, n, l)
BY DEF Leads, Ends

\* A step of an operation that has changed in between.
LEMMA LeadsFrom ==
    ASSUME NEW c, NEW d, d.op = c.op, d.kind = c.kind, d.closing = c.closing,
           NEW step, NEW ends, NEW more, ends => more, NEW n, NEW l,
           Leads(d, step, ends, n, l)
    PROVE  Leads(c, step, more, n, l)
<1>1. One(d, "fetch") = One(c, "fetch") /\ One(d, "close") = One(c, "close")
      /\ FetchAndClose(d) = FetchAndClose(c)
  BY DEF One, FetchAndClose
<1> QED
  BY <1>1 DEF Leads

LEMMA QueriedLeads ==
    ASSUME NEW c, NEW m, NEW i, Holds(c, m, i), c.fetched = NoFetch,
           NEW frames \in Seq(AnyFrame), NEW n \in 0..total, NEW j \in 0..total,
           c.kind # "lob" => j = 0, Carries(frames, c.op, m, n, i, j)
    PROVE  Leads(c, Queried(c, frames), c.end \/ Sees(frames, {"end"}), n, j)
<1>1. CASE FirstFailure(frames) # "none"
  <2>1. Queried(c, frames) = Ends(c, FirstFailure(frames))
    BY <1>1 DEF Queried
  <2>2. FirstFailure(frames) \notin {"goes", "ok"}
    BY FailureKinds
  <2> QED
    BY <2>1, <2>2, EndsLeads
<1>2. CASE FirstFailure(frames) = "none"
  <2> DEFINE d == Read(c, frames)
  <2>1. Queried(c, frames) = Opened(d)
    BY <1>2 DEF Queried
  <2>2. /\ Formed(c) /\ c.desc /\ c.pending = <<>> /\ c.kind \notin {"change", "commit"}
        /\ total \in Nat /\ total <= MaxRows
        /\ m \in Nat /\ i \in Nat /\ n \in Nat /\ j \in Nat
        /\ OwnRows(c.rows, c.op, c.kind, 0, m) /\ OwnLobs(c.lobs, c.op, 0, i)
    BY DEF Holds
  <2>3. /\ OwnRows(d.rows, c.op, c.kind, 0, n) /\ OwnLobs(d.lobs, c.op, 0, j)
        /\ d.pending = <<>> /\ d.fetched = c.fetched /\ d.closing = c.closing
    BY <2>2, ReadBrings
  <2>4. /\ Formed(d) /\ d.op = c.op /\ d.kind = c.kind
        /\ d.desc = (c.desc \/ Sees(frames, {"format", "described"}))
        /\ d.end = (c.end \/ Sees(frames, {"end"}))
    BY <2>2, ReadKeeps
  <2> HIDE DEF d
  <2>5. Holds(d, n, j)
    BY <2>2, <2>3, <2>4 DEF Holds
  <2> DEFINE step == Opened(d)
             ends == c.end \/ Sees(frames, {"end"})
  <2>6. Leads(d, step, d.end, n, j)
    BY <2>3, <2>5, OpenedLeads
  <2>7. d.end => ends
    BY <2>4
  <2> HIDE DEF step, ends
  <2>8. Leads(c, step, ends, n, j)
    BY <2>3, <2>4, <2>6, <2>7, LeadsFrom
  <2> QED
    BY <2>1, <2>8 DEF step, ends
<1> QED
  BY <1>1, <1>2

\* What a fetch brings, with the payloads that z/OS applies at once.
LEMMA FetchedFed ==
    ASSUME NEW c, NEW m, NEW i, Fed(c, m, i),
           NEW frames \in Seq(AnyFrame), NEW n \in 0..total, NEW j \in 0..total,
           m <= n, i <= j, c.kind # "lob" => j = 0, Carries(frames, c.op, m, n, i, j)
    PROVE  LET d == Fetched(c, frames)
               e == IF Zos THEN [d EXCEPT !.fetched.rows = Applied(@, d.fetched.lobs)] ELSE d
           IN  /\ Fed(d, n, j) /\ Fed(e, n, j)
               /\ e.op = c.op /\ e.kind = c.kind /\ e.closing = c.closing
               /\ e.end = (c.end \/ Sees(frames, {"end"}))
               /\ d.op = c.op /\ d.kind = c.kind /\ d.closing = c.closing
               /\ d.end = (c.end \/ Sees(frames, {"end"}))
<1> DEFINE d == Fetched(c, frames)
           rows == c.fetched.rows
           lobs == c.fetched.lobs
<1>1. /\ Formed(c) /\ c.desc /\ c.kind \notin {"change", "commit"} /\ total \in Nat
      /\ total <= MaxRows /\ m \in Nat /\ i \in Nat /\ n \in Nat /\ j \in Nat
      /\ c.pending = <<>> /\ c.fetched = [rows |-> rows, lobs |-> lobs]
  BY DEF Fed, Got
<1>2. PICK a \in 0..m : /\ OwnRows(c.rows, c.op, c.kind, 0, a)
                        /\ OwnRows(rows, c.op, c.kind, a, m)
  BY DEF Fed, Got
<1>3. PICK b \in 0..i : /\ OwnLobs(c.lobs, c.op, 0, b)
                        /\ OwnLobs(lobs, c.op, b, i)
  BY DEF Fed, Got
<1> HIDE DEF rows, lobs
<1>4. a \in Nat /\ b \in Nat /\ a <= m /\ b <= i /\ a \in 0..n /\ b \in 0..j
  BY <1>1
<1>5. /\ OwnRows(d.fetched.rows, c.op, c.kind, a, n)
      /\ OwnLobs(d.fetched.lobs, c.op, b, j)
      /\ d.fetched = [rows |-> d.fetched.rows, lobs |-> d.fetched.lobs]
      /\ d.pending = c.pending /\ d.rows = c.rows /\ d.lobs = c.lobs
  BY <1>1, <1>2, <1>3, <1>4, FetchedBrings
<1>6. /\ Formed(d) /\ d.op = c.op /\ d.kind = c.kind /\ d.desc = c.desc
      /\ d.closing = c.closing /\ d.end = (c.end \/ Sees(frames, {"end"}))
  BY <1>1, FetchedKeeps
<1> HIDE DEF d
<1>7. Got(d, n, j)
  BY <1>1, <1>2, <1>3, <1>4, <1>5, <1>6 DEF Got
<1>8. Fed(d, n, j)
  BY <1>1, <1>6, <1>7 DEF Fed
<1> DEFINE new == Applied(d.fetched.rows, d.fetched.lobs)
           e == [d EXCEPT !.fetched.rows = new]
           x == d.fetched.lobs
<1>9. ASSUME Zos
      PROVE  /\ Fed(e, n, j) /\ e.op = c.op /\ e.kind = c.kind
             /\ e.closing = c.closing /\ e.end = (c.end \/ Sees(frames, {"end"}))
  <2>1. x \in Seq({c.op} \X Nat)
    BY <1>5 DEF OwnLobs
  <2>2. OwnRows(new, c.op, c.kind, a, n)
    BY <1>1, <1>4, <1>5, <1>9, <2>1, OwnRowsApplied
  <2> HIDE DEF new
  <2>3. DOMAIN d = Fields
    BY <1>6 DEF Formed
  <2>4. [d.fetched EXCEPT !.rows = new] = [rows |-> new, lobs |-> x]
    <3>1. \A y, z : [[rows |-> y, lobs |-> z] EXCEPT !.rows = new] = [rows |-> new, lobs |-> z]
      OBVIOUS
    <3> HIDE DEF x
    <3>2. d.fetched = [rows |-> d.fetched.rows, lobs |-> x]
      BY <1>5 DEF x
    <3> QED
      BY <3>1, <3>2
  <2>5. /\ Formed(e) /\ e.op = d.op /\ e.kind = d.kind /\ e.desc = d.desc
        /\ e.closing = d.closing /\ e.end = d.end /\ e.pending = d.pending
        /\ e.rows = d.rows /\ e.lobs = d.lobs /\ e.fetched = [d.fetched EXCEPT !.rows = new]
    BY <1>6, <2>3 DEF Formed, Fields
  <2> HIDE DEF e, x
  <2>6. e.fetched = [rows |-> new, lobs |-> x]
    BY <2>4, <2>5
  <2>7. e.fetched.rows = new /\ e.fetched.lobs = x
    BY <2>6
  <2>8. e.fetched = [rows |-> e.fetched.rows, lobs |-> e.fetched.lobs]
    BY <2>6, <2>7
  <2>9. OwnLobs(x, c.op, b, j)
    BY <1>5 DEF x
  <2>10. Got(e, n, j)
    BY <1>1, <1>2, <1>3, <1>4, <1>5, <1>6, <2>2, <2>5, <2>7, <2>8, <2>9 DEF Got
  <2> QED
    BY <1>1, <1>6, <2>5, <2>10 DEF Fed
<1> HIDE DEF e
<1> QED
  BY <1>6, <1>8, <1>9 DEF e, d, new

LEMMA FetchReadLeads ==
    ASSUME NEW c, NEW m, NEW i, Fed(c, m, i),
           NEW frames \in Seq(AnyFrame), NEW n \in 0..total, NEW j \in 0..total,
           m <= n, i <= j, c.kind # "lob" => j = 0, Carries(frames, c.op, m, n, i, j)
    PROVE  Leads(c, FetchRead(c, frames), c.end \/ Sees(frames, {"end"}) \/ c.closing, n, j)
<1> DEFINE d == Fetched(c, frames)
           e == IF Zos THEN [d EXCEPT !.fetched.rows = Applied(@, d.fetched.lobs)] ELSE d
           z == [e EXCEPT !.at = "closing"]
           ends == c.end \/ Sees(frames, {"end"}) \/ c.closing
<1>1. CASE FetchFailure(c, frames) # "none"
  <2>1. FetchRead(c, frames) = Ends(c, FetchFailure(c, frames))
    BY <1>1 DEF FetchRead
  <2>2. FetchFailure(c, frames) \notin {"goes", "ok"}
    BY FetchFailureKinds
  <2> QED
    BY <2>1, <2>2, EndsLeads
<1>2. CASE FetchFailure(c, frames) = "none"
  <2>1. FetchRead(c, frames) =
          IF c.closing /\ c.at = "fetch" /\ ~CloseReplySeen(c, frames)
          THEN Goes(z, <<>>) ELSE AfterFetch(e)
    BY <1>2 DEF FetchRead
  <2>2. /\ Fed(e, n, j) /\ e.op = c.op /\ e.kind = c.kind /\ e.closing = c.closing
        /\ e.end = (c.end \/ Sees(frames, {"end"}))
    BY FetchedFed
  <2> HIDE DEF e
  <2>3. CASE c.closing /\ c.at = "fetch" /\ ~CloseReplySeen(c, frames)
    <3>1. /\ z.op = e.op /\ z.kind = e.kind /\ z.rows = e.rows /\ z.lobs = e.lobs
          /\ z.pending = e.pending /\ z.fetched = e.fetched /\ z.closing = e.closing
          /\ z.at = "closing"
      BY <2>2 DEF Formed, Fields, Fed
    <3> HIDE DEF z
    <3>2. Got(z, n, j)
      BY <2>2, <3>1, GotMoves DEF Fed
    <3>3. z.closing = c.closing /\ z.at = "closing" /\ c.closing
      BY <2>2, <2>3, <3>1
    <3> HIDE DEF ends
    <3>4. Leads(c, Goes(z, <<>>), ends, n, j)
      BY <3>2, <3>3 DEF Leads, Goes
    <3> QED
      BY <2>1, <2>3, <3>4 DEF ends
  <2>4. CASE ~(c.closing /\ c.at = "fetch" /\ ~CloseReplySeen(c, frames))
    <3> DEFINE step == AfterFetch(e)
               over == e.end \/ e.closing
    <3>1. Leads(e, step, over, n, j)
      BY <2>2, AfterFetchLeads
    <3>2. over => ends
      BY <2>2
    <3> HIDE DEF step, over, ends
    <3>3. Leads(c, step, ends, n, j)
      BY <2>2, <3>1, <3>2, LeadsFrom
    <3> QED
      BY <2>1, <2>4, <3>3 DEF step, ends
  <2> QED
    BY <2>3, <2>4
<1> QED
  BY <1>1, <1>2

LEMMA ClosingReadLeads ==
    ASSUME NEW c, NEW m, NEW i, Fed(c, m, i),
           NEW frames \in Seq(AnyFrame), NEW n \in 0..total, NEW j \in 0..total,
           m <= n, i <= j, c.kind # "lob" => j = 0, Carries(frames, c.op, m, n, i, j)
    PROVE  Leads(c, ClosingRead(c, frames), TRUE, n, j)
<1> DEFINE d == [c EXCEPT !.end = TRUE]
           e == Fetched(d, frames)
           step == AfterFetch(e)
           over == e.end \/ e.closing
<1>1. CASE FetchFailure(d, frames) # "none"
  <2>1. ClosingRead(c, frames) = Ends(c, FetchFailure(d, frames))
    BY <1>1 DEF ClosingRead
  <2>2. FetchFailure(d, frames) \notin {"goes", "ok"}
    BY FetchFailureKinds
  <2> QED
    BY <2>1, <2>2, EndsLeads
<1>2. CASE FetchFailure(d, frames) = "none"
  <2>1. ClosingRead(c, frames) = step
    BY <1>2 DEF ClosingRead
  <2>2. /\ Formed(d) /\ d.op = c.op /\ d.kind = c.kind /\ d.desc = c.desc
        /\ d.rows = c.rows /\ d.lobs = c.lobs /\ d.pending = c.pending
        /\ d.fetched = c.fetched /\ d.closing = c.closing
    BY DEF Formed, Fields, Fed
  <2> HIDE DEF d
  <2>3. Got(d, m, i)
    BY <2>2, GotMoves DEF Fed
  <2>4. Fed(d, m, i)
    BY <2>2, <2>3 DEF Fed
  <2>5. Fed(e, n, j) /\ e.op = d.op /\ e.kind = d.kind /\ e.closing = d.closing
    BY <2>2, <2>4, FetchedFed
  <2> HIDE DEF e
  <2>6. Leads(e, step, over, n, j)
    BY <2>5, AfterFetchLeads
  <2>7. over => TRUE
    OBVIOUS
  <2> HIDE DEF step, over
  <2>8. Leads(c, step, TRUE, n, j)
    BY <2>2, <2>5, <2>6, LeadsFrom
  <2> QED
    BY <2>1, <2>8
<1> QED
  BY <1>1, <1>2
-----------------------------------------------------------------------------
(* What an operation returns *)

\* The frames of a complete read, and what it leaves: nothing is lost between.
Parted(frames, rest) ==
    /\ frames \in Seq(AnyFrame) /\ rest \in Seq(AnyFrame)
    /\ Range(frames) \subseteq Unread /\ Range(rest) \subseteq Range(line)
    /\ Unread \subseteq Range(frames) \cup Range(rest)
    /\ \A body, op : \A a, n, b \in Nat :
          Counted(inbox, body, op, a, n) /\ Counted(line, body, op, n, b) =>
          \E c \in a..b : Counted(frames, body, op, a, c) /\ Counted(rest, body, op, c, b)

LEMMA QuietParted ==
    ASSUME Typed
    PROVE  Parted(inbox, line)
<1>1. inbox \in Seq(AnyFrame) /\ line \in Seq(AnyFrame)
  BY DEF Typed
<1>2. ASSUME NEW body, NEW op, NEW a \in Nat, NEW n \in Nat, NEW b \in Nat,
             Counted(inbox, body, op, a, n), Counted(line, body, op, n, b)
      PROVE  \E c \in a..b : Counted(inbox, body, op, a, c) /\ Counted(line, body, op, c, b)
  <2>1. a <= n /\ n <= b
    BY <1>1, <1>2, CountedOrder
  <2>2. n \in a..b
    BY <2>1
  <2> QED
    BY <1>2, <2>2
<1> QED
  BY <1>1, <1>2 DEF Parted, Unread

LEMMA ReceiveParted ==
    ASSUME Typed, NEW k \in 1..Len(line)
    PROVE  Parted(inbox \o SubSeq(line, 1, k), SubSeq(line, k + 1, Len(line)))
<1> DEFINE s == SubSeq(line, 1, k)
           frames == inbox \o s
           rest == SubSeq(line, k + 1, Len(line))
<1>1. /\ frames \in Seq(AnyFrame) /\ Range(frames) \subseteq Unread
      /\ rest \in Seq(AnyFrame) /\ Len(rest) = Len(line) - k
      /\ \A i \in 1..Len(rest) : rest[i] = line[k + i]
      /\ Range(rest) \subseteq Range(line)
  BY FramesRead
<1>2. /\ line \in Seq(AnyFrame) /\ inbox \in Seq(AnyFrame) /\ Len(line) \in Nat
      /\ DOMAIN line = 1..Len(line) /\ Len(inbox) \in Nat
      /\ DOMAIN inbox = 1..Len(inbox)
      /\ k \in Nat /\ 1 <= k /\ k <= Len(line)
  BY LenProperties DEF Typed
<1>3. s \in Seq(AnyFrame) /\ Len(s) = k /\ \A i \in 1..k : s[i] = line[i]
  <2>1. \A i \in 1..k : line[i] \in AnyFrame
    BY <1>2
  <2>2. /\ s \in Seq(AnyFrame) /\ Len(s) = IF 1 <= k THEN k - 1 + 1 ELSE 0
        /\ \A i \in 1..(k - 1 + 1) : s[i] = line[1 + i - 1]
    BY <1>2, <2>1, SubSeqProperties
  <2> HIDE DEF s
  <2> QED
    BY <1>2, <2>2
<1> HIDE DEF s, rest
<1>4. /\ Len(frames) = Len(inbox) + k
      /\ \A i \in 1..(Len(inbox) + k) :
            frames[i] = IF i <= Len(inbox) THEN inbox[i] ELSE s[i - Len(inbox)]
  BY <1>2, <1>3, ConcatProperties
<1> HIDE DEF frames
<1>5. DOMAIN frames = 1..(Len(inbox) + k) /\ DOMAIN rest = 1..(Len(line) - k)
  BY <1>1, <1>4, LenProperties
<1>6. Unread \subseteq Range(frames) \cup Range(rest)
  <2>1. ASSUME NEW i \in 1..Len(inbox)
        PROVE  inbox[i] \in Range(frames)
    <3>1. i \in DOMAIN frames /\ frames[i] = inbox[i]
      BY <1>2, <1>4, <1>5
    <3> QED
      BY <3>1 DEF Range
  <2>2. ASSUME NEW i \in 1..Len(line)
        PROVE  line[i] \in Range(frames) \cup Range(rest)
    <3>1. CASE i <= k
      <4> DEFINE x == Len(inbox) + i
      <4>1. x \in 1..(Len(inbox) + k) /\ ~(x <= Len(inbox)) /\ x - Len(inbox) = i
            /\ i \in 1..k
        BY <1>2, <3>1
      <4> HIDE DEF x
      <4>2. x \in DOMAIN frames /\ frames[x] = line[i]
        BY <1>3, <1>4, <1>5, <4>1
      <4> QED
        BY <4>2 DEF Range
    <3>2. CASE ~(i <= k)
      <4> DEFINE x == i - k
      <4>1. x \in 1..(Len(line) - k) /\ k + x = i
        BY <1>2, <3>2
      <4> HIDE DEF x
      <4>2. x \in DOMAIN rest /\ rest[x] = line[i]
        BY <1>1, <1>5, <4>1
      <4> QED
        BY <4>2 DEF Range
    <3> QED
      BY <3>1, <3>2
  <2> QED
    BY <1>2, <2>1, <2>2 DEF Unread, Range
<1>7. ASSUME NEW body, NEW op, NEW a \in Nat, NEW n \in Nat, NEW b \in Nat,
             Counted(inbox, body, op, a, n), Counted(line, body, op, n, b)
      PROVE  \E c \in a..b : Counted(frames, body, op, a, c) /\ Counted(rest, body, op, c, b)
  <2>1. a <= n /\ n <= b
    BY <1>2, <1>7, CountedOrder
  <2>2. k \in 0..Len(line)
    BY <1>2
  <2>3. PICK c \in n..b : Counted(s, body, op, n, c) /\ Counted(rest, body, op, c, b)
    BY <1>1, <1>2, <1>3, <1>7, <2>2, CountedSplit
  <2>4. c \in Nat /\ c \in a..b
    BY <2>1
  <2>5. Counted(inbox \o s, body, op, a, c)
    BY <1>2, <1>3, <1>7, <2>3, <2>4, CountedConcat
  <2> QED
    BY <2>3, <2>4, <2>5 DEF frames
<1> QED
  BY <1>1, <1>6, <1>7 DEF Parted, frames, rest, s

\* Rows up to n and payloads up to j have been read, and the rest of the line
\* carries what follows, up to b and l.
Standing(rest, b, l, n, j) ==
    /\ b \in 0..total /\ l \in 0..total /\ n \in 0..b /\ j \in 0..l
    /\ call.kind # "lob" => l = 0
    /\ Sent(b, l) /\ Fetching(b, l)
    /\ Carries(rest, call.op, n, b, j, l)

\* The operation has what tells it that its result is complete.
Over == call.end \/ call.closing \/ \E f \in Unread : f.body = "end"

CursorStep(step, rest) ==
    \E b, l \in Nat : \E n, j \in Nat :
        Standing(rest, b, l, n, j) /\ Leads(call, step, Over, n, j)

LEMMA FlowingReads ==
    ASSUME total \in Nat, Flowing, NEW frames, NEW rest, Parted(frames, rest)
    PROVE  \E b, l \in Nat : \E n, j \in Nat : \E m, i \in Nat :
              /\ Standing(rest, b, l, n, j) /\ Got(call, m, i) /\ m <= n /\ i <= j
              /\ Carries(frames, call.op, m, n, i, j)
<1>1. PICK b \in 0..total, l \in 0..total :
        /\ call.kind # "lob" => l = 0
        /\ Along(b, l) /\ Sent(b, l) /\ Fetching(b, l)
  BY DEF Flowing
<1>2. PICK m \in 0..b, n \in 0..b, i \in 0..l, j \in 0..l :
        /\ Got(call, m, i) /\ m <= n /\ i <= j
        /\ Counted(inbox, "row", call.op, m, n) /\ Counted(line, "row", call.op, n, b)
        /\ Counted(inbox, "lob", call.op, i, j) /\ Counted(line, "lob", call.op, j, l)
  BY <1>1 DEF Along
<1>3. /\ b \in Nat /\ l \in Nat /\ m \in Nat /\ n \in Nat /\ i \in Nat /\ j \in Nat
  BY <1>1, <1>2
<1>4. PICK x \in m..b : /\ Counted(frames, "row", call.op, m, x)
                        /\ Counted(rest, "row", call.op, x, b)
  BY <1>2, <1>3 DEF Parted
<1>5. PICK y \in i..l : /\ Counted(frames, "lob", call.op, i, y)
                        /\ Counted(rest, "lob", call.op, y, l)
  BY <1>2, <1>3 DEF Parted
<1>6. /\ x \in Nat /\ y \in Nat /\ x \in 0..b /\ y \in 0..l /\ m <= x /\ i <= y
  BY <1>3
<1>7. Standing(rest, b, l, x, y)
  BY <1>1, <1>4, <1>5, <1>6 DEF Standing, Carries
<1>8. Carries(frames, call.op, m, x, i, y)
  BY <1>4, <1>5 DEF Carries
<1> QED
  BY <1>2, <1>3, <1>6, <1>7, <1>8

\* What an operation that reads a cursor has is its own.
LEMMA GotFed ==
    ASSUME Formed(call), call.desc, call.kind \notin {"change", "commit"},
           total \in Nat, total <= MaxRows, NEW rest, NEW b, NEW l, NEW n, NEW j,
           Standing(rest, b, l, n, j), NEW m \in Nat, NEW i \in Nat, m <= n, i <= j,
           Got(call, m, i)
    PROVE  /\ Fed(call, m, i) /\ n \in 0..total /\ j \in 0..total
           /\ call.kind # "lob" => j = 0
<1>1. /\ b \in Nat /\ l \in Nat /\ n \in Nat /\ j \in Nat /\ b <= total /\ l <= total
      /\ n <= b /\ j <= l /\ (call.kind # "lob" => l = 0)
  BY DEF Standing
<1>2. /\ m \in 0..total /\ i \in 0..total /\ n \in 0..total /\ j \in 0..total
      /\ call.kind # "lob" => j = 0 /\ i = 0
  BY <1>1
<1> QED
  BY <1>2 DEF Fed

LEMMA BlankHolds ==
    ASSUME NEW m, NEW i, Fed(call, m, i), Blank(call)
    PROVE  Holds(call, m, i) /\ call.fetched = NoFetch
<1>1. /\ m \in Nat /\ i \in Nat /\ call.rows = <<>> /\ call.lobs = <<>>
      /\ call.fetched = NoFetch /\ NoFetch.rows = <<>> /\ NoFetch.lobs = <<>>
  BY DEF Fed, Blank, NoFetch
<1>2. PICK a \in 0..m : /\ OwnRows(<<>>, call.op, call.kind, 0, a)
                        /\ OwnRows(<<>>, call.op, call.kind, a, m)
  BY <1>1 DEF Fed, Got
<1>3. PICK b \in 0..i : OwnLobs(<<>>, call.op, 0, b) /\ OwnLobs(<<>>, call.op, b, i)
  BY <1>1 DEF Fed, Got
<1>4. a = 0 - 0 /\ m - a = 0 /\ b = 0 - 0 /\ i - b = 0
  BY <1>1, <1>2, <1>3 DEF OwnRows, OwnLobs
<1>5. m = 0 /\ i = 0 /\ a = 0 /\ b = 0
  BY <1>1, <1>4
<1>6. OwnRows(call.rows, call.op, call.kind, 0, m) /\ OwnLobs(call.lobs, call.op, 0, i)
  BY <1>1, <1>2, <1>3, <1>5
<1> QED
  BY <1>1, <1>6 DEF Holds, Fed, Got

LEMMA SeesEnd ==
    ASSUME NEW frames, Range(frames) \subseteq Unread, Sees(frames, {"end"})
    PROVE  \E f \in Unread : f.body = "end"
<1>1. PICK i \in DOMAIN frames : frames[i].body = "end"
  BY DEF Sees
<1>2. frames[i] \in Unread
  BY DEF Range
<1> QED
  BY <1>1, <1>2

\* A complete read of a cursor leads to the next request, or to the result.
LEMMA PlaceLeads ==
    ASSUME Typed, call.desc, call.kind \notin {"change", "commit"}, Flowing,
           total \in Nat, total <= MaxRows,
           call.at \in {"open", "fetch", "more", "closing"},
           call.at = "open" => Blank(call), call.at = "closing" => call.closing,
           NEW frames, NEW rest, Parted(frames, rest)
    PROVE  CursorStep(Step(call, frames), rest)
<1>1. PICK b \in Nat, l \in Nat, n \in Nat, j \in Nat, m \in Nat, i \in Nat :
        /\ Standing(rest, b, l, n, j) /\ Got(call, m, i) /\ m <= n /\ i <= j
        /\ Carries(frames, call.op, m, n, i, j)
  BY FlowingReads
<1>2. Formed(call) /\ frames \in Seq(AnyFrame) /\ Range(frames) \subseteq Unread
  BY DEF Typed, Parted
<1>3. /\ Fed(call, m, i) /\ n \in 0..total /\ j \in 0..total
      /\ call.kind # "lob" => j = 0
  BY <1>1, <1>2, GotFed
<1>4. Sees(frames, {"end"}) => \E f \in Unread : f.body = "end"
  BY <1>2, SeesEnd
<1> DEFINE step == Step(call, frames)
<1>5. CASE call.at = "open"
  <2>1. Holds(call, m, i) /\ call.fetched = NoFetch
    BY <1>3, <1>5, BlankHolds
  <2> DEFINE ends == call.end \/ Sees(frames, {"end"})
  <2>2. Leads(call, Queried(call, frames), ends, n, j)
    BY <1>1, <1>2, <1>3, <2>1, QueriedLeads
  <2>3. step = Queried(call, frames)
    BY <1>5 DEF Step
  <2>4. ends => Over
    BY <1>4 DEF Over
  <2> HIDE DEF step, ends
  <2>5. Leads(call, step, Over, n, j)
    BY <2>2, <2>3, <2>4, LeadsFrom
  <2> QED
    BY <1>1, <2>5 DEF CursorStep, step
<1>6. CASE call.at \in {"fetch", "more"}
  <2> DEFINE ends == call.end \/ Sees(frames, {"end"}) \/ call.closing
  <2>2. Leads(call, FetchRead(call, frames), ends, n, j)
    BY <1>1, <1>2, <1>3, FetchReadLeads
  <2>3. step = FetchRead(call, frames)
    BY <1>6 DEF Step
  <2>4. ends => Over
    BY <1>4 DEF Over
  <2> HIDE DEF step, ends
  <2>5. Leads(call, step, Over, n, j)
    BY <2>2, <2>3, <2>4, LeadsFrom
  <2> QED
    BY <1>1, <2>5 DEF CursorStep, step
<1>7. CASE call.at = "closing"
  <2>2. Leads(call, ClosingRead(call, frames), TRUE, n, j)
    BY <1>1, <1>2, <1>3, ClosingReadLeads
  <2>3. step = ClosingRead(call, frames)
    BY <1>7 DEF Step
  <2>4. TRUE => Over
    BY <1>7 DEF Over
  <2> HIDE DEF step
  <2>5. Leads(call, step, Over, n, j)
    BY <2>2, <2>3, <2>4, LeadsFrom
  <2> QED
    BY <1>1, <2>5 DEF CursorStep, step
<1> QED
  BY <1>5, <1>6, <1>7

\* The same when z/OS falls silent.
LEMMA QuietLeads ==
    ASSUME Typed, call.desc, call.kind \notin {"change", "commit"}, Flowing,
           total \in Nat, total <= MaxRows,
           call.at \in {"more", "closing"}, inbox = <<>>
    PROVE  CursorStep(QuietStep(call, inbox), line)
<1>1. PICK b \in Nat, l \in Nat, n \in Nat, j \in Nat, m \in Nat, i \in Nat :
        /\ Standing(line, b, l, n, j) /\ Got(call, m, i) /\ m <= n /\ i <= j
        /\ Carries(inbox, call.op, m, n, i, j)
  BY QuietParted, FlowingReads
<1>2. m = n /\ i = j
  BY <1>1, CountedEmpty DEF Carries
<1>3. Fed(call, n, j)
  BY <1>1, <1>2, GotFed DEF Typed
<1> DEFINE step == QuietStep(call, inbox)
           ends == call.end \/ call.closing
<1>4. Leads(call, AfterFetch(call), ends, n, j) /\ Leads(call, FetchOver(call), ends, n, j)
  BY <1>3, AfterFetchLeads, FetchOverLeads
<1>5. step \in {AfterFetch(call), FetchOver(call)}
  BY DEF QuietStep
<1>6. ends => Over
  BY DEF Over
<1> HIDE DEF step, ends
<1>7. Leads(call, step, ends, n, j)
  BY <1>4, <1>5
<1>8. Leads(call, step, Over, n, j)
  BY <1>6, <1>7, LeadsFrom
<1> QED
  BY <1>1, <1>8 DEF CursorStep, step

\* A result is complete only when everything has been read.
LEMMA CursorStepRight ==
    ASSUME NEW step, CursorStep(step, <<>>), asked = <<>>, step.outcome = "ok"
    PROVE  Right(call.op, call.kind, step.call.rows)
<1>1. PICK b \in Nat, l \in Nat, n \in Nat, j \in Nat :
        Standing(<<>>, b, l, n, j) /\ Leads(call, step, Over, n, j)
  BY DEF CursorStep
<1>2. n = b /\ j = l
  BY <1>1, CountedEmpty DEF Standing, Carries
<1>3. Over => Whole(call.kind, b, l)
  <2>1. call.closing => Whole(call.kind, b, l)
    BY <1>1 DEF Standing, Fetching
  <2>2. \/ ~call.end /\ \A f \in Unread : f.body # "end"
        \/ Whole(call.kind, b, l)
    BY <1>1 DEF Standing, Sent
  <2> QED
    BY <2>1, <2>2 DEF Over
<1> QED
  BY <1>1, <1>2, <1>3 DEF Leads

\* A step that goes on has seen the end only in a frame.
LEMMA ClosingStays ==
    ASSUME NEW c, Formed(c), c.at = "closing", NEW frames
    PROVE  ClosingRead(c, frames).outcome # "goes"
<1> DEFINE d == [c EXCEPT !.end = TRUE]
           e == Fetched(d, frames)
<1>1. Formed(d) /\ d.end = TRUE /\ d.kind = "limited"
  BY DEF Formed, Fields
<1>2. ClosingRead(c, frames) =
        IF FetchFailure(d, frames) # "none" THEN Ends(c, FetchFailure(d, frames))
        ELSE AfterFetch(e)
  BY DEF ClosingRead
<1> HIDE DEF d
<1>3. Formed(e) /\ e.kind = "limited" /\ e.end
  BY <1>1, FetchedKeeps
<1> HIDE DEF e
<1>4. AfterFetch(e) = FetchOver(e)
  BY <1>3 DEF AfterFetch, WaitsForMore
<1> DEFINE z == [e EXCEPT !.end = @ \/ (e.closing /\ e.fetched.rows # <<>>)]
<1>5. Formed(z) /\ z.end
  BY <1>3 DEF Formed, Fields
<1>6. FetchOver(e) = Collected(z)
  BY DEF FetchOver
<1> HIDE DEF z
<1>7. Collected(z).outcome # "goes"
  BY <1>5, CollectedOver
<1>8. FetchFailure(d, frames) # "goes"
  BY FetchFailureKinds
<1>9. Ends(c, FetchFailure(d, frames)).outcome # "goes"
  BY <1>8 DEF Ends
<1> QED
  BY <1>2, <1>4, <1>6, <1>7, <1>9

LEMMA GoesEnd ==
    ASSUME NEW c, Formed(c), c.at \in {"open", "fetch", "more", "closing"}, NEW frames,
           Step(c, frames).outcome = "goes"
    PROVE  Step(c, frames).call.end => c.end \/ Sees(frames, {"end"})
<1>1. CASE c.at = "open"
  <2> DEFINE d == Read(c, frames)
             step == Opened(d)
  <2>1. FirstFailure(frames) = "none"
    <3>1. FirstFailure(frames) # "goes"
      BY FailureKinds
    <3> QED
      BY <1>1, <3>1 DEF Step, Queried, Ends
  <2>2. Step(c, frames) = step
    BY <1>1, <2>1 DEF Step, Queried
  <2>3. Formed(d) /\ d.end = (c.end \/ Sees(frames, {"end"}))
    BY ReadKeeps
  <2> HIDE DEF d
  <2>4. Follows(d, step)
    BY <2>3, OpenedFollows
  <2> HIDE DEF step
  <2> QED
    BY <2>2, <2>3, <2>4 DEF Follows
<1>2. CASE c.at \in {"fetch", "more"}
  <2> DEFINE d == Fetched(c, frames)
             e == IF Zos THEN [d EXCEPT !.fetched.rows = Applied(@, d.fetched.lobs)] ELSE d
             z == [e EXCEPT !.at = "closing"]
             step == AfterFetch(e)
  <2>1. FetchFailure(c, frames) = "none"
    <3>1. FetchFailure(c, frames) # "goes"
      BY FetchFailureKinds
    <3> QED
      BY <1>2, <3>1 DEF Step, FetchRead, Ends
  <2>2. Step(c, frames) \in {Goes(z, <<>>), step}
    BY <1>2, <2>1 DEF Step, FetchRead
  <2>3. Formed(d) /\ d.end = (c.end \/ Sees(frames, {"end"}))
    BY FetchedKeeps
  <2> HIDE DEF d
  <2>4. Formed(e) /\ e.end = d.end
    BY <2>3 DEF Formed, Fields
  <2> HIDE DEF e
  <2>5. z.end = e.end
    BY <2>4 DEF Formed, Fields
  <2>6. Follows(e, step)
    BY <2>4, AfterFetchFollows
  <2> HIDE DEF step, z
  <2>7. CASE Step(c, frames) = Goes(z, <<>>)
    <3>1. Goes(z, <<>>).call = z
      BY DEF Goes
    <3>2. Step(c, frames).call.end = (c.end \/ Sees(frames, {"end"}))
      BY <2>3, <2>4, <2>5, <2>7, <3>1
    <3> QED
      BY <3>2
  <2>8. CASE Step(c, frames) = step
    BY <2>3, <2>4, <2>6, <2>8 DEF Follows
  <2> QED
    BY <2>2, <2>7, <2>8
<1>3. CASE c.at = "closing"
  BY <1>3, ClosingStays DEF Step
<1> QED
  BY <1>1, <1>2, <1>3

LEMMA CursorStepGoes ==
    ASSUME Typed, total \in Nat, NEW step, NEW rest, CursorStep(step, rest),
           step.outcome = "goes", rest \in Seq(AnyFrame), Range(rest) \subseteq Range(line),
           step.cmds # <<>> => rest = <<>> /\ asked = <<>>,
           step.call.op = call.op, step.call.kind = call.kind,
           step.call.end => call.end \/ \E f \in Unread : f.body = "end",
           call' = step.call, inbox' = <<>>, line' = rest,
           asked' = IF step.cmds = <<>> THEN asked ELSE step.cmds,
           cursor' = cursor, total' = total, system' = system
    PROVE  Advancing'
<1>1. PICK b \in Nat, l \in Nat, n \in Nat, j \in Nat :
        Standing(rest, b, l, n, j) /\ Leads(call, step, Over, n, j)
  BY DEF CursorStep
<1>2. /\ b \in 0..total /\ l \in 0..total /\ n \in 0..b /\ j \in 0..l
      /\ call.kind # "lob" => l = 0
      /\ Sent(b, l) /\ Fetching(b, l)
      /\ Counted(rest, "row", call.op, n, b) /\ Counted(rest, "lob", call.op, j, l)
  BY <1>1 DEF Standing, Carries
<1>3. (Zos' <=> Zos) /\ call'.op = call.op /\ call'.kind = call.kind
  BY DEF Zos
<1>4. Unread' \subseteq Unread
  BY DEF Unread, Range
<1>5. Sent(b, l)'
  <2>1. cursor.op = call.op =>
          /\ cursor \in Cursors /\ cursor.sent = b /\ cursor.lobs = l
          /\ cursor.total = total /\ cursor.kind = call.kind
    BY <1>2 DEF Sent
  <2>2. \/ /\ cursor.op = call.op /\ ~call.end
           /\ \A f \in Unread : f.body # "end"
        \/ Whole(call.kind, b, l)
    BY <1>2 DEF Sent
  <2>3. Whole(call.kind, b, l) => Whole(call.kind, b, l)'
    BY <1>3 DEF Whole
  <2>4. ~call.end /\ (\A f \in Unread : f.body # "end") =>
           ~call'.end /\ \A f \in Unread' : f.body # "end"
    BY <1>4
  <2> QED
    BY <1>3, <2>1, <2>2, <2>3, <2>4 DEF Sent
<1>6. ASSUME Got(step.call, n, j)
      PROVE  Along(b, l)'
  <2>1. Got(call, n, j)'
    BY <1>3, <1>6 DEF Got, OwnRows, OwnLobs, RowsOf, LobsOf, Zos
  <2>2. <<>> \in Seq(AnyFrame) /\ \A i \in 1..Len(<<>>) : <<>>[i].body \notin {"row", "lob"}
    OBVIOUS
  <2>3. Counted(<<>>, "row", call.op, n, n) /\ Counted(<<>>, "lob", call.op, j, j)
    BY <1>1, <2>2, CarriesNothing DEF Carries
  <2>4. /\ Counted(inbox, "row", call.op, n, n)' /\ Counted(line, "row", call.op, n, b)'
        /\ Counted(inbox, "lob", call.op, j, j)' /\ Counted(line, "lob", call.op, j, l)'
    <3>1. /\ Counted(inbox', "row", call'.op, n, n) /\ Counted(line', "row", call'.op, n, b)
          /\ Counted(inbox', "lob", call'.op, j, j) /\ Counted(line', "lob", call'.op, j, l)
      BY <1>2, <1>3, <2>3
    <3> QED
      BY <3>1 DEF Counted, Counts
  <2>5. n <= n /\ j <= j
    BY <1>1
  <2> QED
    BY <1>2, <2>1, <2>4, <2>5 DEF Along
<1>7. ASSUME Along(b, l)', Fetching(b, l)'
      PROVE  Flowing'
  BY <1>2, <1>3, <1>5, <1>7 DEF Flowing
<1>8. CASE /\ step.cmds = <<>> /\ step.call.at \in {"more", "closing"}
           /\ step.call.closing = call.closing /\ Got(step.call, n, j)
           /\ step.call.at = "closing" => call.closing
  <2>1. Fetching(b, l)'
    BY <1>2, <1>3, <1>8 DEF Fetching, Whole
  <2> QED
    BY <1>6, <1>7, <1>8, <2>1 DEF Advancing
<1>9. CASE /\ step.call.at = "fetch" /\ Got(step.call, n, j)
           /\ step.cmds = IF step.call.closing THEN FetchAndClose(call) ELSE One(call, "fetch")
  <2> DEFINE r == Request(call.op, "fetch", call.kind, TRUE)
             t == Request(call.op, "close", call.kind, FALSE)
             s == Request(call.op, "fetch", call.kind, FALSE)
  <2>1. r.cmd = "fetch" /\ t.cmd = "close" /\ s.cmd = "fetch"
    BY DEF Request
  <2>2. step.cmds = IF step.call.closing THEN <<r, t>> ELSE <<s>>
    BY <1>9 DEF FetchAndClose, One
  <2> HIDE DEF r, s, t
  <2>3. asked' = IF call'.closing THEN <<r, t>> ELSE <<s>>
    BY <2>2
  <2>4. ASSUME call'.closing
        PROVE  Fetching(b, l)'
    <3>1. asked' = <<r, t>>
      BY <2>3, <2>4
    <3>3. <<r, t>> # <<>> /\ <<r, t>>[Len(<<r, t>>)] = t /\ <<r, t>>[1] = r
      OBVIOUS
    <3>2. asked' # <<>> /\ asked'[Len(asked')].cmd = "close" /\ asked'[1].cmd # "close"
      BY ONLY <2>1, <3>1, <3>3
    <3> QED
      BY <2>4, <3>2 DEF Fetching
  <2>5. ASSUME ~call'.closing
        PROVE  Fetching(b, l)'
    <3>1. asked' = <<s>>
      BY <2>3, <2>5
    <3>3. Len(<<s>>) <= 1 /\ <<s>>[1] = s
      OBVIOUS
    <3>2. Len(asked') <= 1 /\ asked'[1].cmd = "fetch"
      BY ONLY <2>1, <3>1, <3>3
    <3> QED
      BY <2>5, <3>2 DEF Fetching
  <2>6. call'.at = "fetch"
    BY <1>9
  <2> QED
    BY <1>6, <1>7, <1>9, <2>4, <2>5, <2>6 DEF Advancing
<1>10. CASE /\ step.call.at = "close" /\ step.cmds = One(call, "close")
            /\ Resolved(step.call)
  <2>1. Resolved(call)'
    BY <1>3, <1>10 DEF Resolved, OwnRows, RowsOf, LobsOf, Zos, Unresolved
  <2> QED
    BY <1>10, <2>1 DEF Advancing
<1> QED
  BY <1>1, <1>8, <1>9, <1>10 DEF Leads

LEMMA BlankMoves ==
    ASSUME NEW c, Formed(c), Blank(c), c.at \in {"ready", "prepare", "describe"},
           NEW frames, Step(c, frames).outcome = "goes"
    PROVE  Blank(Step(c, frames).call)
<1>1. FirstFailure(frames) # "goes"
  BY FailureKinds
<1> DEFINE d == [c EXCEPT !.desc = Sees(frames, {"described"})]
<1>2. PICK at : \/ Step(c, frames).call = [c EXCEPT !.at = at]
                \/ Step(c, frames).call = [d EXCEPT !.at = at]
  <2>1. CASE c.at = "ready"
    BY <2>1 DEF Step, Goes
  <2>2. CASE c.at = "describe"
    BY <1>1, <2>2 DEF Step, Described, Goes, Ends
  <2>3. CASE c.at = "prepare"
    <3>1. FirstFailure(frames) = "none"
      BY <1>1, <2>3 DEF Step, Prepared, Ends
    <3>2. Step(c, frames) \in {Goes([d EXCEPT !.at = "describe"], Ask(c, "describe")),
                               Goes([d EXCEPT !.at = "open"], Ask(c, "open"))}
      BY <2>3, <3>1 DEF Step, Prepared
    <3> DEFINE x == [d EXCEPT !.at = "describe"]
               y == [d EXCEPT !.at = "open"]
    <3>3. /\ Goes(x, Ask(c, "describe")).call = x
          /\ Goes(y, Ask(c, "open")).call = y
      BY DEF Goes
    <3>4. Step(c, frames).call \in {x, y}
      BY ONLY <3>2, <3>3
    <3> HIDE DEF d
    <3> QED
      BY ONLY <3>4
  <2> QED
    BY <2>1, <2>2, <2>3
<1>3. Blank([c EXCEPT !.at = at])
  BY DEF Blank, Formed, Fields
<1>4. Blank([d EXCEPT !.at = at])
  BY DEF Blank, Formed, Fields
<1> HIDE DEF d
<1> QED
  BY <1>2, <1>3, <1>4

\* An operation that the server refused has not got its result.
LEMMA StepRefused ==
    ASSUME NEW c, c.at \in Reads, c.at # "ready", NEW frames \in Seq(AnyFrame),
           NEW f \in Range(frames), f.body = "sqlerror"
    PROVE  Step(c, frames).outcome \notin {"goes", "ok"}
<1>1. PICK k \in DOMAIN frames : frames[k].body = "sqlerror"
  BY DEF Range
<1>2. FirstFailure(frames) # "none" /\ \A d : FetchFailure(d, frames) # "none"
  BY <1>1, SqlErrorFails
<1>3. /\ FirstFailure(frames) \notin {"goes", "ok"}
      /\ \A d : FetchFailure(d, frames) \notin {"goes", "ok"}
  BY FailureKinds, FetchFailureKinds
<1>4. Sees(frames, {"sqlerror"})
  BY <1>1 DEF Sees
<1>5. CASE c.at \in {"prepare", "describe", "open", "descriptors", "execute"}
  BY <1>2, <1>3, <1>5 DEF Step, Prepared, Described, Queried, Executed, Ends
<1>6. CASE c.at \in {"fetch", "more"}
  BY <1>2, <1>3, <1>6 DEF Step, FetchRead, Ends
<1>7. CASE c.at = "closing"
  BY <1>2, <1>3, <1>7 DEF Step, ClosingRead, Ends
<1>8. CASE c.at = "close"
  BY <1>2, <1>3, <1>8 DEF Step, CloseRead, Ends
<1>9. CASE c.at = "commit"
  BY <1>4, <1>9 DEF Step, Committed, Ends
<1> QED
  BY <1>5, <1>6, <1>7, <1>8, <1>9 DEF Reads

\* A step after a complete read, or when z/OS falls silent.
Taken(step, frames, rest) ==
    /\ Parted(frames, rest)
    /\ \/ step = Step(call, frames)
       \/ /\ step = QuietStep(call, inbox) /\ frames = inbox /\ rest = line /\ Zos
          /\ call.at \in {"closing", "more", "close"}

LEMMA TakenCursor ==
    ASSUME AInv, causes = {}, NEW step, NEW frames, NEW rest, Taken(step, frames, rest),
           call.at \in {"open", "fetch", "more", "closing"}, Flowing,
           call.at = "closing" => call.closing
    PROVE  CursorStep(step, rest)
<1>1. /\ Typed /\ call.desc /\ call.kind \notin {"change", "commit"} /\ total \in Nat
      /\ total <= MaxRows /\ (call.at = "open" => Blank(call))
  BY DEF AInv, CInv, Answers, InOrder, Descriptor, Suited, Reads, OfCursor
<1>2. CASE step = Step(call, frames)
  <2>1. Parted(frames, rest)
    BY DEF Taken
  <2> QED
    BY <1>1, <1>2, <2>1, PlaceLeads
<1>3. CASE /\ step = QuietStep(call, inbox) /\ rest = line /\ Zos
           /\ call.at \in {"closing", "more", "close"}
  <2>1. inbox = <<>> /\ call.at \in {"more", "closing"}
    BY <1>1, <1>3 DEF Typed
  <2> QED
    BY <1>1, <1>3, <2>1, QuietLeads
<1> QED
  BY <1>2, <1>3 DEF Taken

LEMMA TakenRefused ==
    ASSUME Typed, call.at \in Reads, call.at # "ready", NEW step, NEW frames, NEW rest,
           Taken(step, frames, rest), step.outcome \in {"goes", "ok"}, Refused
    PROVE  \E f \in Range(rest) : f.body = "sqlerror"
<1>1. PICK f \in Unread : f.body = "sqlerror"
  BY DEF Refused
<1>2. f \in Range(frames) \cup Range(rest)
  BY DEF Taken, Parted
<1>3. ASSUME f \in Range(frames)
      PROVE  FALSE
  <2>1. CASE step = Step(call, frames)
    <3>1. frames \in Seq(AnyFrame)
      BY DEF Taken, Parted
    <3> QED
      BY <1>1, <1>3, <2>1, <3>1, StepRefused
  <2>2. CASE frames = inbox /\ Zos /\ call.at \in {"closing", "more", "close"}
    <3>1. frames = <<>>
      BY <2>2 DEF Typed
    <3> QED
      BY <1>3, <3>1 DEF Range
  <2> QED
    BY <2>1, <2>2 DEF Taken
<1> QED
  BY <1>1, <1>2, <1>3

\* The step of an operation that goes on keeps its way.
LEMMA TakenGoes ==
    ASSUME AInv, call.at \in Reads, causes = {},
           NEW step, NEW frames, NEW rest, Taken(step, frames, rest),
           Course(call, frames, step), step.outcome = "goes",
           step.cmds # <<>> => rest = <<>> /\ asked = <<>>,
           call' = step.call, inbox' = <<>>, line' = rest,
           asked' = IF step.cmds = <<>> THEN asked ELSE step.cmds,
           cursor' = cursor, total' = total, performed' = performed, system' = system
    PROVE  (Refused \/ Advancing)'
<1>1. /\ Typed /\ Formed(call) /\ total \in Nat /\ (Refused \/ Advancing)
      /\ rest \in Seq(AnyFrame) /\ Range(rest) \subseteq Range(line)
      /\ frames \in Seq(AnyFrame) /\ Range(frames) \subseteq Unread
  BY DEF AInv, CInv, Answers, Typed, Taken, Parted
<1>2. Moves(call, step) /\ step.call.op = call.op /\ step.call.kind = call.kind
  BY DEF Course
<1>3. \A cmd : One(call, cmd) # <<>> /\ FetchAndClose(call) # <<>>
  BY DEF One, FetchAndClose
<1>4. CASE call.at = "ready"
  <2>1. call'.at = "prepare"
    BY <1>2, <1>3, <1>4 DEF Moves, OfCursor
  <2> QED
    BY <2>1 DEF Advancing
<1>5. CASE call.at \in {"prepare", "describe"}
  <2>1. call'.at \in {"describe", "open"} /\ asked' # <<>>
    BY <1>2, <1>3, <1>5 DEF Moves, OfCursor
  <2> QED
    BY <2>1 DEF Advancing
<1>6. CASE call.at \in {"execute", "commit"}
  BY <1>2, <1>6 DEF Moves, OfCursor
<1>7. CASE call.at # "ready" /\ Refused
  <2>1. \E f \in Range(rest) : f.body = "sqlerror"
    BY <1>1, <1>7, TakenRefused
  <2> QED
    BY <2>1 DEF Refused, Unread
<1>8. CASE call.at \in {"open", "fetch", "more", "closing"} /\ Advancing
  <2>1. call.at = "open" => step.cmds # <<>>
    BY <1>2, <1>3 DEF Moves
  <2>2. Flowing /\ (call.at = "closing" => call.closing)
    BY <1>8, <2>1 DEF Advancing
  <2>3. CursorStep(step, rest)
    BY <1>8, <2>2, TakenCursor
  <2>4. step.call.end => call.end \/ \E f \in Unread : f.body = "end"
    <3>1. CASE step = Step(call, frames)
      <4>1. step.call.end => call.end \/ Sees(frames, {"end"})
        BY <1>1, <1>8, <3>1, GoesEnd
      <4> QED
        BY <1>1, <4>1, SeesEnd
    <3>2. CASE step = QuietStep(call, inbox) /\ call.at \in {"closing", "more"}
      <4>1. step \in {AfterFetch(call), FetchOver(call)}
        BY <3>2 DEF QuietStep
      <4>2. Follows(call, AfterFetch(call)) /\ Follows(call, FetchOver(call))
        BY <1>1, AfterFetchFollows, FetchOverFollows
      <4>3. Follows(call, step)
        BY <4>1, <4>2
      <4> QED
        BY <4>3 DEF Follows
    <3> QED
      BY <1>8, <3>1, <3>2 DEF Taken
  <2>5. Advancing'
    BY <1>1, <1>2, <2>3, <2>4, CursorStepGoes
  <2> QED
    BY <2>5
<1>9. CASE call.at = "close" /\ Advancing
  <2>1. Resolved(call)
    BY <1>9 DEF Advancing
  <2>2. step = CloseRead(call, frames)
    <3>1. QuietStep(call, inbox).outcome # "goes"
      <4>1. QuietStep(call, inbox) = Finish(call)
        BY <1>9 DEF QuietStep
      <4> QED
        BY <1>1, <4>1, FinishFollows
    <3>2. step = Step(call, frames)
      BY <3>1 DEF Taken
    <3> QED
      BY <1>9, <3>2 DEF Step
  <2>3. CloseRead(call, frames) \in {Goes(call, <<>>), Ends(call, FetchFailure(call, frames)),
                                     Finish([call EXCEPT !.verified = TRUE])}
    BY DEF CloseRead
  <2>4. \A d : Finish(d).outcome # "goes"
    BY DEF Finish, Ends
  <2>5. FetchFailure(call, frames) # "goes"
    BY FetchFailureKinds
  <2>6. step = Goes(call, <<>>)
    BY <2>2, <2>3, <2>4, <2>5 DEF Ends
  <2>7. call' = call
    BY <2>6 DEF Goes
  <2>8. Resolved(call)'
    BY <2>1, <2>7 DEF Resolved, OwnRows, RowsOf, LobsOf, Zos, Unresolved
  <2> QED
    BY <1>9, <2>7, <2>8 DEF Advancing
<1>10. CASE call.at = "descriptors" /\ Advancing
  BY <1>10 DEF Advancing
<1> QED
  BY <1>1, <1>4, <1>5, <1>6, <1>7, <1>8, <1>9, <1>10 DEF Reads

\* An operation that returns Ok has what it asked for.
LEMMA TakenRight ==
    ASSUME AInv, call.at \in Reads, causes = {},
           NEW step, NEW frames, Taken(step, frames, <<>>), asked = <<>>,
           step.outcome = "ok"
    PROVE  Right(call.op, call.kind, step.call.rows)
<1>1. /\ Typed /\ Formed(call) /\ total \in Nat /\ (Refused \/ Advancing) /\ Suited
      /\ call.at \in OfCursor \cup {"describe"} => call.desc
  BY DEF AInv, CInv, Answers, Typed, InOrder, Descriptor
<1>2. \A d, cmds : Goes(d, cmds).outcome # "ok"
  BY DEF Goes
<1>3. FirstFailure(frames) # "ok" /\ FetchFailure(call, frames) # "ok"
  BY FailureKinds, FetchFailureKinds
<1>4. call.at \notin {"ready", "prepare", "describe"}
  <2>1. CASE call.at \in {"ready", "prepare", "describe"}
    <3>1. step = Step(call, frames)
      BY <2>1 DEF Taken
    <3> QED
      BY <1>2, <1>3, <2>1, <3>1 DEF Step, Prepared, Described, Ends
  <2> QED
    BY <2>1
<1>5. ~Refused
  <2>1. CASE Refused
    <3>1. \E f \in Range(<<>>) : f.body = "sqlerror"
      BY <1>1, <1>4, <2>1, TakenRefused
    <3> QED
      BY <3>1 DEF Range
  <2> QED
    BY <2>1
<1>6. Advancing
  BY <1>1, <1>5
<1>7. CASE call.at \in {"open", "fetch", "more", "closing"}
  <2>1. Flowing /\ (call.at = "closing" => call.closing)
    BY <1>6, <1>7 DEF Advancing
  <2>2. CursorStep(step, <<>>)
    BY <1>7, <2>1, TakenCursor
  <2> QED
    BY <2>2, CursorStepRight
<1>8. CASE call.at = "close"
  <2>1. Resolved(call)
    BY <1>6, <1>8 DEF Advancing
  <2> DEFINE d == [call EXCEPT !.verified = TRUE]
  <2>2. step \in {Finish(call), Finish(d)}
    <3>1. CASE step = QuietStep(call, inbox)
      BY <1>8, <3>1 DEF QuietStep
    <3>2. CASE step = Step(call, frames)
      BY <1>2, <1>3, <1>8, <3>2 DEF Step, CloseRead, Ends
    <3> QED
      BY <3>1, <3>2 DEF Taken
  <2>3. /\ Formed(d) /\ d.op = call.op /\ d.kind = call.kind /\ d.desc = call.desc
        /\ d.rows = call.rows /\ d.pending = call.pending
    BY <1>1 DEF Formed, Fields
  <2> HIDE DEF d
  <2>4. Resolved(d)
    BY <2>1, <2>3 DEF Resolved
  <2>5. /\ Right(call.op, call.kind, Finish(call).call.rows)
        /\ Right(call.op, call.kind, Finish(d).call.rows)
    BY <1>1, <2>1, <2>3, <2>4, FinishResolved
  <2> QED
    BY <2>2, <2>5
<1>9. CASE call.at \in {"execute", "commit"}
  <2>1. call.kind \in {"change", "commit"} /\ call.op \in performed
    BY <1>1, <1>6, <1>9 DEF Suited, Advancing, Performing
  <2> QED
    BY <2>1 DEF Right
<1> QED
  BY <1>4, <1>6, <1>7, <1>8, <1>9 DEF Reads, Advancing

\* A complete read after which the client goes on, or ends, in its place.
LEMMA EnoughSettled ==
    ASSUME Typed, InOrder, call.at \in Reads, NEW k \in 1..Len(line), NEW frames, NEW rest,
           Last(frames) = line[k], rest \in Seq(AnyFrame), Len(rest) = Len(line) - k,
           Enough(call, frames), NEW step
    PROVE  Settled(step, rest, causes \cup Early(call, step, rest))
<1> DEFINE why == causes \cup Early(call, step, rest)
<1>1. ASSUME why = {}, ~(step.cmds = <<>> /\ step.outcome = "goes")
      PROVE  rest = <<>> /\ asked = <<>>
  <2>1. causes = {} /\ Early(call, step, rest) = {}
    BY <1>1
  <2>2. \/ rest = <<>> /\ asked = <<>>
        \/ ~Zos /\ call.at # "ready" /\ ~(call.at = "open" /\ call.kind = "param")
    BY <1>1, <2>1 DEF Early
  <2>3. CASE ~Zos /\ call.at # "ready" /\ ~(call.at = "open" /\ call.kind = "param")
    <3>1. ~line[k].chained
      BY <2>3 DEF Enough
    <3>2. asked = <<>> /\ k = Len(line)
      BY <2>1, <2>3, <3>1 DEF InOrder, Chained
    <3>3. Len(rest) = 0
      BY <3>2
    <3> QED
      BY <3>2, <3>3, EmptySeq
  <2> QED
    BY <2>2, <2>3
<1>2. why = {} => causes = {}
  OBVIOUS
<1> HIDE DEF why
<1> QED
  BY <1>1, <1>2 DEF Settled, why

\* Outside a read only the last answer is spoken of.
LEMMA RestingAnswers ==
    ASSUME total' \in Nat, total' <= MaxRows, call'.at \notin Reads,
           Sound' => ~Busy' /\ asked' = <<>>
                     /\ Right(answer.op, answer.kind, answer.rows)'
    PROVE  Answers'
BY DEF Answers, Reads

\* The next state of a read that is complete.
LEMMA TakesAnswers ==
    ASSUME AInv, call.at \in Reads, NEW step, NEW frames, NEW rest, NEW why,
           Taken(step, frames, rest), Settled(step, rest, why), Takes(step, rest, why),
           \/ Course(call, frames, step)
           \/ /\ step.call.op = call.op /\ step.call.kind = call.kind
              /\ step.outcome \in {"ok", "protocol"},
           UNCHANGED <<total, performed, system>>
    PROVE  Answers'
<1>1. /\ Typed /\ Formed(call) /\ call.kind \in Asked /\ asked \in Seq(Requests)
      /\ total \in Nat /\ total <= MaxRows /\ Suited
      /\ call.at \in {"ready", "prepare", "describe", "open"} => Blank(call)
      /\ Sound => ~Busy
  BY DEF AInv, CInv, Answers, Typed
<1>2. step.call.op = call.op /\ step.call.kind = call.kind
  BY DEF Course
<1>3. Busy
  BY DEF Busy, Reads
<1>4. CASE step.outcome = "goes"
  <2>1. /\ call' = step.call /\ inbox' = <<>> /\ line' = rest /\ asked' = asked \o step.cmds
        /\ causes' = why /\ cursor' = cursor /\ answer' = answer
    BY <1>4 DEF Takes
  <2>2. Course(call, frames, step) /\ Moves(call, step)
    BY <1>4 DEF Course
  <2>3. step.cmds \in Seq(Requests) /\ step.call.at \in Reads
    BY <1>1, <2>2, StepRequests
  <2>4. ~Sound'
    BY <1>1, <1>3, <2>1 DEF Sound
  <2>5. step.call.at # "ready" /\ step.call.at \notin {"execute", "commit"}
        /\ call.at \notin {"execute", "commit"}
    BY <2>2 DEF Moves, OfCursor
  <2>6. Suited'
    BY <1>1, <1>2, <2>1, <2>5 DEF Suited
  <2>7. step.call.at \in {"prepare", "describe", "open"} => Blank(step.call)
    <3> SUFFICES ASSUME step.call.at \in {"prepare", "describe", "open"}
                 PROVE  Blank(step.call)
      OBVIOUS
    <3>1. call.at \in {"ready", "prepare", "describe"}
      BY <2>2 DEF Moves
    <3>2. step = Step(call, frames)
      BY <3>1 DEF Taken
    <3> QED
      BY <1>1, <1>4, <3>1, <3>2, BlankMoves
  <2>8. Blank(step.call) => Blank(call)'
    BY <2>1 DEF Blank
  <2>9. ASSUME why = {}
        PROVE  (Refused \/ Advancing)'
    <3>1. causes = {} /\ (step.cmds # <<>> => rest = <<>> /\ asked = <<>>)
      BY <2>9 DEF Settled
    <3>2. asked' = IF step.cmds = <<>> THEN asked ELSE step.cmds
      BY <1>1, <2>1, <2>3, <3>1, ConcatEmptySeq
    <3> QED
      BY <1>4, <2>1, <2>2, <3>1, <3>2, TakenGoes
  <2> QED
    BY <1>1, <2>1, <2>4, <2>5, <2>6, <2>7, <2>8, <2>9 DEF Answers, Reads
<1>5. CASE step.outcome = "ok"
  <2>1. /\ call' = Idle /\ answer'.op = step.call.op /\ answer'.kind = step.call.kind
        /\ answer'.rows = step.call.rows /\ answer'.causes = why
        /\ Reset \/ Keep(rest, why)
    BY <1>5 DEF Takes, Returns, Answered
  <2>2. call'.at = "idle"
    BY <2>1, IdleFormed
  <2>3. ASSUME why = {}
        PROVE  /\ asked' = <<>>
               /\ Right(answer.op, answer.kind, answer.rows)'
    <3>1. causes = {} /\ rest = <<>> /\ asked = <<>>
      BY <1>5, <2>3 DEF Settled
    <3>2. Right(call.op, call.kind, step.call.rows)
      BY <1>5, <3>1, TakenRight
    <3>3. asked' = <<>>
      BY <2>1, <3>1 DEF Reset, Keep
    <3>4. answer'.op = call.op /\ answer'.kind = call.kind /\ answer'.rows = step.call.rows
      BY <1>2, <2>1
    <3>5. Right(answer.op, answer.kind, answer.rows)'
      BY <3>2, <3>4 DEF Right, Own, Zos
    <3> QED
      BY <3>3, <3>5
  <2>4. Sound' => why = {}
    BY <2>1 DEF Sound
  <2>5. call'.at \notin Reads /\ ~Busy'
    BY <2>2 DEF Reads, Busy
  <2> QED
    BY <1>1, <2>3, <2>4, <2>5, RestingAnswers
<1>6. CASE step.outcome \notin {"goes", "ok"}
  <2>1. call' = Idle /\ answer'.status = "error"
    BY <1>6 DEF Takes, Fails, Answered
  <2>2. call'.at \notin Reads
    BY <2>1, IdleFormed DEF Reads
  <2>3. ~Sound'
    BY <2>1 DEF Sound
  <2> QED
    BY <1>1, <2>2, <2>3, RestingAnswers
<1> QED
  BY <1>4, <1>5, <1>6

\* A read that is not complete.
LEMMA PartAnswers ==
    ASSUME AInv, call.at \in Reads, NEW k \in 1..Len(line),
           inbox' = inbox \o SubSeq(line, 1, k),
           line' = SubSeq(line, k + 1, Len(line)),
           UNCHANGED <<system, call, asked, cursor, causes, total, performed, answer>>
    PROVE  Answers'
<1>0. /\ system' = system /\ call' = call /\ asked' = asked /\ cursor' = cursor
      /\ causes' = causes /\ total' = total /\ performed' = performed /\ answer' = answer
  OBVIOUS
<1>1. /\ Typed /\ total \in Nat /\ total <= MaxRows /\ Suited
      /\ (call.at \in {"ready", "prepare", "describe", "open"} => Blank(call))
      /\ (Sound => ~Busy) /\ (causes = {} => Refused \/ Advancing)
  BY DEF AInv, CInv, Answers
<1>2. Busy
  BY DEF Busy, Reads
<1>3. Parted(inbox', line')
  BY <1>1, ReceiveParted
<1>4. Unread' = Range(inbox') \cup Range(line')
  BY DEF Unread, Range
<1>5. Unread' \subseteq Unread /\ Unread \subseteq Unread'
  BY <1>3, <1>4 DEF Parted, Unread
<1>6. Refused => Refused'
  BY <1>5 DEF Refused
<1>7. ASSUME Flowing
      PROVE  Flowing'
  <2>1. PICK b \in 0..total, l \in 0..total :
          /\ call.kind # "lob" => l = 0
          /\ Along(b, l) /\ Sent(b, l) /\ Fetching(b, l)
    BY <1>7 DEF Flowing
  <2>2. PICK m \in 0..b, n \in 0..b, i \in 0..l, j \in 0..l :
          /\ Got(call, m, i) /\ m <= n /\ i <= j
          /\ Counted(inbox, "row", call.op, m, n) /\ Counted(line, "row", call.op, n, b)
          /\ Counted(inbox, "lob", call.op, i, j) /\ Counted(line, "lob", call.op, j, l)
    BY <2>1 DEF Along
  <2>3. b \in Nat /\ l \in Nat /\ m \in Nat /\ n \in Nat /\ i \in Nat /\ j \in Nat
    BY <1>1, <2>1, <2>2
  <2>4. PICK x \in m..b : /\ Counted(inbox', "row", call.op, m, x)
                          /\ Counted(line', "row", call.op, x, b)
    BY <1>3, <2>2, <2>3 DEF Parted
  <2>5. PICK y \in i..l : /\ Counted(inbox', "lob", call.op, i, y)
                          /\ Counted(line', "lob", call.op, y, l)
    BY <1>3, <2>2, <2>3 DEF Parted
  <2>6. x \in 0..b /\ y \in 0..l /\ m <= x /\ i <= y
    BY <2>3
  <2>7. Got(call, m, i)'
    BY <1>0, <2>2, GotSame
  <2>8. /\ Counted(inbox, "row", call.op, m, x)' /\ Counted(line, "row", call.op, x, b)'
        /\ Counted(inbox, "lob", call.op, i, y)' /\ Counted(line, "lob", call.op, y, l)'
    <3>1. /\ Counted(inbox', "row", call'.op, m, x) /\ Counted(line', "row", call'.op, x, b)
          /\ Counted(inbox', "lob", call'.op, i, y) /\ Counted(line', "lob", call'.op, y, l)
      BY <1>0, <2>4, <2>5
    <3> QED
      BY <3>1 DEF Counted, Counts
  <2>9. Along(b, l)'
    BY <2>2, <2>6, <2>7, <2>8 DEF Along
  <2>10. Sent(b, l)'
    BY <1>0, <1>5, <2>1 DEF Sent, Whole
  <2>11. Fetching(b, l)'
    BY <1>0, <2>1 DEF Fetching, Whole
  <2> QED
    BY <1>0, <2>1, <2>9, <2>10, <2>11 DEF Flowing
<1>8. Resolved(call) => Resolved(call)'
  BY <1>0 DEF Resolved, OwnRows, RowsOf, LobsOf, Zos, Unresolved
<1>9. Performing => Performing'
  BY <1>0 DEF Performing
<1>10. Advancing => Advancing'
  <2>1. CASE call.at \in {"execute", "commit"}
    BY <1>0, <1>9, <2>1 DEF Advancing
  <2>2. CASE call.at = "open"
    BY <1>0, <1>7, <2>2 DEF Advancing
  <2>3. CASE call.at \in {"fetch", "more", "closing"}
    BY <1>0, <1>7, <2>3 DEF Advancing
  <2>4. CASE call.at = "close"
    BY <1>0, <1>8, <2>4 DEF Advancing
  <2>5. CASE call.at = "descriptors"
    BY <2>5 DEF Advancing
  <2>6. CASE call.at \in {"ready", "prepare", "describe"}
    BY <1>0, <2>6 DEF Advancing
  <2> QED
    BY <2>1, <2>2, <2>3, <2>4, <2>5, <2>6 DEF Reads
<1>11. Suited' /\ (Blank(call) => Blank(call)')
  BY <1>0, <1>1 DEF Suited, Blank
<1>12. ~Sound'
  BY <1>0, <1>1, <1>2 DEF Sound
<1> QED
  BY <1>0, <1>1, <1>6, <1>10, <1>11, <1>12 DEF Answers

LEMMA ReceiveAnswers ==
    ASSUME AInv, Receive
    PROVE  Answers'
<1>1. /\ Typed /\ CInv /\ InOrder /\ call.at \in Reads
      /\ UNCHANGED <<system, total, performed>>
  BY DEF AInv, CInv, Typed, Receive, Reading, Busy, fixed
<1>2. PICK k \in AtLeast(call)..Len(line) :
         LET frames == inbox \o SubSeq(line, 1, k)
             rest == SubSeq(line, k + 1, Len(line))
         IN  IF Enough(call, frames)
             THEN LET step == Step(call, frames)
                  IN  Takes(step, rest, causes \cup Early(call, step, rest))
             ELSE /\ inbox' = frames /\ line' = rest
                  /\ UNCHANGED <<connected, call, asked, cursor, answer, causes>>
  BY DEF Receive
<1>3. k \in 1..Len(line)
  <2>1. Len(line) \in Nat
    BY <1>1, LenProperties DEF Typed
  <2>2. AtLeast(call) \in {1, 2}
    BY DEF AtLeast
  <2> QED
    BY <2>1, <2>2
<1> DEFINE frames == inbox \o SubSeq(line, 1, k)
           rest == SubSeq(line, k + 1, Len(line))
           step == Step(call, frames)
           why == causes \cup Early(call, step, rest)
<1>4. CASE Enough(call, frames)
  <2>1. Takes(step, rest, why)
    BY <1>2, <1>4
  <2>2. /\ frames \in Seq(AnyFrame) /\ Len(frames) \in Nat \ {0}
        /\ Last(frames) = line[k] /\ rest \in Seq(AnyFrame)
        /\ Len(rest) = Len(line) - k
    BY <1>1, <1>3, FramesRead
  <2>3. Parted(frames, rest)
    BY <1>1, <1>3, ReceiveParted
  <2>4. Course(call, frames, step)
    BY <1>1, CallPlaced, StepCourse
  <2>5. Settled(step, rest, why)
    BY <1>1, <1>3, <1>4, <2>2, EnoughSettled
  <2> HIDE DEF frames, rest, why
  <2>6. Taken(step, frames, rest)
    BY <2>3 DEF Taken
  <2> HIDE DEF step
  <2> QED
    BY <1>1, <2>1, <2>4, <2>5, <2>6, TakesAnswers
<1>5. CASE ~Enough(call, frames)
  <2>1. /\ inbox' = frames /\ line' = rest
        /\ UNCHANGED <<connected, call, asked, cursor, answer, causes>>
    BY <1>2, <1>5
  <2> QED
    BY <1>1, <1>3, <2>1, PartAnswers
<1> QED
  BY <1>4, <1>5

LEMMA QuietAnswers ==
    ASSUME AInv, Quiet
    PROVE  Answers'
<1> DEFINE step == QuietStep(call, inbox)
           why == causes \cup Early(call, step, line)
<1>1. /\ Typed /\ call.at \in Reads /\ Zos
      /\ UNCHANGED <<total, performed, system>> /\ Takes(step, line, why)
  BY DEF AInv, CInv, Quiet, Reading, Busy, Typed, fixed
<1>2. call.at \in {"prepare", "describe", "open", "execute", "closing", "more", "close"}
  BY <1>1 DEF Quiet, Typed
<1>3. Settled(step, line, why)
  BY <1>1 DEF Settled, Early
<1>4. Taken(step, inbox, line)
  <2>1. Parted(inbox, line)
    BY <1>1, QuietParted
  <2>2. call.at \in {"prepare", "describe", "open", "execute"} => step = Step(call, inbox)
    BY DEF QuietStep
  <2> HIDE DEF step
  <2> QED
    BY <1>1, <1>2, <2>1, <2>2 DEF Taken, step
<1>5. \/ Course(call, inbox, step)
      \/ /\ step.call.op = call.op /\ step.call.kind = call.kind
         /\ step.outcome \in {"ok", "protocol"}
  BY <1>1, <1>2, CallPlaced, QuietCourse
<1> HIDE DEF step, why
<1> QED
  BY <1>1, <1>3, <1>4, <1>5, TakesAnswers
-----------------------------------------------------------------------------
(* The other actions *)

LEMMA StartsAnswers ==
    ASSUME AInv, ~Busy, NEW op \in Nat, NEW kind \in Asked, Starts(op, kind),
           answer' = NoAnswer, total' \in Nat, total' <= MaxRows,
           UNCHANGED <<system, inbox, line, cursor, causes>>
    PROVE  Answers'
<1> DEFINE cmds == Commands(kind)
           new == [i \in DOMAIN cmds |-> Request(op, cmds[i], kind, i < Len(cmds))]
           c == [Idle EXCEPT !.op = op, !.kind = kind, !.at = FirstRead(kind)]
<1>1. call' = c /\ asked' = asked \o new
  BY DEF Starts
<1>2. c.op = op /\ c.kind = kind /\ c.at = FirstRead(kind) /\ Blank(c)
  BY DEF Idle, Blank
<1>3. /\ kind = "change" <=> FirstRead(kind) = "execute"
      /\ kind = "commit" <=> FirstRead(kind) = "commit"
      /\ FirstRead(kind) \in {"ready", "prepare", "execute", "commit"}
  BY DEF FirstRead
<1> HIDE DEF c
<1>4. Suited' /\ Blank(call)'
  BY <1>1, <1>2, <1>3 DEF Suited, Blank
<1>5. ~Sound'
  BY DEF Sound, NoAnswer
<1>6. ASSUME causes = {}, FirstRead(kind) \in {"execute", "commit"}
      PROVE  Performing'
  <2>1. asked = <<>>
    BY <1>6 DEF AInv, CInv, Rested
  <2>2. cmds = <<"change", "commit">> \/ cmds = <<"commit">>
    BY <1>3, <1>6 DEF Commands
  <2>3. Len(cmds) \in {1, 2} /\ DOMAIN cmds = 1..Len(cmds) /\ cmds[Len(cmds)] = "commit"
    BY <2>2
  <2> HIDE DEF cmds
  <2>4. new = [i \in 1..Len(cmds) |-> new[i]] /\ new[Len(cmds)].cmd = "commit"
    BY <2>3 DEF Request
  <2> HIDE DEF new
  <2>5. new \in Seq({new[i] : i \in 1..Len(cmds)}) /\ Len(new) = Len(cmds)
    BY <2>3, <2>4
  <2>6. asked' = new
    BY <1>1, <2>1, <2>5, ConcatEmptySeq
  <2>7. asked' # <<>> /\ asked'[Len(asked')].cmd = "commit"
    BY <2>3, <2>4, <2>5, <2>6
  <2> QED
    BY <2>7 DEF Performing
<1>7. ASSUME causes = {}
      PROVE  Advancing'
  <2>1. CASE FirstRead(kind) \in {"execute", "commit"}
    BY <1>1, <1>2, <1>6, <1>7, <2>1 DEF Advancing
  <2>2. CASE FirstRead(kind) \in {"ready", "prepare"}
    BY <1>1, <1>2, <2>2 DEF Advancing
  <2> QED
    BY <1>3, <2>1, <2>2
<1>8. causes' = causes
  OBVIOUS
<1> QED
  BY <1>4, <1>5, <1>7, <1>8 DEF Answers

LEMMA BeginAnswers ==
    ASSUME AInv, Begin
    PROVE  Answers'
<1>1. PICK kind \in Kinds : Starts(ops + 1, kind)
  BY DEF Begin
<1>2. /\ ~Busy /\ ops + 1 \in Nat /\ kind \in Asked /\ answer' = NoAnswer
      /\ UNCHANGED <<system, inbox, line, cursor, causes>>
  BY DEF Begin, AInv, CInv, Typed, Asked, fixed
<1>3. total' \in Nat /\ total' <= MaxRows
  BY ConversationAssumption DEF Begin
<1> QED
  BY <1>1, <1>2, <1>3, StartsAnswers

LEMMA ConnectAnswers ==
    ASSUME AInv, Connect
    PROVE  Answers'
<1>1. /\ ~Busy /\ call.at = "idle" /\ answer' = NoAnswer /\ total' = total
      /\ total \in Nat /\ total <= MaxRows
      /\ UNCHANGED <<system, inbox, line, cursor, causes>>
  BY DEF Connect, Busy, AInv, Answers, fixed, server
<1>2. CASE Zos
  <2>1. call' = call
    BY <1>2 DEF Connect
  <2>2. call'.at \notin Reads /\ ~Sound'
    BY <1>1, <2>1 DEF Reads, Sound, NoAnswer
  <2> QED
    BY <1>1, <2>2, RestingAnswers
<1>3. CASE ~Zos
  <2>1. Starts(0, "handle") /\ "handle" \in Asked
    BY <1>3 DEF Connect, Asked
  <2> QED
    BY <1>1, <2>1, StartsAnswers
<1> QED
  BY <1>2, <1>3

LEMMA AbandonAnswers ==
    ASSUME AInv, total' = total, Busy,
           \/ call' = Idle /\ answer'.status # "ok"
           \/ call'.at = "cancelling" /\ answer' = answer
    PROVE  Answers'
<1>1. total \in Nat /\ total <= MaxRows /\ ~Sound
  BY DEF AInv, Answers
<1>2. call'.at \notin Reads /\ ~Sound'
  BY <1>1, IdleFormed DEF Reads, Sound
<1> QED
  BY <1>1, <1>2, RestingAnswers

LEMMA StutterAnswers ==
    ASSUME Answers, UNCHANGED vars
    PROVE  Answers'
<1>1. /\ system' = system /\ call' = call /\ inbox' = inbox /\ asked' = asked
      /\ line' = line /\ cursor' = cursor /\ performed' = performed
      /\ answer' = answer /\ total' = total /\ causes' = causes
  BY DEF vars
<1>2. Unread' = Unread
  BY <1>1 DEF Unread
<1>3. (Refused' <=> Refused) /\ (Performing' <=> Performing) /\ (Sound' <=> Sound)
      /\ (Busy' <=> Busy) /\ (Suited' <=> Suited) /\ (Blank(call)' <=> Blank(call))
  BY <1>1, <1>2 DEF Refused, Performing, Sound, Busy, Suited, Blank
<1>4. Right(answer.op, answer.kind, answer.rows)' <=> Right(answer.op, answer.kind, answer.rows)
  BY <1>1 DEF Right, Own, Zos
<1>5. \A m, l : /\ Got(call, m, l)' <=> Got(call, m, l)
                /\ Sent(m, l)' <=> Sent(m, l)
                /\ Fetching(m, l)' <=> Fetching(m, l)
  BY <1>1, <1>2 DEF Got, OwnRows, OwnLobs, RowsOf, LobsOf, Zos, Sent, Fetching, Whole
<1>6. \A m, l : Along(m, l) => Along(m, l)'
  <2> SUFFICES ASSUME NEW b, NEW l, NEW m \in 0..b, NEW n \in 0..b, NEW i \in 0..l,
                      NEW j \in 0..l, Got(call, m, i), m <= n, i <= j,
                      Counted(inbox, "row", call.op, m, n),
                      Counted(line, "row", call.op, n, b),
                      Counted(inbox, "lob", call.op, i, j),
                      Counted(line, "lob", call.op, j, l)
               PROVE  Along(b, l)'
    BY DEF Along
  <2>1. /\ Counted(inbox', "row", call'.op, m, n) /\ Counted(line', "row", call'.op, n, b)
        /\ Counted(inbox', "lob", call'.op, i, j) /\ Counted(line', "lob", call'.op, j, l)
    BY <1>1
  <2>2. /\ Counted(inbox, "row", call.op, m, n)' /\ Counted(line, "row", call.op, n, b)'
        /\ Counted(inbox, "lob", call.op, i, j)' /\ Counted(line, "lob", call.op, j, l)'
    BY <2>1 DEF Counted, Counts
  <2> QED
    BY <1>5, <2>2 DEF Along
<1>7. Flowing => Flowing'
  BY <1>1, <1>5, <1>6 DEF Flowing
<1>8. Resolved(call) => Resolved(call)'
  BY <1>1 DEF Resolved, OwnRows, RowsOf, LobsOf, Zos, Unresolved
<1>9. Advancing => Advancing'
  BY <1>1, <1>3, <1>7, <1>8 DEF Advancing
<1> QED
  BY <1>1, <1>3, <1>4, <1>9 DEF Answers

LEMMA StartsAnswering == Init => AInv
<1> SUFFICES ASSUME Init
             PROVE  AInv
  OBVIOUS
<1>1. total \in Nat /\ total <= MaxRows
  BY ConversationAssumption DEF Init
<1>2. ~Sound
  BY DEF Init, Sound, NoAnswer
<1>3. call.at \notin Reads
  BY IdleFormed DEF Init, Reads
<1>4. call.at \notin {"ready", "prepare", "describe", "open"}
  BY <1>3 DEF Reads
<1> QED
  BY <1>1, <1>2, <1>3, <1>4, StartsInOrder DEF AInv, Answers

LEMMA StepsAnswering == AInv /\ [Next]_vars => AInv'
<1> SUFFICES ASSUME AInv, [Next]_vars
             PROVE  Answers'
  BY StepsInOrder DEF AInv
<1>1. CASE Answer
  BY <1>1, AnswerAnswers
<1>2. CASE Receive
  BY <1>2, ReceiveAnswers
<1>3. CASE Quiet
  BY <1>3, QuietAnswers
<1>4. CASE Begin
  BY <1>4, BeginAnswers
<1>5. CASE Connect
  BY <1>5, ConnectAnswers
<1>6. CASE Drop
  <2>1. Busy /\ call' = Idle /\ total' = total /\ answer'.status # "ok"
    BY <1>6 DEF Drop, Reading, Answered
  <2> QED
    BY <2>1, AbandonAnswers
<1>7. CASE Broken
  <2>1. Busy /\ call' = Idle /\ total' = total /\ answer'.status # "ok"
    BY <1>7 DEF Broken, Reading, Answered
  <2> QED
    BY <2>1, AbandonAnswers
<1>8. CASE Timeout
  <2>1. Busy /\ total' = total /\ answer' = answer
    BY <1>8 DEF Timeout, Reading, server
  <2>2. call'.at = "cancelling"
    BY <1>8 DEF Timeout, Idle
  <2> QED
    BY <2>1, <2>2, AbandonAnswers
<1>9. CASE Cancelled
  <2>1. Busy /\ call' = Idle /\ total' = total /\ answer'.status # "ok"
    BY <1>9 DEF Cancelled, Busy, Answered
  <2> QED
    BY <2>1, AbandonAnswers
<1>10. CASE FetchTimeout
  <2>1. Busy /\ call' = Idle /\ total' = total /\ answer'.status # "ok"
    BY <1>10 DEF FetchTimeout, Busy, Answered
  <2> QED
    BY <2>1, AbandonAnswers
<1>11. CASE UNCHANGED vars
  BY <1>11, StutterAnswers DEF AInv
<1> QED
  BY <1>1, <1>2, <1>3, <1>4, <1>5, <1>6, <1>7, <1>8, <1>9, <1>10, <1>11 DEF Next

LEMMA AlwaysAnswering == Spec => []AInv
BY StartsAnswering, StepsAnswering, PTL DEF Spec

\* What an operation returns with Ok on a session that has not lost its place
\* is its own: a query all its rows, once, in order, each with its LOB
\* (process_query_reply, Cursor::fetch_next_from, apply_extdta_payloads_to_rows);
\* a commit or an autocommitted change only what the server has performed
\* (commit, execute_immediate); a z/OS LOB query a prefix of its rows.
THEOREM AnswersAreOwn == Spec => []OwnAnswers
<1>1. AInv => OwnAnswers
  BY DEF AInv, Answers, Right, OwnAnswers
<1> QED
  BY <1>1, AlwaysAnswering, PTL
-----------------------------------------------------------------------------
(* The types of what an operation holds *)

Payloads == (0..MaxOps) \X (0..MaxRows)
Brought == [rows : Seq(Values), lobs : Seq(Payloads)]

\* The data of an operation, and its counters.
Within(c) ==
    /\ c = [f \in Fields |-> c[f]]
    /\ c.rows \in Seq(Values) /\ c.pending \in Seq(Values) /\ c.lobs \in Seq(Payloads)
    /\ c.fetched \in Brought
    /\ c.stalled \in 0..(MaxStalls - 1) /\ c.tries \in 0..MaxTries

LEMMA Bounds == MaxOps \in Nat /\ MaxRows \in Nat /\ MaxStalls \in Nat \ {0} /\ MaxTries \in Nat \ {0}
BY ConversationAssumption

LEMMA FrameFields ==
    ASSUME NEW f \in Frames
    PROVE  /\ f.op \in 0..MaxOps /\ f.row \in 0..MaxRows /\ f.body \in Bodies
           /\ <<f.op, f.row>> \in Payloads
BY DEF Frames, Payloads

LEMMA ValueType ==
    ASSUME NEW c, NEW f \in Frames
    PROVE  Value(c, f) \in Values
<1>1. NoLob \in (0..MaxOps) \X (-1..MaxRows) /\ Unneeded \in (0..MaxOps) \X (-1..MaxRows)
  BY Bounds DEF NoLob, Unneeded
<1>2. <<f.op, f.row>> \in (0..MaxOps) \X (0..MaxRows)
  BY FrameFields DEF Payloads
<1> QED
  BY <1>1, <1>2 DEF Value, Values

\* The forms an operation takes while it reads the frames of a query.
Held(c) == UNION {{c[k] : k \in Fields}, BOOLEAN, Seq(Values), Seq(Payloads)}
Carrying(c) ==
    {x \in [Fields -> Held(c)] :
        x.rows \in Seq(Values) /\ x.pending \in Seq(Values) /\ x.lobs \in Seq(Payloads)}

LEMMA HeldWhat ==
    ASSUME NEW c
    PROVE  /\ BOOLEAN \subseteq Held(c) /\ Seq(Values) \subseteq Held(c)
           /\ Seq(Payloads) \subseteq Held(c) /\ \A k \in Fields : c[k] \in Held(c)
BY DEF Held

LEMMA CarryingStart ==
    ASSUME NEW c, Within(c)
    PROVE  c \in Carrying(c)
<1>1. c = [k \in Fields |-> c[k]]
  BY DEF Within
<1>2. c \in [Fields -> Held(c)]
  BY <1>1, HeldWhat
<1> QED
  BY <1>2 DEF Carrying, Within

LEMMA CarryOn ==
    ASSUME NEW c, NEW x \in Carrying(c)
    PROVE  /\ \A s \in Seq(Values) : /\ [x EXCEPT !.rows = s] \in Carrying(c)
                                     /\ [x EXCEPT !.pending = s] \in Carrying(c)
           /\ \A s \in Seq(Payloads) : [x EXCEPT !.lobs = s] \in Carrying(c)
           /\ [x EXCEPT !.desc = TRUE] \in Carrying(c)
<1>1. /\ x.rows \in Seq(Values) /\ x.pending \in Seq(Values) /\ x.lobs \in Seq(Payloads)
      /\ x \in [Fields -> Held(c)]
  BY DEF Carrying
<1>2. ASSUME NEW s \in Seq(Values)
      PROVE  [x EXCEPT !.rows = s] \in Carrying(c) /\ [x EXCEPT !.pending = s] \in Carrying(c)
  BY <1>1, HeldWhat DEF Carrying, Fields
<1>3. ASSUME NEW s \in Seq(Payloads)
      PROVE  [x EXCEPT !.lobs = s] \in Carrying(c)
  BY <1>1, HeldWhat DEF Carrying, Fields
<1>4. TRUE \in Held(c)
  BY HeldWhat
<1>5. [x EXCEPT !.desc = TRUE] \in Carrying(c)
  BY <1>1, <1>4 DEF Carrying, Fields
<1> QED
  BY <1>2, <1>3, <1>5

LEMMA QueryFrameCarries ==
    ASSUME NEW c, NEW x \in Carrying(c), NEW f \in Frames
    PROVE  QueryFrame(x, f) \in Carrying(c)
<1>1. /\ x.rows \in Seq(Values) /\ x.pending \in Seq(Values) /\ x.lobs \in Seq(Payloads)
      /\ x \in [Fields -> Held(c)]
  BY DEF Carrying
<1> DEFINE v == Value(x, f)
<1>4. v \in Values /\ <<f.op, f.row>> \in Payloads
  BY ValueType, FrameFields
<1> HIDE DEF v
<1>5. x.rows \o x.pending \in Seq(Values) /\ <<>> \in Seq(Values)
  BY <1>1, ConcatProperties
<1>6. Append(x.rows, v) \in Seq(Values) /\ Append(x.pending, v) \in Seq(Values)
  BY <1>1, <1>4, AppendProperties
<1>7. Append(x.lobs, <<f.op, f.row>>) \in Seq(Payloads)
  BY <1>1, <1>4, AppendProperties
<1>a. CASE f.body \in {"format", "described"}
  <2> DEFINE y == [x EXCEPT !.desc = TRUE]
             z == [y EXCEPT !.rows = x.rows \o x.pending]
  <2>1. QueryFrame(x, f) = [z EXCEPT !.pending = <<>>]
    BY <1>a DEF QueryFrame
  <2>2. y \in Carrying(c)
    BY CarryOn
  <2> HIDE DEF y
  <2>3. z \in Carrying(c)
    BY <2>2, <1>5, CarryOn
  <2> HIDE DEF z
  <2> QED
    BY <2>1, <2>3, <1>5, CarryOn
<1>b. CASE f.body = "row" /\ x.desc
  <2>1. QueryFrame(x, f) = [x EXCEPT !.rows = Append(x.rows, v)]
    BY <1>b DEF QueryFrame, v
  <2> QED
    BY <2>1, <1>6, CarryOn
<1>c. CASE f.body = "row" /\ ~x.desc
  <2>1. QueryFrame(x, f) = [x EXCEPT !.pending = Append(x.pending, v)]
    BY <1>c DEF QueryFrame, v
  <2> QED
    BY <2>1, <1>6, CarryOn
<1>d. CASE f.body = "lob"
  <2>1. QueryFrame(x, f) = [x EXCEPT !.lobs = Append(x.lobs, <<f.op, f.row>>)]
    BY <1>d DEF QueryFrame
  <2> QED
    BY <2>1, <1>7, CarryOn
<1>e. CASE f.body \notin {"format", "described", "row", "lob"}
  BY <1>e DEF QueryFrame
<1> QED
  BY <1>a, <1>b, <1>c, <1>d, <1>e

LEMMA ReadWithin ==
    ASSUME NEW c, Within(c), NEW frames \in Seq(Frames)
    PROVE  Within(Read(c, frames))
<1> DEFINE n == Len(frames)
           S == Carrying(c)
           f == [p \in S \X (1..n) |-> QueryFrame(p[1], frames[p[2]])]
<1>1. n \in Nat /\ \A i \in 1..n : frames[i] \in Frames
  BY LenProperties
<1>2. c \in S
  BY CarryingStart
<1> HIDE DEF n
<1>3. f \in [S \X (1..n) -> S]
  <2>1. ASSUME NEW p \in S \X (1..n)
        PROVE  QueryFrame(p[1], frames[p[2]]) \in S
    <3>1. p[1] \in S /\ frames[p[2]] \in Frames
      BY <1>1
    <3> HIDE DEF S
    <3> QED
      BY <3>1, QueryFrameCarries DEF S
  <2> HIDE DEF S
  <2> QED
    BY <2>1
<1>4. \A x \in S, i \in 1..n : f[<<x, i>>] = QueryFrame(x, frames[i])
  <2> HIDE DEF S
  <2> QED
    OBVIOUS
<1> HIDE DEF f, S
<1>5. PICK g : Stepwise(g, S, c, n, f)
  BY <1>1, <1>2, <1>3, Recursion
<1>6. g \in [0..n -> S] /\ g[0] = c /\ g[n] \in S
  BY <1>1, <1>5 DEF Stepwise
<1>7. \A i \in 1..n : g[i] = QueryFrame(g[i - 1], frames[i])
  <2>1. \A i \in 1..n : g[i] = f[<<g[i - 1], i>>]
    BY <1>5 DEF Stepwise
  <2>2. \A i \in 1..n : i - 1 \in 0..n
    BY <1>1
  <2> QED
    BY <1>4, <1>6, <2>1, <2>2
<1>8. QuerySolved(g, c, frames, n)
  <2> DEFINE E(k) == IF k = 0 THEN c ELSE QueryFrame(g[k - 1], frames[k])
  <2>1. \A k \in 0..n : g[k] = E(k)
    BY <1>1, <1>6, <1>7
  <2>2. g = [k \in 0..n |-> g[k]]
    BY <1>6
  <2> HIDE DEF E
  <2>3. g = [k \in 0..n |-> E(k)]
    BY <2>1, <2>2
  <2> QED
    BY <2>3 DEF E, QuerySolved
<1>9. QueryReads(c, frames)[n] = g[n]
  BY <1>1, <1>8, QueryReadsIs DEF n
<1> DEFINE read == g[n]
<1>10. read.rows \in Seq(Values) /\ read.pending \in Seq(Values) /\ read.lobs \in Seq(Payloads)
  BY <1>6 DEF S, Carrying
<1>11. Read(c, frames) =
         [c EXCEPT !.rows = read.rows, !.pending = read.pending, !.lobs = read.lobs,
                   !.desc = c.desc \/ Sees(frames, {"format", "described"}),
                   !.end = c.end \/ Sees(frames, {"end"})]
  BY <1>9 DEF Read, n
<1> HIDE DEF read
<1>12. /\ Read(c, frames) = [k \in Fields |-> Read(c, frames)[k]]
       /\ Read(c, frames).rows = read.rows /\ Read(c, frames).pending = read.pending
       /\ Read(c, frames).lobs = read.lobs /\ Read(c, frames).fetched = c.fetched
       /\ Read(c, frames).stalled = c.stalled /\ Read(c, frames).tries = c.tries
  BY <1>11 DEF Within, Fields
<1> QED
  BY <1>10, <1>12 DEF Within

\* The same of the frames of a fetch.
Gathering(c) ==
    {x \in [Fields -> {c[k] : k \in Fields} \cup Brought] : x.fetched \in Brought}

LEMMA GatheringStart ==
    ASSUME NEW c, Within(c)
    PROVE  c \in Gathering(c)
<1>1. c = [k \in Fields |-> c[k]]
  BY DEF Within
<1>2. c \in [Fields -> {c[k] : k \in Fields} \cup Brought]
  BY <1>1
<1> QED
  BY <1>2 DEF Gathering, Within

LEMMA FetchFrameCarries ==
    ASSUME NEW c, NEW x \in Gathering(c), NEW f \in Frames
    PROVE  FetchFrame(x, f) \in Gathering(c)
<1>1. x \in [Fields -> {c[k] : k \in Fields} \cup Brought] /\ x.fetched \in Brought
  BY DEF Gathering
<1>2. x.fetched.rows \in Seq(Values) /\ x.fetched.lobs \in Seq(Payloads)
  BY <1>1 DEF Brought
<1> DEFINE v == Value(x, f)
<1>3. v \in Values /\ <<f.op, f.row>> \in Payloads
  BY ValueType, FrameFields
<1> HIDE DEF v
<1>4. Append(x.fetched.rows, v) \in Seq(Values)
  BY <1>2, <1>3, AppendProperties
<1>5. Append(x.fetched.lobs, <<f.op, f.row>>) \in Seq(Payloads)
  BY <1>2, <1>3, AppendProperties
<1>6. ASSUME NEW b \in Brought
      PROVE  [x EXCEPT !.fetched = b] \in Gathering(c)
  BY <1>1 DEF Gathering, Fields
<1>7. ASSUME NEW s \in Seq(Values)
      PROVE  [x.fetched EXCEPT !.rows = s] \in Brought
  BY <1>1 DEF Brought
<1>8. ASSUME NEW s \in Seq(Payloads)
      PROVE  [x.fetched EXCEPT !.lobs = s] \in Brought
  BY <1>1 DEF Brought
<1>a. CASE f.body = "row"
  <2> DEFINE b == [x.fetched EXCEPT !.rows = Append(x.fetched.rows, v)]
  <2>1. FetchFrame(x, f) = [x EXCEPT !.fetched = b]
    BY <1>a DEF FetchFrame, v
  <2>2. b \in Brought
    BY <1>4, <1>7
  <2> HIDE DEF b
  <2> QED
    BY <2>1, <2>2, <1>6
<1>b. CASE f.body = "lob"
  <2> DEFINE b == [x.fetched EXCEPT !.lobs = Append(x.fetched.lobs, <<f.op, f.row>>)]
  <2>1. FetchFrame(x, f) = [x EXCEPT !.fetched = b]
    BY <1>b DEF FetchFrame
  <2>2. b \in Brought
    BY <1>5, <1>8
  <2> HIDE DEF b
  <2> QED
    BY <2>1, <2>2, <1>6
<1>c. CASE f.body \notin {"row", "lob"}
  BY <1>c DEF FetchFrame
<1> QED
  BY <1>a, <1>b, <1>c

LEMMA FetchedWithin ==
    ASSUME NEW c, Within(c), NEW frames \in Seq(Frames)
    PROVE  Within(Fetched(c, frames))
<1> DEFINE n == Len(frames)
           S == Gathering(c)
           f == [p \in S \X (1..n) |-> FetchFrame(p[1], frames[p[2]])]
<1>1. n \in Nat /\ \A i \in 1..n : frames[i] \in Frames
  BY LenProperties
<1>2. c \in S
  BY GatheringStart
<1> HIDE DEF n
<1>3. f \in [S \X (1..n) -> S]
  <2>1. ASSUME NEW p \in S \X (1..n)
        PROVE  FetchFrame(p[1], frames[p[2]]) \in S
    <3>1. p[1] \in S /\ frames[p[2]] \in Frames
      BY <1>1
    <3> HIDE DEF S
    <3> QED
      BY <3>1, FetchFrameCarries DEF S
  <2> HIDE DEF S
  <2> QED
    BY <2>1
<1>4. \A x \in S, i \in 1..n : f[<<x, i>>] = FetchFrame(x, frames[i])
  <2> HIDE DEF S
  <2> QED
    OBVIOUS
<1> HIDE DEF f, S
<1>5. PICK g : Stepwise(g, S, c, n, f)
  BY <1>1, <1>2, <1>3, Recursion
<1>6. g \in [0..n -> S] /\ g[0] = c /\ g[n] \in S
  BY <1>1, <1>5 DEF Stepwise
<1>7. \A i \in 1..n : g[i] = FetchFrame(g[i - 1], frames[i])
  <2>1. \A i \in 1..n : g[i] = f[<<g[i - 1], i>>]
    BY <1>5 DEF Stepwise
  <2>2. \A i \in 1..n : i - 1 \in 0..n
    BY <1>1
  <2> QED
    BY <1>4, <1>6, <2>1, <2>2
<1>8. FetchSolved(g, c, frames, n)
  <2> DEFINE E(k) == IF k = 0 THEN c ELSE FetchFrame(g[k - 1], frames[k])
  <2>1. \A k \in 0..n : g[k] = E(k)
    BY <1>1, <1>6, <1>7
  <2>2. g = [k \in 0..n |-> g[k]]
    BY <1>6
  <2> HIDE DEF E
  <2>3. g = [k \in 0..n |-> E(k)]
    BY <2>1, <2>2
  <2> QED
    BY <2>3 DEF E, FetchSolved
<1>9. FetchReads(c, frames)[n] = g[n]
  BY <1>1, <1>8, FetchReadsIs DEF n
<1> DEFINE read == g[n]
<1>10. read.fetched \in Brought
  BY <1>6 DEF S, Gathering
<1>11. Fetched(c, frames) =
         [c EXCEPT !.fetched = read.fetched, !.end = c.end \/ Sees(frames, {"end"})]
  BY <1>9 DEF Fetched, n
<1> HIDE DEF read
<1>12. /\ Fetched(c, frames) = [k \in Fields |-> Fetched(c, frames)[k]]
       /\ Fetched(c, frames).rows = c.rows /\ Fetched(c, frames).pending = c.pending
       /\ Fetched(c, frames).lobs = c.lobs /\ Fetched(c, frames).fetched = read.fetched
       /\ Fetched(c, frames).stalled = c.stalled /\ Fetched(c, frames).tries = c.tries
  BY <1>11 DEF Within, Fields
<1> QED
  BY <1>10, <1>12 DEF Within

\* The payloads given to the rows are those of the list.
LEMMA RankInList ==
    ASSUME NEW n \in Nat, NEW open, open \subseteq 1..n, NEW i \in open
    PROVE  Cardinality({j \in open : j <= i}) \in Nat \ {0}
<1> DEFINE T == {j \in open : j <= i}
<1>0. i \in 1..n /\ i <= i
  OBVIOUS
<1>1. T \subseteq 1..n /\ i \in T
  BY <1>0
<1>2. IsFiniteSet(T)
  BY <1>1, FS_Interval, FS_Subset
<1>3. Cardinality(T) \in Nat /\ Cardinality(T) # 0
  BY <1>1, <1>2, FS_CardinalityType, FS_EmptySet
<1> QED
  BY <1>3

LEMMA AppliedWithin ==
    ASSUME NEW rows \in Seq(Values), NEW payloads \in Seq(Payloads)
    PROVE  Applied(rows, payloads) \in Seq(Values)
<1> DEFINE n == Len(rows)
           m == Len(payloads)
           open == {i \in DOMAIN rows : rows[i].lob = NoLob}
           rank(i) == Cardinality({j \in open : j <= i})
           x == Applied(rows, payloads)
<1>1. n \in Nat /\ DOMAIN rows = 1..n /\ \A i \in 1..n : rows[i] \in Values
  BY LenProperties
<1>2. m \in Nat /\ \A i \in 1..m : payloads[i] \in Payloads
  BY LenProperties
<1>3. x = [i \in 1..n |-> IF i \in open /\ rank(i) <= m
                          THEN [rows[i] EXCEPT !.lob = payloads[rank(i)]] ELSE rows[i]]
  BY <1>1 DEF Applied
<1>4. open \subseteq 1..n
  BY <1>1
<1>5. \A i \in open : rank(i) \in Nat \ {0}
  <2> HIDE DEF open
  <2> QED
    BY <1>1, <1>4, RankInList
<1>6. ASSUME NEW v \in Values, NEW p \in Payloads
      PROVE  [v EXCEPT !.lob = p] \in Values
  <2>1. 0..MaxRows \subseteq -1..MaxRows
    BY Bounds
  <2>2. p \in (0..MaxOps) \X (-1..MaxRows)
    BY <2>1 DEF Payloads
  <2> QED
    BY <2>2 DEF Values
<1> HIDE DEF open, rank, x, n, m
<1>7. ASSUME NEW i \in 1..n
      PROVE  x[i] \in Values
  <2>1. CASE i \in open /\ rank(i) <= m
    <3>1. rank(i) \in 1..m
      BY <2>1, <1>2, <1>5
    <3>2. payloads[rank(i)] \in Payloads /\ rows[i] \in Values
      BY <3>1, <1>1, <1>2
    <3>3. x[i] = [rows[i] EXCEPT !.lob = payloads[rank(i)]]
      BY <2>1, <1>3
    <3> QED
      BY <3>2, <3>3, <1>6
  <2>2. CASE ~(i \in open /\ rank(i) <= m)
    BY <2>2, <1>1, <1>3
  <2> QED
    BY <2>1, <2>2
<1>8. x = [i \in 1..n |-> x[i]]
  BY <1>3
<1>9. x \in [1..n -> Values]
  BY <1>7, <1>8
<1> QED
  BY <1>1, <1>9, SeqDef DEF x
-----------------------------------------------------------------------------
(* What an operation holds stays within bounds from read to read. *)

Lasts(step) == step.outcome = "goes" => Within(step.call)

LEMMA GoesLasts ==
    ASSUME NEW c, Within(c), NEW cmds
    PROVE  Lasts(Goes(c, cmds))
BY DEF Lasts, Goes

LEMMA OverLasts ==
    ASSUME NEW c, NEW outcome, outcome # "goes"
    PROVE  Lasts(Ends(c, outcome)) /\ Lasts(Finish(c))
BY DEF Lasts, Ends, Finish

\* Changes of an operation that are not about its data.
LEMMA PlaceWithin ==
    ASSUME NEW c, Within(c), NEW v
    PROVE  /\ Within([c EXCEPT !.at = v]) /\ Within([c EXCEPT !.end = v])
           /\ Within([c EXCEPT !.closing = v]) /\ Within([c EXCEPT !.desc = v])
           /\ Within([c EXCEPT !.verified = v])
<1>1. c = [k \in Fields |-> c[k]]
  BY DEF Within
<1> QED
  BY <1>1 DEF Within, Fields

LEMMA FetchedAnew ==
    ASSUME NEW c, Within(c), NEW b \in Brought
    PROVE  Within([c EXCEPT !.fetched = b])
<1>1. c = [k \in Fields |-> c[k]]
  BY DEF Within
<1> QED
  BY <1>1 DEF Within, Fields

LEMMA FetchLasts ==
    ASSUME NEW c, Within(c)
    PROVE  Lasts(Fetch(c))
<1> DEFINE e == [c EXCEPT !.at = "fetch"]
           d == [e EXCEPT !.fetched = NoFetch]
<1>1. NoFetch \in Brought
  BY DEF NoFetch, Brought
<1>2. Within(e)
  BY PlaceWithin
<1>3. PICK cmds : Fetch(c) = Goes(d, cmds)
  BY DEF Fetch
<1> HIDE DEF e
<1>4. Within(d)
  BY <1>1, <1>2, FetchedAnew
<1> HIDE DEF d
<1> QED
  BY <1>3, <1>4, GoesLasts

LEMMA OpenedLasts ==
    ASSUME NEW c, Within(c)
    PROVE  Lasts(Opened(c))
<1>1. CASE ~c.end /\ Searches(c)
  <2> DEFINE e == [c EXCEPT !.at = "descriptors"]
             d == [e EXCEPT !.tries = c.tries + 1]
  <2>1. Opened(c) = Goes(d, Ask(c, "fetch"))
    BY <1>1 DEF Opened
  <2>2. Within(e) /\ e.tries = c.tries
    <3>1. c = [k \in Fields |-> c[k]]
      BY DEF Within
    <3> QED
      BY <3>1, PlaceWithin DEF Fields
  <2>3. c.tries + 1 \in 0..MaxTries
    <3>1. c.tries \in 0..MaxTries
      BY DEF Within
    <3>2. c.tries < MaxTries
      BY <1>1 DEF Searches
    <3> QED
      BY <3>1, <3>2, Bounds
  <2> HIDE DEF e
  <2>4. Within(d)
    <3> DEFINE n == c.tries + 1
    <3> HIDE DEF n
    <3>1. n \in 0..MaxTries
      BY <2>3 DEF n
    <3>2. d = [e EXCEPT !.tries = n] /\ e = [k \in Fields |-> e[k]]
      BY <2>2 DEF n, Within
    <3> QED
      BY <2>2, <3>1, <3>2 DEF Within, Fields
  <2> HIDE DEF d
  <2> QED
    BY <2>1, <2>4, GoesLasts
<1>2. CASE ~c.end /\ ~Searches(c) /\ c.desc
           /\ ~(Zos /\ c.kind = "limited" /\ c.lobs = <<>> /\ Len(c.rows) >= MaxRows)
  <2> DEFINE d == [c EXCEPT !.closing = Zos /\ c.kind = "limited" /\ c.rows = <<>>]
  <2>1. Opened(c) = Fetch(d)
    BY <1>2 DEF Opened
  <2>2. Within(d)
    BY PlaceWithin
  <2> HIDE DEF d
  <2> QED
    BY <2>1, <2>2, FetchLasts
<1>3. CASE ~(~c.end /\ Searches(c)) /\ ~(~c.end /\ ~Searches(c) /\ c.desc
           /\ ~(Zos /\ c.kind = "limited" /\ c.lobs = <<>> /\ Len(c.rows) >= MaxRows))
  <2>1. PICK d : Opened(c) = Finish(d)
    BY <1>3 DEF Opened
  <2>2. Lasts(Finish(d))
    BY OverLasts DEF Lasts, Finish, Ends
  <2> QED
    BY <2>1, <2>2
<1> QED
  BY <1>1, <1>2, <1>3

LEMMA CollectedRows ==
    ASSUME NEW c, Within(c)
    PROVE  /\ c.rows \o c.fetched.rows \in Seq(Values)
           /\ Applied(c.rows \o c.fetched.rows, c.fetched.lobs) \in Seq(Values)
           /\ c.lobs \o c.fetched.lobs \in Seq(Payloads)
<1>1. /\ c.rows \in Seq(Values) /\ c.lobs \in Seq(Payloads)
      /\ c.fetched.rows \in Seq(Values) /\ c.fetched.lobs \in Seq(Payloads)
  BY DEF Within, Brought
<1>2. c.rows \o c.fetched.rows \in Seq(Values) /\ c.lobs \o c.fetched.lobs \in Seq(Payloads)
  BY <1>1, ConcatProperties
<1> QED
  BY <1>1, <1>2, AppliedWithin

LEMMA CollectedLasts ==
    ASSUME NEW c, Within(c)
    PROVE  Lasts(Collected(c))
<1> DEFINE f == c.fetched
           rows == IF Zos THEN Applied(c.rows \o f.rows, f.lobs) ELSE c.rows \o f.rows
           moved == f.rows # <<>> \/ f.lobs # <<>> \/ c.end
           lobs == c.lobs \o f.lobs
           stalled == IF moved THEN 0 ELSE c.stalled + 1
           d == [c EXCEPT !.rows = rows, !.lobs = lobs, !.fetched = NoFetch,
                          !.closing = FALSE, !.stalled = stalled]
           e == [d EXCEPT !.at = "close", !.verified = FALSE]
<1>1. rows \in Seq(Values) /\ lobs \in Seq(Payloads) /\ NoFetch \in Brought
  BY CollectedRows DEF NoFetch, Brought
<1>2. Collected(c) = IF c.end THEN Finish(d)
       ELSE IF Zos /\ f.lobs # <<>> /\ ~Unresolved(rows) THEN Goes(e, Ask(d, "close"))
       ELSE IF Stuck(d) THEN Ends(d, "protocol")
       ELSE Fetch(d)
  BY DEF Collected, Ask
<1>3. c = [k \in Fields |-> c[k]] /\ c.stalled \in 0..(MaxStalls - 1)
  BY DEF Within
<1>4. f.lobs # <<>> => stalled = 0
  OBVIOUS
<1>5. stalled \in Nat
  BY <1>3, Bounds
<1> HIDE DEF rows, lobs, stalled, moved
<1>6. d.stalled = stalled /\ (stalled < MaxStalls => Within(d))
  <2>1. d.stalled = stalled /\ d = [k \in Fields |-> d[k]]
    BY <1>3 DEF Fields
  <2>2. /\ d.rows = rows /\ d.pending = c.pending /\ d.lobs = lobs /\ d.fetched = NoFetch
        /\ d.tries = c.tries
    BY <1>3 DEF Fields
  <2>3. stalled < MaxStalls => stalled \in 0..(MaxStalls - 1)
    BY <1>5, Bounds
  <2> HIDE DEF d
  <2> QED
    BY <1>1, <2>1, <2>2, <2>3 DEF Within
<1> HIDE DEF d
<1>7. CASE c.end
  BY <1>2, <1>7, OverLasts DEF Lasts, Finish, Ends
<1>8. CASE ~c.end /\ Zos /\ f.lobs # <<>> /\ ~Unresolved(rows)
  <2> DEFINE b == [d EXCEPT !.at = "close"]
  <2>1. Within(d)
    BY <1>4, <1>6, <1>8, Bounds
  <2>2. Within(b)
    BY <2>1, PlaceWithin
  <2>3. e = [b EXCEPT !.verified = FALSE]
    OBVIOUS
  <2> HIDE DEF b
  <2>4. Within(e)
    BY <2>2, <2>3, PlaceWithin
  <2>5. Collected(c) = Goes(e, Ask(d, "close"))
    BY <1>2, <1>8
  <2> HIDE DEF e
  <2> QED
    BY <2>4, <2>5, GoesLasts
<1>9. CASE ~c.end /\ ~(Zos /\ f.lobs # <<>> /\ ~Unresolved(rows)) /\ Stuck(d)
  <2>1. Collected(c) = Ends(d, "protocol")
    BY <1>2, <1>9
  <2> QED
    BY <2>1 DEF Lasts, Ends
<1>10. CASE ~c.end /\ ~(Zos /\ f.lobs # <<>> /\ ~Unresolved(rows)) /\ ~Stuck(d)
  <2>1. stalled < MaxStalls
    BY <1>5, <1>6, <1>10, Bounds DEF Stuck
  <2>2. Collected(c) = Fetch(d)
    BY <1>2, <1>10
  <2> QED
    BY <1>6, <2>1, <2>2, FetchLasts
<1> QED
  BY <1>7, <1>8, <1>9, <1>10

LEMMA FetchOverLasts ==
    ASSUME NEW c, Within(c)
    PROVE  Lasts(FetchOver(c)) /\ Lasts(AfterFetch(c))
<1>1. Lasts(FetchOver(c))
  <2> DEFINE d == [c EXCEPT !.end = c.end \/ (c.closing /\ c.fetched.rows # <<>>)]
  <2>1. FetchOver(c) = Collected(d)
    BY DEF FetchOver
  <2>2. Within(d)
    BY PlaceWithin
  <2> HIDE DEF d
  <2> QED
    BY <2>1, <2>2, CollectedLasts
<1>2. Within([c EXCEPT !.at = "more"])
  BY PlaceWithin
<1>3. Lasts(Goes([c EXCEPT !.at = "more"], <<>>))
  BY <1>2, GoesLasts
<1> QED
  BY <1>1, <1>3 DEF AfterFetch

LEMMA FetchReadLasts ==
    ASSUME NEW c, Within(c), NEW frames \in Seq(Frames)
    PROVE  Lasts(FetchRead(c, frames))
<1> DEFINE d == Fetched(c, frames)
           a == Applied(d.fetched.rows, d.fetched.lobs)
           e == IF Zos THEN [d EXCEPT !.fetched.rows = a] ELSE d
           g == [e EXCEPT !.at = "closing"]
<1>1. Within(d)
  BY FetchedWithin
<1>2. FetchRead(c, frames) = IF FetchFailure(c, frames) # "none"
                             THEN Ends(c, FetchFailure(c, frames))
                             ELSE IF c.closing /\ c.at = "fetch" /\ ~CloseReplySeen(c, frames)
                             THEN Goes(g, <<>>) ELSE AfterFetch(e)
  BY DEF FetchRead
<1> HIDE DEF d
<1>3. Within(e)
  <2> DEFINE b == [d.fetched EXCEPT !.rows = a]
  <2>1. d.fetched \in Brought /\ d.fetched.rows \in Seq(Values) /\ d.fetched.lobs \in Seq(Payloads)
    BY <1>1 DEF Within, Brought
  <2>2. a \in Seq(Values)
    BY <2>1, AppliedWithin
  <2> HIDE DEF a
  <2>3. b \in Brought
    BY <2>1, <2>2 DEF Brought
  <2>4. e = IF Zos THEN [d EXCEPT !.fetched = b] ELSE d
    OBVIOUS
  <2> HIDE DEF b, e
  <2>5. Within([d EXCEPT !.fetched = b])
    BY <1>1, <2>3, FetchedAnew
  <2> QED
    BY <1>1, <2>4, <2>5
<1> HIDE DEF e
<1>4. Within(g)
  BY <1>3, PlaceWithin
<1> HIDE DEF g
<1>5. FetchFailure(c, frames) \in {"none", "sql", "protocol"}
  BY FetchFailureKinds
<1>6. FetchFailure(c, frames) # "none" => Lasts(Ends(c, FetchFailure(c, frames)))
  BY <1>5, OverLasts
<1> QED
  BY <1>2, <1>3, <1>4, <1>6, GoesLasts, FetchOverLasts

LEMMA ClosingReadLasts ==
    ASSUME NEW c, Within(c), NEW frames \in Seq(Frames)
    PROVE  Lasts(ClosingRead(c, frames)) /\ Lasts(CloseRead(c, frames))
<1>1. Lasts(CloseRead(c, frames))
  <2>1. FetchFailure(c, frames) \in {"none", "sql", "protocol"}
    BY FetchFailureKinds
  <2>2. FetchFailure(c, frames) # "none" => Lasts(Ends(c, FetchFailure(c, frames)))
    BY <2>1, OverLasts
  <2>3. Lasts(Goes(c, <<>>)) /\ Lasts(Finish([c EXCEPT !.verified = TRUE]))
    BY GoesLasts DEF Lasts, Finish, Ends
  <2> QED
    BY <2>2, <2>3 DEF CloseRead
<1>2. Lasts(ClosingRead(c, frames))
  <2> DEFINE d == [c EXCEPT !.end = TRUE]
  <2>1. Within(d)
    BY PlaceWithin
  <2>2. ClosingRead(c, frames) = IF FetchFailure(d, frames) # "none"
                                 THEN Ends(c, FetchFailure(d, frames))
                                 ELSE AfterFetch(Fetched(d, frames))
    BY DEF ClosingRead
  <2> HIDE DEF d
  <2>3. FetchFailure(d, frames) \in {"none", "sql", "protocol"}
    BY FetchFailureKinds
  <2>4. FetchFailure(d, frames) # "none" => Lasts(Ends(c, FetchFailure(d, frames)))
    BY <2>3, OverLasts
  <2>5. Lasts(AfterFetch(Fetched(d, frames)))
    BY <2>1, FetchedWithin, FetchOverLasts
  <2> QED
    BY <2>2, <2>4, <2>5
<1> QED
  BY <1>1, <1>2

LEMMA StepLasts ==
    ASSUME NEW c, Within(c), c.at \in Reads, NEW frames \in Seq(Frames)
    PROVE  Lasts(Step(c, frames))
<1>1. FirstFailure(frames) \in {"none", "sql", "protocol"}
  BY FailureKinds
<1>2. FirstFailure(frames) # "none" => Lasts(Ends(c, FirstFailure(frames)))
  BY <1>1, OverLasts
<1>3. ASSUME NEW d, Within(d), NEW at, NEW cmds
      PROVE  Lasts(Goes([d EXCEPT !.at = at], cmds))
  <2> DEFINE e == [d EXCEPT !.at = at]
  <2>1. Within(e)
    BY <1>3, PlaceWithin
  <2>2. Lasts(Goes(e, cmds))
    BY <2>1, GoesLasts
  <2> QED
    BY <2>2
<1>4. CASE c.at = "ready"
  BY <1>3, <1>4 DEF Step
<1>5. CASE c.at = "prepare"
  <2> DEFINE d == [c EXCEPT !.desc = Sees(frames, {"described"})]
  <2>1. Within(d)
    BY PlaceWithin
  <2>2. Prepared(c, frames) = IF FirstFailure(frames) # "none" THEN Ends(c, FirstFailure(frames))
            ELSE IF c.kind = "param" THEN Goes([d EXCEPT !.at = "describe"], Ask(c, "describe"))
            ELSE Goes([d EXCEPT !.at = "open"], Ask(c, "open"))
    BY DEF Prepared
  <2> HIDE DEF d
  <2>3. /\ Lasts(Goes([d EXCEPT !.at = "describe"], Ask(c, "describe")))
        /\ Lasts(Goes([d EXCEPT !.at = "open"], Ask(c, "open")))
    BY <1>3, <2>1
  <2>4. Lasts(Prepared(c, frames))
    BY <1>2, <2>2, <2>3
  <2> QED
    BY <1>5, <2>4 DEF Step
<1>6. CASE c.at = "describe"
  BY <1>2, <1>3, <1>6 DEF Step, Described
<1>7. CASE c.at \in {"open", "descriptors"}
  <2>1. Lasts(Opened(Read(c, frames)))
    BY ReadWithin, OpenedLasts
  <2> QED
    BY <1>2, <1>7, <2>1 DEF Step, Queried
<1>8. CASE c.at \in {"fetch", "more"}
  BY <1>8, FetchReadLasts DEF Step
<1>9. CASE c.at \in {"closing", "close"}
  BY <1>9, ClosingReadLasts DEF Step
<1>10. CASE c.at \in {"execute", "commit"}
  <2>1. Lasts(Ends(c, "ok")) /\ Lasts(Ends(c, "sql"))
    BY OverLasts
  <2> QED
    BY <1>2, <1>10, <2>1 DEF Step, Executed, Committed
<1> QED
  BY <1>4, <1>5, <1>6, <1>7, <1>8, <1>9, <1>10 DEF Reads

LEMMA QuietLasts ==
    ASSUME NEW c, Within(c), NEW frames \in Seq(Frames),
           c.at \in {"prepare", "describe", "open", "execute", "closing", "more", "close"}
    PROVE  Lasts(QuietStep(c, frames))
<1>1. CASE c.at \in {"prepare", "describe", "open", "execute"}
  BY <1>1, StepLasts DEF QuietStep, Reads
<1>2. CASE c.at \in {"closing", "more"}
  BY <1>2, FetchOverLasts DEF QuietStep
<1>3. CASE c.at = "close"
  BY <1>3 DEF QuietStep, Lasts, Finish, Ends
<1> QED
  BY <1>1, <1>2, <1>3
-----------------------------------------------------------------------------
(* What the server holds and sends stays within bounds. *)

CursorWithin ==
    \/ cursor = NoCursor
    \/ /\ cursor.op \in 0..ops /\ cursor.total \in 0..MaxRows
       /\ cursor.sent \in 0..cursor.total /\ cursor.lobs \in 0..cursor.sent

Causes == {"post_auth_init", "read_frames(2)", "early", "dropped", "fetch timeout"}

\* What TypeOK says of the variables other than the operation's.
Ranges ==
    /\ system \in Systems /\ timed \in BOOLEAN /\ connected \in BOOLEAN
    /\ ops \in 0..MaxOps /\ call.op \in 0..ops
    /\ inbox \in Seq(Frames) /\ line \in Seq(Frames)
    /\ \A i \in 1..Len(asked) : asked[i].op \in 0..ops
    /\ CursorWithin
    /\ performed \subseteq 0..ops /\ total \in 0..MaxRows
    /\ faults \in 0..MaxFaults /\ causes \subseteq Causes

LEMMA FrameWithin ==
    ASSUME NEW op \in 0..MaxOps, NEW body \in Bodies, NEW row \in 0..MaxRows
    PROVE  Frame(op, body, row) \in Frames
BY DEF Frame, Frames

LEMMA RunWithin ==
    ASSUME NEW op \in 0..MaxOps, NEW body \in Bodies, NEW first \in Nat, NEW n \in Nat,
           first + n <= MaxRows
    PROVE  Run(op, body, first, n) \in Seq(Frames)
<1> DEFINE f == Run(op, body, first, n)
<1>1. f = [i \in 1..n |-> Frame(op, body, first + i)]
  BY DEF Run
<1>2. ASSUME NEW i \in 1..n
      PROVE  Frame(op, body, first + i) \in Frames
  <2>1. first + i \in 0..MaxRows
    BY Bounds
  <2> QED
    BY <2>1, FrameWithin
<1>3. f \in [1..n -> Frames]
  BY <1>1, <1>2
<1> HIDE DEF f
<1> QED
  BY <1>3, SeqDef DEF f

LEMMA BlockWithin ==
    ASSUME NEW q, q.op \in 0..MaxOps, q.sent \in Nat, q.lobs \in Nat,
           NEW rows \in Nat, NEW lobs \in Nat, NEW ends \in BOOLEAN,
           q.sent + rows <= MaxRows, q.lobs + lobs <= MaxRows
    PROVE  Block(q, rows, lobs, ends) \in Seq(Frames)
<1> DEFINE a == Run(q.op, "row", q.sent, rows)
           b == Run(q.op, "lob", q.lobs, lobs)
           z == IF ends THEN <<Frame(q.op, "end", 0), Frame(q.op, "done", 0)>> ELSE <<>>
<1>1. {"row", "lob", "end", "done"} \subseteq Bodies /\ 0 \in 0..MaxRows
  BY Bounds DEF Bodies
<1>2. a \in Seq(Frames) /\ b \in Seq(Frames)
  BY <1>1, RunWithin
<1>3. Frame(q.op, "end", 0) \in Frames /\ Frame(q.op, "done", 0) \in Frames
  BY <1>1, FrameWithin
<1>4. z \in Seq(Frames)
  BY <1>3
<1>5. Block(q, rows, lobs, ends) = a \o b \o z
  BY DEF Block, Run
<1> HIDE DEF a, b, z
<1> QED
  BY <1>2, <1>4, <1>5, ConcatProperties

LEMMA ReplyWithin ==
    ASSUME NEW r, NEW frames \in Seq(Frames)
    PROVE  Reply(r, frames) \in Seq(Frames)
<1> DEFINE n == Len(frames)
           g == [frames EXCEPT ![n].chained = FALSE]
<1>1. n \in Nat /\ frames \in [1..n -> Frames]
  BY LenProperties
<1>2. ASSUME NEW f \in Frames
      PROVE  [f EXCEPT !.chained = FALSE] \in Frames
  BY DEF Frames
<1> HIDE DEF n
<1>3. g \in [1..n -> Frames]
  BY <1>1, <1>2
<1>4. g \in Seq(Frames)
  BY <1>1, <1>3, SeqDef
<1> QED
  BY <1>4 DEF Reply, n

\* A block within what its query may send leaves the cursor within bounds.
LEMMA MayBlockWithin ==
    ASSUME NEW q \in Cursors, NEW rows \in Nat, NEW lobs \in Nat, NEW ends \in BOOLEAN,
           q.op \in 0..ops, ops \in 0..MaxOps, q.total \in 0..MaxRows,
           q.sent \in 0..q.total, q.lobs \in 0..q.sent,
           MayBlock(q, rows, lobs, ends), cursor' = After(q, rows, lobs, ends), ops' = ops
    PROVE  Block(q, rows, lobs, ends) \in Seq(Frames) /\ CursorWithin'
<1>1. /\ q.total \in Nat /\ q.total <= MaxRows /\ MaxRows \in Nat
      /\ q.sent \in Nat /\ q.lobs \in Nat /\ q.lobs <= q.sent
  BY Bounds
<1>2. q.sent + rows <= q.total /\ q.lobs + lobs <= q.sent + rows
  BY <1>1 DEF MayBlock
<1>3. q.sent + rows <= MaxRows /\ q.lobs + lobs <= MaxRows
  BY <1>1, <1>2
<1>4. q.op \in 0..MaxOps
  BY Bounds
<1>5. Block(q, rows, lobs, ends) \in Seq(Frames)
  BY <1>1, <1>3, <1>4, BlockWithin
<1>6. CursorWithin'
  <2>1. CASE ends
    BY <2>1 DEF After, CursorWithin
  <2>2. CASE ~ends
    <3> DEFINE s == q.sent + rows
               l == q.lobs + lobs
    <3>1. cursor' = [q EXCEPT !.sent = s, !.lobs = l]
      BY <2>2 DEF After
    <3>2. s \in 0..q.total /\ l \in 0..s
      BY <1>1, <1>2
    <3> HIDE DEF s, l
    <3>3. /\ cursor'.op = q.op /\ cursor'.total = q.total /\ cursor'.sent = s
          /\ cursor'.lobs = l
      BY <3>1 DEF Cursors
    <3> QED
      BY <3>2, <3>3 DEF CursorWithin
  <2> QED
    BY <2>1, <2>2
<1> QED
  BY <1>5, <1>6

\* A reply, and the server after it.
Provides(frames) ==
    /\ frames \in Seq(Frames) /\ Sends(frames)
    /\ CursorWithin' /\ performed' \subseteq 0..ops /\ total' \in 0..MaxRows
    /\ faults' \in 0..MaxFaults

LEMMA OpenProvides ==
    ASSUME Ranges, AnswerOpen, Head(asked) \in Requests, Head(asked).op \in 0..ops, ops' = ops
    PROVE  \E frames : Provides(frames)
<1> DEFINE r == Head(asked)
<1>1. PICK all \in 0..MaxRows, rows \in 0..MaxRows, lobs \in 0..MaxRows, ends \in BOOLEAN :
        LET q == [op |-> r.op, kind |-> r.kind, total |-> all, sent |-> 0, lobs |-> 0]
        IN  /\ MayBlock(q, rows, lobs, ends)
            /\ Sends(<<Frame(r.op, "opened", 0), Frame(r.op, "format", 0)>>
                     \o Block(q, rows, lobs, ends))
            /\ cursor' = After(q, rows, lobs, ends)
            /\ total' = all
  BY DEF AnswerOpen
<1> DEFINE q == [op |-> r.op, kind |-> r.kind, total |-> all, sent |-> 0, lobs |-> 0]
           head == <<Frame(r.op, "opened", 0), Frame(r.op, "format", 0)>>
           block == Block(q, rows, lobs, ends)
<1>2. /\ MayBlock(q, rows, lobs, ends) /\ Sends(head \o block)
      /\ cursor' = After(q, rows, lobs, ends) /\ total' = all
  BY <1>1
<1>3. /\ q \in Cursors /\ q.op = r.op /\ q.total = all /\ q.sent = 0 /\ q.lobs = 0
  BY Bounds DEF Cursors, Requests
<1>4. rows \in Nat /\ lobs \in Nat /\ all \in Nat /\ 0 \in 0..all /\ 0 \in 0..0
      /\ 0 \in 0..MaxRows
  BY Bounds
<1>5. ops \in 0..MaxOps /\ r.op \in 0..MaxOps /\ performed \subseteq 0..ops
      /\ faults \in 0..MaxFaults
  BY Bounds DEF Ranges
<1>6. head \in Seq(Frames)
  <2> DEFINE f == Frame(r.op, "opened", 0)
             g == Frame(r.op, "format", 0)
  <2>1. "opened" \in Bodies /\ "format" \in Bodies
    BY DEF Bodies
  <2>2. f \in Frames /\ g \in Frames
    BY <1>4, <1>5, <2>1, FrameWithin
  <2> HIDE DEF f, g
  <2> QED
    BY <2>2 DEF f, g
<1> HIDE DEF q, head
<1>7. block \in Seq(Frames) /\ CursorWithin'
  <2> HIDE DEF r
  <2>1. q.op \in 0..ops
    BY <1>3 DEF r
  <2> QED
    BY <1>2, <1>3, <1>4, <1>5, <2>1, MayBlockWithin
<1> HIDE DEF block
<1>8. head \o block \in Seq(Frames)
  BY <1>6, <1>7, ConcatProperties
<1>9. performed' = performed /\ faults' = faults
  BY DEF AnswerOpen
<1> QED
  BY <1>2, <1>5, <1>7, <1>8, <1>9 DEF Provides

LEMMA FetchProvides ==
    ASSUME Ranges, Typed, AnswerFetch, Head(asked) \in Requests, Head(asked).op \in 0..ops,
           ops' = ops
    PROVE  \E frames : Provides(frames)
<1> DEFINE r == Head(asked)
<1>1. /\ ops \in 0..MaxOps /\ r.op \in 0..MaxOps /\ performed \subseteq 0..ops
      /\ total \in 0..MaxRows /\ faults \in 0..MaxFaults /\ CursorWithin /\ 0 \in 0..MaxRows
      /\ r.op \in Nat
  BY Bounds DEF Ranges, Requests
<1>2. ASSUME NEW body \in Bodies, Sends(<<Frame(r.op, body, 0)>>), UNCHANGED <<server, faults>>
      PROVE  \E frames : Provides(frames)
  <2> DEFINE f == Frame(r.op, body, 0)
  <2>1. f \in Frames
    BY <1>1, FrameWithin
  <2>2. Sends(<<f>>)
    BY <1>2
  <2>3. cursor' = cursor /\ performed' = performed /\ total' = total /\ faults' = faults
    BY <1>2 DEF server
  <2>4. CursorWithin'
    BY <1>1, <2>3 DEF CursorWithin
  <2> HIDE DEF f
  <2>5. <<f>> \in Seq(Frames)
    BY <2>1
  <2>6. Provides(<<f>>)
    BY <1>1, <2>2, <2>3, <2>4, <2>5 DEF Provides
  <2> QED
    BY <2>6
<1>3. {"noquery", "done"} \subseteq Bodies
  BY DEF Bodies
<1>4. CASE cursor.op # r.op
  BY <1>2, <1>3, <1>4 DEF AnswerFetch
<1>5. CASE Sends(<<Frame(r.op, "done", 0)>>) /\ UNCHANGED <<server, faults>>
  BY <1>2, <1>3, <1>5
<1>6. ASSUME cursor.op = r.op, NEW rows \in 0..MaxRows, NEW lobs \in 0..MaxRows,
             NEW ends \in BOOLEAN, MayBlock(cursor, rows, lobs, ends),
             Sends(Block(cursor, rows, lobs, ends)),
             cursor' = After(cursor, rows, lobs, ends),
             UNCHANGED <<performed, total, faults>>
      PROVE  \E frames : Provides(frames)
  <2>1. cursor # NoCursor
    BY <1>1, <1>6 DEF NoCursor
  <2>2. cursor \in Cursors
    BY <2>1 DEF Typed
  <2>3. /\ cursor.op \in 0..ops /\ cursor.total \in 0..MaxRows
        /\ cursor.sent \in 0..cursor.total /\ cursor.lobs \in 0..cursor.sent
    BY <1>1, <2>1 DEF CursorWithin
  <2>4. rows \in Nat /\ lobs \in Nat
    BY Bounds
  <2>5. Block(cursor, rows, lobs, ends) \in Seq(Frames) /\ CursorWithin'
    BY <1>1, <1>6, <2>2, <2>3, <2>4, MayBlockWithin
  <2>6. Provides(Block(cursor, rows, lobs, ends))
    BY <1>1, <1>6, <2>5 DEF Provides
  <2> QED
    BY <2>6
<1>7. CASE cursor.op = r.op
  BY <1>5, <1>6, <1>7 DEF AnswerFetch
<1> QED
  BY <1>4, <1>7

LEMMA OtherProvides ==
    ASSUME Ranges, AnswerOther, Head(asked) \in Requests, Head(asked).op \in 0..ops,
           ops' = ops
    PROVE  \E frames : Provides(frames)
<1> DEFINE r == Head(asked)
<1>1. /\ ops \in 0..MaxOps /\ r.op \in 0..MaxOps /\ performed \subseteq 0..ops
      /\ total \in 0..MaxRows /\ faults \in 0..MaxFaults /\ CursorWithin /\ 0 \in 0..MaxRows
      /\ r.op \in 0..ops
  BY Bounds DEF Ranges
<1>2. r.cmd \in Cmds \ {"open", "fetch"} /\ faults' = faults
  BY DEF AnswerOther, Requests
<1>3. {"ready", "done", "described", "closed", "nocursor", "unit"} \subseteq Bodies
  BY DEF Bodies
<1>4. \A body \in Bodies : Frame(r.op, body, 0) \in Frames
  BY <1>1, FrameWithin
<1>5. ASSUME NEW frames \in Seq(Frames), Sends(frames),
             cursor' = cursor \/ cursor' = NoCursor,
             performed' \subseteq performed \cup {r.op}, total' = total
      PROVE  \E fs : Provides(fs)
  <2>1. CursorWithin'
    BY <1>1, <1>5 DEF CursorWithin
  <2>2. Provides(frames)
    BY <1>1, <1>2, <1>5, <2>1 DEF Provides
  <2> QED
    BY <2>2
<1>6. ASSUME NEW f \in Frames, NEW g \in Frames
      PROVE  <<f>> \in Seq(Frames) /\ <<f, g>> \in Seq(Frames)
  OBVIOUS
<1>7. CASE r.cmd = "setup"
  <2> DEFINE frames == <<Frame(r.op, "ready", 0), Frame(r.op, "done", 0)>>
  <2>1. frames \in Seq(Frames)
    BY <1>3, <1>4, <1>6
  <2>2. Sends(frames) /\ UNCHANGED server
    BY <1>7 DEF AnswerOther
  <2> HIDE DEF frames
  <2> QED
    BY <1>5, <2>1, <2>2 DEF server
<1>8. CASE r.cmd \in {"prepare", "describe"}
  <2> DEFINE frames == <<Frame(r.op, "described", 0)>>
  <2>1. frames \in Seq(Frames)
    BY <1>3, <1>4, <1>6
  <2>2. Sends(frames) /\ UNCHANGED server
    BY <1>8 DEF AnswerOther
  <2> HIDE DEF frames
  <2> QED
    BY <1>5, <2>1, <2>2 DEF server
<1>9. CASE r.cmd = "close"
  <2> DEFINE body == IF cursor.op = r.op THEN "closed" ELSE "nocursor"
             frames == <<Frame(r.op, body, 0)>>
  <2>1. frames \in Seq(Frames)
    BY <1>3, <1>4, <1>6
  <2>2. /\ Sends(frames) /\ cursor' = (IF cursor.op = r.op THEN NoCursor ELSE cursor)
        /\ UNCHANGED <<performed, total>>
    BY <1>9 DEF AnswerOther
  <2> HIDE DEF frames
  <2> QED
    BY <1>5, <2>1, <2>2
<1>10. CASE r.cmd = "change"
  <2> DEFINE frames == <<Frame(r.op, "done", 0)>>
  <2>1. frames \in Seq(Frames)
    BY <1>3, <1>4, <1>6
  <2>2. Sends(frames) /\ UNCHANGED server
    BY <1>10 DEF AnswerOther
  <2> HIDE DEF frames
  <2> QED
    BY <1>5, <2>1, <2>2 DEF server
<1>11. CASE r.cmd = "commit"
  <2> DEFINE frames == <<Frame(r.op, "unit", 0), Frame(r.op, "done", 0)>>
  <2>1. frames \in Seq(Frames)
    BY <1>3, <1>4, <1>6
  <2>2. Sends(frames) /\ performed' = performed \cup {r.op} /\ UNCHANGED <<cursor, total>>
    BY <1>11 DEF AnswerOther
  <2> HIDE DEF frames
  <2> QED
    BY <1>5, <2>1, <2>2
<1> QED
  BY <1>2, <1>7, <1>8, <1>9, <1>10, <1>11 DEF Cmds

LEMMA ErrorProvides ==
    ASSUME Ranges, AnswerError, Head(asked) \in Requests, Head(asked).op \in 0..ops,
           ops' = ops
    PROVE  \E frames : Provides(frames)
<1> DEFINE r == Head(asked)
           f == Frame(r.op, "refused", 0)
           g == Frame(r.op, "sqlerror", 0)
           frames == IF r.cmd = "open" THEN <<f, g>> ELSE <<g>>
<1>1. /\ ops \in 0..MaxOps /\ r.op \in 0..MaxOps /\ performed \subseteq 0..ops
      /\ total \in 0..MaxRows /\ faults \in 0..MaxFaults /\ CursorWithin /\ 0 \in 0..MaxRows
      /\ MaxFaults \in Nat
  BY Bounds, ConversationAssumption DEF Ranges
<1>2. /\ faults < MaxFaults /\ faults' = faults + 1 /\ Sends(frames)
      /\ performed' = performed /\ total' = total
      /\ cursor' = (IF r.cmd = "fetch" THEN NoCursor ELSE cursor)
  BY DEF AnswerError
<1>3. faults' \in 0..MaxFaults
  BY <1>1, <1>2
<1>4. CursorWithin'
  BY <1>1, <1>2 DEF CursorWithin
<1>5. "refused" \in Bodies /\ "sqlerror" \in Bodies
  BY DEF Bodies
<1>6. f \in Frames /\ g \in Frames
  BY <1>1, <1>5, FrameWithin
<1>7. frames \in Seq(Frames)
  <2> HIDE DEF f, g
  <2> QED
    BY <1>6
<1> HIDE DEF frames
<1>8. Provides(frames)
  BY <1>1, <1>2, <1>3, <1>4, <1>7 DEF Provides
<1> QED
  BY <1>8

LEMMA TailWithin ==
    ASSUME NEW s \in Seq(Requests), s # <<>>, \A i \in 1..Len(s) : s[i].op \in 0..ops
    PROVE  /\ Head(s) \in Requests /\ Head(s).op \in 0..ops
           /\ Tail(s) \in Seq(Requests)
           /\ \A i \in 1..Len(Tail(s)) : Tail(s)[i].op \in 0..ops
<1>1. Len(s) \in Nat \ {0}
  BY LenProperties, EmptySeq
<1>2. /\ Head(s) = s[1] /\ Head(s) \in Requests /\ Tail(s) \in Seq(Requests)
      /\ Len(Tail(s)) = Len(s) - 1 /\ \A i \in 1..Len(Tail(s)) : Tail(s)[i] = s[i + 1]
  BY <1>1, HeadTailProperties
<1>3. 1 \in 1..Len(s) /\ \A i \in 1..(Len(s) - 1) : i + 1 \in 1..Len(s)
  BY <1>1
<1> QED
  BY <1>2, <1>3

\* The inductive invariant: the types of all the program's state.
TInv == CInv /\ Within(call) /\ Ranges

LEMMA AnswerWithin ==
    ASSUME TInv, Answer
    PROVE  Within(call)' /\ Ranges'
<1>1. /\ asked \in Seq(Requests) /\ asked # <<>> /\ Typed /\ Ranges
      /\ \A i \in 1..Len(asked) : asked[i].op \in 0..ops
  BY DEF TInv, CInv, Typed, Answer, Ranges
<1>2. /\ asked' = Tail(asked) /\ system' = system /\ timed' = timed
      /\ connected' = connected /\ call' = call /\ inbox' = inbox /\ ops' = ops
      /\ causes' = causes
  BY DEF Answer, fixed
<1>3. /\ Head(asked) \in Requests /\ Head(asked).op \in 0..ops
      /\ \A i \in 1..Len(asked') : asked'[i].op \in 0..ops
  BY <1>1, <1>2, TailWithin
<1>4. PICK frames : Provides(frames)
  BY <1>1, <1>2, <1>3, OpenProvides, FetchProvides, OtherProvides, ErrorProvides DEF Answer
<1>5. line' \in Seq(Frames)
  <2>1. line \in Seq(Frames) /\ frames \in Seq(Frames)
        /\ line' = line \o Reply(Head(asked), frames)
    BY <1>1, <1>4 DEF Ranges, Provides, Sends
  <2> QED
    BY <2>1, ReplyWithin, ConcatProperties
<1>6. Within(call)'
  BY <1>2 DEF TInv, Within
<1>7. Ranges'
  BY <1>1, <1>2, <1>3, <1>4, <1>5 DEF Ranges, Provides
<1> QED
  BY <1>6, <1>7

\* The steps of the client leave these alone, or are named with them.
LEMMA IdleWithin == Within(Idle) /\ Idle.op = 0
<1>1. <<>> \in Seq(Values) /\ <<>> \in Seq(Payloads) /\ NoFetch \in Brought
  BY DEF NoFetch, Brought
<1>2. 0 \in 0..(MaxStalls - 1) /\ 0 \in 0..MaxTries
  BY Bounds
<1> QED
  BY <1>1, <1>2 DEF Within, Idle, Fields

Kept == /\ UNCHANGED <<system, timed, performed, total, ops>>
        /\ faults' \in 0..MaxFaults

LEMMA EndedWithin ==
    ASSUME TInv, Kept, call' = Idle, NEW rest \in Seq(Frames), NEW why, why \subseteq Causes,
           Reset \/ Keep(rest, why)
    PROVE  Within(call)' /\ Ranges'
<1>1. Ranges /\ ops \in 0..MaxOps /\ 0 \in 0..ops
  BY Bounds DEF TInv, Ranges
<1>2. Within(call)' /\ call'.op \in 0..ops
  BY <1>1, IdleWithin DEF Within
<1>3. CASE Reset
  <2>1. /\ connected' = FALSE /\ inbox' = <<>> /\ asked' = <<>> /\ line' = <<>>
        /\ cursor' = NoCursor /\ causes' = {}
    BY <1>3 DEF Reset
  <2>2. \A i \in 1..Len(asked') : asked'[i].op \in 0..ops
    BY <2>1
  <2>3. connected' \in BOOLEAN
    BY <2>1
  <2>4. inbox' \in Seq(Frames) /\ line' \in Seq(Frames) /\ causes' \subseteq Causes
    BY <2>1
  <2>5. CursorWithin'
    BY <2>1 DEF CursorWithin
  <2> QED
    BY <1>1, <1>2, <2>2, <2>3, <2>4, <2>5 DEF Ranges, Kept
<1>4. CASE Keep(rest, why)
  <2>1. /\ inbox' = <<>> /\ line' = rest /\ causes' = why /\ connected' = connected
        /\ asked' = asked /\ cursor' = cursor
    BY <1>4 DEF Keep
  <2> QED
    BY <1>1, <1>2, <2>1 DEF Ranges, Kept, CursorWithin
<1> QED
  BY <1>2, <1>3, <1>4

LEMMA EarlyWithin ==
    ASSUME Ranges, NEW c, NEW step, NEW rest
    PROVE  causes \cup Early(c, step, rest) \subseteq Causes
<1>1. Early(c, step, rest) \subseteq Causes
  BY DEF Early, Causes
<1> QED
  BY <1>1 DEF Ranges

LEMMA AskedWithin ==
    ASSUME NEW s \in Seq(Requests), NEW t \in Seq(Requests), NEW n,
           \A i \in 1..Len(s) : s[i].op \in 0..n, \A i \in 1..Len(t) : t[i].op \in 0..n
    PROVE  \A i \in 1..Len(s \o t) : (s \o t)[i].op \in 0..n
<1>1. /\ Len(s) \in Nat /\ Len(t) \in Nat /\ Len(s \o t) = Len(s) + Len(t)
      /\ \A i \in 1..(Len(s) + Len(t)) :
            (s \o t)[i] = IF i <= Len(s) THEN s[i] ELSE t[i - Len(s)]
  BY LenProperties, ConcatProperties
<1> QED
  BY <1>1

LEMMA TakesWithin ==
    ASSUME TInv, call.at \in Reads, Kept, NEW step, Lasts(step), step.call.op = call.op,
           step.outcome = "goes" => Moves(call, step),
           NEW rest \in Seq(Frames), NEW why, why \subseteq Causes, Takes(step, rest, why)
    PROVE  Within(call)' /\ Ranges'
<1>1. /\ Ranges /\ Formed(call) /\ call.kind \in Asked /\ asked \in Seq(Requests)
      /\ call.op \in 0..ops
  BY DEF TInv, CInv, Typed, Ranges
<1>2. CASE step.outcome = "goes"
  <2>1. /\ call' = step.call /\ inbox' = <<>> /\ line' = rest
        /\ asked' = asked \o step.cmds /\ causes' = why
        /\ connected' = connected /\ cursor' = cursor
    BY <1>2 DEF Takes
  <2>2. Within(step.call)
    BY <1>2 DEF Lasts
  <2>3. Within(call)'
    BY <2>1, <2>2 DEF Within
  <2>4. step.cmds \in Seq(Requests) /\ \A i \in 1..Len(step.cmds) : step.cmds[i].op = call.op
    <3>1. /\ step.cmds \in Seq(Requests)
          /\ \/ step.cmds = <<>>
             \/ Len(step.cmds) = 1 /\ step.cmds[1].op = call.op
             \/ Len(step.cmds) = 2 /\ step.cmds = FetchAndClose(call)
      BY <1>1, <1>2, StepRequests
    <3>2. FetchAndClose(call)[1].op = call.op /\ FetchAndClose(call)[2].op = call.op
      BY DEF FetchAndClose, Request
    <3> QED
      BY <3>1, <3>2
  <2>5. \A i \in 1..Len(asked') : asked'[i].op \in 0..ops
    <3>1. /\ \A i \in 1..Len(asked) : asked[i].op \in 0..ops
          /\ \A i \in 1..Len(step.cmds) : step.cmds[i].op \in 0..ops
      BY <1>1, <2>4 DEF Ranges
    <3> QED
      BY <1>1, <2>1, <2>4, <3>1, AskedWithin
  <2> QED
    BY <1>1, <2>1, <2>3, <2>5 DEF Ranges, Kept, CursorWithin
<1>3. CASE step.outcome # "goes"
  <2>1. call' = Idle /\ (Reset \/ Keep(rest, why))
    BY <1>3 DEF Takes, Returns, Fails, Answered
  <2> QED
    BY <2>1, EndedWithin
<1> QED
  BY <1>2, <1>3

LEMMA SplitLine ==
    ASSUME NEW s \in Seq(Frames), NEW t \in Seq(Frames), NEW k \in 1..Len(t)
    PROVE  s \o SubSeq(t, 1, k) \in Seq(Frames) /\ SubSeq(t, k + 1, Len(t)) \in Seq(Frames)
<1> DEFINE n == Len(t)
           f == SubSeq(t, 1, k)
           g == SubSeq(t, k + 1, n)
<1>1. n \in Nat /\ \A i \in 1..n : t[i] \in Frames
  BY LenProperties
<1>2. k \in Nat /\ 1 <= k /\ k <= n
  BY <1>1
<1> HIDE DEF n
<1>3. f \in Seq(Frames)
  <2>1. \A i \in 1..k : t[i] \in Frames
    BY <1>1, <1>2
  <2> QED
    BY <1>2, <2>1, SubSeqProperties
<1>4. g \in Seq(Frames)
  <2>1. \A i \in (k + 1)..n : t[i] \in Frames
    BY <1>1, <1>2
  <2> QED
    BY <1>1, <1>2, <2>1, SubSeqProperties
<1> HIDE DEF f, g
<1>5. s \o f \in Seq(Frames)
  BY <1>3, ConcatProperties
<1> QED
  BY <1>4, <1>5 DEF f, g, n

LEMMA ReceiveWithin ==
    ASSUME TInv, Receive
    PROVE  Within(call)' /\ Ranges'
<1>1. /\ Ranges /\ Typed /\ call.at \in Reads /\ Within(call)
      /\ line \in Seq(Frames) /\ inbox \in Seq(Frames)
  BY DEF TInv, CInv, Typed, Receive, Reading, Busy, Ranges
<1>2. Kept
  BY <1>1 DEF Receive, fixed, Kept, Ranges
<1>3. AtLeast(call) \in {1, 2}
  BY DEF AtLeast
<1>4. PICK k \in AtLeast(call)..Len(line) :
         LET frames == inbox \o SubSeq(line, 1, k)
             rest == SubSeq(line, k + 1, Len(line))
         IN  IF Enough(call, frames)
             THEN LET step == Step(call, frames)
                  IN  Takes(step, rest, causes \cup Early(call, step, rest))
             ELSE /\ inbox' = frames /\ line' = rest
                  /\ UNCHANGED <<connected, call, asked, cursor, answer, causes>>
  BY DEF Receive
<1>5. k \in 1..Len(line)
  <2>1. Len(line) \in Nat
    BY <1>1, LenProperties
  <2> QED
    BY <1>3, <2>1
<1> DEFINE frames == inbox \o SubSeq(line, 1, k)
           rest == SubSeq(line, k + 1, Len(line))
<1>6. frames \in Seq(Frames) /\ rest \in Seq(Frames)
  BY <1>1, <1>5, SplitLine
<1>7. CASE Enough(call, frames)
  <2> DEFINE step == Step(call, frames)
             why == causes \cup Early(call, step, rest)
  <2>1. Takes(step, rest, why)
    BY <1>4, <1>7
  <2> HIDE DEF frames, rest
  <2>2. Course(call, frames, step)
    BY <1>1, CallPlaced, StepCourse
  <2>3. Lasts(step)
    BY <1>1, <1>6, StepLasts
  <2>4. why \subseteq Causes
    BY <1>1, EarlyWithin
  <2> HIDE DEF step, why
  <2>5. step.call.op = call.op /\ (step.outcome = "goes" => Moves(call, step))
    BY <2>2 DEF Course
  <2> QED
    BY <1>1, <1>2, <1>6, <2>1, <2>3, <2>4, <2>5, TakesWithin
<1>8. CASE ~Enough(call, frames)
  <2>1. /\ inbox' = frames /\ line' = rest
        /\ UNCHANGED <<connected, call, asked, cursor, causes>>
    BY <1>4, <1>8
  <2> HIDE DEF frames, rest
  <2>2. Within(call)'
    BY <1>1, <2>1 DEF Within
  <2> QED
    BY <1>1, <1>2, <1>6, <2>1, <2>2 DEF Ranges, Kept, CursorWithin
<1> QED
  BY <1>7, <1>8

LEMMA QuietWithin ==
    ASSUME TInv, Quiet
    PROVE  Within(call)' /\ Ranges'
<1> DEFINE step == QuietStep(call, inbox)
           why == causes \cup Early(call, step, line)
<1>1. /\ Ranges /\ Typed /\ call.at \in Reads /\ Within(call) /\ Zos
      /\ line \in Seq(Frames) /\ inbox \in Seq(Frames) /\ Takes(step, line, why)
  BY DEF TInv, CInv, Typed, Quiet, Reading, Busy, Ranges
<1>2. Kept
  BY <1>1 DEF Quiet, fixed, Kept, Ranges
<1>3. call.at \in {"prepare", "describe", "open", "execute", "closing", "more", "close"}
  BY <1>1 DEF Quiet, Typed
<1>4. /\ step.call.op = call.op
      /\ step.outcome = "goes" => Moves(call, step)
  <2>1. /\ call.at # "close" => Course(call, inbox, step)
        /\ call.at = "close" => /\ step.call.op = call.op
                                /\ step.outcome \in {"ok", "protocol"}
    BY <1>1, <1>3, CallPlaced, QuietCourse
  <2> HIDE DEF step
  <2> QED
    BY <2>1 DEF Course
<1>5. Lasts(step)
  BY <1>1, <1>3, QuietLasts
<1>6. why \subseteq Causes
  BY <1>1, EarlyWithin
<1> HIDE DEF step, why
<1> QED
  BY <1>1, <1>2, <1>4, <1>5, <1>6, TakesWithin

\* A new operation.
LEMMA StartsWithin ==
    ASSUME TInv, NEW op \in 0..MaxOps, NEW kind \in Asked, Starts(op, kind), ops' \in 0..MaxOps,
           op \in 0..ops', ops <= ops', ops \in Nat
    PROVE  /\ Within(call)' /\ call'.op \in 0..ops'
           /\ \A i \in 1..Len(asked') : asked'[i].op \in 0..ops'
<1> DEFINE cmds == Commands(kind)
           new == [i \in DOMAIN cmds |-> Request(op, cmds[i], kind, i < Len(cmds))]
           c == [Idle EXCEPT !.op = op, !.kind = kind, !.at = FirstRead(kind)]
<1>1. call' = c /\ asked' = asked \o new
  BY DEF Starts
<1>2. Within(c) /\ c.op = op
  BY IdleWithin DEF Within, Idle, Fields
<1>3. cmds \in {<<"setup", "commit">>, <<"change", "commit">>, <<"commit">>, <<"prepare">>}
  BY DEF Commands
<1>4. new \in Seq(Requests) /\ \A i \in 1..Len(new) : new[i].op = op
  <2>1. Len(cmds) \in Nat /\ DOMAIN cmds = 1..Len(cmds) /\ \A i \in 1..Len(cmds) : cmds[i] \in Cmds
    BY <1>3 DEF Cmds
  <2> DEFINE n == Len(cmds)
             rq(i) == Request(op, cmds[i], kind, i < n)
  <2>2. new = [i \in 1..n |-> rq(i)]
    BY <2>1
  <2> HIDE DEF cmds, n
  <2>3. \A i \in 1..n : rq(i) \in Requests /\ rq(i).op = op
    BY <2>1 DEF Request, Requests, n
  <2> HIDE DEF rq, new
  <2>4. n \in Nat /\ new \in [1..n -> Requests] /\ \A i \in 1..n : new[i].op = op
    BY <2>1, <2>2, <2>3 DEF n
  <2>5. new \in Seq(Requests) /\ Len(new) = n
    <3>1. new \in Seq(Requests)
      BY <2>4, SeqDef
    <3>2. DOMAIN new = 1..n
      BY <2>4
    <3> QED
      BY <2>4, <3>1, <3>2, LenProperties
  <2> QED
    BY <2>4, <2>5
<1> HIDE DEF new, c
<1>5. Within(call)' /\ call'.op \in 0..ops'
  BY <1>1, <1>2 DEF Within
<1>6. /\ asked \in Seq(Requests) /\ \A i \in 1..Len(asked) : asked[i].op \in 0..ops
  BY DEF TInv, CInv, Typed, Ranges
<1>7. /\ \A i \in 1..Len(asked) : asked[i].op \in 0..ops'
      /\ \A i \in 1..Len(new) : new[i].op \in 0..ops'
  <2>1. ops' \in Nat
    BY Bounds
  <2>2. 0..ops \subseteq 0..ops'
    BY <2>1
  <2> QED
    BY <1>4, <1>6, <2>2
<1>8. \A i \in 1..Len(asked') : asked'[i].op \in 0..ops'
  BY <1>1, <1>4, <1>6, <1>7, AskedWithin
<1> QED
  BY <1>5, <1>8

LEMMA BeginWithin ==
    ASSUME TInv, Begin
    PROVE  Within(call)' /\ Ranges'
<1>1. /\ ops < Bound /\ ops' = ops + 1 /\ performed' = {} /\ total' = 0
      /\ UNCHANGED <<system, timed, connected, inbox, line, cursor, causes, faults>>
  BY DEF Begin, fixed
<1>2. Ranges /\ ops \in Nat /\ MaxOps \in Nat /\ MaxRows \in Nat
  BY Bounds DEF TInv, Ranges
<1>3. ops + 1 <= MaxOps
  BY <1>1, <1>2 DEF Bound
<1>4. ops' \in 0..MaxOps /\ ops + 1 \in 0..MaxOps /\ ops + 1 \in 0..ops' /\ ops <= ops'
  BY <1>1, <1>2, <1>3
<1>5. PICK kind \in Asked : Starts(ops + 1, kind)
  BY DEF Begin, Asked
<1> DEFINE op == ops + 1
<1> HIDE DEF op
<1>6. /\ Within(call)' /\ call'.op \in 0..ops'
      /\ \A i \in 1..Len(asked') : asked'[i].op \in 0..ops'
  <2>1. op \in 0..MaxOps /\ op \in 0..ops' /\ Starts(op, kind)
    BY <1>4, <1>5 DEF op
  <2> QED
    BY <1>2, <1>4, <2>1, StartsWithin
<1>7. CursorWithin'
  <2>1. 0..ops \subseteq 0..ops'
    BY <1>1, <1>2
  <2> QED
    BY <1>1, <1>2, <2>1 DEF Ranges, CursorWithin
<1>8. 0 \in 0..MaxRows /\ {} \subseteq 0..ops'
  BY <1>2
<1> QED
  BY <1>1, <1>2, <1>4, <1>6, <1>7, <1>8 DEF Ranges

LEMMA ConnectWithin ==
    ASSUME TInv, Connect
    PROVE  Within(call)' /\ Ranges'
<1>1. /\ connected' = TRUE /\ ops' = ops
      /\ UNCHANGED <<system, timed, inbox, line, cursor, performed, total, causes, faults>>
  BY DEF Connect, fixed, server
<1>2. /\ Ranges /\ Within(call) /\ ops \in Nat /\ ops \in 0..MaxOps
      /\ 0 \in 0..MaxOps /\ 0 \in 0..ops
  BY Bounds DEF TInv, Ranges
<1>3. /\ Within(call)' /\ call'.op \in 0..ops'
      /\ \A i \in 1..Len(asked') : asked'[i].op \in 0..ops'
  <2>1. CASE Zos
    <3>1. call' = call /\ asked' = asked
      BY <2>1 DEF Connect
    <3> QED
      BY <1>1, <1>2, <3>1 DEF Ranges, Within
  <2>2. CASE ~Zos
    <3>1. Starts(0, "handle") /\ "handle" \in Asked
      BY <2>2 DEF Connect, Asked
    <3>2. ops' \in 0..MaxOps /\ 0 \in 0..ops' /\ ops <= ops'
      BY <1>1, <1>2
    <3> QED
      BY <1>2, <3>1, <3>2, StartsWithin
  <2> QED
    BY <2>1, <2>2
<1>4. CursorWithin' /\ connected' \in BOOLEAN
  BY <1>1, <1>2 DEF Ranges, CursorWithin
<1> QED
  BY <1>1, <1>2, <1>3, <1>4 DEF Ranges

\* An operation that ends without having read its reply.
LEMMA AbandonWithin ==
    ASSUME TInv, Drop \/ Broken \/ Cancelled \/ FetchTimeout
    PROVE  Within(call)' /\ Ranges'
<1>1. /\ Ranges /\ line \in Seq(Frames) /\ causes \subseteq Causes /\ faults \in 0..MaxFaults
      /\ MaxFaults \in Nat
  BY ConversationAssumption DEF TInv, Ranges
<1>2. /\ UNCHANGED <<system, timed, performed, total, ops>>
      /\ call' = Idle
  BY DEF Drop, Broken, Cancelled, FetchTimeout, Answered, fixed
<1>3. faults' \in 0..MaxFaults
  <2>1. faults' = faults \/ (faults < MaxFaults /\ faults' = faults + 1)
    BY DEF Drop, Broken, Cancelled, FetchTimeout, Fault
  <2> QED
    BY <1>1, <2>1
<1>4. Kept
  BY <1>2, <1>3 DEF Kept
<1>5. Reset \/ Keep(line, causes \cup {"dropped"}) \/ Keep(line, causes \cup {"fetch timeout"})
  BY DEF Drop, Broken, Cancelled, FetchTimeout
<1>6. causes \cup {"dropped"} \subseteq Causes /\ causes \cup {"fetch timeout"} \subseteq Causes
  BY <1>1 DEF Causes
<1> QED
  BY <1>1, <1>2, <1>4, <1>5, <1>6, EndedWithin

LEMMA TimeoutWithin ==
    ASSUME TInv, Timeout
    PROVE  Within(call)' /\ Ranges'
<1> DEFINE c == [Idle EXCEPT !.op = call.op, !.kind = call.kind, !.at = "cancelling"]
<1>1. /\ call' = c /\ inbox' = <<>>
      /\ UNCHANGED <<system, timed, connected, asked, line, cursor, performed, total,
                     ops, causes, faults>>
  BY DEF Timeout, fixed, server
<1>2. Within(c) /\ c.op = call.op
  BY IdleWithin DEF Within, Idle, Fields
<1> HIDE DEF c
<1>3. Within(call)'
  BY <1>1, <1>2 DEF Within
<1>4. Ranges /\ <<>> \in Seq(Frames)
  BY DEF TInv
<1> QED
  BY <1>1, <1>2, <1>3, <1>4 DEF Ranges, CursorWithin

LEMMA StartsTyped == Init => TInv
<1> SUFFICES ASSUME Init
             PROVE  TInv
  OBVIOUS
<1>1. CInv
  BY StartsInOrder
<1>2. Within(call)
  BY IdleWithin DEF Init
<1>3. 0 \in 0..MaxOps /\ 0 \in 0..MaxRows /\ 0 \in 0..MaxFaults /\ 0 \in 0..0
  BY Bounds, ConversationAssumption
<1>4. /\ system \in Systems /\ timed \in BOOLEAN /\ connected = FALSE /\ call = Idle
      /\ inbox = <<>> /\ line = <<>> /\ asked = <<>> /\ cursor = NoCursor
      /\ performed = {} /\ ops = 0 /\ total = 0 /\ causes = {} /\ faults = 0
  BY DEF Init
<1>5. \A i \in 1..Len(asked) : asked[i].op \in 0..ops
  BY <1>4
<1>6. /\ inbox \in Seq(Frames) /\ line \in Seq(Frames)
      /\ CursorWithin /\ performed \subseteq 0..ops /\ causes \subseteq Causes
  BY <1>4 DEF CursorWithin
<1>7. connected \in BOOLEAN /\ system \in Systems /\ timed \in BOOLEAN
  BY <1>4
<1>8. /\ ops \in 0..MaxOps /\ call.op \in 0..ops /\ total \in 0..MaxRows
      /\ faults \in 0..MaxFaults
  BY <1>3, <1>4, IdleWithin
<1>9. Ranges
  BY <1>5, <1>6, <1>7, <1>8 DEF Ranges
<1> QED
  BY <1>1, <1>2, <1>9 DEF TInv

LEMMA StepsTyped == TInv /\ [Next]_vars => TInv'
<1> SUFFICES ASSUME TInv, [Next]_vars
             PROVE  TInv'
  OBVIOUS
<1>1. CInv'
  BY StepsInOrder DEF TInv
<1>2. Within(call)' /\ Ranges'
  <2>1. CASE Answer
    BY <2>1, AnswerWithin
  <2>2. CASE Receive
    BY <2>2, ReceiveWithin
  <2>3. CASE Quiet
    BY <2>3, QuietWithin
  <2>4. CASE Begin
    BY <2>4, BeginWithin
  <2>5. CASE Connect
    BY <2>5, ConnectWithin
  <2>6. CASE Drop \/ Broken \/ Cancelled \/ FetchTimeout
    BY <2>6, AbandonWithin
  <2>7. CASE Timeout
    BY <2>7, TimeoutWithin
  <2>8. CASE UNCHANGED vars
    <3>1. /\ UNCHANGED <<system, timed, connected, call, inbox, asked, line, cursor>>
          /\ UNCHANGED <<performed, total, ops, causes, faults>>
      BY <2>8 DEF vars
    <3> QED
      BY <3>1 DEF TInv, Ranges, Within, CursorWithin
  <2> QED
    BY <2>1, <2>2, <2>3, <2>4, <2>5, <2>6, <2>7, <2>8 DEF Next
<1> QED
  BY <1>1, <1>2 DEF TInv

LEMMA TypesInInvariant == TInv => TypeOK
<1> SUFFICES ASSUME TInv
             PROVE  TypeOK
  OBVIOUS
<1>1. Typed /\ Within(call) /\ Ranges
  BY DEF TInv, CInv
<1>2. Range(call.rows) \subseteq Values
  <2>1. call.rows \in Seq(Values)
    BY <1>1 DEF Within
  <2>2. \A i \in DOMAIN call.rows : call.rows[i] \in Values
    BY <2>1, LenProperties
  <2> QED
    BY <2>2 DEF Range
<1>3. Range(inbox) \cup Range(line) \subseteq Frames
  <2>1. inbox \in Seq(Frames) /\ line \in Seq(Frames)
    BY <1>1 DEF Ranges
  <2>2. /\ \A i \in DOMAIN inbox : inbox[i] \in Frames
        /\ \A i \in DOMAIN line : line[i] \in Frames
    BY <2>1, LenProperties
  <2> QED
    BY <2>2 DEF Range
<1>4. \A r \in Range(asked) : r.op \in 0..ops
  <2>1. asked \in Seq(Requests) /\ \A i \in 1..Len(asked) : asked[i].op \in 0..ops
    BY <1>1 DEF Typed, Ranges
  <2>2. DOMAIN asked = 1..Len(asked)
    BY <2>1, LenProperties
  <2> QED
    BY <2>1, <2>2 DEF Range
<1>5. cursor.sent \in 0..cursor.total /\ cursor.lobs \in 0..cursor.total
  <2>1. CASE cursor = NoCursor
    BY <2>1 DEF NoCursor
  <2>2. CASE cursor # NoCursor
    <3>1. /\ cursor.total \in 0..MaxRows /\ cursor.sent \in 0..cursor.total
          /\ cursor.lobs \in 0..cursor.sent
      BY <1>1, <2>2 DEF Ranges, CursorWithin
    <3> QED
      BY <3>1, Bounds
  <2> QED
    BY <2>1, <2>2
<1>6. /\ call.at \in {"idle", "ready", "prepare", "describe", "open", "descriptors",
                      "fetch", "more", "closing", "close", "execute", "commit",
                      "cancelling"}
      /\ call.stalled \in 0..(MaxStalls - 1) /\ call.tries \in 0..MaxTries
  BY <1>1 DEF Typed, Reads, Within
<1> QED
  BY <1>1, <1>2, <1>3, <1>4, <1>5, <1>6 DEF TypeOK, Ranges, Causes

\* Every frame, request, row, counter and cursor of a session is of its type,
\* also after the session has lost its place, and an operation that finds no
\* progress gives up: it never counts more than MaxStalls - 1 fetches that
\* brought nothing, nor more than MaxTries in search of descriptors
\* (Cursor::fetch_next_from, process_query_reply).
THEOREM TypeCorrect == Spec => []TypeOK
<1>1. Spec => []TInv
  BY StartsTyped, StepsTyped, PTL DEF Spec
<1> QED
  BY <1>1, TypesInInvariant, PTL
=============================================================================
