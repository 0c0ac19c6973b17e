------------------------------ MODULE Session ------------------------------
(***************************************************************************)
(* One client session of crates/db2-client: the ClientInner that a Client, *)
(* its Transactions and its PreparedStatements share (connection.rs,       *)
(* transaction.rs, statement.rs), and the unit of work at the server.      *)
(*                                                                         *)
(* Every operation holds the tokio Mutex on ClientInner from its checks to *)
(* its return, so an operation is one action.  What interleaves is the     *)
(* order of the operations of several handles, the cleanup tasks that Drop *)
(* spawns and that take the lock some time later, and the server's end of  *)
(* a session.  Retries and reconnects happen inside the operations.        *)
(***************************************************************************)
EXTENDS Integers, Sequences, FiniteSets, SequencesExt

CONSTANTS
    Txns,         \* Transaction handles, each used for one transaction
    Stmts,        \* PreparedStatement handles, each prepared once
    Writes,       \* data changes the program makes, each issued once
    Nobody,       \* the unit of a write that no Transaction issued
    NoStmt,       \* what the server has in a section nobody prepared
    MaxSection,   \* PREPARED_STATEMENT_MAX_SECTION
    MaxRetries,   \* session retries of a read query (4 in the source)
    Discipline,   \* when the program begins another transaction
    Calls,        \* the optional operations the program uses
    MaxSessions,  \* bound on the sessions a client establishes
    MaxFaults     \* bound on refusals, lost replies and lost sessions

ASSUME SessionAssumption ==
    /\ Nobody \notin Txns /\ NoStmt \notin Stmts
    /\ MaxSection \in Nat \ {0} /\ MaxRetries \in Nat
    /\ Discipline \in {"settled", "sequential", "free"}
    /\ Calls \subseteq {"call", "change_query", "batch", "close"}
    /\ MaxSessions \in Nat /\ MaxFaults \in Nat

VARIABLES
    client,     \* ClientInner
    server,     \* the server's side of the session: alive, unit open, sections
    durable,    \* writes the server has committed
    txn,        \* handle -> "new", "open", "dropped" (cleanup due), "gone"
    txnSession, \* Transaction::session_generation
    result,     \* how a transaction ended for its caller
    stmt,       \* handle -> "new", "open", "dropped" (cleanup due), "gone"
    stmtSession, section, stmtTxn,  \* a statement's session, section, maker
    issued,     \* writes the program has sent
    acked,      \* writes whose operation returned Ok
    unit,       \* the transaction a write was issued in
    failedRows, \* rows of autocommit batches that reported a failed row
    loose,      \* autocommit writes that no commit was sent for
    userClosed, \* the program closed the client and asked for no reconnect
    faults

txnVars  == <<txn, txnSession, result>>
stmtVars == <<stmt, stmtSession, section, stmtTxn>>
log      == <<issued, acked, unit>>
history  == <<failedRows, loose, userClosed>>
vars     == <<client, server, durable, txnVars, stmtVars, log, history, faults>>

Sections == 1..MaxSection
States == {"new", "open", "dropped", "gone"}
Results == {"none", "committed", "rolled back", "failed", "abandoned"}

NoSession ==                              \* the server rolls back a lost session
    [alive |-> FALSE, open |-> {}, prepared |-> [n \in Sections |-> NoStmt]]
NewSession == [NoSession EXCEPT !.alive = TRUE]

Init ==
    /\ client = [connected |-> FALSE, connected_once |-> FALSE,
                 closed_explicitly |-> FALSE, auto_commit |-> TRUE,
                 session_generation |-> 0, next_prepared_section |-> 1,
                 free_prepared_sections |-> <<>>]
    /\ server = NoSession
    /\ durable = {}
    /\ txn = [h \in Txns |-> "new"]
    /\ txnSession = [h \in Txns |-> 0]
    /\ result = [h \in Txns |-> "none"]
    /\ stmt = [s \in Stmts |-> "new"]
    /\ stmtSession = [s \in Stmts |-> 0]
    /\ section = [s \in Stmts |-> 0]
    /\ stmtTxn = [s \in Stmts |-> Nobody]
    /\ issued = {}
    /\ acked = {}
    /\ unit = [w \in Writes |-> Nobody]
    /\ failedRows = {}
    /\ loose = {}
    /\ userClosed = FALSE
    /\ faults = 0
-----------------------------------------------------------------------------
(* The state of ClientInner *)

EstablishedSameGeneration(c) ==          \* mutant: the generation stays
    [connected |-> TRUE, connected_once |-> TRUE, closed_explicitly |-> FALSE,
     auto_commit |-> TRUE, session_generation |-> c.session_generation,
     next_prepared_section |-> 1, free_prepared_sections |-> <<>>]

\* establish_session succeeds: a new generation, nothing kept from the last.
Established(c) ==
    [connected |-> TRUE, connected_once |-> TRUE, closed_explicitly |-> FALSE,
     auto_commit |-> TRUE, session_generation |-> c.session_generation + 1,
     next_prepared_section |-> 1, free_prepared_sections |-> <<>>]

\* reset_session_state, and Client::close with explicit = TRUE.
Reset(c, explicit) ==
    [c EXCEPT !.connected = FALSE, !.auto_commit = TRUE,
              !.closed_explicitly = explicit,
              !.next_prepared_section = 1, !.free_prepared_sections = <<>>]

ShouldAutoReconnect ==
    /\ ~client.connected
    /\ client.connected_once
    /\ ~client.closed_explicitly

\* reconnect_if_needed at the start of an operation of Client: the operation
\* goes on, with client and server in these states.
Ready == \/ client.connected
         \/ ShouldAutoReconnect /\ client.session_generation < MaxSessions
Entered == IF client.connected THEN client ELSE Established(client)
ServerAt == IF client.connected THEN server ELSE NewSession

ValidAlways(session) == TRUE             \* mutant: no check of the generation
Valid(session) == client.session_generation = session   \* the handles' check

Fault == faults < MaxFaults /\ faults' = faults + 1

\* The exchange fails: a broken transport, an unusable reply, a timeout, or
\* SQLCODE -502, -514 or -518.  finalize_operation_error and
\* disconnect_after_timeout reset the session; the server rolls it back.
\* On a session that has already ended nothing else can happen.
Lost(c, sv) ==
    /\ client' = Reset(c, FALSE)
    /\ server' = NoSession
    /\ IF sv.alive THEN Fault ELSE UNCHANGED faults

\* release_prepared_section, for a section in 1..MaxSection.
Released(c, n) ==
    IF \E i \in DOMAIN c.free_prepared_sections :
           c.free_prepared_sections[i] = n
    THEN c
    ELSE [c EXCEPT !.free_prepared_sections = Append(@, n)]

\* allocate_prepared_section: the section, and the client that gave it.
CanAllocate(c) == \/ c.free_prepared_sections # <<>>
                  \/ c.next_prepared_section <= MaxSection
AllocatedLate(c) ==                      \* mutant: reads the counter too late
    IF c.free_prepared_sections # <<>> THEN Last(c.free_prepared_sections)
                                       ELSE c.next_prepared_section + 1
Allocated(c) == IF c.free_prepared_sections # <<>>
                THEN Last(c.free_prepared_sections)
                ELSE c.next_prepared_section
AfterAllocation(c) ==
    IF c.free_prepared_sections # <<>>
    THEN [c EXCEPT !.free_prepared_sections = Front(@)]
    ELSE [c EXCEPT !.next_prepared_section = @ + 1]
-----------------------------------------------------------------------------
(* Connecting and closing *)

Connect ==
    /\ ~client.connected
    /\ client.session_generation < MaxSessions
    /\ client' = Established(client)
    /\ server' = NewSession
    /\ userClosed' = FALSE
    /\ UNCHANGED <<durable, txnVars, stmtVars, log, failedRows, loose, faults>>

\* Client::connect, or reconnect_if_needed, fails: before the session counts
\* as connected, or in post_auth_init and the statements that follow it.
ConnectFails ==
    /\ ~client.connected
    /\ client.session_generation < MaxSessions
    /\ Fault
    /\ client' \in {[client EXCEPT !.closed_explicitly = FALSE],
                    Reset(Established(client), FALSE)}
    /\ userClosed' = FALSE
    /\ UNCHANGED <<server, durable, txnVars, stmtVars, log, failedRows, loose>>

\* The server, or the network, ends the session; the client does not know.
SessionEnds ==
    /\ server.alive
    /\ Fault
    /\ server' = NoSession
    /\ UNCHANGED <<client, durable, txnVars, stmtVars, log, history>>

ClientClose ==
    /\ "close" \in Calls
    /\ client' = Reset(client, TRUE)
    /\ server' = NoSession
    /\ userClosed' = TRUE
    /\ UNCHANGED <<durable, txnVars, stmtVars, log, failedRows, loose, faults>>
-----------------------------------------------------------------------------
(* Statements *)

Issue(ws, u) ==
    /\ ws \cap issued = {}
    /\ issued' = issued \cup ws
    /\ unit' = [w \in Writes |-> IF w \in ws THEN u ELSE unit[w]]

\* The server ends the unit of work and keeps it, or drops it.
Commits(sv, ws) == /\ durable' = durable \cup sv.open \cup ws
                   /\ server' = [sv EXCEPT !.open = {}]
Discards(sv)    == /\ server' = [sv EXCEPT !.open = {}]
                   /\ UNCHANGED durable
Adds(sv, ws)    == /\ server' = [sv EXCEPT !.open = @ \cup ws]
                   /\ UNCHANGED durable

\* A request that ends in a commit under auto_commit has done ws.
LandsUncommitted(c, sv, ws) == Adds(sv, ws)      \* mutant: RDBCMM is forgotten
Lands(c, sv, ws) == IF c.auto_commit THEN Commits(sv, ws) ELSE Adds(sv, ws)

\* Writes that stay in the unit of work although the client is in auto_commit.
Loosens(c, ws) == loose' = loose \cup (IF c.auto_commit THEN ws ELSE {})

\* A statement that changes data: execute_immediate, execute_with_params and
\* PreparedStatement::execute chain RDBCMM to it under auto_commit.  A refused
\* statement (a negative SQLCODE) changes nothing, the chained commit happens.
Run(c, sv, w, u) ==
    /\ Issue({w}, u)
    /\ \/ /\ sv.alive
          /\ Lands(c, sv, {w})
          /\ client' = c
          /\ acked' = acked \cup {w}
          /\ UNCHANGED faults
       \/ /\ sv.alive
          /\ Fault
          /\ Lands(c, sv, {})
          /\ client' = c
          /\ UNCHANGED acked
       \/ /\ Lost(c, sv)
          /\ durable' \in {durable} \cup
                 IF sv.alive /\ c.auto_commit
                 THEN {durable \cup sv.open \cup {w}} ELSE {}
          /\ UNCHANGED acked

ClientWrite(w) ==
    /\ Ready
    /\ Run(Entered, ServerAt, w, Nobody)
    /\ UNCHANGED <<txnVars, stmtVars, history>>

TxnWrite(h, w) ==
    /\ txn[h] = "open"
    /\ Valid(txnSession[h]) /\ client.connected
    /\ Run(client, server, w, h)
    /\ UNCHANGED <<txnVars, stmtVars, history>>

\* execute_call commits with a request of its own, once the reply is read.
\* A procedure that ends in an error may have changed data before.
ClientCall(w) ==
    /\ "call" \in Calls
    /\ Ready
    /\ Issue({w}, Nobody)
    /\ \/ /\ ServerAt.alive
          /\ Lands(Entered, ServerAt, {w})
          /\ client' = Entered
          /\ acked' = acked \cup {w}
          /\ UNCHANGED <<loose, faults>>
       \/ /\ ServerAt.alive
          /\ Fault
          /\ Adds(ServerAt, {w})
          /\ Loosens(Entered, {w})
          /\ client' = Entered
          /\ UNCHANGED acked
       \/ /\ Lost(Entered, ServerAt)
          /\ durable' \in {durable} \cup
                 IF ServerAt.alive /\ Entered.auto_commit
                 THEN {durable \cup ServerAt.open \cup {w}} ELSE {}
          /\ UNCHANGED <<acked, loose>>
    /\ UNCHANGED <<txnVars, stmtVars, failedRows, userClosed>>

\* execute_query_with_reconnect_retry, for a query without parameters: after
\* each session error the session is reset and established again.  ws is empty
\* for a plain read.  SELECT FROM FINAL TABLE changes data: sql_is_query makes
\* it a cursor all the same, and no commit follows a cursor.
ClientQuery(ws) ==
    /\ ws # {} => "change_query" \in Calls
    /\ Ready
    /\ Issue(ws, Nobody)
    /\ \/ /\ ServerAt.alive
          /\ client' = Entered
          /\ Adds(ServerAt, ws)
          /\ Loosens(Entered, ws)
          /\ acked' = acked \cup ws
          /\ UNCHANGED faults
       \/ /\ Lost(Entered, ServerAt)
          /\ UNCHANGED <<durable, acked, loose>>
       \/ \E k \in 1..MaxRetries :
            LET again == Established(
                   [Entered EXCEPT !.session_generation = @ + (k - 1)])
            IN  /\ again.session_generation <= MaxSessions
                /\ faults + k <= MaxFaults
                /\ faults' = faults + k
                /\ UNCHANGED durable
                /\ \/ /\ client' = again
                      /\ server' = [NewSession EXCEPT !.open = ws]
                      /\ Loosens(again, ws)
                      /\ acked' = acked \cup ws
                   \/ /\ client' = Reset(again, FALSE)
                      /\ server' = NoSession
                      /\ UNCHANGED <<acked, loose>>
    /\ UNCHANGED <<txnVars, stmtVars, failedRows, userClosed>>
-----------------------------------------------------------------------------
(* Transactions *)

\* When the program begins a transaction on a client it already used for one.
MayBegin ==
    /\ Discipline # "free" => \A g \in Txns : txn[g] # "open"
    /\ Discipline = "settled" => \A g \in Txns : txn[g] # "dropped"

Begin(h) ==
    /\ txn[h] = "new"
    /\ MayBegin
    /\ Ready
    /\ client' = [Entered EXCEPT !.auto_commit = FALSE]
    /\ server' = ServerAt
    /\ txn' = [txn EXCEPT ![h] = "open"]
    /\ txnSession' = [txnSession EXCEPT ![h] = Entered.session_generation]
    /\ UNCHANGED <<durable, result, stmtVars, log, history,
                   faults>>

EndsWithoutCleanup(h, how) ==            \* mutant: Drop spawns nothing
    /\ txn' = [txn EXCEPT ![h] = "gone"]
    /\ result' = [result EXCEPT ![h] = how]

\* The handle is consumed.  Without success its Drop spawns a cleanup task.
Ends(h, how) ==
    /\ txn' = [txn EXCEPT ![h] = IF how \in {"committed", "rolled back"}
                                 THEN "gone" ELSE "dropped"]
    /\ result' = [result EXCEPT ![h] = how]

\* Transaction::commit.  Neither commit nor rollback checks connected: without
\* a transport they fail with a connection error, which resets the session.
\* A commit that the server refuses has rolled the unit back.
Commit(h) ==
    /\ txn[h] = "open"
    /\ \/ /\ ~Valid(txnSession[h])
          /\ Ends(h, "failed")
          /\ UNCHANGED <<client, server, durable, faults>>
       \/ /\ Valid(txnSession[h]) /\ server.alive
          /\ Commits(server, {})
          /\ client' = [client EXCEPT !.auto_commit = TRUE]
          /\ Ends(h, "committed")
          /\ UNCHANGED faults
       \/ /\ Valid(txnSession[h]) /\ server.alive
          /\ Fault
          /\ Discards(server)
          /\ Ends(h, "failed")
          /\ UNCHANGED client
       \/ /\ Valid(txnSession[h])
          /\ Lost(client, server)
          /\ durable' \in {durable, durable \cup server.open}
          /\ Ends(h, "failed")
    /\ UNCHANGED <<txnSession, stmtVars, log, history>>

Rollback(h) ==
    /\ txn[h] = "open"
    /\ UNCHANGED durable
    /\ \/ /\ ~Valid(txnSession[h])
          /\ Ends(h, "abandoned")
          /\ UNCHANGED <<client, server, faults>>
       \/ /\ Valid(txnSession[h]) /\ server.alive
          /\ server' = [server EXCEPT !.open = {}]
          /\ client' = [client EXCEPT !.auto_commit = TRUE]
          /\ Ends(h, "rolled back")
          /\ UNCHANGED faults
       \/ /\ Valid(txnSession[h]) /\ server.alive
          /\ Fault
          /\ server' = [server EXCEPT !.open = {}]
          /\ Ends(h, "abandoned")
          /\ UNCHANGED client
       \/ /\ Valid(txnSession[h])
          /\ Lost(client, server)
          /\ Ends(h, "abandoned")
    /\ UNCHANGED <<txnSession, stmtVars, log, history>>

Drop(h) ==
    /\ txn[h] = "open"
    /\ Ends(h, "abandoned")
    /\ UNCHANGED <<client, server, durable, txnSession, stmtVars, log,
                   history, faults>>

\* The task that Transaction::drop spawned gets the lock.  A failed rollback
\* is only logged: auto_commit and connected stay as they are.
Cleanup(h) ==
    /\ txn[h] = "dropped"
    /\ txn' = [txn EXCEPT ![h] = "gone"]
    /\ \/ /\ ~Valid(txnSession[h])
          /\ UNCHANGED <<client, server, faults>>
       \/ /\ Valid(txnSession[h]) /\ (~client.connected \/ client.auto_commit)
          /\ client' = [client EXCEPT !.auto_commit = TRUE]
          /\ UNCHANGED <<server, faults>>
       \/ /\ Valid(txnSession[h]) /\ client.connected /\ ~client.auto_commit
          /\ \/ /\ server.alive
                /\ client' = [client EXCEPT !.auto_commit = TRUE]
                /\ server' = [server EXCEPT !.open = {}]
                /\ UNCHANGED faults
             \/ /\ server.alive
                /\ Fault
                /\ server' \in {NoSession, [server EXCEPT !.open = {}]}
                /\ UNCHANGED client
             \/ /\ ~server.alive
                /\ UNCHANGED <<client, server, faults>>
    /\ UNCHANGED <<durable, txnSession, result, stmtVars, log, history>>
-----------------------------------------------------------------------------
(* Prepared statements *)

\* Client::prepare and Transaction::prepare from the allocation on.  PRPSQLSTT
\* or the describe of the parameters may be refused: the section is released.
PrepareOn(c, sv, s, h) ==
    LET n == Allocated(c) IN
    /\ stmt[s] = "new"
    /\ CanAllocate(c)
    /\ \/ /\ sv.alive
          /\ client' = AfterAllocation(c)
          /\ server' = [sv EXCEPT !.prepared[n] = s]
          /\ stmt' = [stmt EXCEPT ![s] = "open"]
          /\ stmtSession' = [stmtSession EXCEPT ![s] = c.session_generation]
          /\ section' = [section EXCEPT ![s] = n]
          /\ stmtTxn' = [stmtTxn EXCEPT ![s] = h]
          /\ UNCHANGED faults
       \/ /\ sv.alive
          /\ Fault
          /\ client' = Released(AfterAllocation(c), n)
          /\ server' \in {sv, [sv EXCEPT !.prepared[n] = s]}
          /\ UNCHANGED stmtVars
       \/ /\ Lost(c, sv)
          /\ UNCHANGED stmtVars

ClientPrepare(s) ==
    /\ Ready
    /\ PrepareOn(Entered, ServerAt, s, Nobody)
    /\ UNCHANGED <<durable, txnVars, log, history>>

TxnPrepare(h, s) ==
    /\ txn[h] = "open"
    /\ Valid(txnSession[h]) /\ client.connected
    /\ PrepareOn(client, server, s, h)
    /\ UNCHANGED <<durable, txnVars, log, history>>

Executable(s) == stmt[s] = "open" /\ Valid(stmtSession[s]) /\ client.connected

\* A statement that a Transaction made works in it as long as it is open.
UnitOf(s) ==
    IF stmtTxn[s] \in Txns /\ txn[stmtTxn[s]] = "open" THEN stmtTxn[s]
                                                       ELSE Nobody

Execute(s, w) ==
    /\ Executable(s)
    /\ Run(client, server, w, UnitOf(s))
    /\ UNCHANGED <<txnVars, stmtVars, history>>

RowsFail(ws) ==
    failedRows' = failedRows \cup (IF client.auto_commit THEN ws ELSE {})

\* execute_batch_with_params, for the rows of two chunks, v in the first and w
\* in the last.  No commit is chained to a row.  A row the server refuses is
\* reported after the replies of its chunk; a value of w that cannot be
\* converted returns from the loop at once.
ExecuteBatch(s, v, w) ==
    /\ "batch" \in Calls
    /\ Executable(s)
    /\ v # w
    /\ Issue({v, w}, UnitOf(s))
    /\ \/ /\ server.alive                                     \* every row done
          /\ Lands(client, server, {v, w})
          /\ acked' = acked \cup {v, w}
          /\ UNCHANGED <<client, failedRows, loose, faults>>
       \/ /\ server.alive                                    \* a row is refused
          /\ Fault
          /\ \E done \in {{}, {v}} :
                 IF client.auto_commit THEN Discards(server)
                                       ELSE Adds(server, done)
          /\ RowsFail({v, w})
          /\ UNCHANGED <<client, acked, loose>>
       \/ /\ server.alive                      \* build_sqldta fails in chunk 2
          /\ Fault
          /\ Adds(server, {v})
          /\ RowsFail({v, w})
          /\ Loosens(client, {v})
          /\ UNCHANGED <<client, acked>>
       \/ /\ server.alive /\ client.auto_commit           \* commit is refused
          /\ Fault
          /\ Discards(server)
          /\ UNCHANGED <<client, acked, failedRows, loose>>
       \/ /\ Lost(client, server)
          /\ durable' \in {durable} \cup
                 IF server.alive /\ client.auto_commit
                 THEN {durable \cup server.open \cup {v, w}} ELSE {}
          /\ UNCHANGED <<acked, failedRows, loose>>
    /\ UNCHANGED <<txnVars, stmtVars, userClosed>>

ReleaseInAnySession(s) ==                \* mutant: no check of the generation
    client' = Released(client, section[s])

ReleaseSection(s) ==
    client' = IF Valid(stmtSession[s]) THEN Released(client, section[s])
                                       ELSE client

CloseStmt(s) ==
    /\ stmt[s] = "open"
    /\ stmt' = [stmt EXCEPT ![s] = "gone"]
    /\ ReleaseSection(s)
    /\ UNCHANGED <<server, durable, txnVars, stmtSession, section, stmtTxn,
                   log, history, faults>>

DropStmt(s) ==
    /\ stmt[s] = "open"
    /\ stmt' = [stmt EXCEPT ![s] = "dropped"]
    /\ UNCHANGED <<client, server, durable, txnVars, stmtSession, section,
                   stmtTxn, log, history, faults>>

CleanupStmtStuck(s) ==                   \* mutant: waits for its own session
    /\ stmt[s] = "dropped" /\ Valid(stmtSession[s])
    /\ stmt' = [stmt EXCEPT ![s] = "gone"]
    /\ ReleaseSection(s)
    /\ UNCHANGED <<server, durable, txnVars, stmtSession, section, stmtTxn,
                   log, history, faults>>

CleanupStmt(s) ==                 \* the task that PreparedStatement::drop spawned
    /\ stmt[s] = "dropped"
    /\ stmt' = [stmt EXCEPT ![s] = "gone"]
    /\ ReleaseSection(s)
    /\ UNCHANGED <<server, durable, txnVars, stmtSession, section, stmtTxn,
                   log, history, faults>>
-----------------------------------------------------------------------------
ClientStep ==
    \/ Connect \/ ConnectFails \/ SessionEnds \/ ClientClose
    \/ ClientQuery({})
    \/ \E w \in Writes : ClientWrite(w) \/ ClientCall(w) \/ ClientQuery({w})
TxnStep(h) ==
    \/ Begin(h) \/ Commit(h) \/ Rollback(h) \/ Drop(h) \/ Cleanup(h)
    \/ \E w \in Writes : TxnWrite(h, w)
    \/ \E s \in Stmts : TxnPrepare(h, s)
StmtStep(s) ==
    \/ ClientPrepare(s) \/ CloseStmt(s) \/ DropStmt(s) \/ CleanupStmt(s)
    \/ \E w \in Writes : Execute(s, w)
    \/ \E v, w \in Writes : ExecuteBatch(s, v, w)

Next == \/ ClientStep
        \/ \E h \in Txns : TxnStep(h)
        \/ \E s \in Stmts : StmtStep(s)

Spec == Init /\ [][Next]_vars

\* The runtime runs the spawned cleanup tasks, and the lock is fair.
FairSpec == /\ Spec
            /\ \A h \in Txns : WF_vars(Cleanup(h))
            /\ \A s \in Stmts : WF_vars(CleanupStmt(s))
-----------------------------------------------------------------------------
(* Properties *)

TypeOK ==
    /\ client \in [connected : BOOLEAN, connected_once : BOOLEAN,
                   closed_explicitly : BOOLEAN, auto_commit : BOOLEAN,
                   session_generation : Nat,
                   next_prepared_section : 1..(MaxSection + 1),
                   free_prepared_sections : Seq(Sections)]
    /\ server \in [alive : BOOLEAN, open : SUBSET Writes,
                   prepared : [Sections -> Stmts \cup {NoStmt}]]
    /\ durable \subseteq Writes
    /\ txn \in [Txns -> States] /\ txnSession \in [Txns -> Nat]
    /\ result \in [Txns -> Results]
    /\ stmt \in [Stmts -> States] /\ stmtSession \in [Stmts -> Nat]
    /\ section \in [Stmts -> 0..MaxSection]
    /\ stmtTxn \in [Stmts -> Txns \cup {Nobody}]
    /\ issued \subseteq Writes /\ acked \subseteq Writes
    /\ unit \in [Writes -> Txns \cup {Nobody}]
    /\ failedRows \subseteq Writes /\ loose \subseteq Writes
    /\ userClosed \in BOOLEAN
    /\ faults \in Nat

Mine(h) == {w \in acked : unit[w] = h}

\* transaction.rs:10, "groups multiple operations into an atomic unit": a
\* committed transaction is durable as a whole; a rolled back or dropped one
\* leaves nothing behind, at the server or in a later unit; one whose commit
\* failed is there as a whole or not at all; an open one is not yet durable.
Atomic == \A h \in Txns :
    /\ result[h] = "committed" => Mine(h) \subseteq durable
    /\ txn[h] = "open" \/ result[h] \in {"rolled back", "abandoned"}
           => Mine(h) \cap durable = {}
    /\ Mine(h) \subseteq durable \/ Mine(h) \cap durable = {}
    /\ txn[h] = "gone" => Mine(h) \cap server.open = {}

\* While auto_commit is on, the server's unit of work holds nothing but what
\* the code is known to leave there (a failed CALL, a query that changes data,
\* a batch with a bad value): whatever was retried, refused or lost, no other
\* write waits for a commit that nobody will send.
AutoCommitSettled ==
    client.connected /\ client.auto_commit => server.open \subseteq loose

\* Manual mode ends with its owner: a step after which no transaction of this
\* session is open or due for cleanup has put the client back in auto_commit,
\* unless a rollback of a cleanup failed or the session had already ended.
Owned == \E h \in Txns : txn[h] \in {"open", "dropped"} /\ Valid(txnSession[h])
ManualModeEnds ==
    [][Owned /\ ~Owned' => client'.auto_commit \/ faults' > faults
                             \/ ~server.alive]_vars

\* Sections of this session that a statement still owns.
Holds(s) == stmt[s] \in {"open", "dropped"} /\ Valid(stmtSession[s])
HeldSections == {section[s] : s \in {t \in Stmts : Holds(t)}}

\* Every section handed out in this session is free or owned by exactly one
\* statement: none is lost after a refused prepare, freed twice, or shared,
\* also when a cleanup runs after the session was reset or replaced.
SectionPartition ==
    client.connected =>
        LET free == client.free_prepared_sections IN
        /\ IsInjective(free)
        /\ Range(free) \cap HeldSections = {}
        /\ Range(free) \cup HeldSections = 1..(client.next_prepared_section - 1)
        /\ \A s, t \in Stmts :
               s # t /\ Holds(s) /\ Holds(t) => section[s] # section[t]

\* A statement the handle lets through executes its own SQL: the server has
\* it, and no other, in the section of every usable statement.
RunsItsOwnSql == \A s \in Stmts :
    Executable(s) /\ server.alive => server.prepared[section[s]] = s

\* A dropped transaction's work leaves the server's unit of work, and a dropped
\* statement gives its section back, once the runtime runs the cleanup tasks.
DropsAreCleanedUp ==
    /\ \A h \in Txns : txn[h] = "dropped" ~>
           txn[h] = "gone" /\ Mine(h) \cap server.open = {}
    /\ \A s \in Stmts : stmt[s] = "dropped" ~> stmt[s] = "gone" /\ ~Holds(s)

\* docs/api-reference/index.md:382 says that "if any row fails, no row of the
\* batch is kept".  Rows of the chunks before a value that cannot be converted
\* stay in the unit of work, and the next commit keeps them.
BatchIsOneUnit == failedRows \cap durable = {}

\* tests/integration/connection_test.rs:129: "explicitly closed clients should
\* stay closed until reconnect is requested".  The commit of a transaction
\* that is still around resets the session and with it closed_explicitly.
ClosedStaysClosed == userClosed => ~client.connected
=============================================================================
