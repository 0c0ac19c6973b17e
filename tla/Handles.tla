------------------------------- MODULE Handles -------------------------------
(***************************************************************************)
(* The objects JavaScript holds (db2-napi): JsClient, JsTransaction and    *)
(* JsPreparedStatement are each a mutex around an Option of the Rust value *)
(* behind it, JsPool lends clients to JsClients and to its own queries,    *)
(* and JsClient::cancel works past the mutex, through a handle of its own, *)
(* in a control session of the server (CancelHandle::cancel,               *)
(* connection.rs).  A transaction ends with commit or rollback, a prepared *)
(* statement with close; in what follows the two are alike, and            *)
(* "transaction" stands for both.                                          *)
(*                                                                         *)
(* JavaScript may call any method of any object at any time.  An operation *)
(* owns the mutex of its object from its first step to its last, and the   *)
(* client while a statement runs.                                          *)
(***************************************************************************)
EXTENDS Integers, FiniteSets, Sequences

CONSTANTS
    JsClients,      \* JsClient objects
    Queries,        \* calls of JsPool::query
    Transactions,   \* JsTransaction and JsPreparedStatement objects
    Clients,        \* db2_client::Client values
    MaxStatements   \* bound on the statements that run

Owners == JsClients \cup Queries
Objects == Owners \cup Transactions
Nil == "nil"

ASSUME HandlesAssumption ==
    /\ MaxStatements \in Nat
    /\ Nil \notin Clients \cup Objects
    /\ Owners \cap Transactions = {}

Free == <<"free", Nil>>
Quiet == [who |-> Nil, n |-> 0]
NoCancel == [step |-> "none", client |-> Nil, n |-> 0, own |-> FALSE]

VARIABLES
    made,       \* the objects that exist
    inner,      \* JsClient::inner, or the client of a JsPool::query
    cancels,    \* JsClient::cancel_handle: the client whose handle it is
    opening,    \* clients that a JsClient::connect has opened and not stored
    begun,      \* JsTransaction::inner: the client of a transaction, or Nil
    origin,     \* the client on which a transaction began
    busy,       \* the operation that owns an object's mutex
    place,      \* where a client is
    running,    \* the statement that runs on a client: [who, n], or Nil
    statements, \* statements so far
    cancelling, \* calls of JsClient::cancel under way
    hits,       \* the statements that were cancelled
    ends        \* commits, rollbacks and closes of a transaction

handleVars == <<made, inner, cancels, opening, begun, origin, busy, place, running,
                statements, cancelling, hits, ends>>
holders == <<made, inner, cancels, opening>>
txns == <<begun, origin, ends>>
cancelVars == <<cancelling, hits>>

HandlesInit ==
    /\ made = {} /\ opening = [j \in JsClients |-> {}]
    /\ inner = [o \in Owners |-> Nil] /\ cancels = [j \in JsClients |-> Nil]
    /\ begun = [t \in Transactions |-> Nil] /\ origin = begun
    /\ ends = [t \in Transactions |-> 0]
    /\ busy = [o \in Objects |-> Free]
    /\ place = [c \in Clients |-> "unused"]
    /\ running = [c \in Clients |-> Quiet] /\ statements = 0
    /\ cancelling = [j \in JsClients |-> NoCancel] /\ hits = {}
-----------------------------------------------------------------------------
(* Clients come and go *)

\* JsClient::new.
New(j) ==
    /\ j \notin made /\ made' = made \cup {j}
    /\ UNCHANGED <<inner, cancels, opening, txns, busy, place, running, statements,
                   cancelVars>>

\* JsPool::acquire hands out a client in a new JsClient, and JsPool::query takes
\* one for itself: an idle one or a new one.
Acquire(o, c) ==
    /\ o \notin made /\ place[c] \in {"pool", "unused"}
    /\ made' = made \cup {o}
    /\ place' = [place EXCEPT ![c] = "out"]
    /\ inner' = [inner EXCEPT ![o] = c]
    /\ cancels' = IF o \in JsClients THEN [cancels EXCEPT ![o] = c] ELSE cancels
    /\ UNCHANGED <<opening, txns, busy, running, statements, cancelVars>>

\* JsClient::connect opens a client before it asks for the mutex.
ConnectOpen(j, c) ==
    /\ j \in made /\ place[c] = "unused"
    /\ place' = [place EXCEPT ![c] = "out"]
    /\ opening' = [opening EXCEPT ![j] = @ \cup {c}]
    /\ UNCHANGED <<made, inner, cancels, txns, busy, running, statements, cancelVars>>

\* The client replaces the one that was there, which only its transactions
\* still know.
ConnectStore(j, c) ==
    /\ c \in opening[j] /\ busy[j] = Free
    /\ opening' = [opening EXCEPT ![j] = @ \ {c}]
    /\ inner' = [inner EXCEPT ![j] = c] /\ cancels' = [cancels EXCEPT ![j] = c]
    /\ place' = IF inner[j] = Nil THEN place ELSE [place EXCEPT ![inner[j]] = "orphan"]
    /\ UNCHANGED <<made, txns, busy, running, statements, cancelVars>>

TakenPeek(o) == inner                     \* mutant: the client stays in its object

\* Option::take.
Taken(o) == [inner EXCEPT ![o] = Nil]

\* JsClient::close, JsPool::release, and the end of JsPool::query: the client is
\* taken out of its object, and the mutex is kept until the client has gone.
Leave(o, where) ==
    /\ inner[o] # Nil /\ busy[o] = Free
    /\ busy' = [busy EXCEPT ![o] = <<where, inner[o]>>]
    /\ inner' = Taken(o)
    /\ place' = [place EXCEPT ![inner[o]] = "leaving"]
    /\ UNCHANGED <<made, cancels, opening, txns, running, statements, cancelVars>>

\* It has, once no statement runs on it: into the deque, or closed.
Left(o) ==
    /\ busy[o][1] \in {"pool", "closed"}
    /\ running[busy[o][2]] = Quiet
    /\ place' = [place EXCEPT ![busy[o][2]] = busy[o][1]]
    /\ busy' = [busy EXCEPT ![o] = Free]
    /\ UNCHANGED <<holders, txns, running, statements, cancelVars>>
-----------------------------------------------------------------------------
(* Statements and transactions *)

ClientOf(o) == IF o \in Transactions THEN begun[o] ELSE inner[o]

\* query, prepare, execute: the mutex first, then the client.
Call(o) ==
    /\ busy[o] = Free /\ ClientOf(o) # Nil
    /\ busy' = [busy EXCEPT ![o] = <<"query", ClientOf(o)>>]
    /\ UNCHANGED <<holders, txns, place, running, statements, cancelVars>>

Run(o) ==
    LET c == busy[o][2]
    IN  /\ busy[o][1] = "query" /\ statements < MaxStatements
        /\ running[c] = Quiet /\ place[c] # "closed"
        /\ statements' = statements + 1
        /\ running' = [running EXCEPT ![c] = [who |-> o, n |-> statements + 1]]
        /\ busy' = [busy EXCEPT ![o] = <<"running", c>>]
        /\ UNCHANGED <<holders, txns, place, cancelVars>>

\* It ends, or never begins because the client is closed.
Finish(o) ==
    LET c == busy[o][2]
    IN  /\ \/ busy[o][1] = "running" /\ running' = [running EXCEPT ![c] = Quiet]
           \/ busy[o][1] = "query" /\ place[c] = "closed" /\ UNCHANGED running
        /\ busy' = [busy EXCEPT ![o] = Free]
        /\ UNCHANGED <<holders, txns, place, statements, cancelVars>>

\* JsClient::begin_transaction and prepare.
Begin(j, t) ==
    LET c == inner[j]
    IN  /\ busy[j] = Free /\ c # Nil /\ running[c] = Quiet
        /\ t \notin made /\ made' = made \cup {t}
        /\ begun' = [begun EXCEPT ![t] = c] /\ origin' = [origin EXCEPT ![t] = c]
        /\ UNCHANGED <<inner, cancels, opening, ends, busy, place, running, statements,
                       cancelVars>>

KeptOpen(t) == begun                      \* mutant: the transaction is not taken

Ended(t) == [begun EXCEPT ![t] = Nil]

\* JsTransaction::commit and rollback, JsPreparedStatement::close: Option::take.
EndTransaction(t) ==
    /\ busy[t] = Free /\ begun[t] # Nil
    /\ busy' = [busy EXCEPT ![t] = <<"end", begun[t]>>]
    /\ begun' = Ended(t)
    /\ UNCHANGED <<holders, origin, ends, place, running, statements, cancelVars>>

EndSent(t) ==
    /\ busy[t][1] = "end" /\ running[busy[t][2]] = Quiet
    /\ ends' = [ends EXCEPT ![t] = @ + 1]
    /\ busy' = [busy EXCEPT ![t] = Free]
    /\ UNCHANGED <<holders, begun, origin, place, running, statements, cancelVars>>
-----------------------------------------------------------------------------
(* Cancel *)

\* JsClient::cancel copies the handle and opens a control session.
Cancel(j) ==
    /\ j \in made /\ cancels[j] # Nil /\ cancelling[j] = NoCancel
    /\ cancelling' = [cancelling EXCEPT ![j] = [NoCancel EXCEPT !.step = "list",
                                                   !.client = cancels[j]]]
    /\ UNCHANGED <<holders, txns, busy, place, running, statements, hits>>

\* MON_GET_ACTIVITY: what runs under the client's application handle.
List(j) ==
    LET k == cancelling[j]
    IN  /\ k.step = "list"
        /\ cancelling' = [cancelling EXCEPT ![j] =
             IF running[k.client] = Quiet THEN NoCancel
             ELSE [step |-> "act", client |-> k.client, n |-> running[k.client].n,
                   own |-> inner[j] = k.client]]
        /\ UNCHANGED <<holders, txns, busy, place, running, statements, hits>>

StrikesAny(k) == running[k.client] # Quiet  \* mutant: whatever runs is cancelled

\* WLM_CANCEL_ACTIVITY names one activity; -4702 when it is over.
Strikes(k) == running[k.client] # Quiet /\ running[k.client].n = k.n

Act(j) ==
    LET k == cancelling[j]
    IN  /\ k.step = "act"
        /\ cancelling' = [cancelling EXCEPT ![j] = NoCancel]
        /\ hits' = IF Strikes(k)
                   THEN hits \cup {[by |-> j, own |-> k.own, client |-> k.client,
                                    who |-> running[k.client].who]}
                   ELSE hits
        /\ UNCHANGED <<holders, txns, busy, place, running, statements>>

HandlesNext ==
    \/ \E j \in JsClients : New(j) \/ Cancel(j) \/ List(j) \/ Act(j)
    \/ \E j \in JsClients, c \in Clients : ConnectOpen(j, c) \/ ConnectStore(j, c)
    \/ \E o \in Owners, c \in Clients : Acquire(o, c)
    \/ \E o \in Owners : Left(o) \/ Leave(o, "pool")
    \/ \E j \in JsClients : Leave(j, "closed")
    \/ \E o \in Objects : Call(o) \/ Run(o) \/ Finish(o)
    \/ \E j \in JsClients, t \in Transactions : Begin(j, t)
    \/ \E t \in Transactions : EndTransaction(t) \/ EndSent(t)

HandlesSpec == HandlesInit /\ [][HandlesNext]_handleVars
-----------------------------------------------------------------------------
\* Whatever JavaScript calls twice or at the same time, release and close among
\* them, a client is in one place: in one object, or in one operation that takes
\* it away, or in the pool, and a client in the pool or closed is in no object.
OneHolder ==
    \A c \in Clients :
       LET holds == {o \in Owners : inner[o] = c}
           opens == {j \in JsClients : c \in opening[j]}
           leaves == {o \in Owners : /\ busy[o][2] = c
                                       /\ busy[o][1] \in {"pool", "closed"}}
       IN  Cardinality(holds) + Cardinality(opens) + Cardinality(leaves)
             = IF place[c] \in {"out", "leaving"} THEN 1 ELSE 0

\* A commit or rollback is sent once for a transaction, and no statement of it
\* runs at the same time or later (JsTransaction::commit, rollback).
EndsOnce ==
    \A t \in Transactions :
       /\ ends[t] <= 1
       /\ ends[t] = 1 => /\ begun[t] = Nil
                         /\ \A c \in Clients : running[c].who # t

\* What a cancel strikes is a statement of its own JsClient or of a transaction
\* begun on the same client, however long the control session takes.  The
\* exception is a cancel that looks for activities after its JsClient has lost
\* the client: the handle is never cleared, and the next borrower is struck.
CancelsItsOwn ==
    \A h \in hits : h.own => \/ h.who = h.by
                             \/ h.who \in Transactions /\ origin[h.who] = h.client
=============================================================================
