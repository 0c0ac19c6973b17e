-------------------------------- MODULE Pool --------------------------------
(***************************************************************************)
(* The connection pool of crates/db2-client/src/pool.rs, with the parts of *)
(* crates/db2-napi/src/js_pool.rs and of Client that it works with.        *)
(*                                                                         *)
(* Tasks are the asynchronous tasks that call the pool.  A task is at most *)
(* inside one pool operation, op[t]; pc[t] is the await point it is        *)
(* suspended at.  Whatever the code does between two await points is one   *)
(* action.  A connection is the address of its ClientInner (pool_key):     *)
(* the allocator may hand out an address again once its client is gone.    *)
(***************************************************************************)
EXTENDS Integers, Sequences, FiniteSets, SequencesExt

CONSTANTS
    Tasks,                \* tasks that use the pool
    Conns,                \* addresses a ClientInner can have
    MaxConnections,       \* PoolConfig::max_connections
    MinConnections,       \* PoolConfig::min_connections
    ReplaceDisconnected,  \* DB2_POOL_REPLACE_DISCONNECTED
    Calls,                \* the operations the program's tasks call
    DrainMayTimeOut,      \* callers may keep a connection past drain_timeout
    MaxFaults,            \* bound on faults and cancellations
    NoTask,               \* the owner of a free lock
    NoConn                \* the connection of a task that has none

Operations == {"acquire", "warmup", "warmup_parallel", "close",
               "client_close", "client_drop"}

ASSUME PoolAssumption ==
    /\ MaxConnections \in Nat \ {0}      \* js_pool.rs:77, Pool::new
    /\ MinConnections \in 0..MaxConnections
    /\ ReplaceDisconnected \in BOOLEAN
    /\ Calls \subseteq Operations
    /\ DrainMayTimeOut \in BOOLEAN
    /\ MaxFaults \in Nat
    /\ NoTask \notin Tasks /\ NoConn \notin Conns

VARIABLES
    available,      \* permits in the semaphore
    shut,           \* the semaphore is closed
    permitQueue,    \* tasks waiting for a permit (tokio: first in, first out)
    createLock,     \* task that holds connection_create_lock
    lockQueue,      \* tasks waiting for it (first in, first out)
    creating,       \* creating_connections
    idle,           \* connections: the idle deque, back of the deque last
    checkedOut,     \* keys of checked_out; each entry owns one permit
    condition,      \* what the checks of a client would find
    op,             \* the operation a task is in
    pc,             \* its await point
    hand,           \* clients the task's frame owns, oldest first
    inflight,       \* connects the task has started and not finished
    count,          \* the task's local counter (a count read, or to_create)
    faults,         \* faults so far, at most MaxFaults
    closeReturned   \* some close() has returned

permits  == <<available, shut, permitQueue>>
creation == <<createLock, lockQueue, creating>>
stock    == <<idle, checkedOut, condition>>
frame    == <<hand, inflight, count>>
history  == <<faults, closeReturned>>
vars     == <<permits, creation, stock, op, pc, frame, history>>

(***************************************************************************)
(* "good" passes every check; "sick" has been idle past idle_timeout or    *)
(* fails the health check; "expired" is older than max_lifetime; "down" is *)
(* a client whose connected flag is false; "none" is no client at all.     *)
(***************************************************************************)
Conditions == {"none", "good", "sick", "expired", "down"}
PCs == {"rest", "permit", "take", "vet", "lock", "open", "insert", "hold",
        "return", "count", "total", "decide", "store", "fill", "drain",
        "sweep"}
OpNames == {"none", "acquire", "release", "warmup", "warmup_parallel", "close"}

InUse(c) == condition[c] # "none"

\* target_idle_count, given MinConnections <= MaxConnections.
TargetIdle == IF MinConnections = 0 THEN 1 ELSE MinConnections

\* get_connection's frame owns a permit from acquire_owned to the insert.
PermitHolders ==
    {t \in Tasks : op[t] = "acquire" /\
                   pc[t] \in {"take", "vet", "lock", "open", "insert"}}

Goto(t, o, p) == /\ op' = [op EXCEPT ![t] = o]
                 /\ pc' = [pc EXCEPT ![t] = p]
At(t, o, p)   == op[t] = o /\ pc[t] = p
Finish(t)     == Goto(t, "none", "rest")

Held(t) == hand[t][1]                       \* the one client of the frame
PutDown(t) == hand' = [hand EXCEPT ![t] = <<>>]
Gone(cs) == condition' = [c \in Conns |-> IF c \in cs THEN "none"
                                                      ELSE condition[c]]
WithoutNothing(q, t) == q                   \* mutant: the waiter stays
Without(q, t) ==                            \* a waiter leaves its queue
    IF \E i \in DOMAIN q : q[i] = t
    THEN RemoveAt(q, CHOOSE i \in DOMAIN q : q[i] = t)
    ELSE q
UnlockedNever(t) == createLock              \* mutant: the guard is forgotten
Unlocked(t) == IF createLock = t THEN NoTask ELSE createLock
Unlock(t) == createLock' = Unlocked(t)      \* _create_guard is dropped

(***************************************************************************)
(* Pool::new_sync starts empty; Pool::new has tried to open MinConnections *)
(* connections one after the other and keeps those that succeeded.         *)
(***************************************************************************)
Init ==
    /\ available = MaxConnections
    /\ shut = FALSE
    /\ permitQueue = <<>>
    /\ createLock = NoTask
    /\ lockQueue = <<>>
    /\ creating = 0
    /\ \E k \in 0..MinConnections :
           idle \in {s \in [1..k -> Conns] : IsInjective(s)}
    /\ checkedOut = {}
    /\ condition = [c \in Conns |-> IF \E i \in DOMAIN idle : idle[i] = c
                                    THEN "good" ELSE "none"]
    /\ op = [t \in Tasks |-> "none"]
    /\ pc = [t \in Tasks |-> "rest"]
    /\ hand = [t \in Tasks |-> <<>>]
    /\ inflight = [t \in Tasks |-> 0]
    /\ count = [t \in Tasks |-> 0]
    /\ faults = 0
    /\ closeReturned = FALSE
-----------------------------------------------------------------------------
(* Pool::acquire / get_connection *)

Acquire(t) ==
    /\ "acquire" \in Calls
    /\ pc[t] = "rest"
    /\ permitQueue' = Append(permitQueue, t)
    /\ Goto(t, "acquire", "permit")
    /\ UNCHANGED <<available, shut, creation, stock, frame, history>>

TakePermitUnchecked(t) ==                   \* mutant: no permit is needed
    /\ At(t, "acquire", "permit")
    /\ ~shut
    /\ permitQueue # <<>> /\ Head(permitQueue) = t
    /\ available' = available - 1
    /\ permitQueue' = Tail(permitQueue)
    /\ Goto(t, "acquire", "take")
    /\ UNCHANGED <<shut, creation, stock, frame, history>>

TakePermit(t) ==
    /\ At(t, "acquire", "permit")
    /\ ~shut
    /\ available > 0
    /\ permitQueue # <<>> /\ Head(permitQueue) = t
    /\ available' = available - 1
    /\ permitQueue' = Tail(permitQueue)
    /\ Goto(t, "acquire", "take")
    /\ UNCHANGED <<shut, creation, stock, frame, history>>

PermitRefused(t) ==                         \* "Pool semaphore closed"
    /\ At(t, "acquire", "permit")
    /\ shut
    /\ permitQueue' = Without(permitQueue, t)
    /\ Finish(t)
    /\ UNCHANGED <<available, shut, creation, stock, frame, history>>

TakeIdlePeeks(t) ==                         \* mutant: the deque is not popped
    /\ At(t, "acquire", "take")
    /\ idle # <<>>
    /\ hand' = [hand EXCEPT ![t] = <<Last(idle)>>]
    /\ Goto(t, "acquire", "vet")
    /\ UNCHANGED <<permits, creation, stock, inflight, count, history>>

\* take_reusable_idle_connection: pop_back, then the checks of that client.
TakeIdle(t) ==
    /\ At(t, "acquire", "take")
    /\ idle # <<>>
    /\ idle' = Front(idle)
    /\ hand' = [hand EXCEPT ![t] = <<Last(idle)>>]
    /\ Goto(t, "acquire", "vet")
    /\ UNCHANGED <<permits, creation, checkedOut, condition, inflight, count,
                   history>>

\* A sick client is kept when it was used within health_check_interval.
Keep(t) ==
    /\ At(t, "acquire", "vet")
    /\ condition[Held(t)] \in {"good", "sick"}
    /\ Goto(t, "acquire", "insert")
    /\ UNCHANGED <<permits, creation, stock, frame, history>>

Discard(t) ==
    /\ At(t, "acquire", "vet")
    /\ condition[Held(t)] \in {"sick", "expired", "down"}
    /\ Gone({Held(t)})
    /\ PutDown(t)
    /\ Goto(t, "acquire", "take")
    /\ UNCHANGED <<permits, creation, idle, checkedOut, inflight, count,
                   history>>

JoinLockQueue(t) ==
    /\ At(t, "acquire", "take")
    /\ idle = <<>>
    /\ createLock # t
    /\ lockQueue' = Append(lockQueue, t)
    /\ Goto(t, "acquire", "lock")
    /\ UNCHANGED <<permits, createLock, creating, stock, frame, history>>

StartOpenUncounted(t) ==                    \* mutant: no CreatingConnection
    /\ inflight' = [inflight EXCEPT ![t] = @ + 1]
    /\ UNCHANGED creating

\* CreatingConnection::new and the start of Client::connect_with.
StartOpen(t) ==
    /\ creating' = creating + 1
    /\ inflight' = [inflight EXCEPT ![t] = @ + 1]

OpenWithoutLock(t) ==                       \* mutant: connects need no lock
    /\ At(t, "acquire", "take")
    /\ idle = <<>>
    /\ StartOpen(t)
    /\ Goto(t, "acquire", "open")
    /\ UNCHANGED <<permits, createLock, lockQueue, stock, hand, count, history>>

OpenForCheckout(t) ==
    /\ At(t, "acquire", "take")
    /\ idle = <<>>
    /\ createLock = t
    /\ StartOpen(t)
    /\ Goto(t, "acquire", "open")
    /\ UNCHANGED <<permits, createLock, lockQueue, stock, hand, count, history>>

\* attach_pool_checkout and the insert.  An entry that a dropped client left
\* under the same address is replaced, which drops its permit.
Checkout(t) ==
    /\ At(t, "acquire", "insert")
    /\ checkedOut' = checkedOut \cup {Held(t)}
    /\ available' = IF Held(t) \in checkedOut THEN available + 1 ELSE available
    /\ Unlock(t)
    /\ Goto(t, "acquire", "hold")
    /\ UNCHANGED <<shut, permitQueue, lockQueue, creating, idle, condition,
                   frame, history>>
-----------------------------------------------------------------------------
(* connection_create_lock and the connects made under it *)

AfterLock(o) == CASE o = "acquire" -> "take"
                  [] o = "release" -> "count"
                  [] OTHER         -> "total"

TakeLock(t) ==
    /\ pc[t] = "lock"
    /\ createLock = NoTask
    /\ lockQueue # <<>> /\ Head(lockQueue) = t
    /\ createLock' = t
    /\ lockQueue' = Tail(lockQueue)
    /\ Goto(t, op[t], AfterLock(op[t]))
    /\ UNCHANGED <<permits, creating, stock, frame, history>>

\* create_connection, or a task of warmup_parallel, has a session.
Opened(t) ==
    /\ pc[t] \in {"open", "fill"}
    /\ inflight[t] > 0
    /\ \E c \in Conns :
        /\ ~InUse(c)
        /\ condition' = [condition EXCEPT ![c] = "good"]
        /\ hand' = [hand EXCEPT ![t] = Append(@, c)]
    /\ creating' = creating - 1
    /\ inflight' = [inflight EXCEPT ![t] = @ - 1]
    /\ Goto(t, op[t], CASE op[t] = "acquire" -> "insert"
                        [] op[t] = "warmup_parallel" -> "fill"
                        [] OTHER -> "store")
    /\ UNCHANGED <<permits, createLock, lockQueue, idle, checkedOut, count,
                   history>>

\* Client::connect_with fails.  A checkout drops its permit and every caller
\* but warmup_parallel returns; warmup_parallel waits for its other tasks.
OpenFailed(t) ==
    /\ pc[t] \in {"open", "fill"}
    /\ inflight[t] > 0
    /\ faults < MaxFaults
    /\ faults' = faults + 1
    /\ creating' = creating - 1
    /\ inflight' = [inflight EXCEPT ![t] = @ - 1]
    /\ available' = IF op[t] = "acquire" THEN available + 1 ELSE available
    /\ IF op[t] = "warmup_parallel"
       THEN UNCHANGED <<createLock, op, pc, count>>
       ELSE /\ Unlock(t)
            /\ count' = [count EXCEPT ![t] = 0]
            /\ Finish(t)
    /\ UNCHANGED <<shut, permitQueue, lockQueue, stock, hand, closeReturned>>
-----------------------------------------------------------------------------
(* What a caller does with the client it acquired *)

DetachAddsPermit(c) ==                      \* mutant: also without an entry
    /\ checkedOut' = checkedOut \ {c}
    /\ available' = available + 1
DetachLosesPermit(c) ==                     \* mutant: the permit is forgotten
    /\ checkedOut' = checkedOut \ {c}
    /\ UNCHANGED available
DetachKeepsEntry(c) ==                      \* mutant: the entry stays
    /\ available' = IF c \in checkedOut THEN available + 1 ELSE available
    /\ UNCHANGED checkedOut

\* detach_pool_checkout: the entry goes, and with it its permit.
Detach(c) ==
    /\ checkedOut' = checkedOut \ {c}
    /\ available' = IF c \in checkedOut THEN available + 1 ELSE available

\* Client::close on a checked-out client.
ClientClose(t) ==
    /\ "client_close" \in Calls
    /\ At(t, "acquire", "hold")
    /\ Detach(Held(t))
    /\ condition' = [condition EXCEPT ![Held(t)] = "down"]
    /\ UNCHANGED <<shut, permitQueue, creation, idle, op, pc, frame, history>>

\* Client::connect, or the reconnect of an operation, on a client that is down.
ClientReconnect(t) ==
    /\ At(t, "acquire", "hold")
    /\ condition[Held(t)] = "down"
    /\ condition' = [condition EXCEPT ![Held(t)] = "good"]
    /\ UNCHANGED <<permits, creation, idle, checkedOut, op, pc, frame, history>>

\* The caller drops the client and never releases it: Client has no Drop, so
\* the entry and its permit stay in checked_out.
ClientDrop(t) ==
    /\ "client_drop" \in Calls
    /\ At(t, "acquire", "hold")
    /\ Gone({Held(t)})
    /\ PutDown(t)
    /\ Finish(t)
    /\ UNCHANGED <<permits, creation, idle, checkedOut, inflight, count, history>>

\* Time passes, or the server or the network ends a session.
Degrade(c) ==
    /\ faults < MaxFaults
    /\ faults' = faults + 1
    /\ condition[c] = "good"
    /\ \E bad \in {"sick", "expired", "down"} :
           condition' = [condition EXCEPT ![c] = bad]
    /\ UNCHANGED <<permits, creation, idle, checkedOut, op, pc, frame,
                   closeReturned>>
-----------------------------------------------------------------------------
(* Pool::release / return_connection / replace_disconnected_connection *)

ReleaseWithoutDetach(t) ==                  \* mutant: checked_out is not told
    /\ At(t, "acquire", "hold")
    /\ Goto(t, "release", "return")
    /\ UNCHANGED <<permits, creation, stock, frame, history>>

Release(t) ==
    /\ At(t, "acquire", "hold")
    /\ Detach(Held(t))
    /\ Goto(t, "release", "return")
    /\ UNCHANGED <<shut, permitQueue, creation, idle, condition, frame, history>>

ReturnDisconnected(t) ==
    /\ At(t, "release", "return")
    /\ condition[Held(t)] = "down"
    /\ Gone({Held(t)})
    /\ PutDown(t)
    /\ IF ReplaceDisconnected /\ ~shut
       THEN /\ lockQueue' = Append(lockQueue, t)
            /\ Goto(t, "release", "lock")
       ELSE /\ Finish(t)
            /\ UNCHANGED lockQueue
    /\ UNCHANGED <<permits, createLock, creating, idle, checkedOut, inflight,
                   count, history>>

ReturnExpired(t) ==
    /\ At(t, "release", "return")
    /\ condition[Held(t)] = "expired"
    /\ Gone({Held(t)})
    /\ PutDown(t)
    /\ Finish(t)
    /\ UNCHANGED <<permits, creation, idle, checkedOut, inflight, count, history>>

ReturnToIdle(t) ==
    /\ At(t, "release", "return")
    /\ condition[Held(t)] \in {"good", "sick"}
    /\ idle' = Append(idle, Held(t))
    /\ PutDown(t)
    /\ Finish(t)
    /\ UNCHANGED <<permits, creation, checkedOut, condition, inflight, count,
                   history>>

ReplaceCount(t) ==                          \* idle_count() >= target_idle ?
    /\ At(t, "release", "count")
    /\ IF Len(idle) >= TargetIdle
       THEN Unlock(t) /\ Finish(t)
       ELSE Goto(t, "release", "total") /\ UNCHANGED createLock
    /\ UNCHANGED <<permits, lockQueue, creating, stock, frame, history>>

ReplaceDecide(t) ==                         \* total_count() >= max ?
    /\ At(t, "release", "decide")
    /\ count' = [count EXCEPT ![t] = 0]
    /\ IF count[t] + Cardinality(checkedOut) >= MaxConnections
       THEN /\ Unlock(t)
            /\ Finish(t)
            /\ UNCHANGED <<creating, inflight>>
       ELSE /\ StartOpen(t)
            /\ Goto(t, "release", "open")
            /\ UNCHANGED createLock
    /\ UNCHANGED <<permits, lockQueue, stock, hand, history>>

ReplaceStore(t) ==
    /\ At(t, "release", "store")
    /\ IF Len(idle) >= TargetIdle
       THEN /\ Gone({Held(t)})
            /\ UNCHANGED idle
       ELSE /\ idle' = Append(idle, Held(t))
            /\ UNCHANGED condition
    /\ PutDown(t)
    /\ Unlock(t)
    /\ Finish(t)
    /\ UNCHANGED <<permits, lockQueue, creating, checkedOut, inflight, count,
                   history>>
-----------------------------------------------------------------------------
(* Pool::warmup and Pool::warmup_parallel *)

WarmupNeeded ==
    ~shut /\ Len(idle) + Cardinality(checkedOut) + creating < TargetIdle

\* defer_background_warmup, which JsPool runs after a query or a release.
Warmup(t) ==
    /\ "warmup" \in Calls
    /\ pc[t] = "rest"
    /\ WarmupNeeded
    /\ lockQueue' = Append(lockQueue, t)
    /\ Goto(t, "warmup", "lock")
    /\ UNCHANGED <<permits, createLock, creating, stock, frame, history>>

\* JsPool::connect and JsPool::warmup.
WarmupParallel(t) ==
    /\ "warmup_parallel" \in Calls
    /\ pc[t] = "rest"
    /\ lockQueue' = Append(lockQueue, t)
    /\ Goto(t, "warmup_parallel", "lock")
    /\ UNCHANGED <<permits, createLock, creating, stock, frame, history>>

\* total_count reads the length of the deque first and checked_out later.
ReadIdleCount(t) ==
    /\ pc[t] = "total"
    /\ count' = [count EXCEPT ![t] = Len(idle)]
    /\ Goto(t, op[t], "decide")
    /\ UNCHANGED <<permits, creation, stock, hand, inflight, history>>

ToCreate(t) ==
    LET total == count[t] + Cardinality(checkedOut)
                 + (IF op[t] = "warmup_parallel" THEN creating ELSE 0)
    IN  IF total < TargetIdle THEN TargetIdle - total ELSE 0

WarmupDecide(t) ==
    /\ pc[t] = "decide"
    /\ op[t] \in {"warmup", "warmup_parallel"}
    /\ count' = [count EXCEPT ![t] = ToCreate(t)]
    /\ IF ToCreate(t) = 0
       THEN Unlock(t) /\ Finish(t)
       ELSE Goto(t, op[t], "fill") /\ UNCHANGED createLock
    /\ UNCHANGED <<permits, lockQueue, creating, stock, hand, inflight, history>>

\* warmup opens one connection at a time, warmup_parallel all it needs.
WarmupOpen(t) ==
    /\ pc[t] = "fill"
    /\ count[t] > 0
    /\ op[t] = "warmup" => inflight[t] = 0
    /\ count' = [count EXCEPT ![t] = @ - 1]
    /\ StartOpen(t)
    /\ UNCHANGED <<permits, createLock, lockQueue, stock, op, pc, hand, history>>

WarmupStore(t) ==
    /\ At(t, "warmup", "store")
    /\ idle' = Append(idle, Held(t))
    /\ PutDown(t)
    /\ IF count[t] > 0
       THEN Goto(t, "warmup", "fill") /\ UNCHANGED createLock
       ELSE Unlock(t) /\ Finish(t)
    /\ UNCHANGED <<permits, lockQueue, creating, checkedOut, condition,
                   inflight, count, history>>

ParallelStore(t) ==
    /\ At(t, "warmup_parallel", "fill")
    /\ count[t] = 0 /\ inflight[t] = 0
    /\ idle' = idle \o hand[t]
    /\ PutDown(t)
    /\ Unlock(t)
    /\ Finish(t)
    /\ UNCHANGED <<permits, lockQueue, creating, checkedOut, condition,
                   inflight, count, history>>
-----------------------------------------------------------------------------
(* Pool::close_with_timeout *)

Close(t) ==
    /\ "close" \in Calls
    /\ pc[t] = "rest"
    /\ shut' = TRUE
    /\ Goto(t, "close", "drain")
    /\ UNCHANGED <<available, permitQueue, creation, stock, frame, history>>

Drained(t) ==
    /\ At(t, "close", "drain")
    /\ checkedOut = {}
    /\ Goto(t, "close", "sweep")
    /\ UNCHANGED <<permits, creation, stock, frame, history>>

DrainTimedOut(t) ==
    /\ At(t, "close", "drain")
    /\ checkedOut # {}
    /\ DrainMayTimeOut
    /\ Goto(t, "close", "sweep")
    /\ UNCHANGED <<permits, creation, stock, frame, history>>

Sweep(t) ==                                 \* one hold of the deque's lock
    /\ At(t, "close", "sweep")
    /\ Gone({idle[i] : i \in DOMAIN idle})
    /\ idle' = <<>>
    /\ closeReturned' = TRUE
    /\ Finish(t)
    /\ UNCHANGED <<permits, creation, checkedOut, frame, faults>>
-----------------------------------------------------------------------------
(***************************************************************************)
(* The caller drops the future of a pool operation at an await point: its  *)
(* permit, lock guard, queue places, CreatingConnection guards and clients *)
(* are dropped.  warmup_parallel's spawned tasks are aborted later than    *)
(* its own frame and are left out.                                         *)
(***************************************************************************)
Cancel(t) ==
    /\ faults < MaxFaults
    /\ faults' = faults + 1
    /\ pc[t] \notin {"rest", "hold"}
    /\ ~At(t, "warmup_parallel", "fill")
    /\ available' = IF t \in PermitHolders THEN available + 1 ELSE available
    /\ permitQueue' = Without(permitQueue, t)
    /\ lockQueue' = Without(lockQueue, t)
    /\ Unlock(t)
    /\ creating' = creating - inflight[t]
    /\ inflight' = [inflight EXCEPT ![t] = 0]
    /\ count' = [count EXCEPT ![t] = 0]
    /\ Gone({hand[t][i] : i \in DOMAIN hand[t]})
    /\ PutDown(t)
    /\ Finish(t)
    /\ UNCHANGED <<shut, idle, checkedOut, closeReturned>>
-----------------------------------------------------------------------------
CheckoutStep(t) ==
    \/ TakePermit(t) \/ PermitRefused(t) \/ TakeIdle(t) \/ Keep(t)
    \/ Discard(t) \/ JoinLockQueue(t) \/ OpenForCheckout(t) \/ Checkout(t)
CreateStep(t) == TakeLock(t) \/ Opened(t) \/ OpenFailed(t)
ReturnStep(t) ==
    \/ ReturnDisconnected(t) \/ ReturnExpired(t) \/ ReturnToIdle(t)
    \/ ReplaceCount(t) \/ ReplaceDecide(t) \/ ReplaceStore(t)
WarmupStep(t) ==
    \/ ReadIdleCount(t) \/ WarmupDecide(t) \/ WarmupOpen(t) \/ WarmupStore(t)
    \/ ParallelStore(t)
CloseStep(t) == Drained(t) \/ DrainTimedOut(t) \/ Sweep(t)

\* The steps a runtime takes by itself once an operation has been called.
Step(t) == \/ CheckoutStep(t) \/ CreateStep(t) \/ ReturnStep(t)
           \/ WarmupStep(t) \/ CloseStep(t)

Call(t) == Acquire(t) \/ Warmup(t) \/ WarmupParallel(t) \/ Close(t)
Use(t)  == ClientClose(t) \/ ClientReconnect(t) \/ ClientDrop(t) \/ Release(t)

Next == \/ \E t \in Tasks : Call(t) \/ Use(t) \/ Step(t) \/ Cancel(t)
        \/ \E c \in Conns : Degrade(c)

Spec == Init /\ [][Next]_vars

(***************************************************************************)
(* Fairness.  The runtime polls every ready task, a connect ends, and the  *)
(* caller of acquire releases what it got (docs/api-reference/index.md:291 *)
(* asks for it).  Nobody has to call, cancel, reconnect or degrade.        *)
(***************************************************************************)
FairSpec == Spec /\ \A t \in Tasks : WF_vars(Step(t)) /\ WF_vars(Release(t))
-----------------------------------------------------------------------------
(* Properties *)

Holders(c) == {t \in Tasks : At(t, "acquire", "hold") /\ Held(t) = c}

\* Every variable stays in its range; no step loses track of a counter.
TypeOK ==
    /\ available \in 0..MaxConnections
    /\ shut \in BOOLEAN
    /\ permitQueue \in Seq(Tasks)
    /\ createLock \in Tasks \cup {NoTask}
    /\ lockQueue \in Seq(Tasks)
    /\ creating \in Nat
    /\ idle \in Seq(Conns)
    /\ checkedOut \subseteq Conns
    /\ condition \in [Conns -> Conditions]
    /\ op \in [Tasks -> OpNames]
    /\ pc \in [Tasks -> PCs]
    /\ hand \in [Tasks -> Seq(Conns)]
    /\ inflight \in [Tasks -> Nat]
    /\ count \in [Tasks -> Nat]
    /\ faults \in 0..MaxFaults
    /\ closeReturned \in BOOLEAN

\* The permits the semaphore was created with are never lost or duplicated:
\* each is in the semaphore, in the frame of a get_connection under way, or
\* in one entry of checked_out.  Failed connects, cancelled futures, closed
\* clients and entries replaced under a reused address keep the sum.
PermitConservation ==
    available + Cardinality(PermitHolders) + Cardinality(checkedOut)
        = MaxConnections

\* A live client has exactly one owner, the deque or one task's frame, and a
\* dead one none: no connection is handed to two tasks, returned twice, or
\* left open where nothing will ever close it.
OneOwner ==
    /\ IsInjective(idle)
    /\ \A t \in Tasks : IsInjective(hand[t])
    /\ \A t \in Tasks : Range(idle) \cap Range(hand[t]) = {}
    /\ \A t, u \in Tasks : t # u => Range(hand[t]) \cap Range(hand[u]) = {}
    /\ {c \in Conns : InUse(c)} =
           Range(idle) \cup UNION {Range(hand[t]) : t \in Tasks}

\* When every caller hands back what it acquired, checked_out has no stale
\* entry: each belongs to the task that holds the client, so every permit
\* comes back whatever failed or was cancelled on the way.
NoStaleCheckout ==
    "client_drop" \notin Calls =>
        \A c \in checkedOut : Cardinality(Holders(c)) = 1

\* pool.rs:409: creation is serialised under connection_create_lock, and
\* creating_connections counts the connects of the lock's owner, nothing else,
\* also after failures and cancellations.
CreationSerialised ==
    /\ creating = (IF createLock = NoTask THEN 0 ELSE inflight[createLock])
    /\ \A t \in Tasks : inflight[t] > 0 => createLock = t
    /\ \A t \in Tasks : createLock = t => pc[t] \notin {"rest", "hold", "lock"}

\* A checkout that missed opens its own socket only when nobody else is
\* opening one it could have waited for (pool.rs:409-411).
NoDuplicateSocket ==
    [][\A t \in Tasks : OpenForCheckout(t) => creating = 0]_vars

\* Every task that waits for a permit gets one or is told that the pool is
\* closed, and every acquire that got one ends: nobody waits for ever on the
\* permits, on the create lock or in the loop over idle connections.
AcquireEnds == \A t \in Tasks :
    op[t] = "acquire" /\ pc[t] # "hold" ~> pc[t] \in {"hold", "rest"}

\* close() returns once the callers have handed back what they hold, without
\* any help of its drain timeout: no failure, cancellation or client_close
\* leaves an entry in checked_out that close() would wait for in vain.
CloseEnds == \A t \in Tasks : op[t] = "close" ~> pc[t] = "rest"

\* Warmups and releases end and give the create lock back.
MaintenanceEnds == \A t \in Tasks :
    op[t] \in {"release", "warmup", "warmup_parallel"} ~> pc[t] = "rest"

\* The pool implements the lending of Lending: a loan is an entry of
\* checked_out, an admission a permit in the frame of a get_connection.
L == INSTANCE Lending WITH
         Limit <- MaxConnections,
         admitted <- PermitHolders,
         lent <- checkedOut,
         user <- [t \in Tasks |-> IF At(t, "acquire", "hold") THEN Held(t)
                                                             ELSE NoConn]
ImplementsLending == L!Spec

\* pool.rs:24 says max_connections is "Maximum number of connections the pool
\* will create".  The code frees the permit of a returned client before that
\* client is in the deque, so a waiter may open another one meanwhile.
WithinMax == Cardinality({c \in Conns : InUse(c)}) <= MaxConnections

\* docs/api-reference/index.md:307 says close() waits for in-flight
\* connections to be returned, "then closes all idle connections".  A client
\* whose entry is already gone, but that is not in the deque yet, is missed.
ClosedPoolIsEmpty ==
    closeReturned /\ (\A t \in Tasks : pc[t] = "rest") => idle = <<>>
=============================================================================
