----------------------------- MODULE PoolProofs -----------------------------
(***************************************************************************)
(* Proofs about Pool for every value of its constants.                     *)
(***************************************************************************)
EXTENDS Pool, SequenceLemmas, FiniteSetTheorems

(***************************************************************************)
(* The inductive invariant.  Typed is TypeOK without the two bounds that   *)
(* only the counting invariants give.                                      *)
(***************************************************************************)
Typed ==
    /\ available \in Nat
    /\ shut \in BOOLEAN
    /\ permitQueue \in Seq(Tasks)
    /\ createLock \in Tasks \cup {NoTask}
    /\ lockQueue \in Seq(Tasks)
    /\ creating \in Int
    /\ idle \in Seq(Conns)
    /\ checkedOut \subseteq Conns /\ IsFiniteSet(checkedOut)
    /\ condition \in [Conns -> Conditions]
    /\ op \in [Tasks -> OpNames]
    /\ pc \in [Tasks -> PCs]
    /\ hand \in [Tasks -> Seq(Conns)]
    /\ inflight \in [Tasks -> Nat]
    /\ count \in [Tasks -> Nat]
    /\ faults \in 0..MaxFaults
    /\ closeReturned \in BOOLEAN

\* What a task's frame owns at each await point of each operation.
OneClient(t) == pc[t] \in {"vet", "insert", "hold", "return", "store"}
Framed == \A t \in Tasks :
    /\ OneClient(t) => Len(hand[t]) = 1
    /\ ~OneClient(t) /\ ~At(t, "warmup_parallel", "fill") => hand[t] = <<>>
    /\ pc[t] \in {"rest", "permit", "take", "vet", "insert", "hold"} =>
           op[t] \in {"none", "acquire"}
    /\ pc[t] \in {"return", "count"} => op[t] = "release"
    /\ pc[t] = "open" => op[t] \in {"acquire", "release"}
    /\ pc[t] = "fill" => op[t] \in {"warmup", "warmup_parallel"}
    /\ pc[t] = "store" => op[t] \in {"release", "warmup"}
    /\ pc[t] \in {"drain", "sweep"} => op[t] = "close"
    /\ pc[t] = "rest" <=> op[t] = "none"

\* A connect is under way only in the frame of the owner of the create lock.
LockOwner ==
    /\ \A t \in Tasks : inflight[t] > 0 => createLock = t
    /\ \A t \in Tasks : pc[t] = "open" => inflight[t] = 1
    /\ \A t \in Tasks : inflight[t] > 1 => op[t] = "warmup_parallel"
    /\ \A t \in Tasks : inflight[t] > 0 => pc[t] \in {"open", "fill"}
    /\ \A t \in Tasks : createLock = t =>
           pc[t] \in {"take", "vet", "insert", "open", "count", "total",
                      "decide", "store", "fill"}
    /\ \A t \in Tasks :
           pc[t] \in {"open", "count", "total", "decide", "store", "fill"} =>
               createLock = t
CreatingCounts ==
    creating = (IF createLock = NoTask THEN 0 ELSE inflight[createLock])

Conserved ==
    /\ IsFiniteSet(PermitHolders)
    /\ PermitConservation

LEMMA WithoutType ==
    ASSUME NEW S, NEW q \in Seq(S), NEW t
    PROVE  Without(q, t) \in Seq(S)
<1>1. CASE \E i \in DOMAIN q : q[i] = t
  <2> DEFINE i == CHOOSE j \in DOMAIN q : q[j] = t
  <2>1. i \in 1..Len(q)
    BY <1>1
  <2> HIDE DEF i
  <2>2. /\ \A k \in 1..(i-1) : q[k] \in S
        /\ \A k \in (i+1)..Len(q) : q[k] \in S
    BY <2>1
  <2>3. SubSeq(q, 1, i-1) \in Seq(S)
    BY <2>1, <2>2, SubSeqProperties
  <2>4. SubSeq(q, i+1, Len(q)) \in Seq(S)
    BY <2>1, <2>2, SubSeqProperties
  <2>5. RemoveAt(q, i) \in Seq(S)
    BY <2>3, <2>4, ConcatProperties DEF RemoveAt
  <2> QED
    BY <1>1, <2>5 DEF Without, i
<1>2. CASE ~ \E i \in DOMAIN q : q[i] = t
  BY <1>2 DEF Without
<1> QED
  BY <1>1, <1>2

LEMMA TargetType == TargetIdle \in Nat \ {0}
BY PoolAssumption DEF TargetIdle

LEMMA GotoType ==
    ASSUME Typed, NEW t \in Tasks, NEW o \in OpNames, NEW p \in PCs,
           Goto(t, o, p)
    PROVE  op' \in [Tasks -> OpNames] /\ pc' \in [Tasks -> PCs]
BY DEF Typed, Goto

LEMMA TypedStep ==
    ASSUME Typed, Framed, [Next]_vars
    PROVE  Typed'
<1> USE PoolAssumption DEF Typed, Goto, At, Finish, PutDown, Unlock, Unlocked,
      permits, creation, stock, frame, history, OpNames, PCs, Conditions
<1>1. ASSUME NEW t \in Tasks, Acquire(t)
      PROVE  Typed'
  BY <1>1 DEF Acquire
<1>2. ASSUME NEW t \in Tasks, TakePermit(t)
      PROVE  Typed'
  <2>1. permitQueue' \in Seq(Tasks)
    BY <1>2, HeadTailProperties DEF TakePermit
  <2>2. available' \in Nat
    BY <1>2 DEF TakePermit
  <2> QED
    BY <1>2, <2>1, <2>2 DEF TakePermit
<1>3. ASSUME NEW t \in Tasks, PermitRefused(t)
      PROVE  Typed'
  BY <1>3, WithoutType DEF PermitRefused
<1>4. ASSUME NEW t \in Tasks, TakeIdle(t)
      PROVE  Typed'
  BY <1>4 DEF TakeIdle, Front, Last
<1>5. ASSUME NEW t \in Tasks, Keep(t)
      PROVE  Typed'
  BY <1>5 DEF Keep
<1>6. ASSUME NEW t \in Tasks, Discard(t)
      PROVE  Typed'
  BY <1>6 DEF Discard, Gone
<1>7. ASSUME NEW t \in Tasks, JoinLockQueue(t)
      PROVE  Typed'
  BY <1>7 DEF JoinLockQueue
<1>8. ASSUME NEW t \in Tasks, OpenForCheckout(t)
      PROVE  Typed'
  BY <1>8 DEF OpenForCheckout, StartOpen
<1>9. ASSUME NEW t \in Tasks, Checkout(t)
      PROVE  Typed'
  <2>1. Held(t) \in Conns
    BY <1>9 DEF Checkout, OneClient, Framed, Held
  <2>2. IsFiniteSet(checkedOut') /\ available' \in Nat
    BY <1>9, FS_AddElement DEF Checkout
  <2> QED
    BY <1>9, <2>1, <2>2 DEF Checkout
<1>10. ASSUME NEW t \in Tasks, TakeLock(t)
      PROVE  Typed'
  <2>1. lockQueue' \in Seq(Tasks)
    BY <1>10, HeadTailProperties DEF TakeLock
  <2>2. op[t] \in OpNames /\ AfterLock(op[t]) \in PCs
    BY DEF AfterLock
  <2>3. op' \in [Tasks -> OpNames] /\ pc' \in [Tasks -> PCs]
    BY <1>10, <2>2, GotoType DEF TakeLock
  <2> QED
    BY <1>10, <2>1, <2>3 DEF TakeLock
<1>11. ASSUME NEW t \in Tasks, Opened(t)
      PROVE  Typed'
  <2>1. op' \in [Tasks -> OpNames] /\ pc' \in [Tasks -> PCs]
    BY <1>11 DEF Opened
  <2>2. condition' \in [Conns -> Conditions]
    BY <1>11 DEF Opened
  <2>4. hand' \in [Tasks -> Seq(Conns)]
    <3>1. PICK c \in Conns : hand' = [hand EXCEPT ![t] = Append(@, c)]
      BY <1>11 DEF Opened
    <3> QED
      BY <3>1, AppendProperties
  <2>3. inflight' \in [Tasks -> Nat] /\ creating' \in Int
    <3>1. inflight[t] - 1 \in Nat
      BY <1>11 DEF Opened
    <3> QED
      BY <1>11, <3>1 DEF Opened
  <2> QED
    BY <1>11, <2>1, <2>2, <2>3, <2>4 DEF Opened
<1>12. ASSUME NEW t \in Tasks, OpenFailed(t)
      PROVE  Typed'
  <2>1. inflight' \in [Tasks -> Nat] /\ creating' \in Int
    <3>1. inflight[t] - 1 \in Nat
      BY <1>12 DEF OpenFailed
    <3> QED
      BY <1>12, <3>1 DEF OpenFailed
  <2>3. available' \in Nat /\ faults' \in 0..MaxFaults
    BY <1>12 DEF OpenFailed
  <2>2. /\ op' \in [Tasks -> OpNames] /\ pc' \in [Tasks -> PCs]
        /\ createLock' \in Tasks \cup {NoTask} /\ count' \in [Tasks -> Nat]
    <3>1. CASE op[t] = "warmup_parallel"
      BY <1>12, <3>1 DEF OpenFailed
    <3>2. CASE op[t] # "warmup_parallel"
      <4>1. op' \in [Tasks -> OpNames] /\ pc' \in [Tasks -> PCs]
        BY <1>12, <3>2 DEF OpenFailed
      <4>2. createLock' \in Tasks \cup {NoTask} /\ count' \in [Tasks -> Nat]
        <5>1. /\ createLock' = Unlocked(t)
              /\ count' = [count EXCEPT ![t] = 0]
          BY <1>12, <3>2 DEF OpenFailed
        <5> QED
          BY <5>1
      <4> QED
        BY <4>1, <4>2
    <3> QED
      BY <3>1, <3>2
  <2> QED
    BY <1>12, <2>1, <2>2, <2>3 DEF OpenFailed
<1>13. ASSUME NEW t \in Tasks, ClientClose(t)
      PROVE  Typed'
  <2>1. IsFiniteSet(checkedOut') /\ available' \in Nat
    BY <1>13, FS_RemoveElement DEF ClientClose, Detach
  <2> QED
    BY <1>13, <2>1 DEF ClientClose, Detach
<1>14. ASSUME NEW t \in Tasks, ClientReconnect(t)
      PROVE  Typed'
  BY <1>14 DEF ClientReconnect
<1>15. ASSUME NEW t \in Tasks, ClientDrop(t)
      PROVE  Typed'
  BY <1>15 DEF ClientDrop, Gone
<1>16. ASSUME NEW t \in Tasks, Release(t)
      PROVE  Typed'
  <2>1. IsFiniteSet(checkedOut') /\ available' \in Nat
    BY <1>16, FS_RemoveElement DEF Release, Detach
  <2> QED
    BY <1>16, <2>1 DEF Release, Detach
<1>17. ASSUME NEW t \in Tasks, ReturnDisconnected(t)
      PROVE  Typed'
  <2>1. condition' \in [Conns -> Conditions] /\ lockQueue' \in Seq(Tasks)
    <3>1. condition' \in [Conns -> Conditions]
      BY <1>17 DEF ReturnDisconnected, Gone
    <3>2. lockQueue' \in Seq(Tasks)
      <4>1. Append(lockQueue, t) \in Seq(Tasks)
        BY AppendProperties
      <4> QED
        BY <1>17, <4>1 DEF ReturnDisconnected
    <3> QED
      BY <3>1, <3>2
  <2>2. op' \in [Tasks -> OpNames] /\ pc' \in [Tasks -> PCs]
    BY <1>17 DEF ReturnDisconnected
  <2> QED
    BY <1>17, <2>1, <2>2 DEF ReturnDisconnected
<1>18. ASSUME NEW t \in Tasks, ReturnExpired(t)
      PROVE  Typed'
  BY <1>18 DEF ReturnExpired, Gone
<1>19. ASSUME NEW t \in Tasks, ReturnToIdle(t)
      PROVE  Typed'
  BY <1>19 DEF ReturnToIdle, OneClient, Framed, Held
<1>20. ASSUME NEW t \in Tasks, ReplaceCount(t)
      PROVE  Typed'
  BY <1>20 DEF ReplaceCount
<1>21. ASSUME NEW t \in Tasks, ReplaceDecide(t)
      PROVE  Typed'
  <2>1. /\ creating' \in Int /\ inflight' \in [Tasks -> Nat]
        /\ createLock' \in Tasks \cup {NoTask} /\ count' \in [Tasks -> Nat]
    BY <1>21 DEF ReplaceDecide, StartOpen
  <2>2. op' \in [Tasks -> OpNames] /\ pc' \in [Tasks -> PCs]
    BY <1>21 DEF ReplaceDecide
  <2> QED
    BY <1>21, <2>1, <2>2 DEF ReplaceDecide
<1>22. ASSUME NEW t \in Tasks, ReplaceStore(t)
      PROVE  Typed'
  <2>1. Held(t) \in Conns
    BY <1>22 DEF ReplaceStore, OneClient, Framed, Held
  <2>2. idle' \in Seq(Conns) /\ condition' \in [Conns -> Conditions]
    <3>1. condition' \in [Conns -> Conditions]
      BY <1>22 DEF ReplaceStore, Gone
    <3>2. idle' \in Seq(Conns)
      <4>1. Append(idle, Held(t)) \in Seq(Conns)
        BY <2>1, AppendProperties
      <4> QED
        BY <1>22, <4>1 DEF ReplaceStore
    <3> QED
      BY <3>1, <3>2
  <2> QED
    BY <1>22, <2>2 DEF ReplaceStore
<1>23. ASSUME NEW t \in Tasks, Warmup(t)
      PROVE  Typed'
  BY <1>23 DEF Warmup
<1>24. ASSUME NEW t \in Tasks, WarmupParallel(t)
      PROVE  Typed'
  BY <1>24 DEF WarmupParallel
<1>25. ASSUME NEW t \in Tasks, ReadIdleCount(t)
      PROVE  Typed'
  <2>1. op[t] \in OpNames /\ count' \in [Tasks -> Nat]
    BY <1>25 DEF ReadIdleCount
  <2>2. op' \in [Tasks -> OpNames] /\ pc' \in [Tasks -> PCs]
    BY <1>25, <2>1 DEF ReadIdleCount
  <2> QED
    BY <1>25, <2>1, <2>2 DEF ReadIdleCount
<1>26. ASSUME NEW t \in Tasks, WarmupDecide(t)
      PROVE  Typed'
  <2>1. ToCreate(t) \in Nat
    BY FS_CardinalityType, TargetType DEF ToCreate
  <2>2. op[t] \in OpNames
    OBVIOUS
  <2>3. op' \in [Tasks -> OpNames] /\ pc' \in [Tasks -> PCs]
    BY <1>26, <2>2 DEF WarmupDecide
  <2> QED
    BY <1>26, <2>1, <2>3 DEF WarmupDecide
<1>27. ASSUME NEW t \in Tasks, WarmupOpen(t)
      PROVE  Typed'
  <2>1. count' \in [Tasks -> Nat]
    BY <1>27 DEF WarmupOpen
  <2> QED
    BY <1>27, <2>1 DEF WarmupOpen, StartOpen
<1>28. ASSUME NEW t \in Tasks, WarmupStore(t)
      PROVE  Typed'
  <2>1. Held(t) \in Conns
    BY <1>28 DEF WarmupStore, OneClient, Framed, Held
  <2>2. op' \in [Tasks -> OpNames] /\ pc' \in [Tasks -> PCs]
    BY <1>28 DEF WarmupStore
  <2>3. idle' \in Seq(Conns) /\ createLock' \in Tasks \cup {NoTask}
    BY <1>28, <2>1, AppendProperties DEF WarmupStore
  <2> QED
    BY <1>28, <2>2, <2>3 DEF WarmupStore
<1>29. ASSUME NEW t \in Tasks, ParallelStore(t)
      PROVE  Typed'
  BY <1>29 DEF ParallelStore
<1>30. ASSUME NEW t \in Tasks, Close(t)
      PROVE  Typed'
  BY <1>30 DEF Close
<1>31. ASSUME NEW t \in Tasks, Drained(t)
      PROVE  Typed'
  BY <1>31 DEF Drained
<1>32. ASSUME NEW t \in Tasks, DrainTimedOut(t)
      PROVE  Typed'
  BY <1>32 DEF DrainTimedOut
<1>33. ASSUME NEW t \in Tasks, Sweep(t)
      PROVE  Typed'
  BY <1>33 DEF Sweep, Gone
<1>34. ASSUME NEW t \in Tasks, Cancel(t)
      PROVE  Typed'
  BY <1>34, WithoutType DEF Cancel, Gone
<1>35. ASSUME NEW c \in Conns, Degrade(c)
      PROVE  Typed'
  BY <1>35 DEF Degrade
<1>36. CASE UNCHANGED vars
  BY <1>36 DEF vars
<1> QED
  BY <1>1, <1>2, <1>3, <1>4, <1>5, <1>6, <1>7, <1>8, <1>9, <1>10, <1>11, 
     <1>12, <1>13, <1>14, <1>15, <1>16, <1>17, <1>18, <1>19, <1>20, <1>21, 
     <1>22, <1>23, <1>24, <1>25, <1>26, <1>27, <1>28, <1>29, <1>30, <1>31, 
     <1>32, <1>33, <1>34, <1>35, <1>36
     DEF Next, Call, Use, Step, CheckoutStep,
      CreateStep, ReturnStep, WarmupStep, CloseStep

LEMMA FramedStep ==
    ASSUME Typed, Framed, [Next]_vars
    PROVE  Framed'
<1> USE DEF Typed, Framed, OneClient, Goto, At, Finish, PutDown,
      permits, creation, stock, frame, history, OpNames, PCs
<1>1. ASSUME NEW t \in Tasks, Acquire(t)
      PROVE  Framed'
  BY <1>1 DEF Acquire
<1>2. ASSUME NEW t \in Tasks, TakePermit(t)
      PROVE  Framed'
  BY <1>2 DEF TakePermit
<1>3. ASSUME NEW t \in Tasks, PermitRefused(t)
      PROVE  Framed'
  BY <1>3 DEF PermitRefused
<1>4. ASSUME NEW t \in Tasks, TakeIdle(t)
      PROVE  Framed'
  BY <1>4 DEF TakeIdle
<1>5. ASSUME NEW t \in Tasks, Keep(t)
      PROVE  Framed'
  BY <1>5 DEF Keep
<1>6. ASSUME NEW t \in Tasks, Discard(t)
      PROVE  Framed'
  BY <1>6 DEF Discard
<1>7. ASSUME NEW t \in Tasks, JoinLockQueue(t)
      PROVE  Framed'
  BY <1>7 DEF JoinLockQueue
<1>8. ASSUME NEW t \in Tasks, OpenForCheckout(t)
      PROVE  Framed'
  BY <1>8 DEF OpenForCheckout, StartOpen
<1>9. ASSUME NEW t \in Tasks, Checkout(t)
      PROVE  Framed'
  BY <1>9 DEF Checkout
<1>10. ASSUME NEW t \in Tasks, TakeLock(t)
      PROVE  Framed'
  BY <1>10 DEF TakeLock, AfterLock
<1>11. ASSUME NEW t \in Tasks, Opened(t)
      PROVE  Framed'
  BY <1>11 DEF Opened
<1>12. ASSUME NEW t \in Tasks, OpenFailed(t)
      PROVE  Framed'
  BY <1>12 DEF OpenFailed
<1>13. ASSUME NEW t \in Tasks, ClientClose(t)
      PROVE  Framed'
  BY <1>13 DEF ClientClose
<1>14. ASSUME NEW t \in Tasks, ClientReconnect(t)
      PROVE  Framed'
  BY <1>14 DEF ClientReconnect
<1>15. ASSUME NEW t \in Tasks, ClientDrop(t)
      PROVE  Framed'
  BY <1>15 DEF ClientDrop
<1>16. ASSUME NEW t \in Tasks, Release(t)
      PROVE  Framed'
  BY <1>16 DEF Release
<1>17. ASSUME NEW t \in Tasks, ReturnDisconnected(t)
      PROVE  Framed'
  BY <1>17 DEF ReturnDisconnected
<1>18. ASSUME NEW t \in Tasks, ReturnExpired(t)
      PROVE  Framed'
  BY <1>18 DEF ReturnExpired
<1>19. ASSUME NEW t \in Tasks, ReturnToIdle(t)
      PROVE  Framed'
  BY <1>19 DEF ReturnToIdle
<1>20. ASSUME NEW t \in Tasks, ReplaceCount(t)
      PROVE  Framed'
  BY <1>20 DEF ReplaceCount
<1>21. ASSUME NEW t \in Tasks, ReplaceDecide(t)
      PROVE  Framed'
  BY <1>21 DEF ReplaceDecide, StartOpen
<1>22. ASSUME NEW t \in Tasks, ReplaceStore(t)
      PROVE  Framed'
  BY <1>22 DEF ReplaceStore
<1>23. ASSUME NEW t \in Tasks, Warmup(t)
      PROVE  Framed'
  BY <1>23 DEF Warmup
<1>24. ASSUME NEW t \in Tasks, WarmupParallel(t)
      PROVE  Framed'
  BY <1>24 DEF WarmupParallel
<1>25. ASSUME NEW t \in Tasks, ReadIdleCount(t)
      PROVE  Framed'
  BY <1>25 DEF ReadIdleCount
<1>26. ASSUME NEW t \in Tasks, WarmupDecide(t)
      PROVE  Framed'
  BY <1>26 DEF WarmupDecide
<1>27. ASSUME NEW t \in Tasks, WarmupOpen(t)
      PROVE  Framed'
  BY <1>27 DEF WarmupOpen, StartOpen
<1>28. ASSUME NEW t \in Tasks, WarmupStore(t)
      PROVE  Framed'
  BY <1>28 DEF WarmupStore
<1>29. ASSUME NEW t \in Tasks, ParallelStore(t)
      PROVE  Framed'
  BY <1>29 DEF ParallelStore
<1>30. ASSUME NEW t \in Tasks, Close(t)
      PROVE  Framed'
  BY <1>30 DEF Close
<1>31. ASSUME NEW t \in Tasks, Drained(t)
      PROVE  Framed'
  BY <1>31 DEF Drained
<1>32. ASSUME NEW t \in Tasks, DrainTimedOut(t)
      PROVE  Framed'
  BY <1>32 DEF DrainTimedOut
<1>33. ASSUME NEW t \in Tasks, Sweep(t)
      PROVE  Framed'
  BY <1>33 DEF Sweep
<1>34. ASSUME NEW t \in Tasks, Cancel(t)
      PROVE  Framed'
  BY <1>34 DEF Cancel
<1>35. ASSUME NEW c \in Conns, Degrade(c)
      PROVE  Framed'
  BY <1>35 DEF Degrade
<1>36. CASE UNCHANGED vars
  BY <1>36 DEF vars
<1> QED
  BY <1>1, <1>2, <1>3, <1>4, <1>5, <1>6, <1>7, <1>8, <1>9, <1>10, <1>11, 
     <1>12, <1>13, <1>14, <1>15, <1>16, <1>17, <1>18, <1>19, <1>20, <1>21, 
     <1>22, <1>23, <1>24, <1>25, <1>26, <1>27, <1>28, <1>29, <1>30, <1>31, 
     <1>32, <1>33, <1>34, <1>35, <1>36
     DEF Next, Call, Use, Step, CheckoutStep,
      CreateStep, ReturnStep, WarmupStep, CloseStep

LEMMA NoneInFlight ==
    ASSUME Typed, LockOwner, NEW t \in Tasks, pc[t] \notin {"open", "fill"}
    PROVE  inflight[t] = 0
BY DEF Typed, LockOwner

LEMMA LockOwnerStep ==
    ASSUME Typed, Framed, LockOwner, [Next]_vars
    PROVE  LockOwner'
<1> USE PoolAssumption DEF Typed, Framed, LockOwner, OneClient, Goto, At,
      Finish, PutDown, Unlock, Unlocked, permits, creation, stock, frame,
      history, OpNames, PCs
<1>1. ASSUME NEW t \in Tasks, Acquire(t)
      PROVE  LockOwner'
  BY <1>1 DEF Acquire
<1>2. ASSUME NEW t \in Tasks, TakePermit(t)
      PROVE  LockOwner'
  BY <1>2 DEF TakePermit
<1>3. ASSUME NEW t \in Tasks, PermitRefused(t)
      PROVE  LockOwner'
  BY <1>3 DEF PermitRefused
<1>4. ASSUME NEW t \in Tasks, TakeIdle(t)
      PROVE  LockOwner'
  BY <1>4 DEF TakeIdle
<1>5. ASSUME NEW t \in Tasks, Keep(t)
      PROVE  LockOwner'
  BY <1>5 DEF Keep
<1>6. ASSUME NEW t \in Tasks, Discard(t)
      PROVE  LockOwner'
  BY <1>6 DEF Discard
<1>7. ASSUME NEW t \in Tasks, JoinLockQueue(t)
      PROVE  LockOwner'
  BY <1>7 DEF JoinLockQueue
<1>8. ASSUME NEW t \in Tasks, OpenForCheckout(t)
      PROVE  LockOwner'
  <2>1. inflight[t] = 0 /\ createLock = t /\ createLock' = createLock
    BY <1>8, NoneInFlight DEF OpenForCheckout
  <2>2. /\ pc' = [pc EXCEPT ![t] = "open"]
        /\ inflight' = [inflight EXCEPT ![t] = 1]
    BY <1>8, <2>1 DEF OpenForCheckout, StartOpen
  <2> QED
    BY <2>1, <2>2
<1>9. ASSUME NEW t \in Tasks, Checkout(t)
      PROVE  LockOwner'
  BY <1>9 DEF Checkout
<1>10. ASSUME NEW t \in Tasks, TakeLock(t)
      PROVE  LockOwner'
  BY <1>10 DEF TakeLock, AfterLock
<1>11. ASSUME NEW t \in Tasks, Opened(t)
      PROVE  LockOwner'
  <2>1. createLock = t /\ createLock' = createLock
    BY <1>11 DEF Opened
  <2>2. /\ inflight[t] - 1 \in Nat
        /\ inflight' = [inflight EXCEPT ![t] = inflight[t] - 1]
    BY <1>11 DEF Opened
  <2>3. PICK p \in {"insert", "store", "fill"} :
            /\ pc' = [pc EXCEPT ![t] = p] /\ op' = op
            /\ op[t] = "warmup_parallel" => p = "fill"
    <3>1. op' = op
      BY <1>11 DEF Opened
    <3> QED
      BY <1>11, <3>1 DEF Opened
  <2> QED
    BY <2>1, <2>2, <2>3
<1>12. ASSUME NEW t \in Tasks, OpenFailed(t)
      PROVE  LockOwner'
  <2>1. createLock = t
    BY <1>12 DEF OpenFailed
  <2>2. /\ inflight[t] - 1 \in Nat
        /\ inflight' = [inflight EXCEPT ![t] = inflight[t] - 1]
    BY <1>12 DEF OpenFailed
  <2>3. CASE op[t] = "warmup_parallel"
    <3>1. /\ pc[t] = "fill" /\ pc' = pc /\ op' = op
          /\ createLock' = createLock
      BY <1>12, <2>3 DEF OpenFailed
    <3> QED
      BY <2>1, <2>2, <3>1
  <2>4. CASE op[t] # "warmup_parallel"
    <3>1. inflight[t] = 1
      BY <1>12, <2>4 DEF OpenFailed
    <3>2. pc' = [pc EXCEPT ![t] = "rest"] /\ createLock' = NoTask
      BY <1>12, <2>1, <2>4 DEF OpenFailed
    <3> QED
      BY <2>1, <2>2, <3>1, <3>2
  <2> QED
    BY <2>3, <2>4
<1>13. ASSUME NEW t \in Tasks, ClientClose(t)
      PROVE  LockOwner'
  BY <1>13 DEF ClientClose
<1>14. ASSUME NEW t \in Tasks, ClientReconnect(t)
      PROVE  LockOwner'
  BY <1>14 DEF ClientReconnect
<1>15. ASSUME NEW t \in Tasks, ClientDrop(t)
      PROVE  LockOwner'
  BY <1>15 DEF ClientDrop
<1>16. ASSUME NEW t \in Tasks, Release(t)
      PROVE  LockOwner'
  BY <1>16 DEF Release
<1>17. ASSUME NEW t \in Tasks, ReturnDisconnected(t)
      PROVE  LockOwner'
  BY <1>17 DEF ReturnDisconnected
<1>18. ASSUME NEW t \in Tasks, ReturnExpired(t)
      PROVE  LockOwner'
  BY <1>18 DEF ReturnExpired
<1>19. ASSUME NEW t \in Tasks, ReturnToIdle(t)
      PROVE  LockOwner'
  BY <1>19 DEF ReturnToIdle
<1>20. ASSUME NEW t \in Tasks, ReplaceCount(t)
      PROVE  LockOwner'
  <2>1. /\ createLock = t /\ inflight[t] = 0
        /\ \A u \in Tasks \ {t} : op'[u] = op[u]
    <3>1. createLock = t /\ inflight[t] = 0
      BY <1>20, NoneInFlight DEF ReplaceCount
    <3> QED
      BY <1>20, <3>1 DEF ReplaceCount
  <2>2. CASE Len(idle) >= TargetIdle
    <3>1. /\ pc' = [pc EXCEPT ![t] = "rest"]
          /\ createLock' = NoTask /\ inflight' = inflight
      BY <1>20, <2>1, <2>2 DEF ReplaceCount
    <3> QED
      BY <2>1, <3>1
  <2>3. CASE ~(Len(idle) >= TargetIdle)
    <3>1. /\ pc' = [pc EXCEPT ![t] = "total"]
          /\ createLock' = createLock /\ inflight' = inflight
      BY <1>20, <2>1, <2>3 DEF ReplaceCount
    <3> QED
      BY <2>1, <3>1
  <2> QED
    BY <2>2, <2>3
<1>21. ASSUME NEW t \in Tasks, ReplaceDecide(t)
      PROVE  LockOwner'
  <2>1. /\ createLock = t /\ inflight[t] = 0
        /\ \A u \in Tasks \ {t} : op'[u] = op[u]
    <3>1. createLock = t /\ inflight[t] = 0
      BY <1>21, NoneInFlight DEF ReplaceDecide
    <3> QED
      BY <1>21, <3>1 DEF ReplaceDecide
  <2>2. CASE count[t] + Cardinality(checkedOut) >= MaxConnections
    <3>1. /\ pc' = [pc EXCEPT ![t] = "rest"]
          /\ createLock' = NoTask /\ inflight' = inflight
      BY <1>21, <2>1, <2>2 DEF ReplaceDecide, StartOpen
    <3> QED
      BY <2>1, <3>1
  <2>3. CASE ~(count[t] + Cardinality(checkedOut) >= MaxConnections)
    <3>1. /\ pc' = [pc EXCEPT ![t] = "open"]
          /\ createLock' = createLock /\ inflight' = [inflight EXCEPT ![t] = 1]
      BY <1>21, <2>1, <2>3 DEF ReplaceDecide, StartOpen
    <3> QED
      BY <2>1, <3>1
  <2> QED
    BY <2>2, <2>3
<1>22. ASSUME NEW t \in Tasks, ReplaceStore(t)
      PROVE  LockOwner'
  BY <1>22 DEF ReplaceStore
<1>23. ASSUME NEW t \in Tasks, Warmup(t)
      PROVE  LockOwner'
  BY <1>23 DEF Warmup
<1>24. ASSUME NEW t \in Tasks, WarmupParallel(t)
      PROVE  LockOwner'
  BY <1>24 DEF WarmupParallel
<1>25. ASSUME NEW t \in Tasks, ReadIdleCount(t)
      PROVE  LockOwner'
  BY <1>25 DEF ReadIdleCount
<1>26. ASSUME NEW t \in Tasks, WarmupDecide(t)
      PROVE  LockOwner'
  <2>1. /\ createLock = t /\ inflight[t] = 0
        /\ \A u \in Tasks \ {t} : op'[u] = op[u]
    <3>1. createLock = t /\ inflight[t] = 0
      BY <1>26, NoneInFlight DEF WarmupDecide
    <3> QED
      BY <1>26, <3>1 DEF WarmupDecide
  <2>2. CASE ToCreate(t) = 0
    <3>1. /\ pc' = [pc EXCEPT ![t] = "rest"]
          /\ createLock' = NoTask /\ inflight' = inflight
      BY <1>26, <2>1, <2>2 DEF WarmupDecide
    <3> QED
      BY <2>1, <3>1
  <2>3. CASE ~(ToCreate(t) = 0)
    <3>1. /\ pc' = [pc EXCEPT ![t] = "fill"]
          /\ createLock' = createLock /\ inflight' = inflight
      BY <1>26, <2>1, <2>3 DEF WarmupDecide
    <3> QED
      BY <2>1, <3>1
  <2> QED
    BY <2>2, <2>3
<1>27. ASSUME NEW t \in Tasks, WarmupOpen(t)
      PROVE  LockOwner'
  BY <1>27 DEF WarmupOpen, StartOpen
<1>28. ASSUME NEW t \in Tasks, WarmupStore(t)
      PROVE  LockOwner'
  <2>1. createLock = t /\ inflight[t] = 0 /\ inflight' = inflight
    BY <1>28, NoneInFlight DEF WarmupStore
  <2>2. CASE count[t] > 0
    BY <1>28, <2>1, <2>2 DEF WarmupStore
  <2>3. CASE ~(count[t] > 0)
    <3>1. pc' = [pc EXCEPT ![t] = "rest"] /\ createLock' = NoTask
      BY <1>28, <2>1, <2>3 DEF WarmupStore
    <3>2. \A u \in Tasks \ {t} : op'[u] = op[u]
      BY <1>28 DEF WarmupStore
    <3> QED
      BY <2>1, <3>1, <3>2
  <2> QED
    BY <2>2, <2>3
<1>29. ASSUME NEW t \in Tasks, ParallelStore(t)
      PROVE  LockOwner'
  BY <1>29 DEF ParallelStore
<1>30. ASSUME NEW t \in Tasks, Close(t)
      PROVE  LockOwner'
  BY <1>30 DEF Close
<1>31. ASSUME NEW t \in Tasks, Drained(t)
      PROVE  LockOwner'
  BY <1>31 DEF Drained
<1>32. ASSUME NEW t \in Tasks, DrainTimedOut(t)
      PROVE  LockOwner'
  BY <1>32 DEF DrainTimedOut
<1>33. ASSUME NEW t \in Tasks, Sweep(t)
      PROVE  LockOwner'
  BY <1>33 DEF Sweep
<1>34. ASSUME NEW t \in Tasks, Cancel(t)
      PROVE  LockOwner'
  BY <1>34 DEF Cancel
<1>35. ASSUME NEW c \in Conns, Degrade(c)
      PROVE  LockOwner'
  BY <1>35 DEF Degrade
<1>36. CASE UNCHANGED vars
  BY <1>36 DEF vars
<1> QED
  BY <1>1, <1>2, <1>3, <1>4, <1>5, <1>6, <1>7, <1>8, <1>9, <1>10, <1>11, 
     <1>12, <1>13, <1>14, <1>15, <1>16, <1>17, <1>18, <1>19, <1>20, <1>21, 
     <1>22, <1>23, <1>24, <1>25, <1>26, <1>27, <1>28, <1>29, <1>30, <1>31, 
     <1>32, <1>33, <1>34, <1>35, <1>36
     DEF Next, Call, Use, Step, CheckoutStep,
      CreateStep, ReturnStep, WarmupStep, CloseStep

LEMMA CreatingCountsStep ==
    ASSUME Typed, Framed, LockOwner, CreatingCounts, [Next]_vars
    PROVE  CreatingCounts'
<1> USE PoolAssumption DEF Typed, LockOwner, CreatingCounts, Goto, At,
      Finish, PutDown, Unlock, Unlocked, permits, creation, stock, frame,
      history, OpNames, PCs
<1>1. ASSUME NEW t \in Tasks, Acquire(t)
      PROVE  CreatingCounts'
  BY <1>1 DEF Acquire
<1>2. ASSUME NEW t \in Tasks, TakePermit(t)
      PROVE  CreatingCounts'
  BY <1>2 DEF TakePermit
<1>3. ASSUME NEW t \in Tasks, PermitRefused(t)
      PROVE  CreatingCounts'
  BY <1>3 DEF PermitRefused
<1>4. ASSUME NEW t \in Tasks, TakeIdle(t)
      PROVE  CreatingCounts'
  BY <1>4 DEF TakeIdle
<1>5. ASSUME NEW t \in Tasks, Keep(t)
      PROVE  CreatingCounts'
  BY <1>5 DEF Keep
<1>6. ASSUME NEW t \in Tasks, Discard(t)
      PROVE  CreatingCounts'
  BY <1>6 DEF Discard
<1>7. ASSUME NEW t \in Tasks, JoinLockQueue(t)
      PROVE  CreatingCounts'
  BY <1>7 DEF JoinLockQueue
<1>8. ASSUME NEW t \in Tasks, OpenForCheckout(t)
      PROVE  CreatingCounts'
  BY <1>8 DEF OpenForCheckout, StartOpen
<1>9. ASSUME NEW t \in Tasks, Checkout(t)
      PROVE  CreatingCounts'
  BY <1>9, NoneInFlight DEF Checkout
<1>10. ASSUME NEW t \in Tasks, TakeLock(t)
      PROVE  CreatingCounts'
  BY <1>10, NoneInFlight DEF TakeLock, AfterLock
<1>11. ASSUME NEW t \in Tasks, Opened(t)
      PROVE  CreatingCounts'
  BY <1>11 DEF Opened
<1>12. ASSUME NEW t \in Tasks, OpenFailed(t)
      PROVE  CreatingCounts'
  BY <1>12 DEF OpenFailed
<1>13. ASSUME NEW t \in Tasks, ClientClose(t)
      PROVE  CreatingCounts'
  BY <1>13 DEF ClientClose
<1>14. ASSUME NEW t \in Tasks, ClientReconnect(t)
      PROVE  CreatingCounts'
  BY <1>14 DEF ClientReconnect
<1>15. ASSUME NEW t \in Tasks, ClientDrop(t)
      PROVE  CreatingCounts'
  BY <1>15 DEF ClientDrop
<1>16. ASSUME NEW t \in Tasks, Release(t)
      PROVE  CreatingCounts'
  BY <1>16 DEF Release
<1>17. ASSUME NEW t \in Tasks, ReturnDisconnected(t)
      PROVE  CreatingCounts'
  BY <1>17 DEF ReturnDisconnected
<1>18. ASSUME NEW t \in Tasks, ReturnExpired(t)
      PROVE  CreatingCounts'
  BY <1>18 DEF ReturnExpired
<1>19. ASSUME NEW t \in Tasks, ReturnToIdle(t)
      PROVE  CreatingCounts'
  BY <1>19 DEF ReturnToIdle
<1>20. ASSUME NEW t \in Tasks, ReplaceCount(t)
      PROVE  CreatingCounts'
  BY <1>20, NoneInFlight DEF ReplaceCount
<1>21. ASSUME NEW t \in Tasks, ReplaceDecide(t)
      PROVE  CreatingCounts'
  BY <1>21, NoneInFlight DEF ReplaceDecide, StartOpen
<1>22. ASSUME NEW t \in Tasks, ReplaceStore(t)
      PROVE  CreatingCounts'
  BY <1>22, NoneInFlight DEF ReplaceStore
<1>23. ASSUME NEW t \in Tasks, Warmup(t)
      PROVE  CreatingCounts'
  BY <1>23 DEF Warmup
<1>24. ASSUME NEW t \in Tasks, WarmupParallel(t)
      PROVE  CreatingCounts'
  BY <1>24 DEF WarmupParallel
<1>25. ASSUME NEW t \in Tasks, ReadIdleCount(t)
      PROVE  CreatingCounts'
  BY <1>25 DEF ReadIdleCount
<1>26. ASSUME NEW t \in Tasks, WarmupDecide(t)
      PROVE  CreatingCounts'
  BY <1>26, NoneInFlight DEF WarmupDecide
<1>27. ASSUME NEW t \in Tasks, WarmupOpen(t)
      PROVE  CreatingCounts'
  BY <1>27 DEF WarmupOpen, StartOpen
<1>28. ASSUME NEW t \in Tasks, WarmupStore(t)
      PROVE  CreatingCounts'
  BY <1>28, NoneInFlight DEF WarmupStore
<1>29. ASSUME NEW t \in Tasks, ParallelStore(t)
      PROVE  CreatingCounts'
  BY <1>29 DEF ParallelStore
<1>30. ASSUME NEW t \in Tasks, Close(t)
      PROVE  CreatingCounts'
  BY <1>30 DEF Close
<1>31. ASSUME NEW t \in Tasks, Drained(t)
      PROVE  CreatingCounts'
  BY <1>31 DEF Drained
<1>32. ASSUME NEW t \in Tasks, DrainTimedOut(t)
      PROVE  CreatingCounts'
  BY <1>32 DEF DrainTimedOut
<1>33. ASSUME NEW t \in Tasks, Sweep(t)
      PROVE  CreatingCounts'
  BY <1>33 DEF Sweep
<1>34. ASSUME NEW t \in Tasks, Cancel(t)
      PROVE  CreatingCounts'
  BY <1>34, NoneInFlight DEF Cancel
<1>35. ASSUME NEW c \in Conns, Degrade(c)
      PROVE  CreatingCounts'
  BY <1>35 DEF Degrade
<1>36. CASE UNCHANGED vars
  BY <1>36 DEF vars
<1> QED
  BY <1>1, <1>2, <1>3, <1>4, <1>5, <1>6, <1>7, <1>8, <1>9, <1>10, <1>11, 
     <1>12, <1>13, <1>14, <1>15, <1>16, <1>17, <1>18, <1>19, <1>20, <1>21, 
     <1>22, <1>23, <1>24, <1>25, <1>26, <1>27, <1>28, <1>29, <1>30, <1>31, 
     <1>32, <1>33, <1>34, <1>35, <1>36
     DEF Next, Call, Use, Step, CheckoutStep,
      CreateStep, ReturnStep, WarmupStep, CloseStep

LEMMA ConservedStep ==
    ASSUME Typed, Framed, LockOwner, Conserved, [Next]_vars
    PROVE  Conserved'
<1> USE PoolAssumption DEF Typed, Framed, Conserved, PermitConservation,
      Goto, At, Finish, PutDown, permits, creation, stock, frame, history,
      OpNames, PCs
<1>1. ASSUME NEW t \in Tasks, Acquire(t)
      PROVE  Conserved'
  <2>1. UNCHANGED <<PermitHolders, available, checkedOut>>
    BY <1>1 DEF Acquire, PermitHolders
  <2> QED
    BY <2>1
<1>2. ASSUME NEW t \in Tasks, TakePermit(t)
      PROVE  Conserved'
  <2>1. PermitHolders' = PermitHolders \cup {t} /\ t \notin PermitHolders
    BY <1>2 DEF TakePermit, PermitHolders
  <2>2. available' = available - 1 /\ checkedOut' = checkedOut
    BY <1>2 DEF TakePermit
  <2> QED
    <3>1. /\ IsFiniteSet(PermitHolders')
          /\ Cardinality(PermitHolders') = Cardinality(PermitHolders) + 1
      BY <2>1, FS_AddElement
    <3> QED
      BY <2>2, <3>1, FS_CardinalityType
<1>3. ASSUME NEW t \in Tasks, PermitRefused(t)
      PROVE  Conserved'
  <2>1. UNCHANGED <<PermitHolders, available, checkedOut>>
    BY <1>3 DEF PermitRefused, PermitHolders
  <2> QED
    BY <2>1
<1>4. ASSUME NEW t \in Tasks, TakeIdle(t)
      PROVE  Conserved'
  <2>1. UNCHANGED <<PermitHolders, available, checkedOut>>
    BY <1>4 DEF TakeIdle, PermitHolders
  <2> QED
    BY <2>1
<1>5. ASSUME NEW t \in Tasks, Keep(t)
      PROVE  Conserved'
  <2>1. UNCHANGED <<PermitHolders, available, checkedOut>>
    BY <1>5 DEF Keep, PermitHolders
  <2> QED
    BY <2>1
<1>6. ASSUME NEW t \in Tasks, Discard(t)
      PROVE  Conserved'
  <2>1. UNCHANGED <<PermitHolders, available, checkedOut>>
    BY <1>6 DEF Discard, PermitHolders
  <2> QED
    BY <2>1
<1>7. ASSUME NEW t \in Tasks, JoinLockQueue(t)
      PROVE  Conserved'
  <2>1. UNCHANGED <<PermitHolders, available, checkedOut>>
    BY <1>7 DEF JoinLockQueue, PermitHolders
  <2> QED
    BY <2>1
<1>8. ASSUME NEW t \in Tasks, OpenForCheckout(t)
      PROVE  Conserved'
  <2>1. UNCHANGED <<PermitHolders, available, checkedOut>>
    BY <1>8 DEF OpenForCheckout, StartOpen, PermitHolders
  <2> QED
    BY <2>1
<1>9. ASSUME NEW t \in Tasks, Checkout(t)
      PROVE  Conserved'
  <2>1. PermitHolders' = PermitHolders \ {t} /\ t \in PermitHolders
    BY <1>9 DEF Checkout, PermitHolders
  <2>2. /\ IsFiniteSet(PermitHolders')
        /\ Cardinality(PermitHolders') = Cardinality(PermitHolders) - 1
    BY <2>1, FS_RemoveElement
  <2>3. Cardinality(checkedOut') = IF Held(t) \in checkedOut
                                  THEN Cardinality(checkedOut)
                                  ELSE Cardinality(checkedOut) + 1
    BY <1>9, FS_AddElement DEF Checkout
  <2>4. available' = IF Held(t) \in checkedOut THEN available + 1 ELSE available
    BY <1>9 DEF Checkout
  <2> QED
    BY <2>2, <2>3, <2>4, FS_CardinalityType
<1>10. ASSUME NEW t \in Tasks, TakeLock(t)
      PROVE  Conserved'
  <2>1. UNCHANGED <<PermitHolders, available, checkedOut>>
    BY <1>10 DEF TakeLock, AfterLock, PermitHolders
  <2> QED
    BY <2>1
<1>11. ASSUME NEW t \in Tasks, Opened(t)
      PROVE  Conserved'
  <2>1. UNCHANGED <<PermitHolders, available, checkedOut>>
    BY <1>11 DEF Opened, PermitHolders
  <2> QED
    BY <2>1
<1>12. ASSUME NEW t \in Tasks, OpenFailed(t)
      PROVE  Conserved'
  <2>1. CASE op[t] = "acquire"
    <3>1. PermitHolders' = PermitHolders \ {t} /\ t \in PermitHolders
      BY <1>12, <2>1 DEF OpenFailed, PermitHolders
    <3>2. available' = available + 1 /\ checkedOut' = checkedOut
      BY <1>12, <2>1 DEF OpenFailed
    <3> QED
      <4>1. /\ IsFiniteSet(PermitHolders')
            /\ Cardinality(PermitHolders') = Cardinality(PermitHolders) - 1
        BY <3>1, FS_RemoveElement
      <4>2. Cardinality(PermitHolders) \in Nat /\ Cardinality(checkedOut) \in Nat
        BY FS_CardinalityType
      <4> QED
        BY <3>2, <4>1, <4>2
  <2>2. CASE ~(op[t] = "acquire")
    <3>1. UNCHANGED <<PermitHolders, available, checkedOut>>
      BY <1>12, <2>2 DEF OpenFailed, PermitHolders
    <3> QED
      BY <3>1
  <2> QED
    BY <2>1, <2>2
<1>13. ASSUME NEW t \in Tasks, ClientClose(t)
      PROVE  Conserved'
  <2>1. PermitHolders' = PermitHolders
    BY <1>13 DEF ClientClose, PermitHolders
  <2>2. /\ checkedOut' = checkedOut \ {Held(t)}
        /\ available' = IF Held(t) \in checkedOut THEN available + 1 ELSE available
    BY <1>13 DEF ClientClose, Detach
  <2> QED
    <3>1. Cardinality(checkedOut') = IF Held(t) \in checkedOut
                                    THEN Cardinality(checkedOut) - 1
                                    ELSE Cardinality(checkedOut)
      BY <2>2, FS_RemoveElement
    <3> QED
      BY <2>1, <2>2, <3>1, FS_CardinalityType
<1>14. ASSUME NEW t \in Tasks, ClientReconnect(t)
      PROVE  Conserved'
  <2>1. UNCHANGED <<PermitHolders, available, checkedOut>>
    BY <1>14 DEF ClientReconnect, PermitHolders
  <2> QED
    BY <2>1
<1>15. ASSUME NEW t \in Tasks, ClientDrop(t)
      PROVE  Conserved'
  <2>1. UNCHANGED <<PermitHolders, available, checkedOut>>
    BY <1>15 DEF ClientDrop, PermitHolders
  <2> QED
    BY <2>1
<1>16. ASSUME NEW t \in Tasks, Release(t)
      PROVE  Conserved'
  <2>1. PermitHolders' = PermitHolders
    BY <1>16 DEF Release, PermitHolders
  <2>2. /\ checkedOut' = checkedOut \ {Held(t)}
        /\ available' = IF Held(t) \in checkedOut THEN available + 1 ELSE available
    BY <1>16 DEF Release, Detach
  <2> QED
    <3>1. Cardinality(checkedOut') = IF Held(t) \in checkedOut
                                    THEN Cardinality(checkedOut) - 1
                                    ELSE Cardinality(checkedOut)
      BY <2>2, FS_RemoveElement
    <3> QED
      BY <2>1, <2>2, <3>1, FS_CardinalityType
<1>17. ASSUME NEW t \in Tasks, ReturnDisconnected(t)
      PROVE  Conserved'
  <2>1. UNCHANGED <<PermitHolders, available, checkedOut>>
    BY <1>17 DEF ReturnDisconnected, PermitHolders
  <2> QED
    BY <2>1
<1>18. ASSUME NEW t \in Tasks, ReturnExpired(t)
      PROVE  Conserved'
  <2>1. UNCHANGED <<PermitHolders, available, checkedOut>>
    BY <1>18 DEF ReturnExpired, PermitHolders
  <2> QED
    BY <2>1
<1>19. ASSUME NEW t \in Tasks, ReturnToIdle(t)
      PROVE  Conserved'
  <2>1. UNCHANGED <<PermitHolders, available, checkedOut>>
    BY <1>19 DEF ReturnToIdle, PermitHolders
  <2> QED
    BY <2>1
<1>20. ASSUME NEW t \in Tasks, ReplaceCount(t)
      PROVE  Conserved'
  <2>1. UNCHANGED <<PermitHolders, available, checkedOut>>
    BY <1>20 DEF ReplaceCount, PermitHolders
  <2> QED
    BY <2>1
<1>21. ASSUME NEW t \in Tasks, ReplaceDecide(t)
      PROVE  Conserved'
  <2>1. UNCHANGED <<PermitHolders, available, checkedOut>>
    BY <1>21 DEF ReplaceDecide, StartOpen, PermitHolders
  <2> QED
    BY <2>1
<1>22. ASSUME NEW t \in Tasks, ReplaceStore(t)
      PROVE  Conserved'
  <2>1. UNCHANGED <<PermitHolders, available, checkedOut>>
    BY <1>22 DEF ReplaceStore, PermitHolders
  <2> QED
    BY <2>1
<1>23. ASSUME NEW t \in Tasks, Warmup(t)
      PROVE  Conserved'
  <2>1. UNCHANGED <<PermitHolders, available, checkedOut>>
    BY <1>23 DEF Warmup, PermitHolders
  <2> QED
    BY <2>1
<1>24. ASSUME NEW t \in Tasks, WarmupParallel(t)
      PROVE  Conserved'
  <2>1. UNCHANGED <<PermitHolders, available, checkedOut>>
    BY <1>24 DEF WarmupParallel, PermitHolders
  <2> QED
    BY <2>1
<1>25. ASSUME NEW t \in Tasks, ReadIdleCount(t)
      PROVE  Conserved'
  <2>1. UNCHANGED <<PermitHolders, available, checkedOut>>
    BY <1>25 DEF ReadIdleCount, PermitHolders
  <2> QED
    BY <2>1
<1>26. ASSUME NEW t \in Tasks, WarmupDecide(t)
      PROVE  Conserved'
  <2>1. UNCHANGED <<PermitHolders, available, checkedOut>>
    BY <1>26 DEF WarmupDecide, PermitHolders
  <2> QED
    BY <2>1
<1>27. ASSUME NEW t \in Tasks, WarmupOpen(t)
      PROVE  Conserved'
  <2>1. UNCHANGED <<PermitHolders, available, checkedOut>>
    BY <1>27 DEF WarmupOpen, StartOpen, PermitHolders
  <2> QED
    BY <2>1
<1>28. ASSUME NEW t \in Tasks, WarmupStore(t)
      PROVE  Conserved'
  <2>1. UNCHANGED <<PermitHolders, available, checkedOut>>
    BY <1>28 DEF WarmupStore, PermitHolders
  <2> QED
    BY <2>1
<1>29. ASSUME NEW t \in Tasks, ParallelStore(t)
      PROVE  Conserved'
  <2>1. UNCHANGED <<PermitHolders, available, checkedOut>>
    BY <1>29 DEF ParallelStore, PermitHolders
  <2> QED
    BY <2>1
<1>30. ASSUME NEW t \in Tasks, Close(t)
      PROVE  Conserved'
  <2>1. UNCHANGED <<PermitHolders, available, checkedOut>>
    BY <1>30 DEF Close, PermitHolders
  <2> QED
    BY <2>1
<1>31. ASSUME NEW t \in Tasks, Drained(t)
      PROVE  Conserved'
  <2>1. UNCHANGED <<PermitHolders, available, checkedOut>>
    BY <1>31 DEF Drained, PermitHolders
  <2> QED
    BY <2>1
<1>32. ASSUME NEW t \in Tasks, DrainTimedOut(t)
      PROVE  Conserved'
  <2>1. UNCHANGED <<PermitHolders, available, checkedOut>>
    BY <1>32 DEF DrainTimedOut, PermitHolders
  <2> QED
    BY <2>1
<1>33. ASSUME NEW t \in Tasks, Sweep(t)
      PROVE  Conserved'
  <2>1. UNCHANGED <<PermitHolders, available, checkedOut>>
    BY <1>33 DEF Sweep, PermitHolders
  <2> QED
    BY <2>1
<1>34. ASSUME NEW t \in Tasks, Cancel(t)
      PROVE  Conserved'
  <2>1. CASE t \in PermitHolders
    <3>1. PermitHolders' = PermitHolders \ {t} /\ t \in PermitHolders
      BY <1>34, <2>1 DEF Cancel, PermitHolders
    <3>2. available' = available + 1 /\ checkedOut' = checkedOut
      BY <1>34, <2>1 DEF Cancel
    <3> QED
      <4>1. /\ IsFiniteSet(PermitHolders')
            /\ Cardinality(PermitHolders') = Cardinality(PermitHolders) - 1
        BY <3>1, FS_RemoveElement
      <4>2. Cardinality(PermitHolders) \in Nat /\ Cardinality(checkedOut) \in Nat
        BY FS_CardinalityType
      <4> QED
        BY <3>2, <4>1, <4>2
  <2>2. CASE ~(t \in PermitHolders)
    <3>1. UNCHANGED <<PermitHolders, available, checkedOut>>
      BY <1>34, <2>2 DEF Cancel, PermitHolders
    <3> QED
      BY <3>1
  <2> QED
    BY <2>1, <2>2
<1>35. ASSUME NEW c \in Conns, Degrade(c)
      PROVE  Conserved'
  <2>1. UNCHANGED <<PermitHolders, available, checkedOut>>
    BY <1>35 DEF Degrade, PermitHolders
  <2> QED
    BY <2>1
<1>36. CASE UNCHANGED vars
  <2>1. UNCHANGED <<PermitHolders, available, checkedOut>>
    BY <1>36 DEF vars, PermitHolders
  <2> QED
    BY <2>1
<1> QED
  BY <1>1, <1>2, <1>3, <1>4, <1>5, <1>6, <1>7, <1>8, <1>9, <1>10, <1>11, 
     <1>12, <1>13, <1>14, <1>15, <1>16, <1>17, <1>18, <1>19, <1>20, <1>21, 
     <1>22, <1>23, <1>24, <1>25, <1>26, <1>27, <1>28, <1>29, <1>30, <1>31, 
     <1>32, <1>33, <1>34, <1>35, <1>36
     DEF Next, Call, Use, Step, CheckoutStep,
      CreateStep, ReturnStep, WarmupStep, CloseStep

-----------------------------------------------------------------------------
IInv == Typed /\ Framed /\ LockOwner /\ CreatingCounts /\ Conserved

LEMMA InitIInv == Init => IInv
<1> SUFFICES ASSUME Init
             PROVE  IInv
  OBVIOUS
<1> USE PoolAssumption DEF Init
<1>1. Typed
  <2>1. idle \in Seq(Conns)
    OBVIOUS
  <2>2. condition \in [Conns -> Conditions]
    BY DEF Conditions
  <2>3. IsFiniteSet(checkedOut)
    BY FS_EmptySet
  <2> QED
    <3>1. /\ op \in [Tasks -> OpNames] /\ pc \in [Tasks -> PCs]
          /\ hand \in [Tasks -> Seq(Conns)]
      BY DEF OpNames, PCs
    <3>2. /\ permitQueue \in Seq(Tasks) /\ lockQueue \in Seq(Tasks)
          /\ checkedOut \subseteq Conns /\ faults \in 0..MaxFaults
      OBVIOUS
    <3>3. available \in Nat /\ creating \in Int
      OBVIOUS
    <3>4. shut \in BOOLEAN /\ closeReturned \in BOOLEAN
      OBVIOUS
    <3>5. createLock \in Tasks \cup {NoTask}
      OBVIOUS
    <3>6. inflight \in [Tasks -> Nat] /\ count \in [Tasks -> Nat]
      OBVIOUS
    <3> HIDE DEF Init
    <3> QED
      BY <2>1, <2>2, <2>3, <3>1, <3>2, <3>3, <3>4, <3>5, <3>6
         DEF Typed
<1>2. Framed
  BY DEF Framed, OneClient, At
<1>3. LockOwner /\ CreatingCounts
  BY DEF LockOwner, CreatingCounts
<1>4. Conserved
  <2>1. PermitHolders = {}
    BY DEF PermitHolders
  <2> QED
    BY <2>1, FS_EmptySet DEF Conserved, PermitConservation
<1> QED
  BY <1>1, <1>2, <1>3, <1>4 DEF IInv

LEMMA IInvStep == IInv /\ [Next]_vars => IInv'
BY TypedStep, FramedStep, LockOwnerStep, CreatingCountsStep, ConservedStep
   DEF IInv

LEMMA Invariance == Spec => []IInv
BY InitIInv, IInvStep, PTL DEF Spec

\* Every variable keeps its type, and the two counters their bounds: the
\* semaphore never holds more permits than it was made with, and the number
\* of connects under way never becomes negative.
THEOREM TypeCorrect == Spec => []TypeOK
<1>1. IInv => TypeOK
  <2> SUFFICES ASSUME IInv
               PROVE  TypeOK
    OBVIOUS
  <2>1. available \in 0..MaxConnections
    BY PoolAssumption, FS_CardinalityType
       DEF IInv, Typed, Conserved, PermitConservation
  <2>2. creating \in Nat
    BY DEF IInv, Typed, CreatingCounts
  <2> QED
    BY <2>1, <2>2 DEF IInv, Typed, TypeOK
<1> QED
  BY <1>1, Invariance, PTL

\* No permit is ever lost or duplicated, whatever fails, is cancelled, is
\* closed or is forgotten, for any number of tasks and any max_connections.
THEOREM PermitsConserved == Spec => []PermitConservation
<1>1. IInv => PermitConservation
  BY DEF IInv, Conserved
<1> QED
  BY <1>1, Invariance, PTL

\* Connects are made only under connection_create_lock, and
\* creating_connections always equals those its owner has under way.
THEOREM CreationIsSerialised == Spec => []CreationSerialised
<1>1. IInv => CreationSerialised
  BY DEF IInv, LockOwner, CreatingCounts, CreationSerialised
<1> QED
  BY <1>1, Invariance, PTL

\* A checkout opens its own socket only when no other one is being opened.
THEOREM NoDuplicateSockets == Spec => NoDuplicateSocket
<1>1. IInv /\ [Next]_vars => [\A t \in Tasks : OpenForCheckout(t) => creating = 0]_vars
  <2> SUFFICES ASSUME IInv, NEW t \in Tasks, OpenForCheckout(t)
               PROVE  creating = 0
    OBVIOUS
  <2>1. inflight[t] = 0 /\ createLock = t
    BY NoneInFlight DEF IInv, OpenForCheckout, At
  <2> QED
    BY <2>1, PoolAssumption DEF IInv, CreatingCounts
<1> QED
  BY <1>1, Invariance, PTL DEF Spec, NoDuplicateSocket
-----------------------------------------------------------------------------
(* Every live client has one owner. *)


\* A step of task t owns before and after it only what the deque and t's own
\* frame own, and clients that did not exist before.
OwnStep(t) ==
    /\ \A u \in Tasks \ {t} : hand'[u] = hand[u]
    /\ IsInjective(idle') /\ IsInjective(hand'[t])
    /\ Range(idle') \cap Range(hand'[t]) = {}
    /\ \A c \in Range(idle') \cup Range(hand'[t]) :
           c \in Range(idle) \cup Range(hand[t]) \/ ~InUse(c)
    /\ \A c \in Conns : InUse(c)' <=>
           \/ c \in Range(idle') \cup Range(hand'[t])
           \/ InUse(c) /\ c \notin Range(idle) \cup Range(hand[t])

LEMMA OwnerFrame ==
    ASSUME Typed, Typed', OneOwner, NEW t \in Tasks, OwnStep(t)
    PROVE  OneOwner'
<1> DEFINE h == hand'[t]
<1>1. /\ hand'[t] = h /\ \A u \in Tasks \ {t} : hand'[u] = hand[u]
      /\ IsInjective(h) /\ IsInjective(idle') /\ Range(idle') \cap Range(h) = {}
      /\ \A c \in Range(idle') \cup Range(h) :
             c \in Range(idle) \cup Range(hand[t]) \/ ~InUse(c)
      /\ \A c \in Conns : InUse(c)' <=>
             \/ c \in Range(idle') \cup Range(h)
             \/ InUse(c) /\ c \notin Range(idle) \cup Range(hand[t])
      /\ h \in Seq(Conns)
  BY DEF OwnStep, Typed
<1> HIDE DEF h
<1>2. \A u \in Tasks : Range(hand[u]) \subseteq {c \in Conns : InUse(c)}
  BY DEF OneOwner
<1>3. \A u \in Tasks \ {t} : /\ Range(hand[u]) \cap Range(idle') = {}
                             /\ Range(hand[u]) \cap Range(h) = {}
  BY <1>1, <1>2 DEF OneOwner
<1>4. \A u \in Tasks : IsInjective(hand'[u]) /\ Range(idle') \cap Range(hand'[u]) = {}
  BY <1>1, <1>3 DEF OneOwner
<1>5. \A u, v \in Tasks : u # v => Range(hand'[u]) \cap Range(hand'[v]) = {}
  BY <1>1, <1>3 DEF OneOwner
<1>6. {c \in Conns : InUse(c)'} =
          Range(idle') \cup UNION {Range(hand'[u]) : u \in Tasks}
  <2>1. \A c : c \in UNION {Range(hand'[u]) : u \in Tasks} <=>
                 c \in Range(h) \/ \E u \in Tasks \ {t} : c \in Range(hand[u])
    BY <1>1
  <2>2. \A c \in Conns : InUse(c) /\ c \notin Range(idle) \cup Range(hand[t]) <=>
                 \E u \in Tasks \ {t} : c \in Range(hand[u])
    BY <1>2 DEF OneOwner
  <2>3. Range(idle') \subseteq Conns /\ Range(h) \subseteq Conns
    BY <1>1, RangeOfSeq DEF Typed
  <2>4. \A u \in Tasks : Range(hand[u]) \subseteq Conns
    BY <1>2
  <2> QED
    BY <1>1, <2>1, <2>2, <2>3, <2>4
<1> QED
  BY <1>1, <1>4, <1>5, <1>6 DEF OneOwner

LEMMA HeldOwned ==
    ASSUME Typed, Framed, OneOwner, NEW t \in Tasks, OneClient(t)
    PROVE  /\ Held(t) \in Conns /\ InUse(Held(t))
           /\ Range(hand[t]) = {Held(t)}
           /\ Held(t) \notin Range(idle)
<1>1. hand[t] \in Seq(Conns) /\ Len(hand[t]) = 1
  BY DEF Typed, Framed
<1>2. Range(hand[t]) = {Held(t)} /\ Held(t) \in Conns
  BY <1>1, OneOwned DEF Held
<1> QED
  BY <1>2 DEF OneOwner

\* A step that moves no client and ends or starts no session.
LEMMA OwnersKept ==
    ASSUME OneOwner, hand' = hand, idle' = idle,
           \A c \in Conns : InUse(c)' <=> InUse(c)
    PROVE  OneOwner'
BY DEF OneOwner

LEMMA OwnerStep ==
    ASSUME Typed, Typed', Framed, OneOwner, [Next]_vars
    PROVE  OneOwner'
<1> USE DEF At, Finish, Goto, permits, creation, stock, frame, history
<1>1. ASSUME NEW t \in Tasks, Acquire(t)
      PROVE  OneOwner'
  BY <1>1, OwnersKept DEF Acquire, InUse
<1>2. ASSUME NEW t \in Tasks, TakePermit(t)
      PROVE  OneOwner'
  BY <1>2, OwnersKept DEF TakePermit, InUse
<1>3. ASSUME NEW t \in Tasks, PermitRefused(t)
      PROVE  OneOwner'
  BY <1>3, OwnersKept DEF PermitRefused, InUse
<1>4. ASSUME NEW t \in Tasks, TakeIdle(t)
      PROVE  OneOwner'
  <2>1. /\ Range(Front(idle)) = Range(idle) \ {Last(idle)}
        /\ IsInjective(Front(idle)) /\ Last(idle) \in Range(idle)
    BY <1>4, FrontOwned DEF TakeIdle, OneOwner, Typed
  <2>2. hand[t] = <<>>
    BY <1>4 DEF TakeIdle, Framed, OneClient
  <2>3. /\ hand'[t] = <<Last(idle)>> /\ \A u \in Tasks \ {t} : hand'[u] = hand[u]
        /\ idle' = Front(idle) /\ condition' = condition
    BY <1>4 DEF TakeIdle, Typed
  <2>4. \A c \in Range(idle) : InUse(c) /\ c \in Conns
    BY DEF OneOwner
  <2>5. /\ <<Last(idle)>> \in Seq(Conns) /\ Range(<<Last(idle)>>) = {Last(idle)}
        /\ IsInjective(<<Last(idle)>>)
    BY <2>1, <2>4, SingletonOwned
  <2>9. OwnStep(t)
    BY <2>1, <2>2, <2>3, <2>4, <2>5, NoneOwned DEF OwnStep, InUse
  <2> QED
    BY <2>9, OwnerFrame
<1>5. ASSUME NEW t \in Tasks, Keep(t)
      PROVE  OneOwner'
  BY <1>5, OwnersKept DEF Keep, InUse
<1>6. ASSUME NEW t \in Tasks, Discard(t)
      PROVE  OneOwner'
  <2>1. Range(hand[t]) = {Held(t)} /\ Held(t) \notin Range(idle)
    BY <1>6, HeldOwned DEF Discard, OneClient
  <2>2. \A c \in Conns : InUse(c)' <=> InUse(c) /\ c # Held(t)
    BY <1>6 DEF Discard, Gone, InUse
  <2>3. /\ hand'[t] = <<>> /\ \A u \in Tasks \ {t} : hand'[u] = hand[u]
        /\ idle' = idle
    BY <1>6 DEF Discard, PutDown, Typed
  <2>4. \A c \in Range(idle) : InUse(c) /\ c \in Conns
    BY DEF OneOwner
  <2>9. OwnStep(t)
    BY <2>1, <2>2, <2>3, <2>4, NoneOwned DEF OwnStep, OneOwner
  <2> QED
    BY <2>9, OwnerFrame
<1>7. ASSUME NEW t \in Tasks, JoinLockQueue(t)
      PROVE  OneOwner'
  BY <1>7, OwnersKept DEF JoinLockQueue, InUse
<1>8. ASSUME NEW t \in Tasks, OpenForCheckout(t)
      PROVE  OneOwner'
  BY <1>8, OwnersKept DEF OpenForCheckout, StartOpen, InUse
<1>9. ASSUME NEW t \in Tasks, Checkout(t)
      PROVE  OneOwner'
  BY <1>9, OwnersKept DEF Checkout, InUse
<1>10. ASSUME NEW t \in Tasks, TakeLock(t)
      PROVE  OneOwner'
  BY <1>10, OwnersKept DEF TakeLock, InUse
<1>11. ASSUME NEW t \in Tasks, Opened(t)
      PROVE  OneOwner'
  <2>1. PICK c \in Conns :
            /\ ~InUse(c)
            /\ condition' = [condition EXCEPT ![c] = "good"]
            /\ hand' = [hand EXCEPT ![t] = Append(hand[t], c)]
    BY <1>11 DEF Opened
  <2>2. Range(hand[t]) \subseteq {d \in Conns : InUse(d)}
    BY DEF OneOwner
  <2>3. /\ Range(Append(hand[t], c)) = Range(hand[t]) \cup {c}
        /\ IsInjective(Append(hand[t], c))
        /\ Append(hand[t], c) \in Seq(Conns)
    BY <2>1, <2>2, AppendOwned, AppendProperties DEF OneOwner, Typed
  <2>4. \A d \in Conns : InUse(d)' <=> InUse(d) \/ d = c
    BY <2>1 DEF InUse, Typed
  <2>5. /\ idle' = idle /\ hand'[t] = Append(hand[t], c)
        /\ \A u \in Tasks \ {t} : hand'[u] = hand[u]
    BY <1>11, <2>1 DEF Opened, Typed
  <2>6. \A d \in Range(idle) : InUse(d) /\ d \in Conns
    BY DEF OneOwner
  <2> HIDE <1>11
  <2>9. OwnStep(t)
    BY <2>1, <2>2, <2>3, <2>4, <2>5, <2>6 DEF OwnStep, OneOwner
  <2> QED
    BY <2>9, OwnerFrame
<1>12. ASSUME NEW t \in Tasks, OpenFailed(t)
      PROVE  OneOwner'
  BY <1>12, OwnersKept DEF OpenFailed, InUse
<1>13. ASSUME NEW t \in Tasks, ClientClose(t)
      PROVE  OneOwner'
  <2>1. Held(t) \in Conns /\ InUse(Held(t))
    BY <1>13, HeldOwned DEF ClientClose, OneClient
  <2>2. \A c \in Conns : InUse(c)' <=> InUse(c)
    BY <1>13, <2>1 DEF ClientClose, InUse, Typed
  <2> QED
    BY <1>13, <2>2, OwnersKept DEF ClientClose
<1>14. ASSUME NEW t \in Tasks, ClientReconnect(t)
      PROVE  OneOwner'
  <2>1. Held(t) \in Conns /\ InUse(Held(t))
    BY <1>14, HeldOwned DEF ClientReconnect, OneClient
  <2>2. \A c \in Conns : InUse(c)' <=> InUse(c)
    BY <1>14, <2>1 DEF ClientReconnect, InUse, Typed
  <2> QED
    BY <1>14, <2>2, OwnersKept DEF ClientReconnect
<1>15. ASSUME NEW t \in Tasks, ClientDrop(t)
      PROVE  OneOwner'
  <2>1. Range(hand[t]) = {Held(t)} /\ Held(t) \notin Range(idle)
    BY <1>15, HeldOwned DEF ClientDrop, OneClient
  <2>2. \A c \in Conns : InUse(c)' <=> InUse(c) /\ c # Held(t)
    BY <1>15 DEF ClientDrop, Gone, InUse
  <2>3. /\ hand'[t] = <<>> /\ \A u \in Tasks \ {t} : hand'[u] = hand[u]
        /\ idle' = idle
    BY <1>15 DEF ClientDrop, PutDown, Typed
  <2>4. \A c \in Range(idle) : InUse(c) /\ c \in Conns
    BY DEF OneOwner
  <2>9. OwnStep(t)
    BY <2>1, <2>2, <2>3, <2>4, NoneOwned DEF OwnStep, OneOwner
  <2> QED
    BY <2>9, OwnerFrame
<1>16. ASSUME NEW t \in Tasks, Release(t)
      PROVE  OneOwner'
  BY <1>16, OwnersKept DEF Release, InUse
<1>17. ASSUME NEW t \in Tasks, ReturnDisconnected(t)
      PROVE  OneOwner'
  <2>1. Range(hand[t]) = {Held(t)} /\ Held(t) \notin Range(idle)
    BY <1>17, HeldOwned DEF ReturnDisconnected, OneClient
  <2>2. \A c \in Conns : InUse(c)' <=> InUse(c) /\ c # Held(t)
    BY <1>17 DEF ReturnDisconnected, Gone, InUse
  <2>3. /\ hand'[t] = <<>> /\ \A u \in Tasks \ {t} : hand'[u] = hand[u]
        /\ idle' = idle
    BY <1>17 DEF ReturnDisconnected, PutDown, Typed
  <2>4. \A c \in Range(idle) : InUse(c) /\ c \in Conns
    BY DEF OneOwner
  <2>9. OwnStep(t)
    BY <2>1, <2>2, <2>3, <2>4, NoneOwned DEF OwnStep, OneOwner
  <2> QED
    BY <2>9, OwnerFrame
<1>18. ASSUME NEW t \in Tasks, ReturnExpired(t)
      PROVE  OneOwner'
  <2>1. Range(hand[t]) = {Held(t)} /\ Held(t) \notin Range(idle)
    BY <1>18, HeldOwned DEF ReturnExpired, OneClient
  <2>2. \A c \in Conns : InUse(c)' <=> InUse(c) /\ c # Held(t)
    BY <1>18 DEF ReturnExpired, Gone, InUse
  <2>3. /\ hand'[t] = <<>> /\ \A u \in Tasks \ {t} : hand'[u] = hand[u]
        /\ idle' = idle
    BY <1>18 DEF ReturnExpired, PutDown, Typed
  <2>4. \A c \in Range(idle) : InUse(c) /\ c \in Conns
    BY DEF OneOwner
  <2>9. OwnStep(t)
    BY <2>1, <2>2, <2>3, <2>4, NoneOwned DEF OwnStep, OneOwner
  <2> QED
    BY <2>9, OwnerFrame
<1>19. ASSUME NEW t \in Tasks, ReturnToIdle(t)
      PROVE  OneOwner'
  <2>1. /\ Held(t) \in Conns /\ InUse(Held(t)) /\ Held(t) \notin Range(idle)
        /\ Range(hand[t]) = {Held(t)}
    BY <1>19, HeldOwned DEF ReturnToIdle, OneClient
  <2>2. Range(idle') = Range(idle) \cup {Held(t)} /\ IsInjective(idle')
    BY <1>19, <2>1, AppendOwned DEF ReturnToIdle, OneOwner, Typed
  <2>3. /\ hand'[t] = <<>> /\ \A u \in Tasks \ {t} : hand'[u] = hand[u]
        /\ condition' = condition
    BY <1>19 DEF ReturnToIdle, PutDown, Typed
  <2>4. \A c \in Range(idle) : InUse(c) /\ c \in Conns
    BY DEF OneOwner
  <2>9. OwnStep(t)
    BY <2>1, <2>2, <2>3, <2>4, NoneOwned DEF OwnStep, InUse
  <2> QED
    BY <2>9, OwnerFrame
<1>20. ASSUME NEW t \in Tasks, ReplaceCount(t)
      PROVE  OneOwner'
  BY <1>20, OwnersKept DEF ReplaceCount, InUse
<1>21. ASSUME NEW t \in Tasks, ReplaceDecide(t)
      PROVE  OneOwner'
  BY <1>21, OwnersKept DEF ReplaceDecide, StartOpen, InUse
<1>22. ASSUME NEW t \in Tasks, ReplaceStore(t)
      PROVE  OneOwner'
  <2>1. /\ Held(t) \in Conns /\ InUse(Held(t)) /\ Held(t) \notin Range(idle)
        /\ Range(hand[t]) = {Held(t)}
    BY <1>22, HeldOwned DEF ReplaceStore, OneClient
  <2>2. \A c \in Range(idle) : InUse(c) /\ c \in Conns
    BY DEF OneOwner
  <2>3. hand'[t] = <<>> /\ \A u \in Tasks \ {t} : hand'[u] = hand[u]
    BY <1>22 DEF ReplaceStore, PutDown, Typed
  <2>4. CASE Len(idle) >= TargetIdle
    <3>1. idle' = idle /\ \A c \in Conns : InUse(c)' <=> InUse(c) /\ c # Held(t)
      BY <1>22, <2>4 DEF ReplaceStore, Gone, InUse
    <3>9. OwnStep(t)
      BY <2>1, <2>2, <2>3, <3>1, NoneOwned DEF OwnStep, OneOwner
    <3> QED
      BY <3>9, OwnerFrame
  <2>5. CASE ~(Len(idle) >= TargetIdle)
    <3>1. idle' = Append(idle, Held(t)) /\ condition' = condition
      BY <1>22, <2>5 DEF ReplaceStore
    <3>2. Range(idle') = Range(idle) \cup {Held(t)} /\ IsInjective(idle')
      BY <2>1, <3>1, AppendOwned DEF OneOwner, Typed
    <3>9. OwnStep(t)
      BY <2>1, <2>2, <2>3, <3>1, <3>2, NoneOwned DEF OwnStep, InUse
    <3> QED
      BY <3>9, OwnerFrame
  <2> QED
    BY <2>4, <2>5
<1>23. ASSUME NEW t \in Tasks, Warmup(t)
      PROVE  OneOwner'
  BY <1>23, OwnersKept DEF Warmup, InUse
<1>24. ASSUME NEW t \in Tasks, WarmupParallel(t)
      PROVE  OneOwner'
  BY <1>24, OwnersKept DEF WarmupParallel, InUse
<1>25. ASSUME NEW t \in Tasks, ReadIdleCount(t)
      PROVE  OneOwner'
  BY <1>25, OwnersKept DEF ReadIdleCount, InUse
<1>26. ASSUME NEW t \in Tasks, WarmupDecide(t)
      PROVE  OneOwner'
  BY <1>26, OwnersKept DEF WarmupDecide, InUse
<1>27. ASSUME NEW t \in Tasks, WarmupOpen(t)
      PROVE  OneOwner'
  BY <1>27, OwnersKept DEF WarmupOpen, StartOpen, InUse
<1>28. ASSUME NEW t \in Tasks, WarmupStore(t)
      PROVE  OneOwner'
  <2>1. /\ Held(t) \in Conns /\ InUse(Held(t)) /\ Held(t) \notin Range(idle)
        /\ Range(hand[t]) = {Held(t)}
    BY <1>28, HeldOwned DEF WarmupStore, OneClient
  <2>2. Range(idle') = Range(idle) \cup {Held(t)} /\ IsInjective(idle')
    BY <1>28, <2>1, AppendOwned DEF WarmupStore, OneOwner, Typed
  <2>3. /\ hand'[t] = <<>> /\ \A u \in Tasks \ {t} : hand'[u] = hand[u]
        /\ condition' = condition
    BY <1>28 DEF WarmupStore, PutDown, Typed
  <2>4. \A c \in Range(idle) : InUse(c) /\ c \in Conns
    BY DEF OneOwner
  <2>9. OwnStep(t)
    BY <2>1, <2>2, <2>3, <2>4, NoneOwned DEF OwnStep, InUse
  <2> QED
    BY <2>9, OwnerFrame
<1>29. ASSUME NEW t \in Tasks, ParallelStore(t)
      PROVE  OneOwner'
  <2>1. /\ idle' = idle \o hand[t] /\ condition' = condition
        /\ hand'[t] = <<>> /\ \A u \in Tasks \ {t} : hand'[u] = hand[u]
    BY <1>29 DEF ParallelStore, PutDown, Typed
  <2>2. Range(idle') = Range(idle) \cup Range(hand[t]) /\ IsInjective(idle')
    <3>1. /\ idle \in Seq(Conns) /\ hand[t] \in Seq(Conns)
          /\ IsInjective(idle) /\ IsInjective(hand[t])
          /\ Range(idle) \cap Range(hand[t]) = {}
      BY DEF OneOwner, Typed
    <3> QED
      BY <2>1, <3>1, ConcatOwned
  <2>3. \A c \in Range(idle') : InUse(c) /\ c \in Conns
    BY <2>2 DEF OneOwner
  <2>9. OwnStep(t)
    BY <2>1, <2>2, <2>3, NoneOwned DEF OwnStep, InUse
  <2> QED
    BY <2>9, OwnerFrame
<1>30. ASSUME NEW t \in Tasks, Close(t)
      PROVE  OneOwner'
  BY <1>30, OwnersKept DEF Close, InUse
<1>31. ASSUME NEW t \in Tasks, Drained(t)
      PROVE  OneOwner'
  BY <1>31, OwnersKept DEF Drained, InUse
<1>32. ASSUME NEW t \in Tasks, DrainTimedOut(t)
      PROVE  OneOwner'
  BY <1>32, OwnersKept DEF DrainTimedOut, InUse
<1>33. ASSUME NEW t \in Tasks, Sweep(t)
      PROVE  OneOwner'
  <2>1. hand' = hand /\ idle' = <<>>
    BY <1>33 DEF Sweep
  <2>2. \A c \in Conns : InUse(c)' <=> InUse(c) /\ c \notin Range(idle)
    BY <1>33 DEF Sweep, Gone, InUse, Range
  <2>4. \A c \in Range(hand[t]) : InUse(c) /\ c \in Conns /\ c \notin Range(idle)
    BY DEF OneOwner
  <2>9. OwnStep(t)
    BY <2>1, <2>2, <2>4, NoneOwned DEF OwnStep, OneOwner
  <2> QED
    BY <2>9, OwnerFrame
<1>34. ASSUME NEW t \in Tasks, Cancel(t)
      PROVE  OneOwner'
  <2>1. hand'[t] = <<>> /\ idle' = idle /\ \A u \in Tasks \ {t} : hand'[u] = hand[u]
    BY <1>34 DEF Cancel, PutDown, Typed
  <2>2. \A c \in Conns : InUse(c)' <=> InUse(c) /\ c \notin Range(hand[t])
    BY <1>34 DEF Cancel, Gone, InUse, Range
  <2>3. \A c \in Range(idle) : InUse(c) /\ c \in Conns /\ c \notin Range(hand[t])
    BY DEF OneOwner
  <2>9. OwnStep(t)
    BY <2>1, <2>2, <2>3, NoneOwned DEF OwnStep, OneOwner
  <2> QED
    BY <2>9, OwnerFrame
<1>35. ASSUME NEW c \in Conns, Degrade(c)
      PROVE  OneOwner'
  <2>1. \A d \in Conns : InUse(d)' <=> InUse(d)
    BY <1>35 DEF Degrade, InUse, Typed
  <2> QED
    BY <1>35, <2>1, OwnersKept DEF Degrade
<1>36. CASE UNCHANGED vars
  BY <1>36, OwnersKept DEF vars, InUse
<1> QED
  BY <1>1, <1>2, <1>3, <1>4, <1>5, <1>6, <1>7, <1>8, <1>9, <1>10, <1>11, 
     <1>12, <1>13, <1>14, <1>15, <1>16, <1>17, <1>18, <1>19, <1>20, <1>21, 
     <1>22, <1>23, <1>24, <1>25, <1>26, <1>27, <1>28, <1>29, <1>30, <1>31, 
     <1>32, <1>33, <1>34, <1>35, <1>36
     DEF Next, Call, Use, Step, CheckoutStep,
      CreateStep, ReturnStep, WarmupStep, CloseStep

LEMMA InitOneOwner == Init => OneOwner
<1> SUFFICES ASSUME Init
             PROVE  OneOwner
  OBVIOUS
<1>1. PICK k \in 0..MinConnections : idle \in [1..k -> Conns] /\ IsInjective(idle)
  BY DEF Init
<1>2. \A t \in Tasks : hand[t] = <<>>
  BY DEF Init
<1>3. Range(idle) \subseteq Conns
  BY <1>1 DEF Range
<1>4. \A c \in Conns : InUse(c) <=> c \in Range(idle)
  BY DEF Init, InUse, Range
<1>5. UNION {Range(hand[t]) : t \in Tasks} = {}
  BY <1>2, NoneOwned
<1> QED
  BY <1>1, <1>2, <1>3, <1>4, <1>5, NoneOwned DEF OneOwner

LEMMA OwnerInvariance == Spec => [](IInv /\ OneOwner)
<1>1. Init => IInv /\ OneOwner
  BY InitIInv, InitOneOwner
<1>2. IInv /\ OneOwner /\ [Next]_vars => (IInv /\ OneOwner)'
  BY IInvStep, OwnerStep DEF IInv
<1> QED
  BY <1>1, <1>2, PTL DEF Spec

\* A live client is in the idle deque once, or in the frame of one task, and
\* never in both or in two frames; a client that is in neither is closed.
THEOREM OneOwnerEach == Spec => []OneOwner
BY OwnerInvariance, PTL
-----------------------------------------------------------------------------
(* The pool implements Lending. *)

User == [t \in Tasks |-> IF At(t, "acquire", "hold") THEN Held(t) ELSE NoConn]

LEMMA UserType ==
    ASSUME IInv, OneOwner, NEW t \in Tasks, At(t, "acquire", "hold")
    PROVE  /\ User[t] = Held(t) /\ Held(t) \in Conns /\ Held(t) # NoConn
           /\ \A u \in Tasks \ {t} : User[u] # Held(t)
<1>1. OneClient(t)
  BY DEF At, OneClient
<1>2. Held(t) \in Conns /\ Range(hand[t]) = {Held(t)}
  BY <1>1, HeldOwned DEF IInv
<1>3. Held(t) # NoConn
  BY <1>2, PoolAssumption
<1>4. ASSUME NEW u \in Tasks \ {t}, At(u, "acquire", "hold")
      PROVE  Held(u) # Held(t)
  <2>1. Range(hand[u]) = {Held(u)}
    BY <1>4, HeldOwned DEF IInv, At, OneClient
  <2> QED
    BY <1>2, <2>1 DEF OneOwner
<1> QED
  BY <1>2, <1>3, <1>4 DEF User

LEMMA SameCardinality == \A S : L!Cardinality(S) = Cardinality(S)
BY DEF L!Cardinality, Cardinality

\* A step that neither admits, lends nor ends a loan.
LEMMA LendingStutter ==
    ASSUME UNCHANGED <<shut, PermitHolders, checkedOut>>,
           \A u \in Tasks : User'[u] = User[u]
    PROVE  UNCHANGED L!vars
BY DEF L!vars, User

LEMMA LendingStep ==
    ASSUME IInv, OneOwner, [Next]_vars
    PROVE  [L!Next]_(L!vars)
<1> USE DEF At, Finish, Goto, PutDown, permits, creation, stock, frame, history
<1>t. Typed /\ Framed
  BY DEF IInv
<1>1. ASSUME NEW t \in Tasks, Acquire(t)
      PROVE  [L!Next]_(L!vars)
  <2>1. UNCHANGED <<shut, PermitHolders, checkedOut>>
    BY <1>1, <1>t DEF Acquire, PermitHolders, Typed, Framed
  <2>2. \A u \in Tasks : User'[u] = User[u]
    BY <1>1, <1>t DEF Acquire, User, Held, Typed, Framed
  <2> QED
    BY <2>1, <2>2, LendingStutter
<1>2. ASSUME NEW t \in Tasks, TakePermit(t)
      PROVE  [L!Next]_(L!vars)
  <2>1. /\ ~shut /\ t \notin PermitHolders /\ User[t] = NoConn
        /\ PermitHolders' = PermitHolders \cup {t}
    BY <1>2, <1>t DEF TakePermit, PermitHolders, User, Typed, OpNames, PCs
  <2>2. Cardinality(PermitHolders) + Cardinality(checkedOut) < MaxConnections
    BY <1>2, PoolAssumption, FS_CardinalityType
       DEF TakePermit, IInv, Typed, Conserved, PermitConservation
  <2>3. UNCHANGED <<shut, checkedOut>> /\ \A u \in Tasks : User'[u] = User[u]
    BY <1>2, <1>t DEF TakePermit, User, Held, Typed
  <2>4. User' = User
    BY <2>3 DEF User
  <2>5. L!Admit(t)
    BY <2>1, <2>2, <2>3, <2>4, SameCardinality DEF L!Admit, User
  <2> QED
    BY <2>5 DEF L!Next
<1>3. ASSUME NEW t \in Tasks, PermitRefused(t)
      PROVE  [L!Next]_(L!vars)
  <2>1. UNCHANGED <<shut, PermitHolders, checkedOut>>
    BY <1>3, <1>t DEF PermitRefused, PermitHolders, Typed, Framed
  <2>2. \A u \in Tasks : User'[u] = User[u]
    BY <1>3, <1>t DEF PermitRefused, User, Held, Typed, Framed
  <2> QED
    BY <2>1, <2>2, LendingStutter
<1>4. ASSUME NEW t \in Tasks, TakeIdle(t)
      PROVE  [L!Next]_(L!vars)
  <2>1. UNCHANGED <<shut, PermitHolders, checkedOut>>
    BY <1>4, <1>t DEF TakeIdle, PermitHolders, Typed, Framed
  <2>2. \A u \in Tasks : User'[u] = User[u]
    BY <1>4, <1>t DEF TakeIdle, User, Held, Typed, Framed
  <2> QED
    BY <2>1, <2>2, LendingStutter
<1>5. ASSUME NEW t \in Tasks, Keep(t)
      PROVE  [L!Next]_(L!vars)
  <2>1. UNCHANGED <<shut, PermitHolders, checkedOut>>
    BY <1>5, <1>t DEF Keep, PermitHolders, Typed, Framed
  <2>2. \A u \in Tasks : User'[u] = User[u]
    BY <1>5, <1>t DEF Keep, User, Held, Typed, Framed
  <2> QED
    BY <2>1, <2>2, LendingStutter
<1>6. ASSUME NEW t \in Tasks, Discard(t)
      PROVE  [L!Next]_(L!vars)
  <2>1. UNCHANGED <<shut, PermitHolders, checkedOut>>
    BY <1>6, <1>t DEF Discard, PermitHolders, Typed, Framed
  <2>2. \A u \in Tasks : User'[u] = User[u]
    BY <1>6, <1>t DEF Discard, User, Held, Typed, Framed
  <2> QED
    BY <2>1, <2>2, LendingStutter
<1>7. ASSUME NEW t \in Tasks, JoinLockQueue(t)
      PROVE  [L!Next]_(L!vars)
  <2>1. UNCHANGED <<shut, PermitHolders, checkedOut>>
    BY <1>7, <1>t DEF JoinLockQueue, PermitHolders, Typed, Framed
  <2>2. \A u \in Tasks : User'[u] = User[u]
    BY <1>7, <1>t DEF JoinLockQueue, User, Held, Typed, Framed
  <2> QED
    BY <2>1, <2>2, LendingStutter
<1>8. ASSUME NEW t \in Tasks, OpenForCheckout(t)
      PROVE  [L!Next]_(L!vars)
  <2>1. UNCHANGED <<shut, PermitHolders, checkedOut>>
    BY <1>8, <1>t DEF OpenForCheckout, StartOpen, PermitHolders, Typed, Framed
  <2>2. \A u \in Tasks : User'[u] = User[u]
    BY <1>8, <1>t DEF OpenForCheckout, StartOpen, User, Held, Typed, Framed
  <2> QED
    BY <2>1, <2>2, LendingStutter
<1>9. ASSUME NEW t \in Tasks, Checkout(t)
      PROVE  [L!Next]_(L!vars)
  <2>1. /\ PermitHolders' = PermitHolders \ {t} /\ t \in PermitHolders
        /\ checkedOut' = checkedOut \cup {Held(t)} /\ shut' = shut
    BY <1>9, <1>t DEF Checkout, PermitHolders, Typed, Framed
  <2>2. Held(t) \in Conns /\ Held(t) # NoConn /\ \A u \in Tasks \ {t} :
            At(u, "acquire", "hold") => Held(u) # Held(t)
    <3>1. Held(t) \in Conns /\ Range(hand[t]) = {Held(t)}
      BY <1>9, <1>t, HeldOwned DEF Checkout, OneClient
    <3>2. ASSUME NEW u \in Tasks \ {t}, At(u, "acquire", "hold")
          PROVE  Held(u) # Held(t)
      <4>1. Range(hand[u]) = {Held(u)}
        BY <1>t, <3>2, HeldOwned DEF OneClient
      <4> QED
        BY <3>1, <4>1 DEF OneOwner
    <3> QED
      BY <3>1, <3>2, PoolAssumption
  <2>3. ~At(t, "acquire", "hold")
    BY <1>9 DEF Checkout
  <2>4. \A u \in Tasks : User[u] # Held(t)
    BY <2>2, <2>3 DEF User
  <2>5. User' = [User EXCEPT ![t] = Held(t)]
    BY <1>9, <1>t DEF Checkout, User, Held, Typed
  <2>6. PICK c \in Conns : c = Held(t)
    BY <2>2
  <2>7. L!Lend(t, c)
    BY <2>1, <2>4, <2>5, <2>6 DEF L!Lend, User
  <2> QED
    BY <2>7 DEF L!Next
<1>10. ASSUME NEW t \in Tasks, TakeLock(t)
      PROVE  [L!Next]_(L!vars)
  <2>1. UNCHANGED <<shut, PermitHolders, checkedOut>>
    BY <1>10, <1>t DEF TakeLock, AfterLock, PermitHolders, Typed, Framed
  <2>2. \A u \in Tasks : User'[u] = User[u]
    BY <1>10, <1>t DEF TakeLock, AfterLock, User, Held, Typed, Framed
  <2> QED
    BY <2>1, <2>2, LendingStutter
<1>11. ASSUME NEW t \in Tasks, Opened(t)
      PROVE  [L!Next]_(L!vars)
  <2>1. UNCHANGED <<shut, PermitHolders, checkedOut>>
    BY <1>11, <1>t DEF Opened, PermitHolders, Typed, Framed
  <2>2. \A u \in Tasks : User'[u] = User[u]
    BY <1>11, <1>t DEF Opened, User, Held, Typed, Framed
  <2> QED
    BY <2>1, <2>2, LendingStutter
<1>12. ASSUME NEW t \in Tasks, OpenFailed(t)
      PROVE  [L!Next]_(L!vars)
  <2>1. /\ UNCHANGED <<shut, checkedOut>>
        /\ \A u \in Tasks : User'[u] = User[u]
    BY <1>12, <1>t DEF OpenFailed, User, Held, Typed
  <2>2. CASE op[t] = "acquire"
    <3>1. PermitHolders' = PermitHolders \ {t} /\ t \in PermitHolders
      BY <1>12, <1>t, <2>2 DEF OpenFailed, PermitHolders, Typed, Framed
    <3>2. User' = User
      BY <2>1 DEF User
    <3>3. L!GiveUp(t)
      BY <2>1, <3>1, <3>2 DEF L!GiveUp, User
    <3> QED
      BY <3>3 DEF L!Next
  <2>3. CASE ~(op[t] = "acquire")
    <3>1. PermitHolders' = PermitHolders
      BY <1>12, <1>t, <2>3 DEF OpenFailed, PermitHolders, Typed
    <3> QED
      BY <2>1, <3>1, LendingStutter
  <2> QED
    BY <2>2, <2>3
<1>13. ASSUME NEW t \in Tasks, ClientClose(t)
      PROVE  [L!Next]_(L!vars)
  <2>1. User[t] = Held(t) /\ Held(t) # NoConn
    BY <1>13, UserType DEF ClientClose
  <2>2. checkedOut' = checkedOut \ {Held(t)} /\ shut' = shut
    BY <1>13 DEF ClientClose, Detach
  <2>3. PermitHolders' = PermitHolders
    BY <1>13, <1>t DEF ClientClose, PermitHolders, Typed
  <2>4. User' = User
    BY <1>13, <1>t DEF ClientClose, User, Held, Typed
  <2>5. L!EndLoan(t)
    BY <2>1, <2>2, <2>3, <2>4 DEF L!EndLoan, User
  <2> QED
    BY <2>5 DEF L!Next
<1>14. ASSUME NEW t \in Tasks, ClientReconnect(t)
      PROVE  [L!Next]_(L!vars)
  <2>1. UNCHANGED <<shut, PermitHolders, checkedOut>>
    BY <1>14, <1>t DEF ClientReconnect, PermitHolders, Typed, Framed
  <2>2. \A u \in Tasks : User'[u] = User[u]
    BY <1>14, <1>t DEF ClientReconnect, User, Held, Typed, Framed
  <2> QED
    BY <2>1, <2>2, LendingStutter
<1>15. ASSUME NEW t \in Tasks, ClientDrop(t)
      PROVE  [L!Next]_(L!vars)
  <2>1. User[t] = Held(t) /\ Held(t) # NoConn
    BY <1>15, UserType DEF ClientDrop
  <2>2. checkedOut' = checkedOut /\ shut' = shut
    BY <1>15 DEF ClientDrop, Detach
  <2>3. PermitHolders' = PermitHolders
    BY <1>15, <1>t DEF ClientDrop, PermitHolders, Typed
  <2>4. User' = [User EXCEPT ![t] = NoConn]
    BY <1>15, <1>t DEF ClientDrop, User, Held, Typed
  <2>5. L!Forget(t)
    BY <2>1, <2>2, <2>3, <2>4 DEF L!Forget, User
  <2> QED
    BY <2>5 DEF L!Next
<1>16. ASSUME NEW t \in Tasks, Release(t)
      PROVE  [L!Next]_(L!vars)
  <2>1. User[t] = Held(t) /\ Held(t) # NoConn
    BY <1>16, UserType DEF Release
  <2>2. checkedOut' = checkedOut \ {Held(t)} /\ shut' = shut
    BY <1>16 DEF Release, Detach
  <2>3. PermitHolders' = PermitHolders
    BY <1>16, <1>t DEF Release, PermitHolders, Typed
  <2>4. User' = [User EXCEPT ![t] = NoConn]
    BY <1>16, <1>t DEF Release, User, Held, Typed
  <2>5. L!GiveBack(t)
    BY <2>1, <2>2, <2>3, <2>4 DEF L!GiveBack, User
  <2> QED
    BY <2>5 DEF L!Next
<1>17. ASSUME NEW t \in Tasks, ReturnDisconnected(t)
      PROVE  [L!Next]_(L!vars)
  <2>1. UNCHANGED <<shut, PermitHolders, checkedOut>>
    BY <1>17, <1>t DEF ReturnDisconnected, PermitHolders, Typed, Framed
  <2>2. \A u \in Tasks : User'[u] = User[u]
    BY <1>17, <1>t DEF ReturnDisconnected, User, Held, Typed, Framed
  <2> QED
    BY <2>1, <2>2, LendingStutter
<1>18. ASSUME NEW t \in Tasks, ReturnExpired(t)
      PROVE  [L!Next]_(L!vars)
  <2>1. UNCHANGED <<shut, PermitHolders, checkedOut>>
    BY <1>18, <1>t DEF ReturnExpired, PermitHolders, Typed, Framed
  <2>2. \A u \in Tasks : User'[u] = User[u]
    BY <1>18, <1>t DEF ReturnExpired, User, Held, Typed, Framed
  <2> QED
    BY <2>1, <2>2, LendingStutter
<1>19. ASSUME NEW t \in Tasks, ReturnToIdle(t)
      PROVE  [L!Next]_(L!vars)
  <2>1. UNCHANGED <<shut, PermitHolders, checkedOut>>
    BY <1>19, <1>t DEF ReturnToIdle, PermitHolders, Typed, Framed
  <2>2. \A u \in Tasks : User'[u] = User[u]
    BY <1>19, <1>t DEF ReturnToIdle, User, Held, Typed, Framed
  <2> QED
    BY <2>1, <2>2, LendingStutter
<1>20. ASSUME NEW t \in Tasks, ReplaceCount(t)
      PROVE  [L!Next]_(L!vars)
  <2>1. UNCHANGED <<shut, PermitHolders, checkedOut>>
    BY <1>20, <1>t DEF ReplaceCount, PermitHolders, Typed, Framed
  <2>2. \A u \in Tasks : User'[u] = User[u]
    BY <1>20, <1>t DEF ReplaceCount, User, Held, Typed, Framed
  <2> QED
    BY <2>1, <2>2, LendingStutter
<1>21. ASSUME NEW t \in Tasks, ReplaceDecide(t)
      PROVE  [L!Next]_(L!vars)
  <2>1. UNCHANGED <<shut, PermitHolders, checkedOut>>
    BY <1>21, <1>t DEF ReplaceDecide, StartOpen, PermitHolders, Typed, Framed
  <2>2. \A u \in Tasks : User'[u] = User[u]
    BY <1>21, <1>t DEF ReplaceDecide, StartOpen, User, Held, Typed, Framed
  <2> QED
    BY <2>1, <2>2, LendingStutter
<1>22. ASSUME NEW t \in Tasks, ReplaceStore(t)
      PROVE  [L!Next]_(L!vars)
  <2>1. UNCHANGED <<shut, PermitHolders, checkedOut>>
    BY <1>22, <1>t DEF ReplaceStore, PermitHolders, Typed, Framed
  <2>2. \A u \in Tasks : User'[u] = User[u]
    BY <1>22, <1>t DEF ReplaceStore, User, Held, Typed, Framed
  <2> QED
    BY <2>1, <2>2, LendingStutter
<1>23. ASSUME NEW t \in Tasks, Warmup(t)
      PROVE  [L!Next]_(L!vars)
  <2>1. UNCHANGED <<shut, PermitHolders, checkedOut>>
    BY <1>23, <1>t DEF Warmup, PermitHolders, Typed, Framed
  <2>2. \A u \in Tasks : User'[u] = User[u]
    BY <1>23, <1>t DEF Warmup, User, Held, Typed, Framed
  <2> QED
    BY <2>1, <2>2, LendingStutter
<1>24. ASSUME NEW t \in Tasks, WarmupParallel(t)
      PROVE  [L!Next]_(L!vars)
  <2>1. UNCHANGED <<shut, PermitHolders, checkedOut>>
    BY <1>24, <1>t DEF WarmupParallel, PermitHolders, Typed, Framed
  <2>2. \A u \in Tasks : User'[u] = User[u]
    BY <1>24, <1>t DEF WarmupParallel, User, Held, Typed, Framed
  <2> QED
    BY <2>1, <2>2, LendingStutter
<1>25. ASSUME NEW t \in Tasks, ReadIdleCount(t)
      PROVE  [L!Next]_(L!vars)
  <2>1. UNCHANGED <<shut, PermitHolders, checkedOut>>
    BY <1>25, <1>t DEF ReadIdleCount, PermitHolders, Typed, Framed
  <2>2. \A u \in Tasks : User'[u] = User[u]
    BY <1>25, <1>t DEF ReadIdleCount, User, Held, Typed, Framed
  <2> QED
    BY <2>1, <2>2, LendingStutter
<1>26. ASSUME NEW t \in Tasks, WarmupDecide(t)
      PROVE  [L!Next]_(L!vars)
  <2>1. UNCHANGED <<shut, PermitHolders, checkedOut>>
    BY <1>26, <1>t DEF WarmupDecide, PermitHolders, Typed, Framed
  <2>2. \A u \in Tasks : User'[u] = User[u]
    BY <1>26, <1>t DEF WarmupDecide, User, Held, Typed, Framed
  <2> QED
    BY <2>1, <2>2, LendingStutter
<1>27. ASSUME NEW t \in Tasks, WarmupOpen(t)
      PROVE  [L!Next]_(L!vars)
  <2>1. UNCHANGED <<shut, PermitHolders, checkedOut>>
    BY <1>27, <1>t DEF WarmupOpen, StartOpen, PermitHolders, Typed, Framed
  <2>2. \A u \in Tasks : User'[u] = User[u]
    BY <1>27, <1>t DEF WarmupOpen, StartOpen, User, Held, Typed, Framed
  <2> QED
    BY <2>1, <2>2, LendingStutter
<1>28. ASSUME NEW t \in Tasks, WarmupStore(t)
      PROVE  [L!Next]_(L!vars)
  <2>1. UNCHANGED <<shut, PermitHolders, checkedOut>>
    BY <1>28, <1>t DEF WarmupStore, PermitHolders, Typed, Framed
  <2>2. \A u \in Tasks : User'[u] = User[u]
    BY <1>28, <1>t DEF WarmupStore, User, Held, Typed, Framed
  <2> QED
    BY <2>1, <2>2, LendingStutter
<1>29. ASSUME NEW t \in Tasks, ParallelStore(t)
      PROVE  [L!Next]_(L!vars)
  <2>1. UNCHANGED <<shut, PermitHolders, checkedOut>>
    BY <1>29, <1>t DEF ParallelStore, PermitHolders, Typed, Framed
  <2>2. \A u \in Tasks : User'[u] = User[u]
    BY <1>29, <1>t DEF ParallelStore, User, Held, Typed, Framed
  <2> QED
    BY <2>1, <2>2, LendingStutter
<1>30. ASSUME NEW t \in Tasks, Close(t)
      PROVE  [L!Next]_(L!vars)
  <2>1. PermitHolders' = PermitHolders /\ checkedOut' = checkedOut /\ shut' = TRUE
    BY <1>30, <1>t DEF Close, PermitHolders, Typed
  <2>2. User' = User
    BY <1>30, <1>t DEF Close, User, Held, Typed
  <2>3. L!Shut
    BY <2>1, <2>2 DEF L!Shut, User
  <2> QED
    BY <2>3 DEF L!Next
<1>31. ASSUME NEW t \in Tasks, Drained(t)
      PROVE  [L!Next]_(L!vars)
  <2>1. UNCHANGED <<shut, PermitHolders, checkedOut>>
    BY <1>31, <1>t DEF Drained, PermitHolders, Typed, Framed
  <2>2. \A u \in Tasks : User'[u] = User[u]
    BY <1>31, <1>t DEF Drained, User, Held, Typed, Framed
  <2> QED
    BY <2>1, <2>2, LendingStutter
<1>32. ASSUME NEW t \in Tasks, DrainTimedOut(t)
      PROVE  [L!Next]_(L!vars)
  <2>1. UNCHANGED <<shut, PermitHolders, checkedOut>>
    BY <1>32, <1>t DEF DrainTimedOut, PermitHolders, Typed, Framed
  <2>2. \A u \in Tasks : User'[u] = User[u]
    BY <1>32, <1>t DEF DrainTimedOut, User, Held, Typed, Framed
  <2> QED
    BY <2>1, <2>2, LendingStutter
<1>33. ASSUME NEW t \in Tasks, Sweep(t)
      PROVE  [L!Next]_(L!vars)
  <2>1. UNCHANGED <<shut, PermitHolders, checkedOut>>
    BY <1>33, <1>t DEF Sweep, PermitHolders, Typed, Framed
  <2>2. \A u \in Tasks : User'[u] = User[u]
    BY <1>33, <1>t DEF Sweep, User, Held, Typed, Framed
  <2> QED
    BY <2>1, <2>2, LendingStutter
<1>34. ASSUME NEW t \in Tasks, Cancel(t)
      PROVE  [L!Next]_(L!vars)
  <2>1. /\ UNCHANGED <<shut, checkedOut>>
        /\ \A u \in Tasks : User'[u] = User[u]
    BY <1>34, <1>t DEF Cancel, User, Held, Typed
  <2>2. CASE t \in PermitHolders
    <3>1. PermitHolders' = PermitHolders \ {t} /\ t \in PermitHolders
      BY <1>34, <1>t, <2>2 DEF Cancel, PermitHolders, Typed, Framed
    <3>2. User' = User
      BY <2>1 DEF User
    <3>3. L!GiveUp(t)
      BY <2>1, <3>1, <3>2 DEF L!GiveUp, User
    <3> QED
      BY <3>3 DEF L!Next
  <2>3. CASE ~(t \in PermitHolders)
    <3>1. PermitHolders' = PermitHolders
      BY <1>34, <1>t, <2>3 DEF Cancel, PermitHolders, Typed
    <3> QED
      BY <2>1, <3>1, LendingStutter
  <2> QED
    BY <2>2, <2>3
<1>35. ASSUME NEW c \in Conns, Degrade(c)
      PROVE  [L!Next]_(L!vars)
  <2>1. UNCHANGED <<shut, PermitHolders, checkedOut>>
    BY <1>35 DEF Degrade, PermitHolders
  <2>2. \A u \in Tasks : User'[u] = User[u]
    BY <1>35 DEF Degrade, User, Held
  <2> QED
    BY <2>1, <2>2, LendingStutter
<1>36. CASE UNCHANGED vars
  <2>1. UNCHANGED <<shut, PermitHolders, checkedOut>>
    BY <1>36 DEF vars, PermitHolders
  <2>2. \A u \in Tasks : User'[u] = User[u]
    BY <1>36 DEF vars, User, Held
  <2> QED
    BY <2>1, <2>2, LendingStutter
<1> QED
  BY <1>1, <1>2, <1>3, <1>4, <1>5, <1>6, <1>7, <1>8, <1>9, <1>10, <1>11, 
     <1>12, <1>13, <1>14, <1>15, <1>16, <1>17, <1>18, <1>19, <1>20, <1>21, 
     <1>22, <1>23, <1>24, <1>25, <1>26, <1>27, <1>28, <1>29, <1>30, <1>31, 
     <1>32, <1>33, <1>34, <1>35, <1>36
     DEF Next, Call, Use, Step, CheckoutStep,
      CreateStep, ReturnStep, WarmupStep, CloseStep

\* The pool lends as Lending promises: never more admissions and loans than
\* max_connections, a connection to one task at a time, and no admission
\* after close(); every step of the pool is a step of Lending or none.
THEOREM PoolImplementsLending == Spec => ImplementsLending
<1>1. Init => L!Init
  <2> SUFFICES ASSUME Init
               PROVE  L!Init
    OBVIOUS
  <2>1. PermitHolders = {}
    BY DEF Init, PermitHolders
  <2>2. User = [t \in Tasks |-> NoConn]
    BY DEF Init, User, At
  <2> QED
    BY <2>1, <2>2 DEF Init, L!Init, User
<1>2. IInv /\ OneOwner /\ [Next]_vars => [L!Next]_(L!vars)
  BY LendingStep
<1> QED
  BY <1>1, <1>2, OwnerInvariance, PTL DEF Spec, ImplementsLending, L!Spec
-----------------------------------------------------------------------------
(* Entries of checked_out, when every caller hands back what it acquired. *)

Returned == \A c \in checkedOut : \E t \in Tasks : User[t] = c

\* A step of a task that holds no client that a caller uses.
Aside(t) ==
    /\ checkedOut' = checkedOut
    /\ pc[t] # "hold"
    /\ \A u \in Tasks \ {t} : op'[u] = op[u] /\ pc'[u] = pc[u] /\ hand'[u] = hand[u]

LEMMA AsideReturned ==
    ASSUME Returned, NoConn \notin checkedOut, NEW t \in Tasks, Aside(t)
    PROVE  Returned'
<1>1. \A u \in Tasks : User[u] # NoConn => At(u, "acquire", "hold") /\ u # t
  BY DEF User, At, Aside
<1>2. \A u \in Tasks \ {t} : User'[u] = User[u]
  BY DEF User, At, Held, Aside
<1> QED
  BY <1>1, <1>2 DEF Returned, Aside, User

LEMMA StepsAside ==
    ASSUME IInv, NEW t \in Tasks, Call(t) \/ Step(t) \/ Cancel(t), ~Checkout(t)
    PROVE  Aside(t)
<1> USE DEF Aside, At, Finish, Goto, PutDown, permits, creation, stock, frame, history
<1>t. Typed /\ Framed
  BY DEF IInv
<1>1. CASE Call(t)
  BY <1>1, <1>t DEF Typed, Call, Acquire, Warmup, WarmupParallel, Close
<1>2. CASE CheckoutStep(t)
  BY <1>2, <1>t DEF Typed, CheckoutStep, TakePermit, PermitRefused, TakeIdle, Keep,
     Discard, JoinLockQueue, OpenForCheckout
<1>3. CASE CreateStep(t)
  BY <1>3, <1>t DEF Typed, CreateStep, TakeLock, Opened, OpenFailed
<1>4. CASE ReturnStep(t)
  BY <1>4, <1>t DEF Typed, ReturnStep, ReturnDisconnected, ReturnExpired, ReturnToIdle,
     ReplaceCount, ReplaceDecide, ReplaceStore
<1>5. CASE WarmupStep(t)
  BY <1>5, <1>t DEF Typed, WarmupStep, ReadIdleCount, WarmupDecide, WarmupOpen,
     WarmupStore, ParallelStore
<1>6. CASE CloseStep(t)
  BY <1>6, <1>t DEF Typed, CloseStep, Drained, DrainTimedOut, Sweep
<1>7. CASE Cancel(t)
  BY <1>7, <1>t DEF Typed, Cancel
<1> QED
  BY <1>1, <1>2, <1>3, <1>4, <1>5, <1>6, <1>7 DEF Step

LEMMA ReturnedStep ==
    ASSUME IInv, OneOwner, Returned, "client_drop" \notin Calls, [Next]_vars
    PROVE  Returned'
<1> USE DEF At, Finish, Goto, PutDown, permits, creation, stock, frame, history
<1>t. Typed /\ Framed /\ NoConn \notin checkedOut
  BY PoolAssumption DEF IInv, Typed
<1>1. ASSUME NEW t \in Tasks, Call(t) \/ Step(t) \/ Cancel(t), ~Checkout(t)
      PROVE  Returned'
  BY <1>1, <1>t, StepsAside, AsideReturned
<1>2. ASSUME NEW t \in Tasks, Checkout(t)
      PROVE  Returned'
  <2>1. \A u \in Tasks \ {t} : User'[u] = User[u]
    BY <1>2, <1>t DEF Checkout, User, Held, Typed
  <2>2. User[t] = NoConn /\ User'[t] = Held(t)
    BY <1>2, <1>t DEF Checkout, User, Held, Typed
  <2>3. checkedOut' = checkedOut \cup {Held(t)}
    BY <1>2 DEF Checkout
  <2> QED
    BY <1>t, <2>1, <2>2, <2>3 DEF Returned
<1>3. ASSUME NEW t \in Tasks, Use(t)
      PROVE  Returned'
  <2>1. At(t, "acquire", "hold") /\ ~ClientDrop(t)
    BY <1>3 DEF Use, ClientClose, ClientReconnect, ClientDrop, Release
  <2>2. /\ \A u \in Tasks \ {t} : User'[u] = User[u]
        /\ checkedOut' \subseteq checkedOut
        /\ User'[t] = User[t] \/ Held(t) \notin checkedOut'
    BY <1>3, <1>t, <2>1 DEF Use, ClientClose, ClientReconnect, Release, Detach,
       User, Held, Typed
  <2>3. User[t] = Held(t)
    BY <2>1 DEF User
  <2> QED
    BY <2>2, <2>3 DEF Returned
<1>4. ASSUME NEW c \in Conns, Degrade(c)
      PROVE  Returned'
  BY <1>4 DEF Degrade, Returned, User, Held
<1>5. CASE UNCHANGED vars
  BY <1>5 DEF vars, Returned, User, Held
<1> QED
  BY <1>1, <1>2, <1>3, <1>4, <1>5 DEF Next

\* acquire, release, Client::close and every cancelled or failed operation: when
\* no caller drops its client, each entry of checked_out is the client of exactly
\* one task that uses it.
THEOREM EntriesAreInUse == Spec => []NoStaleCheckout
<1> DEFINE R == "client_drop" \notin Calls => Returned
<1>1. Init => R
  BY DEF Init, Returned
<1>2. IInv /\ OneOwner /\ R /\ [Next]_vars => R'
  BY ReturnedStep
<1>3. IInv /\ OneOwner /\ R => NoStaleCheckout
  <2> SUFFICES ASSUME IInv, OneOwner, Returned, "client_drop" \notin Calls,
                      NEW c \in checkedOut
               PROVE  Cardinality(Holders(c)) = 1
    BY DEF NoStaleCheckout
  <2>1. PICK t \in Tasks : User[t] = c
    BY DEF Returned
  <2>2. c # NoConn
    BY PoolAssumption DEF IInv, Typed
  <2>3. At(t, "acquire", "hold")
    BY <2>1, <2>2 DEF User
  <2>4. \A u \in Tasks : At(u, "acquire", "hold") => User[u] = Held(u)
    BY DEF User
  <2>5. Holders(c) = {t}
    BY <2>1, <2>3, <2>4, UserType DEF Holders
  <2> QED
    BY <2>5, FS_Singleton
<1> HIDE DEF R
<1> QED
  BY <1>1, <1>2, <1>3, OwnerInvariance, PTL DEF Spec
=============================================================================
