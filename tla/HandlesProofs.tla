---------------------------- MODULE HandlesProofs ----------------------------
(***************************************************************************)
(* Proofs about Handles for every value of its constants: any number of    *)
(* objects, clients and statements.                                        *)
(***************************************************************************)
EXTENDS Handles, FiniteSetTheorems, TLAPS

MaybeClient == Clients \cup {Nil}
Leaving == {"pool", "closed"}
Working == {"query", "running"}
Doings == {"free", "end"} \cup Leaving \cup Working
Places == {"unused", "pool", "out", "orphan", "leaving", "closed"}

Typed ==
    /\ made \subseteq Objects
    /\ inner \in [Owners -> MaybeClient]
    /\ cancels \in [JsClients -> MaybeClient]
    /\ opening \in [JsClients -> SUBSET Clients]
    /\ begun \in [Transactions -> MaybeClient]
    /\ origin \in [Transactions -> MaybeClient]
    /\ busy \in [Objects -> Doings \X MaybeClient]
    /\ place \in [Clients -> Places]
    /\ running \in [Clients -> [who : Objects \cup {Nil}, n : Nat]]
    /\ statements \in Nat
    /\ cancelling \in [JsClients -> [step : {"none", "list", "act"},
                                     client : MaybeClient, n : Nat, own : BOOLEAN]]
    /\ ends \in [Transactions -> Nat]

\* A mutex that is owned is owned for a client; an object that was not made
\* yet has nothing.
Framed ==
    /\ \A o \in Objects : busy[o] # Free =>
           busy[o][1] # "free" /\ busy[o][2] \in Clients /\ o \in made
    /\ \A o \in Owners : inner[o] # Nil => o \in made
    /\ \A t \in Transactions : begun[t] # Nil \/ origin[t] # Nil => t \in made
    /\ \A j \in JsClients : opening[j] # {} => j \in made
    /\ \A j \in JsClients : cancelling[j] # NoCancel => cancelling[j].client \in Clients

LeavesBy(o, c) == busy[o][1] \in Leaving /\ busy[o][2] = c

\* OneHolder without counting: whoever has a client decides where it is, and
\* nobody else has it; a client that is out is with somebody.
Placed ==
    /\ \A o \in Owners : inner[o] # Nil => place[inner[o]] = "out"
    /\ \A j \in JsClients : \A c \in opening[j] : place[c] = "out"
    /\ \A o \in Owners : busy[o][1] \in Leaving => place[busy[o][2]] = "leaving"
Alone ==
    /\ \A o, p \in Owners : inner[o] = inner[p] /\ inner[o] # Nil => o = p
    /\ \A j, k \in JsClients : opening[j] \cap opening[k] # {} => j = k
    /\ \A o \in Owners : \A j \in JsClients : inner[o] \notin opening[j]
    /\ \A o, p \in Owners : \A c \in Clients :
           LeavesBy(o, c) /\ LeavesBy(p, c) => o = p
Found ==
    \A c \in Clients :
        /\ place[c] = "out" => \/ \E o \in Owners : inner[o] = c
                               \/ \E j \in JsClients : c \in opening[j]
        /\ place[c] = "leaving" => \E o \in Owners : LeavesBy(o, c)

\* A statement runs for the owner of a mutex that keeps its client meanwhile.
Works ==
    /\ \A c \in Clients : \A o \in Objects :
           running[c].who = o => busy[o] = <<"running", c>>
    /\ \A c \in Clients : running[c] # Quiet => running[c].who \in Objects
    /\ \A c \in Clients : running[c].n <= statements
    /\ \A o \in Owners : busy[o][1] \in Working => inner[o] = busy[o][2]
    /\ \A t \in Transactions :
           /\ busy[t][1] \in Working => begun[t] = busy[t][2]
           /\ busy[t][1] \in Working \cup {"free", "end"}

Ending ==
    \A t \in Transactions :
        /\ begun[t] # Nil => ends[t] = 0 /\ origin[t] = begun[t]
        /\ busy[t][1] = "end" => begun[t] = Nil /\ ends[t] = 0
        /\ ends[t] <= 1
        /\ t \notin made => ends[t] = 0

\* A control session that has found an activity of its own client cancels that
\* one or none.
MayHit(who, j, c) == who = j \/ (who \in Transactions /\ origin[who] = c)
FindsItsOwn(j) ==
    LET k == cancelling[j]
    IN  k.step = "act" =>
            /\ k.n <= statements
            /\ k.own /\ running[k.client].n = k.n /\ running[k.client] # Quiet =>
                   MayHit(running[k.client].who, j, k.client)
Cancelling ==
    /\ \A j \in JsClients : FindsItsOwn(j)
    /\ \A h \in hits : /\ h.client \in Clients
                       /\ h.own => MayHit(h.who, h.by, h.client)

IInv == Typed /\ Framed /\ Placed /\ Alone /\ Found /\ Works /\ Ending /\ Cancelling
-----------------------------------------------------------------------------
(* Types *)

LEMMA TypedInit == HandlesInit => Typed /\ Framed
BY HandlesAssumption DEF HandlesInit, Typed, Framed, MaybeClient, Doings, Places,
   Free, Quiet, NoCancel, Owners, Objects

LEMMA TypedStep ==
    ASSUME Typed, Framed, [HandlesNext]_handleVars
    PROVE  Typed' /\ Framed'
<1> USE DEF Typed, Framed, holders, txns, cancelVars, Free, Objects
<1>1. /\ JsClients \subseteq Owners /\ Owners \subseteq Objects
      /\ Transactions \subseteq Objects /\ Nil \in MaybeClient
      /\ Clients \subseteq MaybeClient /\ Nil \notin Clients
      /\ MaybeClient \ {Nil} \subseteq Clients
  BY HandlesAssumption DEF Owners, MaybeClient
<1>2. /\ "out" \in Places /\ "orphan" \in Places /\ "leaving" \in Places
      /\ "pool" \in Places /\ "closed" \in Places
      /\ Leaving \subseteq Places /\ Leaving \subseteq Doings
      /\ "query" \in Doings /\ "running" \in Doings /\ "end" \in Doings
      /\ "free" \in Doings /\ "free" \notin Leaving
  BY DEF Places, Doings, Leaving, Working
<1>3. ASSUME NEW j \in JsClients, New(j)
      PROVE  Typed' /\ Framed'
  BY <1>1, <1>3 DEF New
<1>4. ASSUME NEW j \in JsClients, Cancel(j)
      PROVE  Typed' /\ Framed'
  BY <1>1, <1>4 DEF Cancel, NoCancel
<1>5. ASSUME NEW j \in JsClients, List(j)
      PROVE  Typed' /\ Framed'
  <2> DEFINE k == cancelling[j]
             found == [step |-> "act", client |-> k.client, n |-> running[k.client].n,
                       own |-> inner[j] = k.client]
  <2>1. k.client \in Clients /\ k.step = "list"
    BY <1>1, <1>5 DEF List, NoCancel
  <2>2. /\ found \in [step : {"none", "list", "act"}, client : MaybeClient,
                      n : Nat, own : BOOLEAN]
        /\ NoCancel \in [step : {"none", "list", "act"}, client : MaybeClient,
                         n : Nat, own : BOOLEAN]
        /\ found.client \in Clients
    BY <2>1, <1>1 DEF NoCancel
  <2>3. \/ cancelling' = [cancelling EXCEPT ![j] = NoCancel]
        \/ cancelling' = [cancelling EXCEPT ![j] = found]
    BY <1>5 DEF List
  <2> HIDE DEF found
  <2> QED
    BY <2>2, <2>3, <1>5 DEF List
<1>6. ASSUME NEW j \in JsClients, Act(j)
      PROVE  Typed' /\ Framed'
  BY <1>1, <1>6 DEF Act, NoCancel
<1>7. ASSUME NEW j \in JsClients, NEW c \in Clients, ConnectOpen(j, c)
      PROVE  Typed' /\ Framed'
  <2>1. place' \in [Clients -> Places]
    BY <1>2, <1>7 DEF ConnectOpen
  <2>2. /\ opening' \in [JsClients -> SUBSET Clients]
        /\ \A i \in JsClients : opening'[i] # {} => i \in made'
    BY <1>7 DEF ConnectOpen
  <2> QED
    BY <2>1, <2>2, <1>7 DEF ConnectOpen
<1>8. ASSUME NEW j \in JsClients, NEW c \in Clients, ConnectStore(j, c)
      PROVE  Typed' /\ Framed'
  <2>0. j \in Owners /\ j \in made
    BY <1>1, <1>8 DEF ConnectStore
  <2>1. place' \in [Clients -> Places]
    BY <1>1, <1>2, <1>8, <2>0 DEF ConnectStore
  <2>2. /\ opening' \in [JsClients -> SUBSET Clients]
        /\ \A i \in JsClients : opening'[i] # {} => i \in made'
    BY <1>8 DEF ConnectStore
  <2>3. /\ inner' \in [Owners -> MaybeClient]
        /\ cancels' \in [JsClients -> MaybeClient]
        /\ \A o \in Owners : inner'[o] # Nil => o \in made'
    BY <1>1, <1>8, <2>0 DEF ConnectStore
  <2> QED
    BY <2>1, <2>2, <2>3, <1>8 DEF ConnectStore
<1>9. ASSUME NEW o \in Owners, NEW c \in Clients, Acquire(o, c)
      PROVE  Typed' /\ Framed'
  BY <1>1, <1>2, <1>9 DEF Acquire
<1>10. ASSUME NEW o \in Owners, Left(o)
       PROVE  Typed' /\ Framed'
  BY <1>1, <1>2, <1>10 DEF Left, Leaving
<1>11. ASSUME NEW o \in Owners, NEW where \in Leaving, Leave(o, where)
       PROVE  Typed' /\ Framed'
  BY <1>1, <1>2, <1>11 DEF Leave, Taken
<1>12. ASSUME NEW o \in Objects
       PROVE  ClientOf(o) # Nil => ClientOf(o) \in Clients /\ o \in made
  BY <1>1 DEF ClientOf
<1>13. ASSUME NEW o \in Objects, Call(o)
       PROVE  Typed' /\ Framed'
  BY <1>1, <1>2, <1>12, <1>13 DEF Call
<1>14. ASSUME NEW o \in Objects, Run(o)
       PROVE  Typed' /\ Framed'
  <2>1. busy[o][2] \in Clients /\ o \in made
    BY <1>14 DEF Run
  <2>2. running' \in [Clients -> [who : Objects \cup {Nil}, n : Nat]] /\ statements' \in Nat
    BY <1>14, <2>1 DEF Run
  <2>3. /\ busy' \in [Objects -> Doings \X MaybeClient]
        /\ \A p \in Objects : busy'[p] # Free =>
               busy'[p][1] # "free" /\ busy'[p][2] \in Clients /\ p \in made
    BY <1>1, <1>2, <1>14, <2>1 DEF Run
  <2> QED
    BY <2>2, <2>3, <1>14 DEF Run
<1>15. ASSUME NEW o \in Objects, Finish(o)
       PROVE  Typed' /\ Framed'
  <2>1. running' \in [Clients -> [who : Objects \cup {Nil}, n : Nat]]
    BY <1>15 DEF Finish, Quiet
  <2>2. /\ busy' \in [Objects -> Doings \X MaybeClient]
        /\ \A p \in Objects : busy'[p] # Free =>
               busy'[p][1] # "free" /\ busy'[p][2] \in Clients /\ p \in made
    BY <1>1, <1>2, <1>15 DEF Finish
  <2> QED
    BY <2>1, <2>2, <1>15 DEF Finish
<1>16. ASSUME NEW j \in JsClients, NEW t \in Transactions, Begin(j, t)
       PROVE  Typed' /\ Framed'
  BY <1>1, <1>16 DEF Begin
<1>17. ASSUME NEW t \in Transactions, EndTransaction(t)
       PROVE  Typed' /\ Framed'
  BY <1>1, <1>2, <1>17 DEF EndTransaction, Ended
<1>18. ASSUME NEW t \in Transactions, EndSent(t)
       PROVE  Typed' /\ Framed'
  BY <1>1, <1>2, <1>18 DEF EndSent
<1>19. CASE UNCHANGED handleVars
  BY <1>19 DEF handleVars
<1> QED
  BY <1>1, <1>3, <1>4, <1>5, <1>6, <1>7, <1>8, <1>9, <1>10, <1>11, <1>13, <1>14, <1>15,
     <1>16, <1>17, <1>18, <1>19 DEF HandlesNext, Leaving
-----------------------------------------------------------------------------
(* Where the clients are *)

\* Most actions move no client.
LEMMA NoClientMoves ==
    ASSUME Placed, Alone, Found,
           inner' = inner, opening' = opening, place' = place,
           \A o \in Owners : \/ busy'[o] = busy[o]
                             \/ busy[o][1] \notin Leaving /\ busy'[o][1] \notin Leaving
    PROVE  Placed' /\ Alone' /\ Found'
<1>1. \A o \in Owners, c \in Clients : LeavesBy(o, c)' <=> LeavesBy(o, c)
  BY DEF LeavesBy
<1>2. Placed'
  BY DEF Placed
<1>3. Alone'
  BY <1>1 DEF Alone
<1>4. Found'
  BY <1>1 DEF Found
<1> QED
  BY <1>2, <1>3, <1>4

LEMMA PlacedInit == HandlesInit => Placed /\ Alone /\ Found
BY HandlesAssumption DEF HandlesInit, Placed, Alone, Found, Leaving, LeavesBy, Free,
   Owners, Objects

\* A client that comes into an object, or into a connect, was nowhere before.
LEMMA NobodyHas ==
    ASSUME Typed, Placed, NEW c \in Clients, place[c] \in {"pool", "unused"}
    PROVE  /\ \A o \in Owners : inner[o] # c
           /\ \A j \in JsClients : c \notin opening[j]
           /\ \A o \in Owners : ~ LeavesBy(o, c)
BY HandlesAssumption DEF Typed, Placed, LeavesBy, Objects

LEMMA PlacedStep ==
    ASSUME Typed, Framed, Placed, Alone, Found, [HandlesNext]_handleVars
    PROVE  Placed' /\ Alone' /\ Found'
<1> USE DEF holders, txns, cancelVars
<1>1. /\ JsClients \subseteq Owners /\ Owners \subseteq Objects
      /\ Nil \notin Clients /\ MaybeClient \ {Nil} \subseteq Clients
      /\ \A t \in Transactions : t \notin Owners
  BY HandlesAssumption DEF Owners, Objects, MaybeClient
<1>2. /\ \A o \in Owners : inner[o] # Nil => inner[o] \in Clients
      /\ \A o \in Owners : busy[o][1] \in Leaving => busy[o][2] \in Clients
      /\ \A o \in Objects : busy[o] = Free => busy[o][1] = "free"
      /\ "free" \notin Leaving
  BY <1>1 DEF Typed, Framed, Free, Leaving
<1>3. ASSUME NEW j \in JsClients, New(j) \/ Cancel(j) \/ List(j) \/ Act(j)
      PROVE  Placed' /\ Alone' /\ Found'
  BY <1>3, NoClientMoves DEF New, Cancel, List, Act
<1>4. ASSUME NEW o \in Objects, Call(o) \/ Run(o) \/ Finish(o)
      PROVE  Placed' /\ Alone' /\ Found'
  <2>1. \A p \in Owners : \/ busy'[p] = busy[p]
                          \/ busy[p][1] \notin Leaving /\ busy'[p][1] \notin Leaving
    BY <1>1, <1>2, <1>4 DEF Call, Run, Finish, Typed, Leaving, Free
  <2> QED
    BY <1>4, <2>1, NoClientMoves DEF Call, Run, Finish
<1>5. ASSUME NEW j \in JsClients, NEW t \in Transactions, Begin(j, t)
      PROVE  Placed' /\ Alone' /\ Found'
  BY <1>5, NoClientMoves DEF Begin
<1>6. ASSUME NEW t \in Transactions, EndTransaction(t) \/ EndSent(t)
      PROVE  Placed' /\ Alone' /\ Found'
  <2>1. \A p \in Owners : busy'[p] = busy[p]
    BY <1>1, <1>6 DEF EndTransaction, EndSent, Typed
  <2> QED
    BY <1>6, <2>1, NoClientMoves DEF EndTransaction, EndSent
<1>7. CASE UNCHANGED handleVars
  BY <1>7, NoClientMoves DEF handleVars
<1>8. ASSUME NEW o \in Owners, NEW c \in Clients, Acquire(o, c)
      PROVE  Placed' /\ Alone' /\ Found'
  <2>1. /\ inner' = [inner EXCEPT ![o] = c] /\ place' = [place EXCEPT ![c] = "out"]
        /\ opening' = opening /\ busy' = busy
        /\ inner'[o] = c /\ place'[c] = "out" /\ inner[o] = Nil
        /\ \A p \in Owners : p # o => inner'[p] = inner[p]
        /\ \A d \in Clients : d # c => place'[d] = place[d]
    BY <1>8 DEF Acquire, Typed, Framed
  <2>2. /\ \A p \in Owners : inner[p] # c
        /\ \A j \in JsClients : c \notin opening[j]
        /\ \A p \in Owners : ~ LeavesBy(p, c)
    BY <1>8, NobodyHas DEF Acquire
  <2>3. \A p \in Owners, d \in Clients : LeavesBy(p, d)' <=> LeavesBy(p, d)
    BY <2>1 DEF LeavesBy
  <2>4. Placed'
    BY <1>1, <1>2, <2>1, <2>2 DEF Placed, LeavesBy, Typed
  <2>5. Alone'
    BY <2>1, <2>2, <2>3 DEF Alone
  <2>6. Found'
    BY <2>1, <2>3, <1>1 DEF Found
  <2> QED
    BY <2>4, <2>5, <2>6
<1>9. ASSUME NEW j \in JsClients, NEW c \in Clients, ConnectOpen(j, c)
      PROVE  Placed' /\ Alone' /\ Found'
  <2>1. /\ place' = [place EXCEPT ![c] = "out"]
        /\ inner' = inner /\ busy' = busy /\ place'[c] = "out"
        /\ opening'[j] = opening[j] \cup {c}
        /\ \A i \in JsClients : i # j => opening'[i] = opening[i]
        /\ \A d \in Clients : d # c => place'[d] = place[d]
    BY <1>9 DEF ConnectOpen, Typed
  <2>2. /\ \A p \in Owners : inner[p] # c
        /\ \A i \in JsClients : c \notin opening[i]
        /\ \A p \in Owners : ~ LeavesBy(p, c)
    BY <1>9, NobodyHas DEF ConnectOpen
  <2>3. \A p \in Owners, d \in Clients : LeavesBy(p, d)' <=> LeavesBy(p, d)
    BY <2>1 DEF LeavesBy
  <2>4. Placed'
    BY <1>1, <1>2, <2>1, <2>2 DEF Placed, LeavesBy, Typed
  <2>5. Alone'
    BY <2>1, <2>2, <2>3 DEF Alone
  <2>6. Found'
    BY <2>1, <2>3, <1>1 DEF Found
  <2> QED
    BY <2>4, <2>5, <2>6
<1>10. ASSUME NEW j \in JsClients, NEW c \in Clients, ConnectStore(j, c)
       PROVE  Placed' /\ Alone' /\ Found'
  <2>1. /\ busy' = busy /\ j \in Owners /\ inner'[j] = c /\ c \in opening[j]
        /\ opening'[j] = opening[j] \ {c}
        /\ \A i \in JsClients : i # j => opening'[i] = opening[i]
        /\ \A p \in Owners : p # j => inner'[p] = inner[p]
        /\ \A d \in Clients : d # inner[j] => place'[d] = place[d]
        /\ inner[j] # Nil => place'[inner[j]] = "orphan"
        /\ busy[j][1] \notin Leaving
    BY <1>1, <1>2, <1>10 DEF ConnectStore, Typed
  <2>2. \A p \in Owners, d \in Clients : LeavesBy(p, d)' <=> LeavesBy(p, d)
    BY <2>1 DEF LeavesBy
  <2>3. /\ \A p \in Owners : inner[p] # c
        /\ \A i \in JsClients : i # j => c \notin opening[i]
        /\ place[c] = "out" /\ place'[c] = "out"
    BY <2>1 DEF Alone, Placed
  <2>4. Placed'
    <3>1. \A p \in Owners : inner'[p] # Nil => place'[inner'[p]] = "out"
      BY <1>2, <2>1, <2>3 DEF Placed, Alone
    <3>2. \A i \in JsClients : \A d \in opening'[i] : place'[d] = "out"
      <4>1. \A i \in JsClients : opening'[i] \subseteq opening[i]
        BY <2>1
      <4>2. \A i \in JsClients : \A d \in opening[i] :
                d \in Clients /\ d # inner[j] /\ place[d] = "out"
        BY <2>1 DEF Typed, Alone, Placed
      <4> QED
        BY <4>1, <4>2, <2>1
    <3>3. \A p \in Owners : busy'[p][1] \in Leaving => place'[busy'[p][2]] = "leaving"
      <4> SUFFICES ASSUME NEW p \in Owners, busy[p][1] \in Leaving
                   PROVE  place'[busy[p][2]] = "leaving"
        BY <2>1
      <4>1. busy[p][2] \in Clients /\ place[busy[p][2]] = "leaving"
        BY <1>2 DEF Placed
      <4>2. busy[p][2] # inner[j]
        BY <4>1, <2>1, <1>1 DEF Placed
      <4> QED
        BY <4>1, <4>2, <2>1
    <3> QED
      BY <3>1, <3>2, <3>3 DEF Placed
  <2>5. Alone'
    <3>1. \A o, p \in Owners : inner'[o] = inner'[p] /\ inner'[o] # Nil => o = p
      BY <2>1, <2>3 DEF Alone
    <3>2. \A i, k \in JsClients : opening'[i] \cap opening'[k] # {} => i = k
      BY <2>1 DEF Alone
    <3>3. \A o \in Owners : \A i \in JsClients : inner'[o] \notin opening'[i]
      BY <2>1, <2>3 DEF Alone
    <3> QED
      BY <2>2, <3>1, <3>2, <3>3 DEF Alone
  <2>6. Found'
    <3>1. ASSUME NEW d \in Clients, place'[d] = "out"
          PROVE  \/ \E o \in Owners : inner'[o] = d
                 \/ \E i \in JsClients : d \in opening'[i]
      BY <2>1, <2>3, <3>1, <1>2, <1>1 DEF Found
    <3>2. ASSUME NEW d \in Clients, place'[d] = "leaving"
          PROVE  \E o \in Owners : LeavesBy(o, d)
      BY <2>1, <2>3, <3>2, <1>2, <1>1 DEF Found
    <3> QED
      BY <2>2, <3>1, <3>2 DEF Found
  <2> QED
    BY <2>4, <2>5, <2>6
<1>11. ASSUME NEW o \in Owners, NEW where \in Leaving, Leave(o, where)
       PROVE  Placed' /\ Alone' /\ Found'
  <2> DEFINE c == inner[o]
  <2>1. /\ c \in Clients /\ opening' = opening /\ o \in Objects
        /\ busy'[o] = <<where, c>> /\ inner'[o] = Nil /\ place'[c] = "leaving"
        /\ \A p \in Owners : p # o => inner'[p] = inner[p] /\ busy'[p] = busy[p]
        /\ \A d \in Clients : d # c => place'[d] = place[d]
        /\ busy[o][1] \notin Leaving /\ place[c] = "out"
    BY <1>1, <1>2, <1>11 DEF Leave, Taken, Typed, Placed
  <2>2. /\ \A p \in Owners : p # o => inner[p] # c
        /\ \A i \in JsClients : c \notin opening[i]
        /\ \A p \in Owners : ~ LeavesBy(p, c)
    BY <2>1, <1>1 DEF Alone, Placed, LeavesBy
  <2>3. \A p \in Owners, d \in Clients :
            LeavesBy(p, d)' <=> LeavesBy(p, d) \/ (p = o /\ d = c)
    BY <2>1 DEF LeavesBy
  <2>4. Placed'
    <3>1. \A p \in Owners : inner'[p] # Nil => place'[inner'[p]] = "out"
      BY <1>2, <2>1, <2>2 DEF Placed
    <3>2. \A i \in JsClients : \A d \in opening'[i] : place'[d] = "out"
      BY <1>1, <1>2, <2>1, <2>2 DEF Placed, Typed
    <3>3. \A p \in Owners : busy'[p][1] \in Leaving => place'[busy'[p][2]] = "leaving"
      BY <1>1, <1>2, <2>1, <2>2 DEF Placed, LeavesBy
    <3> QED
      BY <3>1, <3>2, <3>3 DEF Placed
  <2>5. Alone'
    <3>1. \A q, p \in Owners : inner'[q] = inner'[p] /\ inner'[q] # Nil => q = p
      BY <2>1 DEF Alone
    <3>2. \A q \in Owners : \A i \in JsClients : inner'[q] \notin opening'[i]
      BY <1>1, <2>1 DEF Alone, Typed
    <3>3. \A q, p \in Owners : \A d \in Clients :
              LeavesBy(q, d)' /\ LeavesBy(p, d)' => q = p
      BY <2>2, <2>3 DEF Alone
    <3> QED
      BY <2>1, <3>1, <3>2, <3>3 DEF Alone
  <2>6. Found'
    BY <2>1, <2>2, <2>3 DEF Found
  <2> QED
    BY <2>4, <2>5, <2>6
<1>12. ASSUME NEW o \in Owners, Left(o)
       PROVE  Placed' /\ Alone' /\ Found'
  <2> DEFINE c == busy[o][2]
  <2>1. /\ c \in Clients /\ opening' = opening /\ inner' = inner /\ o \in Objects
        /\ busy'[o] = Free /\ place'[c] \in {"pool", "closed"} /\ LeavesBy(o, c)
        /\ \A p \in Owners : p # o => busy'[p] = busy[p]
        /\ \A d \in Clients : d # c => place'[d] = place[d]
        /\ place[c] = "leaving"
    BY <1>1, <1>2, <1>12 DEF Left, Typed, Placed, LeavesBy, Leaving
  <2>2. /\ \A p \in Owners : inner[p] # c
        /\ \A i \in JsClients : c \notin opening[i]
        /\ \A p \in Owners : LeavesBy(p, c) => p = o
    BY <2>1, <1>1 DEF Alone, Placed
  <2>3. \A p \in Owners, d \in Clients :
            LeavesBy(p, d)' <=> LeavesBy(p, d) /\ p # o
    BY <2>1, <1>2 DEF LeavesBy, Free
  <2>4. Placed'
    <3>1. \A p \in Owners : inner'[p] # Nil => place'[inner'[p]] = "out"
      BY <1>2, <2>1, <2>2 DEF Placed
    <3>2. \A i \in JsClients : \A d \in opening'[i] : place'[d] = "out"
      BY <1>1, <1>2, <2>1, <2>2 DEF Placed, Typed
    <3>3. \A p \in Owners : busy'[p][1] \in Leaving => place'[busy'[p][2]] = "leaving"
      BY <1>1, <1>2, <2>1, <2>2 DEF Placed, LeavesBy, Free
    <3> QED
      BY <3>1, <3>2, <3>3 DEF Placed
  <2>5. Alone'
    BY <1>1, <2>1, <2>2, <2>3 DEF Alone
  <2>6. Found'
    BY <2>1, <2>2, <2>3 DEF Found, LeavesBy
  <2> QED
    BY <2>4, <2>5, <2>6
<1> QED
  BY <1>1, <1>3, <1>4, <1>5, <1>6, <1>7, <1>8, <1>9, <1>10, <1>11, <1>12
  DEF HandlesNext, Leaving
-----------------------------------------------------------------------------
(* Statements *)

LEMMA WorksInit == HandlesInit => Works /\ Ending /\ Cancelling
<1> SUFFICES ASSUME HandlesInit PROVE Works /\ Ending /\ Cancelling
  OBVIOUS
<1>1. /\ \A c \in Clients : running[c] = Quiet
      /\ \A o \in Objects : busy[o] = Free
      /\ Owners \subseteq Objects /\ Transactions \subseteq Objects
      /\ Nil \notin Objects /\ Nil \notin Clients
      /\ statements = 0
  BY HandlesAssumption DEF HandlesInit, Objects
<1>2. Works
  BY <1>1 DEF Works, Working, Quiet, Free
<1>3. Ending
  BY <1>1 DEF HandlesInit, Ending, Free
<1>4. Cancelling
  BY DEF HandlesInit, Cancelling, FindsItsOwn, NoCancel
<1> QED
  BY <1>2, <1>3, <1>4

LEMMA WorksStep ==
    ASSUME Typed, Framed, Works, [HandlesNext]_handleVars
    PROVE  Works'
<1> USE DEF holders, txns, cancelVars
<1>1. /\ JsClients \subseteq Owners /\ Owners \subseteq Objects
      /\ Transactions \subseteq Objects /\ Nil \notin Objects
      /\ Nil \notin Clients /\ MaybeClient \ {Nil} \subseteq Clients
      /\ \A t \in Transactions : t \notin Owners
  BY HandlesAssumption DEF Owners, Objects, MaybeClient
<1>2. /\ \A o \in Objects : busy[o] = Free => busy[o][1] = "free" /\ busy[o][2] = Nil
      /\ \A o \in Objects : o \notin made => busy[o] = Free
      /\ \A o \in Objects : busy[o][1] # "free" => busy[o][2] \in Clients
      /\ statements \in Nat /\ \A c \in Clients : running[c].n \in Nat
  BY DEF Typed, Framed, Free
<1>3. ASSUME running' = running, statements' = statements, busy' = busy,
             \A o \in Owners : busy[o][1] \in Working => inner'[o] = inner[o],
             \A t \in Transactions : busy[t][1] \in Working => begun'[t] = begun[t]
      PROVE  Works'
  BY <1>3 DEF Works
<1>4. ASSUME NEW j \in JsClients, New(j) \/ Cancel(j) \/ List(j) \/ Act(j)
      PROVE  Works'
  BY <1>3, <1>4 DEF New, Cancel, List, Act
<1>5. ASSUME NEW o \in Owners, NEW c \in Clients, Acquire(o, c)
      PROVE  Works'
  BY <1>1, <1>2, <1>3, <1>5 DEF Acquire, Working, Typed
<1>6. ASSUME NEW j \in JsClients, NEW c \in Clients,
             ConnectOpen(j, c) \/ ConnectStore(j, c)
      PROVE  Works'
  BY <1>1, <1>2, <1>3, <1>6 DEF ConnectOpen, ConnectStore, Working, Typed
<1>7. ASSUME NEW j \in JsClients, NEW t \in Transactions, Begin(j, t)
      PROVE  Works'
  BY <1>1, <1>2, <1>3, <1>7 DEF Begin, Working, Typed
<1>8. CASE UNCHANGED handleVars
  BY <1>3, <1>8 DEF handleVars
\* An operation that is not a statement comes or goes.
<1>9. ASSUME NEW o \in Objects, NEW b,
             busy' = [busy EXCEPT ![o] = b],
             busy[o][1] \notin Working, b[1] \notin Working,
             o \in Transactions => b[1] \in {"free", "end"},
             running' = running, statements' = statements,
             \A p \in Owners : p # o => inner'[p] = inner[p],
             \A t \in Transactions : t # o => begun'[t] = begun[t]
      PROVE  Works'
  <2>1. busy'[o] = b /\ \A p \in Objects : p # o => busy'[p] = busy[p]
    BY <1>9 DEF Typed
  <2>2. \A c \in Clients : running[c].who # o
    <3>1. \A c \in Clients : busy[o] # <<"running", c>>
      BY <1>9 DEF Working
    <3> QED
      BY <3>1 DEF Works
  <2>3. \A c \in Clients : \A p \in Objects :
            running'[c].who = p => busy'[p] = <<"running", c>>
    BY <1>9, <2>1, <2>2 DEF Works
  <2>4. \A p \in Owners : busy'[p][1] \in Working => inner'[p] = busy'[p][2]
    BY <1>1, <1>9, <2>1 DEF Works
  <2>5. \A t \in Transactions :
           /\ busy'[t][1] \in Working => begun'[t] = busy'[t][2]
           /\ busy'[t][1] \in Working \cup {"free", "end"}
    BY <1>1, <1>9, <2>1 DEF Works
  <2> QED
    BY <1>9, <2>3, <2>4, <2>5 DEF Works
<1>10. ASSUME NEW o \in Owners, NEW where \in Leaving, Leave(o, where)
       PROVE  Works'
  BY <1>1, <1>2, <1>9, <1>10 DEF Leave, Taken, Leaving, Working, Typed
<1>11. ASSUME NEW o \in Owners, Left(o)
       PROVE  Works'
  BY <1>1, <1>9, <1>11 DEF Left, Working, Free
<1>12. ASSUME NEW t \in Transactions, EndTransaction(t)
       PROVE  Works'
  BY <1>1, <1>2, <1>9, <1>12 DEF EndTransaction, Ended, Working, Typed
<1>13. ASSUME NEW t \in Transactions, EndSent(t)
       PROVE  Works'
  BY <1>1, <1>9, <1>13 DEF EndSent, Working, Free
<1>14. ASSUME NEW o \in Objects, Call(o)
       PROVE  Works'
  <2>1. /\ busy'[o] = <<"query", ClientOf(o)>>
        /\ \A p \in Objects : p # o => busy'[p] = busy[p]
        /\ busy[o][1] = "free"
    BY <1>2, <1>14 DEF Call, Typed
  <2>2. \A c \in Clients : running[c].who # o
    BY <2>1 DEF Works
  <2>3. \A c \in Clients : \A p \in Objects :
            running[c].who = p => busy'[p] = <<"running", c>>
    BY <2>1, <2>2 DEF Works
  <2>4. \A p \in Owners : busy'[p][1] \in Working => inner[p] = busy'[p][2]
    BY <1>1, <2>1 DEF Works, ClientOf
  <2>5. \A t \in Transactions :
           /\ busy'[t][1] \in Working => begun[t] = busy'[t][2]
           /\ busy'[t][1] \in Working \cup {"free", "end"}
    BY <1>1, <2>1 DEF Works, ClientOf, Working
  <2> QED
    BY <1>14, <2>3, <2>4, <2>5 DEF Works, Call
<1>15. ASSUME NEW o \in Objects, Run(o)
       PROVE  Works'
  <2> DEFINE c == busy[o][2]
  <2>1. /\ busy'[o] = <<"running", c>> /\ busy[o][1] = "query" /\ c \in Clients
        /\ \A p \in Objects : p # o => busy'[p] = busy[p]
        /\ running'[c] = [who |-> o, n |-> statements + 1]
        /\ \A d \in Clients : d # c => running'[d] = running[d]
        /\ running[c] = Quiet /\ statements' = statements + 1
        /\ inner' = inner /\ begun' = begun
    BY <1>2, <1>15 DEF Run, Typed
  <2>2. \A d \in Clients : running[d].who # o
    BY <2>1 DEF Works
  <2>3. \A d \in Clients : \A p \in Objects :
            running'[d].who = p => busy'[p] = <<"running", d>>
    <3> SUFFICES ASSUME NEW d \in Clients, NEW p \in Objects, running'[d].who = p
                 PROVE  busy'[p] = <<"running", d>>
      OBVIOUS
    <3>1. CASE d = c
      BY <2>1, <3>1
    <3>2. CASE d # c
      BY <2>1, <2>2, <3>2 DEF Works
    <3> QED
      BY <3>1, <3>2
  <2>4. \A d \in Clients : /\ running'[d] # Quiet => running'[d].who \in Objects
                           /\ running'[d].n <= statements'
    BY <1>2, <2>1 DEF Works
  <2>5. \A p \in Owners : busy'[p][1] \in Working => inner[p] = busy'[p][2]
    BY <1>1, <2>1 DEF Works, Working
  <2>6. \A t \in Transactions :
           /\ busy'[t][1] \in Working => begun[t] = busy'[t][2]
           /\ busy'[t][1] \in Working \cup {"free", "end"}
    BY <1>1, <2>1 DEF Works, Working
  <2> QED
    BY <2>1, <2>3, <2>4, <2>5, <2>6 DEF Works
<1>16. ASSUME NEW o \in Objects, Finish(o)
       PROVE  Works'
  <2> DEFINE c == busy[o][2]
  <2>1. /\ busy'[o] = Free /\ c \in Clients
        /\ \A p \in Objects : p # o => busy'[p] = busy[p]
        /\ statements' = statements /\ inner' = inner /\ begun' = begun
    BY <1>2, <1>16 DEF Finish, Typed
  <2>2. \A d \in Clients : \/ running'[d] = Quiet
                           \/ running'[d] = running[d] /\ running[d].who # o
    BY <1>2, <1>16 DEF Finish, Works, Typed
  <2>3. \A d \in Clients : \A p \in Objects :
            running'[d].who = p => busy'[p] = <<"running", d>>
    BY <1>1, <2>1, <2>2 DEF Works, Quiet
  <2>4. \A d \in Clients : /\ running'[d] # Quiet => running'[d].who \in Objects
                           /\ running'[d].n <= statements'
    BY <1>2, <2>1, <2>2 DEF Works, Quiet
  <2>5. \A p \in Owners : busy'[p][1] \in Working => inner[p] = busy'[p][2]
    BY <1>1, <2>1 DEF Works, Working, Free
  <2>6. \A t \in Transactions :
           /\ busy'[t][1] \in Working => begun[t] = busy'[t][2]
           /\ busy'[t][1] \in Working \cup {"free", "end"}
    BY <1>1, <2>1 DEF Works, Working, Free
  <2> QED
    BY <2>1, <2>3, <2>4, <2>5, <2>6 DEF Works
<1> QED
  BY <1>1, <1>4, <1>5, <1>6, <1>7, <1>8, <1>10, <1>11, <1>12, <1>13, <1>14, <1>15, <1>16
  DEF HandlesNext, Leaving

LEMMA EndingStep ==
    ASSUME Typed, Framed, Ending, [HandlesNext]_handleVars
    PROVE  Ending'
<1> USE DEF holders, txns, cancelVars
<1>1. /\ JsClients \subseteq Owners /\ Owners \subseteq Objects
      /\ Transactions \subseteq Objects /\ Nil \notin Objects
      /\ Nil \notin Clients /\ MaybeClient \ {Nil} \subseteq Clients
      /\ \A t \in Transactions : t \notin Owners
  BY HandlesAssumption DEF Owners, Objects, MaybeClient
<1>2. /\ \A o \in Objects : busy[o] = Free => busy[o][1] = "free"
      /\ \A o \in Objects : o \notin made => busy[o] = Free
      /\ \A t \in Transactions : t \notin made => begun[t] = Nil
  BY DEF Typed, Framed, Free
<1>3. ASSUME txns' = txns, made \subseteq made',
             \A t \in Transactions : busy'[t][1] = "end" => busy[t][1] = "end"
      PROVE  Ending'
  BY <1>3 DEF Ending
<1>4. ASSUME NEW j \in JsClients, New(j) \/ Cancel(j) \/ List(j) \/ Act(j)
      PROVE  Ending'
  BY <1>3, <1>4 DEF New, Cancel, List, Act
<1>5. ASSUME NEW o \in Owners, NEW c \in Clients, Acquire(o, c)
      PROVE  Ending'
  BY <1>3, <1>5 DEF Acquire
<1>6. ASSUME NEW j \in JsClients, NEW c \in Clients,
             ConnectOpen(j, c) \/ ConnectStore(j, c)
      PROVE  Ending'
  BY <1>3, <1>6 DEF ConnectOpen, ConnectStore
<1>7. ASSUME NEW o \in Owners, NEW where \in Leaving, Left(o) \/ Leave(o, where)
      PROVE  Ending'
  <2>1. \A t \in Transactions : busy'[t] = busy[t]
    BY <1>1, <1>7 DEF Left, Leave, Typed
  <2> QED
    BY <2>1, <1>3, <1>7 DEF Left, Leave
<1>8. ASSUME NEW o \in Objects, Call(o) \/ Run(o) \/ Finish(o)
      PROVE  Ending'
  <2>1. /\ \A p \in Objects : p # o => busy'[p] = busy[p]
        /\ busy'[o][1] \in {"query", "running", "free"}
    BY <1>8 DEF Call, Run, Finish, Typed, Free
  <2>2. \A t \in Transactions : busy'[t][1] = "end" => busy[t][1] = "end"
    BY <1>1, <2>1
  <2> QED
    BY <2>2, <1>3, <1>8 DEF Call, Run, Finish
<1>9. ASSUME NEW j \in JsClients, NEW t \in Transactions, Begin(j, t)
      PROVE  Ending'
  <2>1. /\ begun'[t] = inner[j] /\ origin'[t] = inner[j] /\ t \notin made
        /\ \A u \in Transactions : u # t => begun'[u] = begun[u] /\ origin'[u] = origin[u]
        /\ ends' = ends /\ busy' = busy /\ made' = made \cup {t}
    BY <1>9 DEF Begin, Typed
  <2>2. ends[t] = 0 /\ busy[t][1] # "end"
    BY <1>1, <1>2, <2>1 DEF Ending
  <2> QED
    BY <2>1, <2>2 DEF Ending
<1>10. ASSUME NEW t \in Transactions, EndTransaction(t)
       PROVE  Ending'
  <2>1. /\ begun'[t] = Nil /\ begun[t] # Nil /\ busy'[t][1] = "end"
        /\ \A u \in Transactions : u # t => begun'[u] = begun[u] /\ busy'[u] = busy[u]
        /\ ends' = ends /\ origin' = origin /\ made' = made
    BY <1>1, <1>10 DEF EndTransaction, Ended, Typed
  <2> QED
    BY <2>1 DEF Ending
<1>11. ASSUME NEW t \in Transactions, EndSent(t)
       PROVE  Ending'
  <2>1. /\ ends'[t] = ends[t] + 1 /\ busy[t][1] = "end" /\ busy'[t][1] = "free"
        /\ \A u \in Transactions : u # t => ends'[u] = ends[u] /\ busy'[u] = busy[u]
        /\ begun' = begun /\ origin' = origin /\ made' = made /\ t \in made
    BY <1>1, <1>2, <1>11 DEF EndSent, Typed, Free
  <2> QED
    BY <2>1 DEF Ending
<1>12. CASE UNCHANGED handleVars
  BY <1>3, <1>12 DEF handleVars
<1> QED
  BY <1>1, <1>4, <1>5, <1>6, <1>7, <1>8, <1>9, <1>10, <1>11, <1>12
  DEF HandlesNext, Leaving
-----------------------------------------------------------------------------
(* Cancel *)

LEMMA CancellingStep ==
    ASSUME Typed, Framed, Alone, Works, Ending, Cancelling, [HandlesNext]_handleVars
    PROVE  Cancelling'
<1> USE DEF holders, txns
<1>1. /\ JsClients \subseteq Owners /\ Owners \subseteq Objects
      /\ Transactions \subseteq Objects /\ Nil \notin Objects
      /\ Nil \notin Clients /\ MaybeClient \ {Nil} \subseteq Clients
      /\ Objects \subseteq Owners \cup Transactions
  BY HandlesAssumption DEF Owners, Objects, MaybeClient
\* What a transaction began on stays.
<1>2. /\ \A t \in Transactions : origin[t] \in Clients => origin'[t] = origin[t]
      /\ \A who, j : \A c \in Clients : MayHit(who, j, c) => MayHit(who, j, c)'
  <2>1. \A t \in Transactions : origin[t] \in Clients => origin'[t] = origin[t]
    <3>1. CASE origin' = origin
      BY <3>1
    <3>2. ASSUME NEW i \in JsClients, NEW t \in Transactions, Begin(i, t)
          PROVE  \A u \in Transactions : origin[u] \in Clients => origin'[u] = origin[u]
      BY <1>1, <3>2 DEF Begin, Framed, Typed
    <3> QED
      BY <3>1, <3>2 DEF HandlesNext, New, Cancel, List, Act, ConnectOpen, ConnectStore,
         Acquire, Left, Leave, Call, Run, Finish, EndTransaction, EndSent, handleVars
  <2> QED
    BY <2>1 DEF MayHit
\* A statement that runs on the client of j is j's or a transaction's.
<1>3. ASSUME NEW j \in JsClients, NEW c \in Clients, inner[j] = c, running[c] # Quiet
      PROVE  MayHit(running[c].who, j, c)
  <2> DEFINE o == running[c].who
  <2>1. o \in Objects
    BY <1>3 DEF Works
  <2>2. busy[o] = <<"running", c>>
    BY <2>1 DEF Works
  <2>3. busy[o][1] \in Working /\ busy[o][2] = c
    BY <2>2 DEF Working
  <2>4. CASE o \in Transactions
    BY <1>1, <2>3, <2>4 DEF Works, Ending, MayHit
  <2>5. CASE o \in Owners
    BY <1>1, <1>3, <2>3, <2>5 DEF Works, Alone, MayHit
  <2> QED
    BY <1>1, <2>1, <2>4, <2>5
\* A statement that begins later has a number of its own.
<1> DEFINE Numbered == /\ statements \in Nat /\ statements' \in Nat
                       /\ statements <= statements'
                       /\ \A c \in Clients : \/ running'[c] = running[c]
                                             \/ running'[c] = Quiet
                                             \/ running'[c].n > statements
<1>4. Numbered
  <2>1. CASE UNCHANGED <<running, statements>>
    BY <2>1 DEF Typed
  <2>2. ASSUME NEW o \in Objects, Run(o)
        PROVE  Numbered
    BY <2>2 DEF Run, Typed
  <2>3. ASSUME NEW o \in Objects, Finish(o)
        PROVE  Numbered
    BY <2>3 DEF Finish, Typed
  <2>4. \/ UNCHANGED <<running, statements>>
        \/ \E o \in Objects : Run(o) \/ Finish(o)
    BY DEF HandlesNext, New, Cancel, List, Act, ConnectOpen, ConnectStore, Acquire, Left,
       Leave, Begin, Call, EndTransaction, EndSent, handleVars
  <2> QED
    BY <2>1, <2>2, <2>3, <2>4
<1>5. ASSUME NEW j \in JsClients, cancelling'[j] = cancelling[j]
      PROVE  FindsItsOwn(j)'
  <2> DEFINE k == cancelling[j]
             who == running'[k.client].who
  <2>1. ASSUME k.step = "act"
        PROVE  k.client \in Clients /\ k.n \in Nat /\ k.n <= statements
    BY <2>1 DEF Framed, Typed, NoCancel, Cancelling, FindsItsOwn
  <2>2. ASSUME k.step = "act", k.own, running'[k.client].n = k.n,
               running'[k.client] # Quiet
        PROVE  who = j \/ (who \in Transactions /\ origin'[who] = k.client)
    <3>1. running'[k.client] = running[k.client]
      BY <1>4, <2>1, <2>2
    <3>2. MayHit(who, j, k.client)
      BY <2>2, <3>1 DEF Cancelling, FindsItsOwn
    <3> QED
      BY <1>2, <2>1, <2>2, <3>2 DEF MayHit
  <2>3. k.step = "act" => k.n <= statements'
    BY <1>4, <2>1
  <2> QED
    BY <1>5, <2>2, <2>3 DEF FindsItsOwn, MayHit
<1>6. ASSUME NEW h, h.client \in Clients, h.own => MayHit(h.who, h.by, h.client)
      PROVE  h.own => MayHit(h.who, h.by, h.client)'
  BY <1>2, <1>6
<1>7. hits' = hits => \A h \in hits' : /\ h.client \in Clients
                                       /\ h.own => MayHit(h.who, h.by, h.client)'
  BY <1>6 DEF Cancelling
<1>8. CASE UNCHANGED cancelVars
  BY <1>5, <1>7, <1>8 DEF Cancelling, cancelVars
<1>9. ASSUME NEW j \in JsClients, Cancel(j)
      PROVE  Cancelling'
  <2>1. /\ cancelling'[j].step = "list" /\ hits' = hits
        /\ \A i \in JsClients : i # j => cancelling'[i] = cancelling[i]
    BY <1>9 DEF Cancel, Typed
  <2>2. FindsItsOwn(j)'
    BY <2>1 DEF FindsItsOwn
  <2> QED
    BY <1>5, <1>7, <2>1, <2>2 DEF Cancelling
<1>10. ASSUME NEW j \in JsClients, List(j)
       PROVE  Cancelling'
  <2> DEFINE c == cancelling[j].client
  <2>1. /\ c \in Clients /\ hits' = hits
        /\ UNCHANGED <<running, statements, origin>>
        /\ \A i \in JsClients : i # j => cancelling'[i] = cancelling[i]
        /\ \/ cancelling'[j] = NoCancel
           \/ cancelling'[j] = [step |-> "act", client |-> c, n |-> running[c].n,
                                own |-> inner[j] = c]
    BY <1>10 DEF List, Typed, Framed, NoCancel
  <2>2. FindsItsOwn(j)'
    <3>1. CASE cancelling'[j] = NoCancel
      BY <3>1 DEF FindsItsOwn, NoCancel
    <3>2. CASE cancelling'[j] = [step |-> "act", client |-> c, n |-> running[c].n,
                                 own |-> inner[j] = c]
      <4>1. /\ cancelling'[j].client = c /\ cancelling'[j].n = running[c].n
            /\ cancelling'[j].own = (inner[j] = c)
        BY <3>2
      <4>2. inner[j] = c /\ running[c] # Quiet =>
                \/ running[c].who = j
                \/ running[c].who \in Transactions /\ origin[running[c].who] = c
        BY <1>3, <2>1 DEF MayHit
      <4>3. running[c].n <= statements
        BY <2>1 DEF Works
      <4> QED
        BY <2>1, <4>1, <4>2, <4>3 DEF FindsItsOwn, MayHit
    <3> QED
      BY <2>1, <3>1, <3>2
  <2> QED
    BY <1>5, <1>7, <2>1, <2>2 DEF Cancelling
<1>11. ASSUME NEW j \in JsClients, Act(j)
       PROVE  Cancelling'
  <2> DEFINE k == cancelling[j]
             hit == [by |-> j, own |-> k.own, client |-> k.client,
                     who |-> running[k.client].who]
  <2>1. /\ k.step = "act" /\ k.client \in Clients
        /\ cancelling'[j] = NoCancel
        /\ \A i \in JsClients : i # j => cancelling'[i] = cancelling[i]
        /\ hits' = IF Strikes(k) THEN hits \cup {hit} ELSE hits
    BY <1>11 DEF Act, Typed, Framed, NoCancel
  <2>2. FindsItsOwn(j)'
    BY <2>1 DEF FindsItsOwn, NoCancel
  <2>3. Strikes(k) => /\ hit.client \in Clients
                      /\ hit.own => MayHit(hit.who, hit.by, hit.client)
    BY <2>1 DEF Strikes, Cancelling, FindsItsOwn
  <2>4. \A h \in hits' : /\ h.client \in Clients
                         /\ h.own => MayHit(h.who, h.by, h.client)
    BY <2>1, <2>3 DEF Cancelling
  <2>5. \A h \in hits' : /\ h.client \in Clients
                         /\ h.own => MayHit(h.who, h.by, h.client)'
    BY <1>6, <2>4
  <2> QED
    BY <1>5, <2>1, <2>2, <2>5 DEF Cancelling
<1> QED
  BY <1>8, <1>9, <1>10, <1>11
  DEF HandlesNext, New, ConnectOpen, ConnectStore, Acquire, Left, Leave, Begin, Call, Run,
      Finish, EndTransaction, EndSent, handleVars, cancelVars
-----------------------------------------------------------------------------
(* The invariant of HandlesSpec and what follows from it *)

LEMMA IInvHolds == HandlesSpec => []IInv
<1>1. HandlesInit => IInv
  BY TypedInit, PlacedInit, WorksInit DEF IInv
<1>2. IInv /\ [HandlesNext]_handleVars => IInv'
  BY TypedStep, PlacedStep, WorksStep, EndingStep, CancellingStep DEF IInv
<1> QED
  BY <1>1, <1>2, PTL DEF HandlesSpec

\* Counting what has at most one element.
LEMMA CountOne ==
    ASSUME NEW S, \A x, y \in S : x = y
    PROVE  Cardinality(S) = IF S = {} THEN 0 ELSE 1
<1>1. CASE S = {}
  BY <1>1, FS_EmptySet
<1>2. CASE S # {}
  <2>1. PICK x \in S : TRUE
    BY <1>2
  <2>2. S = {x}
    BY <2>1
  <2> QED
    BY <1>2, <2>2, FS_Singleton
<1> QED
  BY <1>1, <1>2

LEMMA CountHolders == IInv => OneHolder
<1> SUFFICES ASSUME IInv, NEW c \in Clients
             PROVE  LET holds == {o \in Owners : inner[o] = c}
                        opens == {j \in JsClients : c \in opening[j]}
                        leaves == {o \in Owners : /\ busy[o][2] = c
                                                  /\ busy[o][1] \in {"pool", "closed"}}
                    IN  Cardinality(holds) + Cardinality(opens) + Cardinality(leaves)
                          = IF place[c] \in {"out", "leaving"} THEN 1 ELSE 0
  BY DEF OneHolder
<1> DEFINE holds == {o \in Owners : inner[o] = c}
           opens == {j \in JsClients : c \in opening[j]}
           leaves == {o \in Owners : /\ busy[o][2] = c
                                     /\ busy[o][1] \in {"pool", "closed"}}
<1>1. c # Nil /\ leaves = {o \in Owners : LeavesBy(o, c)}
  BY HandlesAssumption DEF LeavesBy, Leaving
<1>2. /\ \A x, y \in holds : x = y
      /\ \A x, y \in opens : x = y
      /\ \A x, y \in leaves : x = y
  BY <1>1 DEF IInv, Alone
<1>3. /\ holds # {} => place[c] = "out"
      /\ opens # {} => place[c] = "out"
      /\ leaves # {} => place[c] = "leaving"
  BY <1>1 DEF IInv, Placed, LeavesBy
<1>4. /\ holds # {} => opens = {}
      /\ place[c] = "out" => holds # {} \/ opens # {}
      /\ place[c] = "leaving" => leaves # {}
  BY <1>1 DEF IInv, Alone, Found
<1>5. /\ Cardinality(holds) = IF holds = {} THEN 0 ELSE 1
      /\ Cardinality(opens) = IF opens = {} THEN 0 ELSE 1
      /\ Cardinality(leaves) = IF leaves = {} THEN 0 ELSE 1
  <2> HIDE DEF holds, opens, leaves
  <2> QED
    BY <1>2, CountOne
<1> HIDE DEF holds, opens, leaves
<1>6. Cardinality(holds) + Cardinality(opens) + Cardinality(leaves)
        = IF place[c] \in {"out", "leaving"} THEN 1 ELSE 0
  BY <1>3, <1>4, <1>5
<1> QED
  BY <1>6 DEF holds, opens, leaves

\* JsClient, JsPool (db2-napi): whatever JavaScript calls at the same time, a
\* client that is out or on its way is with exactly one JsClient, connect, query
\* or operation that takes it away, and no other client is with any.
THEOREM OneHolderEach == HandlesSpec => []OneHolder
BY IInvHolds, CountHolders, PTL

\* JsTransaction::commit and rollback, JsPreparedStatement::close: the server
\* hears of the end once, and nothing of the transaction runs then or later.
THEOREM EndsOnlyOnce == HandlesSpec => []EndsOnce
<1>1. IInv => EndsOnce
  BY HandlesAssumption DEF IInv, Typed, Framed, Works, Ending, EndsOnce, Working, Objects,
     MaybeClient
<1> QED
  BY <1>1, IInvHolds, PTL

\* JsClient::cancel: the statement it strikes is the object's own or one of a
\* transaction of the same client, as long as the object had that client when the
\* control session looked for activities.
THEOREM CancelsOnlyItsOwn == HandlesSpec => []CancelsItsOwn
<1>1. IInv => CancelsItsOwn
  BY DEF IInv, Cancelling, CancelsItsOwn, MayHit
<1> QED
  BY <1>1, IInvHolds, PTL
=============================================================================
