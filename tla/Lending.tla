------------------------------ MODULE Lending -------------------------------
(***************************************************************************)
(* What the connection pool promises its callers, without idle connections,*)
(* locks or sockets: at most Limit admissions and loans at a time, a         *)
(* connection lent to one task at a time, and no admission once shut.      *)
(***************************************************************************)
EXTENDS Integers, FiniteSets

CONSTANTS Tasks, Conns, Limit, NoConn

VARIABLES
    shut,       \* nobody is admitted any more
    admitted,   \* tasks that will be lent a connection, or give up
    lent,       \* connections that count against Limit
    user        \* the connection a task uses, or NoConn

vars == <<shut, admitted, lent, user>>

Init == /\ shut = FALSE
        /\ admitted = {}
        /\ lent = {}
        /\ user = [t \in Tasks |-> NoConn]

Admit(t) ==
    /\ ~shut
    /\ t \notin admitted
    /\ user[t] = NoConn
    /\ Cardinality(admitted) + Cardinality(lent) < Limit
    /\ admitted' = admitted \cup {t}
    /\ UNCHANGED <<shut, lent, user>>

GiveUp(t) ==                        \* a failed connect or a cancelled call
    /\ t \in admitted
    /\ admitted' = admitted \ {t}
    /\ UNCHANGED <<shut, lent, user>>

\* A connection that a task forgot may be lent again.
Lend(t, c) ==
    /\ t \in admitted
    /\ \A u \in Tasks : user[u] # c
    /\ admitted' = admitted \ {t}
    /\ lent' = lent \cup {c}
    /\ user' = [user EXCEPT ![t] = c]
    /\ UNCHANGED shut

EndLoan(t) ==                       \* the client is closed, but still in use
    /\ user[t] # NoConn
    /\ lent' = lent \ {user[t]}
    /\ UNCHANGED <<shut, admitted, user>>

GiveBack(t) ==
    /\ user[t] # NoConn
    /\ lent' = lent \ {user[t]}
    /\ user' = [user EXCEPT ![t] = NoConn]
    /\ UNCHANGED <<shut, admitted>>

Forget(t) ==                        \* the loan is never ended
    /\ user[t] # NoConn
    /\ user' = [user EXCEPT ![t] = NoConn]
    /\ UNCHANGED <<shut, admitted, lent>>

Shut == shut' = TRUE /\ UNCHANGED <<admitted, lent, user>>

Next == \/ \E t \in Tasks : \/ Admit(t) \/ GiveUp(t) \/ EndLoan(t)
                            \/ GiveBack(t) \/ Forget(t)
        \/ \E t \in Tasks, c \in Conns : Lend(t, c)
        \/ Shut

Spec == Init /\ [][Next]_vars
=============================================================================
