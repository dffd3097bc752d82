------------------------------ MODULE Election ------------------------------
(***************************************************************************)
(* What a cluster of RaftFSM objects promises, without messages, timers,   *)
(* votes and roles other than leader: every term elects at most one        *)
(* server, once and for all, and a server leads by an election it has won. *)
(* It takes office after the election is decided, and only if it has not   *)
(* gone on to another term in the meantime; its term is then one above the *)
(* term it was elected in.                                                 *)
(***************************************************************************)
EXTENDS Naturals

CONSTANTS Server, None, MaxTerm

VARIABLES
    winner,  \* winner[t]: the server that a majority elected in term t, or None
    term,    \* the term of each server
    leads    \* the servers that lead

vars == <<winner, term, leads>>

Term == 0..MaxTerm

Init ==
    /\ winner = [t \in Term |-> None]
    /\ term = [s \in Server |-> 0]
    /\ leads = {}

\* A server stays in its term or goes on to a higher one, which ends its
\* leadership; it may also give up leadership in its term.
Move(v, t) ==
    /\ t \in Term /\ t >= term[v]
    /\ term' = [term EXCEPT ![v] = t]
    /\ leads' = leads \ {v} \/ (t = term[v] /\ leads' = leads)

\* The election of term t is decided once and for all, by the vote of a server
\* that is in that term.
Decide(t) ==
    /\ winner[t] = None
    /\ \E s \in Server : winner' = [winner EXCEPT ![t] = s]

\* The winner of its present term becomes leader, one term higher.
TakeOffice(s) ==
    /\ s \notin leads
    /\ winner[term[s]] = s
    /\ term[s] + 1 \in Term
    /\ term' = [term EXCEPT ![s] = @ + 1]
    /\ leads' = leads \cup {s}
    /\ UNCHANGED winner

Next ==
    \E v \in Server :
        \/ TakeOffice(v)
        \/ \E t \in Term : Move(v, t) /\ (UNCHANGED winner \/ Decide(t))

Spec == Init /\ [][Next]_vars

=============================================================================
