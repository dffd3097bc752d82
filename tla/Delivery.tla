------------------------------ MODULE Delivery ------------------------------
(***************************************************************************)
(* Transport and BlockingQueue put together as in the test of node.hpp:    *)
(* on_message puts each message into a BlockingQueue, from which another   *)
(* thread takes it.  A thread of the Server that waits for the queue's     *)
(* mutex reads nothing meanwhile, from any connection.                     *)
(***************************************************************************)
EXTENDS Transport, BlockingQueue

vars == <<netVars, bqVars>>

Init == NetInit /\ BQInit

TypeOK ==
    /\ NetTypeOK
    /\ q \in Seq(Message)
    /\ quit \in {"no", "set", "done"}
    /\ getter \in [Getter -> {"idle", "blocking", "waiting", "notified"}]
    /\ taken \subseteq Message

\* read_body and the on_message it calls.
Deliver(c) ==
    /\ ReadBody(c)
    /\ IF got' = got THEN UNCHANGED bqVars ELSE Put(Head(conn[c].unread).msg)

Next ==
    \/ /\ \/ \E t \in Thread : Send(t) \/ Sending(t)
          \/ \E c \in DOMAIN conn : Break(c) \/ Reading(c)
          \/ ServerLife
          \/ Run
       /\ UNCHANGED bqVars
    \/ \E c \in DOMAIN conn : Deliver(c)
    \/ /\ \/ \E g \in Getter : Get(g) \/ Wait(g)
          \/ Clear
          \/ NotifyAll
       /\ UNCHANGED netVars

(***************************************************************************)
(* connect() and write() return when they can, a Server that listens is    *)
(* started, its io_context runs what is ready, the system tells a sender   *)
(* in the end that its peer has closed, and the getters are not halted.    *)
(***************************************************************************)
Fairness ==
    /\ WF_vars(Run /\ UNCHANGED bqVars)
    /\ \A t \in Thread : WF_vars(Sending(t) /\ UNCHANGED bqVars)
    /\ \A c \in 1..MaxConns :
         /\ WF_vars(c \in DOMAIN conn /\ (Deliver(c) \/ (Reading(c) /\ UNCHANGED bqVars)))
         /\ WF_vars(/\ c \in DOMAIN conn /\ conn[c].reader = "closed"
                    /\ Break(c) /\ UNCHANGED bqVars)
    /\ \A g \in Getter : WF_vars((Get(g) \/ Wait(g)) /\ UNCHANGED netVars)

Spec == Init /\ [][Next]_vars /\ Fairness

-----------------------------------------------------------------------------
(* Properties. *)

(***************************************************************************)
(* send() returns: no thread waits for ever, for the pool's mutex or for   *)
(* room in a socket, unless the peer's Server was stopped, which leaves    *)
(* its connections open and reads them no more.                            *)
(***************************************************************************)
SendReturns ==
    \A t \in Thread : thread[t].at # "idle" ~> thread[t].at = "idle" \/ peer = "stopped"

(***************************************************************************)
(* A message that has been written and is not too long is handed over to   *)
(* the thread that calls get(), unless a connection fails or gets out of   *)
(* step, the Server stops or the queue is cleared.                         *)
(***************************************************************************)
Written(m) ==
    \E c \in DOMAIN conn : \E i \in DOMAIN conn[c].unread :
        conn[c].unread[i] = [kind |-> "body", msg |-> m]

WrittenArrives ==
    \A m \in {k \in Message : k.n \notin Oversized} :
        Written(m) ~>
            \/ m \in taken
            \/ peer # "running" \/ quit # "no"
            \/ \E c \in DOMAIN conn :
                  conn[c].broken \/ conn[c].reader \in {"garbled", "closed"}

=============================================================================
