------------------------- MODULE RaftFSMRoleProofs -------------------------
(***************************************************************************)
(* How roles and timers follow one another: that nobody falls silent who   *)
(* does not release its leadership, and that leadership ends only for a    *)
(* higher term.  Each step changes one node, so the arguments are about a  *)
(* node and its successor.                                                 *)
(***************************************************************************)
EXTENDS RaftFSMProofs

\* NonLeaderTimesOut, of a node.
Ticking(n) ==
    n.status # "constructed" /\ n.role # "leader" => n.election_timeout_task = "active"

\* A leader stays what it is or becomes a follower of a higher term.
Loyal(n, o) ==
    n.role = "leader" =>
        \/ o.role = "leader" /\ o.term = n.term
        \/ o.role = "follower" /\ o.term > n.term

\* What a step does to the node n of server s that it changes.
RoleStep(s, n, o) ==
    /\ Loyal(n, o)
    /\ s \in Releasers => (o.role = "leader" => n.role = "leader")
    /\ s \notin Releasers => (Ticking(n) => Ticking(o))

(***************************************************************************)
(* convert_to_follower starts the election timer of a candidate or leader  *)
(* and leaves a follower alone.                                            *)
(***************************************************************************)
LEMMA FollowerRoles ==
    ASSUME NEW n \in Node
    PROVE  LET f == convert_to_follower(n)
           IN  /\ f.role = "follower" /\ f.term = n.term
               /\ Ticking(n) => Ticking(f)
<1>1. CASE n.role = "follower"
  BY <1>1 DEF convert_to_follower
<1>2. CASE n.role # "follower"
  BY <1>2 DEF convert_to_follower, Ticking, Node
<1> QED BY <1>1, <1>2

(***************************************************************************)
(* stay_follower leaves a follower.                                        *)
(***************************************************************************)
LEMMA StayRoles ==
    ASSUME NEW n \in Node
    PROVE  stay_follower(n).role = "follower"
<1> DEFINE f == convert_to_follower(n)
<1>1. f.role = "follower" /\ f \in Node
  BY FollowerRoles DEF convert_to_follower, pause, Node, Role, TaskState
<1>2. stay_follower(n) = [f EXCEPT !.election_timeout_task = pause(@),
                                   !.heartbeat_task = pause(@)]
  BY DEF stay_follower, pause_scheduled_tasks
<1> HIDE DEF f
<1> QED BY <1>1, <1>2 DEF Node

(***************************************************************************)
(* The common rule of the handlers deposes a leader only for a higher      *)
(* term.                                                                   *)
(***************************************************************************)
LEMMA AdoptRoles ==
    ASSUME NEW s, NEW n \in Node, NEW t \in 0..MaxTerm
    PROVE  /\ RoleStep(s, n, adopt_term(n, t))
           /\ adopt_term(n, t).role \in {n.role, "follower"}
<1> USE MaxTermAssumption
<1>1. CASE t > n.term
  <2> DEFINE h == [n EXCEPT !.term = t]
  <2>1. /\ h \in Node /\ h.term = t
        /\ Ticking(n) => Ticking(h)
    BY DEF Node, Ticking
  <2>2. adopt_term(n, t) = convert_to_follower(h)
    BY <1>1 DEF adopt_term
  <2> HIDE DEF h
  <2> QED BY <1>1, <2>1, <2>2, FollowerRoles DEF RoleStep, Loyal
<1>2. CASE ~(t > n.term)
  BY <1>2 DEF adopt_term, RoleStep, Loyal
<1> QED BY <1>1, <1>2

(***************************************************************************)
(* A node whose role, term, timer and status stay the same.                *)
(***************************************************************************)
LEMMA SameRoles ==
    ASSUME NEW s, NEW n, NEW k, NEW o, RoleStep(s, n, k),
           o.role = k.role, o.term = k.term, o.status = k.status,
           o.election_timeout_task = k.election_timeout_task
    PROVE  RoleStep(s, n, o)
BY DEF RoleStep, Ticking, Loyal

(***************************************************************************)
(* The steps of a server's own threads, and stop().                        *)
(***************************************************************************)
LEMMA ServerRoles ==
    ASSUME IndInv, TimerInv, NEW s \in Server, ServerStep(s)
    PROVE  /\ RoleStep(s, fsm[s], fsm'[s])
           /\ \A r \in Server : r # s => fsm'[r] = fsm[r]
<1> USE MaxTermAssumption
<1> DEFINE n == fsm[s]
           o == fsm'[s]
<1>1. n \in Node /\ fsm \in [Server -> Node] /\ Timers(n) /\ Tidy(n)
  BY NodeFacts DEF IndInv, TypeOK, TimerInv
<1>2. RoleStep(s, n, n)
  BY DEF RoleStep, Loyal
<1>3. CASE Start(s)
  <2>1. /\ n.role = "follower" /\ n.election_timeout_task = "none"
        /\ o.role = "follower" /\ o.election_timeout_task = "active"
        /\ \A r \in Server : r # s => fsm'[r] = fsm[r]
    BY <1>1, <1>3 DEF Start, Timers, Node
  <2> QED BY <2>1 DEF RoleStep, Ticking, Loyal
<1>4. CASE ElectionTimeoutDue(s) \/ IgnoreElectionTimeout(s)
  <2>1. /\ n.election_timeout_task = "active" \/ n.timeout_due
        /\ \E d \in BOOLEAN : fsm' = [fsm EXCEPT ![s] = [n EXCEPT !.timeout_due = d]]
    BY <1>1, <1>4 DEF ElectionTimeoutDue, IgnoreElectionTimeout
  <2>2. /\ o.role = n.role /\ o.term = n.term /\ o.status = n.status
        /\ o.election_timeout_task = n.election_timeout_task
        /\ \A r \in Server : r # s => fsm'[r] = fsm[r]
    BY <1>1, <2>1 DEF Node
  <2> QED BY <2>2 DEF RoleStep, Ticking, Loyal
<1>5. CASE HeartbeatDue(s) \/ (\E p \in Server : SendHeartbeat(s, p))
  <2>1. \E P : fsm' = [fsm EXCEPT ![s] = [n EXCEPT !.hb_peers = P]]
    BY <1>1, <1>5 DEF HeartbeatDue, SendHeartbeat
  <2>2. /\ o.role = n.role /\ o.term = n.term /\ o.status = n.status
        /\ o.election_timeout_task = n.election_timeout_task
        /\ \A r \in Server : r # s => fsm'[r] = fsm[r]
    BY <1>1, <2>1 DEF Node
  <2> QED BY <1>2, <2>2, SameRoles
<1>6. CASE Stop(s)
  <2>1. /\ o.role = n.role /\ o.term = n.term /\ n.status = "running"
        /\ o.election_timeout_task = n.election_timeout_task
        /\ \A r \in Server : r # s => fsm'[r] = fsm[r]
    BY <1>1, <1>6 DEF Stop, Node
  <2> QED BY <2>1 DEF RoleStep, Ticking, Loyal
<1>8. CASE HandleElectionTimeout(s)
  <2> DEFINE k == [n EXCEPT !.timeout_due = FALSE]
             c == IF k.role = "follower" THEN convert_to_candidate(s, k)
                                         ELSE start_new_election(s, k)
  <2>1. /\ k \in Node /\ n.timeout_due /\ n.role # "leader"
        /\ k.term + 1 \in 0..MaxTerm
    <3>1. n.timeout_due /\ n.role # "leader" /\ n.term + 2 <= MaxTerm
      BY <1>1, <1>8 DEF HandleElectionTimeout
    <3>2. k \in Node /\ k.term = n.term /\ n.term \in 0..MaxTerm
      BY <1>1 DEF Node
    <3> QED BY <3>1, <3>2
  <2>2. fsm' = [fsm EXCEPT ![s] = c]
    BY <1>8 DEF HandleElectionTimeout
  <2> HIDE DEF k
  <2>3. c.election_timeout_task = "active" /\ c.role # "leader"
    <3>1. ASSUME NEW j \in Node
          PROVE  /\ init_candidate_state(s, j).election_timeout_task = "active"
                 /\ init_candidate_state(s, j).role = j.role
      BY DEF init_candidate_state, vote_for_leader, Node
    <3>2. /\ [k EXCEPT !.term = @ + 1, !.role = "candidate"] \in Node
          /\ [k EXCEPT !.term = @ + 1, !.voted_peers = {}] \in Node
          /\ [k EXCEPT !.term = @ + 1, !.role = "candidate"].role = "candidate"
          /\ [k EXCEPT !.term = @ + 1, !.voted_peers = {}].role = k.role
          /\ k.role # "leader"
      BY <2>1 DEF k, Node, Role
    <3> QED BY <3>1, <3>2 DEF convert_to_candidate, start_new_election
  <2> HIDE DEF c
  <2>4. o = c /\ \A r \in Server : r # s => fsm'[r] = fsm[r]
    BY <1>1, <2>2
  <2> QED BY <2>1, <2>3, <2>4 DEF RoleStep, Ticking, Loyal
<1> QED BY <1>3, <1>4, <1>5, <1>6, <1>8 DEF ServerStep

(***************************************************************************)
(* The handlers of messages.                                               *)
(***************************************************************************)
LEMMA MessageRoles ==
    ASSUME IndInv, NEW m \in msgs, MessageStep(m)
    PROVE  \/ fsm' = fsm
           \/ \E o : fsm' = [fsm EXCEPT ![m.to] = o] /\ RoleStep(m.to, fsm[m.to], o)
<1> USE MaxTermAssumption
<1> DEFINE s == m.to
           n == adopt_term(fsm[s], m.term)
<1>1. m \in Message /\ s \in Server /\ m.from \in Server /\ m.term \in 0..MaxTerm
  BY DEF IndInv, TypeOK, Message
<1>2. fsm[s] \in Node /\ Tidy(fsm[s]) /\ fsm \in [Server -> Node]
  BY <1>1, NodeFacts DEF IndInv, TypeOK
<1>3. RoleStep(s, fsm[s], n) /\ n.role \in {fsm[s].role, "follower"}
  BY <1>1, <1>2, AdoptRoles
<1>4. n \in Node /\ (n.role = "candidate" => n.term < MaxTerm)
  <2>1. Quiet(fsm[s], n)
    BY <1>1, <1>2, AdoptQuiet
  <2> HIDE DEF n
  <2> QED BY <1>1, <2>1, QuietNode
<1>5. CASE LoseMessage(m)
  BY <1>5 DEF LoseMessage
<1>6. CASE HandleRequestVote(m)
  <2> DEFINE v == vote_for_leader(n, m.from, m.term)
  <2>1. fsm' = [fsm EXCEPT ![s] = IF m.term >= n.term THEN v ELSE n]
    BY <1>6 DEF HandleRequestVote
  <2> HIDE DEF n
  <2>2. /\ v.role = n.role /\ v.term = n.term /\ v.status = n.status
        /\ v.election_timeout_task = n.election_timeout_task
    BY <1>4 DEF vote_for_leader, Node
  <2> HIDE DEF v
  <2>3. RoleStep(s, fsm[s], v)
    BY <1>3, <2>2, SameRoles
  <2> QED BY <1>3, <2>1, <2>3
<1>7. CASE HandleRequestVoteResponse(m)
  <2> DEFINE v == [n EXCEPT !.voted_peers = @ \cup {m.from}]
             l == convert_to_leader(s, v)
  <2>1. \/ fsm' = [fsm EXCEPT ![s] = n]
        \/ n.role = "candidate" /\ (fsm' = [fsm EXCEPT ![s] = v] \/ fsm' = [fsm EXCEPT ![s] = l])
    BY <1>7 DEF HandleRequestVoteResponse
  <2> HIDE DEF n
  <2>2. /\ v.role = n.role /\ v.term = n.term /\ v.status = n.status
        /\ v.election_timeout_task = n.election_timeout_task
        /\ v \in Node
    BY <1>1, <1>4 DEF Node
  <2> HIDE DEF v
  <2>3. RoleStep(s, fsm[s], v)
    BY <1>3, <2>2, SameRoles
  <2>4. ASSUME n.role = "candidate"
        PROVE  RoleStep(s, fsm[s], l)
    <3>1. fsm[s].role = "candidate"
      BY <1>3, <2>4
    <3>2. IF s \in Releasers THEN l.role = "follower" ELSE l.role = "leader"
      <4> DEFINE w == [v EXCEPT !.voted_peers = {}, !.election_timeout_task = pause(@),
                                !.term = @ + 1, !.role = "leader",
                                !.heartbeat_task = "active"]
      <4>1. w \in Node /\ w.role = "leader"
        <5>1. v.term \in 0..MaxTerm /\ n.term \in 0..MaxTerm
          BY <1>4, <2>2 DEF Node
        <5>2. v.term + 1 \in 0..MaxTerm
          BY <1>4, <2>2, <2>4, <5>1
        <5>3. pause(v.election_timeout_task) \in TaskState
          BY DEF pause, TaskState
        <5> QED BY <2>2, <5>2, <5>3 DEF Node, Role, TaskState
      <4>2. l = IF s \in Releasers THEN stay_follower(w) ELSE w
        BY DEF convert_to_leader
      <4> HIDE DEF w, l
      <4> QED BY <4>1, <4>2, StayRoles
    <3> HIDE DEF l
    <3> QED BY <3>1, <3>2 DEF RoleStep, Ticking, Loyal
  <2> HIDE DEF l
  <2> QED BY <1>3, <2>1, <2>3, <2>4
<1>8. CASE HandleAppendEntries(m)
  <2> DEFINE f == convert_to_follower(n)
  <2>1. \/ fsm' = [fsm EXCEPT ![s] = n]
        \/ n.role = "candidate" /\ fsm' = [fsm EXCEPT ![s] = f]
    BY <1>8 DEF HandleAppendEntries
  <2> HIDE DEF n
  <2>2. n.role = "candidate" => RoleStep(s, fsm[s], f)
    BY <1>3, <1>4, FollowerRoles DEF RoleStep, Loyal
  <2> HIDE DEF f
  <2> QED BY <1>3, <2>1, <2>2
<1>9. CASE HandleAppendEntriesResponse(m)
  <2>1. fsm' = [fsm EXCEPT ![s] = n]
    BY <1>9 DEF HandleAppendEntriesResponse
  <2> HIDE DEF n
  <2> QED BY <1>3, <2>1
<1> QED BY <1>5, <1>6, <1>7, <1>8, <1>9 DEF MessageStep

(***************************************************************************)
(* Every step of the cluster, for every node.                              *)
(***************************************************************************)
LEMMA NextRoles ==
    ASSUME IndInv, TimerInv, [Next]_vars, NEW r \in Server
    PROVE  RoleStep(r, fsm[r], fsm'[r])
<1>1. RoleStep(r, fsm[r], fsm[r])
  BY DEF RoleStep, Loyal
<1>2. CASE UNCHANGED vars
  BY <1>1, <1>2 DEF vars
<1>3. ASSUME NEW s \in Server, ServerStep(s)
      PROVE  RoleStep(r, fsm[r], fsm'[r])
  <2>1. CASE r = s
    BY <1>3, <2>1, ServerRoles
  <2>2. CASE r # s
    <3>1. fsm'[r] = fsm[r]
      BY <1>3, <2>2, ServerRoles
    <3> QED BY <1>1, <3>1
  <2> QED BY <2>1, <2>2
<1>4. ASSUME NEW m \in msgs, MessageStep(m)
      PROVE  RoleStep(r, fsm[r], fsm'[r])
  <2>1. fsm \in [Server -> Node]
    BY DEF IndInv, TypeOK
  <2>2. CASE fsm' = fsm
    BY <1>1, <2>2
  <2>3. ASSUME NEW o, fsm' = [fsm EXCEPT ![m.to] = o], RoleStep(m.to, fsm[m.to], o)
        PROVE  RoleStep(r, fsm[r], fsm'[r])
    <3>1. CASE r = m.to
      BY <2>1, <2>3, <3>1
    <3>2. CASE r # m.to
      <4>1. fsm'[r] = fsm[r]
        BY <2>1, <2>3, <3>2
      <4> QED BY <1>1, <4>1
    <3> QED BY <3>1, <3>2
  <2> QED BY <1>4, <2>2, <2>3, MessageRoles
<1> QED BY <1>2, <1>3, <1>4 DEF Next

-----------------------------------------------------------------------------
(***************************************************************************)
(* Every started server that does not lead has a running election timer,   *)
(* unless it is one that releases its leadership.                          *)
(***************************************************************************)
THEOREM NobodyFallsSilent == Spec => []NonLeaderTimesOut
<1>1. NonLeaderTimesOut <=> \A s \in Server \ Releasers : Ticking(fsm[s])
  BY DEF NonLeaderTimesOut, Ticking
<1>2. NonLeaderTimesOut' <=> \A s \in Server \ Releasers : Ticking(fsm'[s])
  BY DEF NonLeaderTimesOut, Ticking
<1>3. Init => NonLeaderTimesOut
  BY DEF Init, NewNode, NonLeaderTimesOut
<1>4. IndInv /\ TimerInv /\ NonLeaderTimesOut /\ [Next]_vars => NonLeaderTimesOut'
  BY <1>1, <1>2, NextRoles DEF RoleStep
<1> QED BY <1>3, <1>4, Invariance, TimerInvariance, PTL DEF Spec

(***************************************************************************)
(* A leader keeps its term as long as it leads, gives up only to follow a  *)
(* higher term, was a candidate in the term before, and is none of those   *)
(* that release their leadership.                                          *)
(***************************************************************************)
THEOREM OrderlyLeadership == Spec => LeadershipChange
<1>1. ASSUME IndInv, TimerInv, [Next]_vars, NEW s \in Server
      PROVE  /\ Loyal(fsm[s], fsm'[s])
             /\ fsm[s].role # "leader" /\ fsm'[s].role = "leader" =>
                  /\ fsm[s].role = "candidate" /\ fsm'[s].term = fsm[s].term + 1
                  /\ s \notin Releasers
  <2>1. /\ Loyal(fsm[s], fsm'[s])
        /\ s \in Releasers => (fsm'[s].role = "leader" => fsm[s].role = "leader")
    BY <1>1, NextRoles DEF RoleStep
  <2>2. Grow
    BY <1>1, NextInv
  <2> QED BY <2>1, <2>2 DEF Grow, Effect, LeadershipEarned
<1>2. IndInv /\ TimerInv /\ [Next]_vars =>
        [\A s \in Server :
           LET n == fsm[s]
               o == fsm'[s]
           IN  /\ n.role = "leader" =>
                    \/ o.role = "leader" /\ o.term = n.term
                    \/ o.role = "follower" /\ o.term > n.term
               /\ n.role # "leader" /\ o.role = "leader" =>
                    n.role = "candidate" /\ o.term = n.term + 1 /\ s \notin Releasers]_vars
  BY <1>1 DEF Loyal
<1> QED BY <1>2, Invariance, TimerInvariance, PTL DEF Spec, LeadershipChange
=============================================================================
