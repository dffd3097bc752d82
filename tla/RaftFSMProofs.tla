--------------------------- MODULE RaftFSMProofs ---------------------------
(***************************************************************************)
(* Proofs about RaftFSM for every set of servers, every bound on terms and *)
(* messages, every codec that satisfies WireAssumption and every choice of *)
(* servers that stop or release their leadership.  The argument: IndInv is *)
(* inductive.  Most steps are Quiet: they change one node, cast no vote    *)
(* and win no election.  Only the three handlers of an election (a         *)
(* timeout, a vote request, a vote response) need an argument of their     *)
(* own.                                                                    *)
(***************************************************************************)
EXTENDS RaftFSM, FiniteSetTheorems, TLAPS

-----------------------------------------------------------------------------
(* One node. *)

\* Only a candidate keeps a tally.
Tidy(n) == n.role # "candidate" => n.voted_peers = {}

\* o may follow n when no vote is cast and no election won.
Quiet(n, o) ==
    /\ o \in Node
    /\ n.term <= o.term
    /\ o.last_voted = n.last_voted
    /\ o.last_voted_term = n.last_voted_term
    /\ o.role \in {"candidate", "leader"} => o.role = n.role /\ o.term = n.term
    /\ o.voted_peers = IF o.role = "candidate" THEN n.voted_peers ELSE {}
    /\ o.heartbeat_task # "none" => n.heartbeat_task # "none"
    /\ o.hb_peers # {} => n.hb_peers # {} \/ n.heartbeat_task # "none"

(***************************************************************************)
(* convert_to_follower keeps the term and the vote and empties the tally.  *)
(***************************************************************************)
LEMMA FollowerQuiet ==
    ASSUME NEW n \in Node, Tidy(n)
    PROVE  /\ Quiet(n, convert_to_follower(n))
           /\ convert_to_follower(n).role = "follower"
           /\ convert_to_follower(n).term = n.term
<1> USE MaxTermAssumption
<1>1. CASE n.role = "follower"
  BY <1>1 DEF convert_to_follower, Quiet, Tidy, Node, Role
<1>2. CASE n.role # "follower"
  <2> DEFINE f == [n EXCEPT
                     !.role = "follower",
                     !.voted_peers = IF n.role = "candidate" THEN {} ELSE @,
                     !.heartbeat_task = IF n.role = "leader" THEN pause(@) ELSE @,
                     !.election_timeout_task = "active"]
  <2>1. convert_to_follower(n) = f
    BY <1>2 DEF convert_to_follower
  <2>2. f \in Node
    BY DEF Node, Role, TaskState, pause
  <2>3. /\ f.role = "follower" /\ f.term = n.term
        /\ f.last_voted = n.last_voted /\ f.last_voted_term = n.last_voted_term
        /\ f.hb_peers = n.hb_peers
        /\ f.voted_peers = {}
        /\ f.heartbeat_task # "none" => n.heartbeat_task # "none"
    BY DEF Node, Role, TaskState, pause, Tidy
  <2> HIDE DEF f
  <2> QED BY <2>1, <2>2, <2>3 DEF Quiet, Node
<1> QED BY <1>1, <1>2

(***************************************************************************)
(* stay_follower does no more than convert_to_follower and pausing timers. *)
(***************************************************************************)
LEMMA StayQuiet ==
    ASSUME NEW n \in Node, Tidy(n)
    PROVE  /\ Quiet(n, stay_follower(n))
           /\ stay_follower(n).role = "follower"
           /\ stay_follower(n).term = n.term
<1> DEFINE f == convert_to_follower(n)
<1>1. Quiet(n, f) /\ f.role = "follower" /\ f.term = n.term
  BY FollowerQuiet
<1> HIDE DEF f
<1> DEFINE g == [f EXCEPT !.election_timeout_task = pause(@), !.heartbeat_task = pause(@)]
<1>2. stay_follower(n) = g
  BY DEF stay_follower, pause_scheduled_tasks, f
<1>3. f \in Node
  BY <1>1 DEF Quiet
<1>4. /\ pause(f.election_timeout_task) \in TaskState
      /\ pause(f.heartbeat_task) \in TaskState
      /\ pause(f.heartbeat_task) # "none" => f.heartbeat_task # "none"
  BY DEF pause, TaskState
<1>5. g \in Node
  BY <1>3, <1>4 DEF Node
<1>6. /\ g.role = f.role /\ g.term = f.term
      /\ g.last_voted = f.last_voted /\ g.last_voted_term = f.last_voted_term
      /\ g.voted_peers = f.voted_peers /\ g.hb_peers = f.hb_peers
      /\ g.heartbeat_task # "none" => f.heartbeat_task # "none"
  BY <1>3, <1>4 DEF Node
<1> HIDE DEF g
<1> QED BY <1>1, <1>2, <1>5, <1>6 DEF Quiet

(***************************************************************************)
(* Adopting the term of an event leaves a term at least as high, and no    *)
(* candidate or leader whose term it changed.                              *)
(***************************************************************************)
LEMMA AdoptQuiet ==
    ASSUME NEW n \in Node, Tidy(n), NEW t \in 0..MaxTerm
    PROVE  /\ Quiet(n, adopt_term(n, t))
           /\ t <= adopt_term(n, t).term
<1> USE MaxTermAssumption
<1>1. CASE t > n.term
  <2> DEFINE h == [n EXCEPT !.term = t]
  <2>1. /\ h \in Node
        /\ Tidy(h)
        /\ n.term < h.term
        /\ h.term = t
        /\ h.last_voted = n.last_voted
        /\ h.last_voted_term = n.last_voted_term
        /\ h.heartbeat_task = n.heartbeat_task
        /\ h.hb_peers = n.hb_peers
    BY <1>1 DEF Node, Tidy
  <2>2. adopt_term(n, t) = convert_to_follower(h)
    BY <1>1 DEF adopt_term
  <2> HIDE DEF h
  <2>3. /\ Quiet(h, convert_to_follower(h))
        /\ convert_to_follower(h).role = "follower"
        /\ convert_to_follower(h).term = h.term
    BY <2>1, FollowerQuiet
  <2> QED BY <2>1, <2>2, <2>3 DEF Quiet, Node
<1>2. CASE ~(t > n.term)
  BY <1>2 DEF adopt_term, Quiet, Tidy, Node, Role
<1> QED BY <1>1, <1>2

-----------------------------------------------------------------------------
(* Votes and elections. *)

(***************************************************************************)
(* The supporters of a server are some of the finitely many servers.       *)
(***************************************************************************)
LEMMA SupportersFinite ==
    ASSUME NEW s, NEW t
    PROVE  /\ IsFiniteSet(Supporters(s, t))
           /\ Cardinality(Supporters(s, t)) \in Nat
           /\ Supporters(s, t) \subseteq Server
<1>1. Supporters(s, t) \subseteq Server
  BY DEF Supporters
<1>2. IsFiniteSet(Supporters(s, t))
  BY <1>1, FS_Subset, ServerAssumption
<1> QED BY <1>1, <1>2, FS_CardinalityType

(***************************************************************************)
(* A quorum is a natural number.                                           *)
(***************************************************************************)
LEMMA MajorityType == majority \in Nat /\ 2 * majority > Cardinality(Server)
<1>1. Cardinality(Server) \in Nat
  BY FS_CardinalityType, ServerAssumption
<1> QED BY <1>1 DEF majority

(***************************************************************************)
(* Votes are never taken back, so an election that was won stays won.      *)
(***************************************************************************)
LEMMA WonGrows ==
    ASSUME ballots \subseteq ballots', NEW s, NEW t, Won(s, t)
    PROVE  Won(s, t)'
<1>1. Supporters(s, t)' \subseteq Server /\ Supporters(s, t) \subseteq Supporters(s, t)'
  BY DEF Supporters
<1>2. IsFiniteSet(Supporters(s, t)') /\ Cardinality(Supporters(s, t)') \in Nat
  BY <1>1, FS_Subset, FS_CardinalityType, ServerAssumption
<1>3. Cardinality(Supporters(s, t)) <= Cardinality(Supporters(s, t)')
  BY <1>1, <1>2, FS_Subset
<1> QED BY <1>2, <1>3, SupportersFinite, MajorityType DEF Won

(***************************************************************************)
(* A tally of a majority of real votes is a won election.                  *)
(***************************************************************************)
LEMMA MajorityWins ==
    ASSUME NEW s, NEW t, NEW P, P \subseteq Supporters(s, t),
           Cardinality(P) >= majority
    PROVE  Won(s, t)
<1>1. IsFiniteSet(P) /\ Cardinality(P) <= Cardinality(Supporters(s, t))
  BY SupportersFinite, FS_Subset
<1>2. Cardinality(P) \in Nat
  BY <1>1, FS_CardinalityType
<1> QED BY <1>1, <1>2, SupportersFinite, MajorityType DEF Won

(***************************************************************************)
(* Two majorities share a voter, which votes once in a term: a term has at *)
(* most one winner.                                                        *)
(***************************************************************************)
LEMMA WinnersAgree ==
    ASSUME VotesRecorded, NEW r, NEW s, NEW t, Won(r, t), Won(s, t)
    PROVE  r = s
<1>1. Supporters(r, t) \cap Supporters(s, t) # {}
  <2>1. Cardinality(Supporters(r, t)) + Cardinality(Supporters(s, t))
          > Cardinality(Server)
    <3>1. Cardinality(Server) \in Nat
      BY FS_CardinalityType, ServerAssumption
    <3> QED BY <3>1, SupportersFinite, MajorityType DEF Won
  <2> QED BY <2>1, SupportersFinite, FS_MajoritiesIntersect, ServerAssumption
<1>2. PICK v \in Server :
        /\ [voter |-> v, cand |-> r, term |-> t] \in ballots
        /\ [voter |-> v, cand |-> s, term |-> t] \in ballots
  BY <1>1 DEF Supporters
<1> DEFINE a == [voter |-> v, cand |-> r, term |-> t]
           b == [voter |-> v, cand |-> s, term |-> t]
<1>3. a.voter = b.voter /\ a.term = b.term /\ a \in ballots /\ b \in ballots
  BY <1>2
<1>4. a.cand = b.cand
  BY <1>3 DEF VotesRecorded
<1> QED BY <1>4

(***************************************************************************)
(* New votes of one server, all equal to what Voter now remembers, keep    *)
(* Voter's record true, provided Voter only moves to a higher term or      *)
(* stays with its candidate.                                               *)
(***************************************************************************)
LEMMA VoteStep ==
    ASSUME TypeOK, VotesRecorded, NEW s \in Server,
           fsm' \in [Server -> Node],
           \A r \in Server : r # s => fsm'[r] = fsm[r],
           fsm[s].last_voted_term <= fsm'[s].last_voted_term,
           fsm[s].last_voted_term = fsm'[s].last_voted_term
             => fsm[s].last_voted = fsm'[s].last_voted,
           \A b \in ballots' :
             \/ b \in ballots
             \/ /\ b \in Ballot
                /\ b.voter = s
                /\ b.term = fsm'[s].last_voted_term
                /\ b.cand = fsm'[s].last_voted
    PROVE  VotesRecorded'
<1> USE MaxTermAssumption
<1>1. \A r \in Server : fsm[r].last_voted_term \in Int /\ fsm'[r].last_voted_term \in Int
  BY DEF TypeOK, Node
<1>2. \A b \in ballots' : b.voter \in Server /\ b.term \in Int
  BY DEF TypeOK, Ballot
<1>3. ASSUME NEW b \in ballots'
      PROVE  /\ b.term <= fsm'[b.voter].last_voted_term
             /\ b.term = fsm'[b.voter].last_voted_term
                  => b.cand = fsm'[b.voter].last_voted
  <2>1. CASE b \notin ballots
    BY <2>1, <1>1, <1>2
  <2>2. CASE b \in ballots
    <3>1. /\ b.term <= fsm[b.voter].last_voted_term
          /\ b.term = fsm[b.voter].last_voted_term
               => b.cand = fsm[b.voter].last_voted
      BY <2>2 DEF VotesRecorded
    <3> QED BY <3>1, <1>1, <1>2
  <2> QED BY <2>1, <2>2
<1>4. ASSUME NEW a \in ballots', NEW b \in ballots',
             a.voter = b.voter, a.term = b.term
      PROVE  a.cand = b.cand
  <2>1. CASE a \in ballots /\ b \in ballots
    BY <2>1, <1>4 DEF VotesRecorded
  <2>2. CASE a \notin ballots
    BY <2>2, <1>3, <1>4
  <2>3. CASE b \notin ballots
    BY <2>3, <1>3, <1>4
  <2> QED BY <2>1, <2>2, <2>3
<1> QED BY <1>3, <1>4 DEF VotesRecorded

-----------------------------------------------------------------------------
(* Steps of the cluster. *)

(***************************************************************************)
(* The term a message carries is encoded and not below the sender's term.  *)
(***************************************************************************)
LEMMA WireFacts ==
    ASSUME NEW t \in 0..MaxTerm
    PROVE  /\ Wire(t) \in 0..MaxTerm
           /\ Wire(t) \in Int
           /\ t <= Wire(t)
           /\ Wire(Wire(t)) = Wire(t)
BY WireAssumption, MaxTermAssumption

\* A leader was the leader of its term already, or a candidate that has won the
\* term it was in and has just got the answer of one of its supporters.
LeadershipEarned(s) ==
    fsm'[s].role = "leader" =>
        \/ fsm[s].role = "leader" /\ fsm'[s].term = fsm[s].term
        \/ /\ fsm[s].role = "candidate" /\ fsm'[s].term = fsm[s].term + 1
           /\ Won(s, fsm[s].term) /\ ballots' = ballots
           /\ \E m \in msgs : /\ m.type = "request_vote_res" /\ m.to = s
                             /\ m.from \in Supporters(s, fsm[s].term)

\* The votes cast by a step of s are its own, of its present term and, unless
\* for itself, of a term that came out of the codec.
NewBallots(s) ==
    \A b \in ballots' \ ballots :
        /\ b.voter = s
        /\ b.term = fsm'[s].term
        /\ b.cand = s \/ Wire(b.term) = b.term

\* What a step of s does to the votes and to the leaders.
Effect(s) ==
    /\ \A r \in Server : r # s => fsm'[r] = fsm[r]
    /\ ballots \subseteq ballots'
    /\ NewBallots(s)
    /\ LeadershipEarned(s)

\* No term_ and no last_voted_term goes back, and one server moves at a time.
Grow ==
    /\ \A s \in Server : /\ fsm[s].term <= fsm'[s].term
                         /\ fsm[s].last_voted_term <= fsm'[s].last_voted_term
    /\ UNCHANGED <<fsm, ballots>> \/ \E s \in Server : Effect(s)

\* A message that claims neither a vote nor, unless earned, a leadership.
Harmless(m) ==
    /\ m \in Message
    /\ Wire(m.term) = m.term
    /\ ~(m.type = "request_vote_res" /\ m.vote_granted)
    /\ m.type = "append_entries_req" => \E t \in 0..(m.term - 1) : Won(m.from, t)

(***************************************************************************)
(* The nodes of a cluster in which IndInv holds.                           *)
(***************************************************************************)
LEMMA NodeFacts ==
    ASSUME IndInv, NEW s \in Server
    PROVE  /\ fsm[s] \in Node
           /\ Tidy(fsm[s])
           /\ fsm[s].term \in 0..MaxTerm
           /\ fsm[s].last_voted_term \in 0..MaxTerm
           /\ fsm[s].last_voted_term <= fsm[s].term
BY DEF IndInv, TypeOK, TallyIsReal, TermsInOrder, Tidy, Node

\* One node changes quietly and only harmless messages are sent.
QuietAction(s) ==
    /\ fsm' \in [Server -> Node]
    /\ \A r \in Server : r # s => fsm'[r] = fsm[r]
    /\ Quiet(fsm[s], fsm'[s])
    /\ \A m \in msgs' : m \in msgs \/ Harmless(m)
    /\ ballots' = ballots

(***************************************************************************)
(* Quiet actions keep the inductive invariant.                             *)
(***************************************************************************)
LEMMA QuietStep ==
    ASSUME IndInv, NEW s \in Server, QuietAction(s)
    PROVE  IndInv' /\ Grow
<1> USE MaxTermAssumption DEF QuietAction
<1> DEFINE n == fsm[s]
           o == fsm'[s]
<1>1. /\ n \in Node /\ o \in Node
      /\ \A r \in Server : r # s => fsm'[r] = fsm[r]
      /\ \A r \in Server : fsm[r] \in Node
  BY DEF IndInv, TypeOK
<1>2. \A r, t : Supporters(r, t)' = Supporters(r, t) /\ (Won(r, t)' <=> Won(r, t))
  BY DEF Supporters, Won
<1>3. TypeOK'
  <2>1. msgs' \subseteq Message
    BY DEF IndInv, TypeOK, Harmless
  <2> QED BY <1>1, <2>1 DEF IndInv, TypeOK
<1>4. TermsInOrder'
  <2>1. o.last_voted_term <= o.term
    BY <1>1, NodeFacts DEF Quiet, Node
  <2>2. o.role = "candidate" => o.term < MaxTerm
    BY <1>1 DEF Quiet, IndInv, TermsInOrder
  <2> QED BY <1>1, <2>1, <2>2 DEF IndInv, TermsInOrder
<1>5. VotesRecorded'
  <2>1. o.last_voted_term = n.last_voted_term /\ o.last_voted = n.last_voted
    BY DEF Quiet
  <2>2. \A b \in ballots : b.voter \in Server
    BY DEF IndInv, TypeOK, Ballot
  <2>3. \A b \in ballots :
          /\ fsm'[b.voter].last_voted_term = fsm[b.voter].last_voted_term
          /\ fsm'[b.voter].last_voted = fsm[b.voter].last_voted
    BY <1>1, <2>1, <2>2
  <2> QED BY <2>3 DEF IndInv, VotesRecorded
<1>6. MessagesTrue'
  BY DEF IndInv, MessagesTrue, Harmless
<1>7. TallyIsReal'
  <2>1. ASSUME NEW r \in Server
        PROVE  IF fsm'[r].role = "candidate"
               THEN fsm'[r].voted_peers \subseteq Supporters(r, fsm'[r].term)
               ELSE fsm'[r].voted_peers = {}
    <3>1. CASE r = s
      BY <3>1, <1>1 DEF Quiet, IndInv, TallyIsReal
    <3>2. CASE r # s
      BY <3>2, <1>1 DEF IndInv, TallyIsReal
    <3> QED BY <3>1, <3>2
  <2> QED BY <2>1, <1>2 DEF TallyIsReal
<1>8. LeaderWonPreviousTerm'
  <2>1. ASSUME NEW r \in Server, fsm'[r].role = "leader"
        PROVE  fsm'[r].term > 0 /\ Won(r, fsm'[r].term - 1)
    <3>1. fsm[r].role = "leader" /\ fsm'[r].term = fsm[r].term
      BY <1>1, <2>1 DEF Quiet
    <3> QED BY <3>1 DEF IndInv, LeaderWonPreviousTerm, Leaders
  <2> QED BY <2>1, <1>2 DEF LeaderWonPreviousTerm, Leaders
<1>9. HeartbeatEarned'
  <2>1. ASSUME NEW r \in Server,
               fsm'[r].heartbeat_task # "none" \/ fsm'[r].hb_peers # {}
        PROVE  \E t \in 0..(fsm'[r].term - 1) : Won(r, t)
    <3>1. /\ fsm[r].heartbeat_task # "none" \/ fsm[r].hb_peers # {}
          /\ fsm[r].term <= fsm'[r].term
          /\ fsm[r].term \in Int /\ fsm'[r].term \in Int
      BY <1>1, <2>1 DEF Quiet, Node
    <3>2. PICK t \in 0..(fsm[r].term - 1) : Won(r, t)
      BY <3>1 DEF IndInv, HeartbeatEarned
    <3>3. t \in 0..(fsm'[r].term - 1)
      BY <3>1
    <3> QED BY <3>2, <3>3
  <2> QED BY <2>1, <1>2 DEF HeartbeatEarned
<1>10. HeartbeatFromWinner'
  BY <1>2 DEF IndInv, HeartbeatFromWinner, Harmless
<1>11. Effect(s)
  BY <1>1 DEF Effect, NewBallots, LeadershipEarned, Quiet
<1>12. Grow
  BY <1>1, <1>11 DEF Grow, Quiet, Node
<1> QED BY <1>3, <1>4, <1>5, <1>6, <1>7, <1>8, <1>9, <1>10, <1>12 DEF IndInv

(***************************************************************************)
(* Start, the two timers falling due, an ignored timeout and stop touch    *)
(* neither the term, the vote, the role nor the tally.                     *)
(***************************************************************************)
LEMMA BookkeepingStep ==
    ASSUME IndInv, NEW s \in Server,
           \/ Start(s) \/ ElectionTimeoutDue(s) \/ IgnoreElectionTimeout(s)
           \/ HeartbeatDue(s) \/ Stop(s)
    PROVE  IndInv' /\ Grow
<1> USE MaxTermAssumption
<1> DEFINE n == fsm[s]
           o == fsm'[s]
<1>1. n \in Node /\ Tidy(n)
  BY NodeFacts
<1>2. fsm \in [Server -> Node]
  BY DEF IndInv, TypeOK
<1>3. /\ o \in Node
      /\ o.role = n.role /\ o.term = n.term /\ o.voted_peers = n.voted_peers
      /\ o.last_voted = n.last_voted /\ o.last_voted_term = n.last_voted_term
      /\ o.heartbeat_task = n.heartbeat_task
      /\ o.hb_peers # {} => n.hb_peers # {} \/ n.heartbeat_task # "none"
      /\ fsm' = [fsm EXCEPT ![s] = o]
  <2>1. CASE Start(s)
    BY <1>1, <1>2, <2>1 DEF Start, Node, TaskState
  <2>2. CASE ElectionTimeoutDue(s)
    BY <1>1, <1>2, <2>2 DEF ElectionTimeoutDue, Node
  <2>3. CASE IgnoreElectionTimeout(s)
    BY <1>1, <1>2, <2>3 DEF IgnoreElectionTimeout, Node
  <2>4. CASE HeartbeatDue(s)
    BY <1>1, <1>2, <2>4 DEF HeartbeatDue, Node, get_peers
  <2>5. CASE Stop(s)
    BY <1>1, <1>2, <2>5 DEF Stop, Node
  <2> QED BY <2>1, <2>2, <2>3, <2>4, <2>5
<1>4. msgs' = msgs /\ ballots' = ballots
  BY DEF Start, ElectionTimeoutDue, IgnoreElectionTimeout, HeartbeatDue, Stop
<1>5. Quiet(n, o)
  BY <1>1, <1>3 DEF Quiet, Tidy, Node
<1>6. QuietAction(s)
  BY <1>2, <1>3, <1>4, <1>5 DEF QuietAction
<1> QED BY <1>6, QuietStep

(***************************************************************************)
(* The heartbeat loop sends in whatever role and term the server now is,   *)
(* but only a past winner is in that loop.                                 *)
(***************************************************************************)
LEMMA HeartbeatStep ==
    ASSUME IndInv, NEW s \in Server, NEW p \in Server, SendHeartbeat(s, p)
    PROVE  IndInv' /\ Grow
<1> USE MaxTermAssumption
<1> DEFINE n == fsm[s]
           o == [n EXCEPT !.hb_peers = @ \ {p}]
           m == Event("append_entries_req", s, p, n.term, FALSE)
<1>1. n \in Node /\ Tidy(n) /\ n.term \in 0..MaxTerm
  BY NodeFacts
<1>2. Quiet(n, o)
  <2>1. n.hb_peers # {}
    BY DEF SendHeartbeat
  <2> QED BY <1>1, <2>1 DEF Quiet, Tidy, Node
<1>3. /\ m \in Message
      /\ m.type = "append_entries_req" /\ m.from = s
      /\ Wire(m.term) = m.term /\ n.term <= m.term /\ m.term \in Int
  BY <1>1, WireFacts DEF EventType, Message, Event
<1>4. n.term \in Int /\ n.term >= 0
  BY <1>1
<1>5. fsm' = [fsm EXCEPT ![s] = o] /\ msgs' = msgs \cup {m} /\ ballots' = ballots
  BY DEF SendHeartbeat, IndInv, TypeOK
<1> HIDE DEF m, o
<1>6. \E t \in 0..(m.term - 1) : Won(s, t)
  <2>1. PICK t \in 0..(n.term - 1) : Won(s, t)
    BY DEF IndInv, HeartbeatEarned, SendHeartbeat
  <2>2. t \in 0..(m.term - 1)
    BY <1>3, <1>4, <2>1
  <2> QED BY <2>1, <2>2
<1>7. Harmless(m)
  BY <1>3, <1>6 DEF Harmless
<1>8. QuietAction(s)
  BY <1>2, <1>5, <1>7 DEF QuietAction, Quiet, IndInv, TypeOK
<1> QED BY <1>8, QuietStep

(***************************************************************************)
(* Losing a message, or doing nothing.                                     *)
(***************************************************************************)
LEMMA LoseStep ==
    ASSUME IndInv, fsm' = fsm, ballots' = ballots, msgs' \subseteq msgs
    PROVE  IndInv' /\ Grow
<1>1. \A r, t : Supporters(r, t)' = Supporters(r, t) /\ (Won(r, t)' <=> Won(r, t))
  BY DEF Supporters, Won
<1>2. TypeOK' /\ TermsInOrder' /\ VotesRecorded' /\ MessagesTrue'
  BY DEF IndInv, TypeOK, TermsInOrder, VotesRecorded, MessagesTrue
<1>3. TallyIsReal' /\ LeaderWonPreviousTerm' /\ HeartbeatEarned'
  BY <1>1 DEF IndInv, TallyIsReal, LeaderWonPreviousTerm, Leaders, HeartbeatEarned
<1>4. HeartbeatFromWinner'
  BY <1>1 DEF IndInv, HeartbeatFromWinner
<1>5. Grow
  BY MaxTermAssumption DEF IndInv, TypeOK, Grow, Node
<1> QED BY <1>2, <1>3, <1>4, <1>5 DEF IndInv

(***************************************************************************)
(* A heartbeat and the answer to one: the receiver at most adopts a term   *)
(* and converts to follower.                                               *)
(***************************************************************************)
LEMMA AppendEntriesStep ==
    ASSUME IndInv, NEW m \in msgs,
           HandleAppendEntries(m) \/ HandleAppendEntriesResponse(m)
    PROVE  IndInv' /\ Grow
<1> USE MaxTermAssumption
<1> DEFINE s == m.to
           n == adopt_term(fsm[s], m.term)
<1>1. m \in Message /\ s \in Server /\ m.from \in Server /\ m.term \in 0..MaxTerm
  BY DEF IndInv, TypeOK, Message
<1>2. fsm[s] \in Node /\ Tidy(fsm[s]) /\ fsm \in [Server -> Node]
  BY <1>1, NodeFacts DEF IndInv, TypeOK
<1>3. Quiet(fsm[s], n)
  BY <1>1, <1>2, AdoptQuiet
<1> HIDE DEF n
<1>4. CASE HandleAppendEntries(m)
  <2> DEFINE f == IF m.term >= n.term /\ n.role = "candidate"
                  THEN convert_to_follower(n) ELSE n
             k == Event("append_entries_res", s, m.from, f.term, FALSE)
  <2>1. Tidy(n) /\ n \in Node
    BY <1>2, <1>3 DEF Quiet, Tidy
  <2>2. Quiet(n, convert_to_follower(n)) /\ convert_to_follower(n).role = "follower"
    BY <2>1, FollowerQuiet
  <2>3. Quiet(fsm[s], convert_to_follower(n))
    BY <1>2, <1>3, <2>1, <2>2 DEF Quiet, Node
  <2>4. Quiet(fsm[s], f)
    BY <1>3, <2>3
  <2>5. f \in Node /\ f.term \in 0..MaxTerm
    BY <2>4 DEF Quiet, Node
  <2>6. /\ fsm' = [fsm EXCEPT ![s] = f]
        /\ msgs' \subseteq msgs \cup {k}
        /\ ballots' = ballots
    BY <1>4 DEF HandleAppendEntries, n
  <2> HIDE DEF f
  <2>7. k \in Message /\ k.type = "append_entries_res" /\ Wire(k.term) = k.term
    BY <1>1, <2>5, WireFacts DEF EventType, Event, Message
  <2> HIDE DEF k
  <2>8. Harmless(k)
    BY <2>7 DEF Harmless
  <2>9. QuietAction(s)
    BY <1>1, <1>2, <2>4, <2>5, <2>6, <2>8 DEF QuietAction
  <2> QED BY <1>1, <2>9, QuietStep
<1>5. CASE HandleAppendEntriesResponse(m)
  <2>1. fsm' = [fsm EXCEPT ![s] = n] /\ msgs' \subseteq msgs /\ ballots' = ballots
    BY <1>5 DEF HandleAppendEntriesResponse, n
  <2>2. QuietAction(s)
    BY <1>1, <1>2, <1>3, <2>1 DEF QuietAction, Quiet
  <2> QED BY <1>1, <2>2, QuietStep
<1> QED BY <1>4, <1>5

-----------------------------------------------------------------------------
(* The steps of an election. *)

\* Supporters and Won for a given set of votes.
Backers(B, s, t) == {v \in Server : [voter |-> v, cand |-> s, term |-> t] \in B}
WonBy(B, s, t) == Cardinality(Backers(B, s, t)) >= majority

(***************************************************************************)
(* Supporters and Won before and after a step that only adds votes.        *)
(***************************************************************************)
LEMMA BackersFacts ==
    ASSUME ballots \subseteq ballots'
    PROVE  \A s, t : /\ Supporters(s, t) = Backers(ballots, s, t)
                     /\ Supporters(s, t)' = Backers(ballots', s, t)
                     /\ Won(s, t) <=> WonBy(ballots, s, t)
                     /\ Won(s, t)' <=> WonBy(ballots', s, t)
                     /\ Backers(ballots, s, t) \subseteq Backers(ballots', s, t)
                     /\ Won(s, t) => WonBy(ballots', s, t)
<1>1. \A s, t : /\ Supporters(s, t) = Backers(ballots, s, t)
                /\ Supporters(s, t)' = Backers(ballots', s, t)
                /\ Backers(ballots, s, t) \subseteq Backers(ballots', s, t)
  BY DEF Supporters, Backers
<1>2. \A s, t : /\ Won(s, t) <=> WonBy(ballots, s, t)
                /\ Won(s, t)' <=> WonBy(ballots', s, t)
  BY <1>1 DEF Won, WonBy
<1>3. \A s, t : Won(s, t) => Won(s, t)'
  BY WonGrows
<1> QED BY <1>1, <1>2, <1>3

\* What IndInv demands of node s and of the new messages after a step of s.
ElectionAction(s) ==
    /\ fsm' \in [Server -> Node]
    /\ \A r \in Server : r # s => fsm'[r] = fsm[r]
    /\ ballots \subseteq ballots'
    /\ ballots' \subseteq Ballot
    /\ LET o == fsm'[s]
       IN  /\ fsm[s].term <= o.term
           /\ fsm[s].last_voted_term <= o.last_voted_term
           /\ o.last_voted_term <= o.term
           /\ o.role = "candidate" => o.term < MaxTerm
           /\ IF o.role = "candidate"
              THEN o.voted_peers \subseteq Backers(ballots', s, o.term)
              ELSE o.voted_peers = {}
           /\ o.role = "leader" => o.term > 0 /\ WonBy(ballots', s, o.term - 1)
           /\ o.heartbeat_task # "none" \/ o.hb_peers # {}
                => \E t \in 0..(o.term - 1) : WonBy(ballots', s, t)
    /\ \A m \in msgs' :
         \/ m \in msgs
         \/ /\ m \in Message
            /\ Wire(m.term) = m.term
            /\ m.type # "append_entries_req"
            /\ m.type = "request_vote_res" /\ m.vote_granted
                 => [voter |-> m.from, cand |-> m.to, term |-> m.term] \in ballots'
    /\ NewBallots(s)
    /\ LeadershipEarned(s)

(***************************************************************************)
(* Because votes are never taken back, nothing but the node that moved and *)
(* the messages it sent has to be looked at.                               *)
(***************************************************************************)
LEMMA ElectionStep ==
    ASSUME IndInv, NEW s \in Server, ElectionAction(s), VotesRecorded'
    PROVE  IndInv' /\ Grow
<1> USE DEF ElectionAction
<1> DEFINE o == fsm'[s]
<1>1. \A r \in Server : r # s => fsm'[r] = fsm[r]
  OBVIOUS
<1>2. \A r, t : /\ Supporters(r, t) \subseteq Backers(ballots', r, t)
                /\ Supporters(r, t)' = Backers(ballots', r, t)
                /\ Won(r, t) => WonBy(ballots', r, t)
                /\ Won(r, t)' <=> WonBy(ballots', r, t)
  BY BackersFacts
<1>4. TypeOK'
  BY DEF IndInv, TypeOK
<1>5. TermsInOrder'
  BY <1>1 DEF IndInv, TermsInOrder
<1>6. MessagesTrue'
  BY DEF IndInv, MessagesTrue
<1>7. TallyIsReal'
  <2>1. ASSUME NEW r \in Server
        PROVE  IF fsm'[r].role = "candidate"
               THEN fsm'[r].voted_peers \subseteq Backers(ballots', r, fsm'[r].term)
               ELSE fsm'[r].voted_peers = {}
    <3>1. CASE r = s
      BY <3>1
    <3>2. CASE r # s
      BY <3>2, <1>1, <1>2 DEF IndInv, TallyIsReal
    <3> QED BY <3>1, <3>2
  <2> QED BY <1>2, <2>1 DEF TallyIsReal
<1>8. LeaderWonPreviousTerm'
  <2>1. ASSUME NEW r \in Server, fsm'[r].role = "leader"
        PROVE  fsm'[r].term > 0 /\ WonBy(ballots', r, fsm'[r].term - 1)
    <3>1. CASE r = s
      BY <3>1, <2>1
    <3>2. CASE r # s
      BY <3>2, <2>1, <1>1, <1>2 DEF IndInv, LeaderWonPreviousTerm, Leaders
    <3> QED BY <3>1, <3>2
  <2> QED BY <1>2, <2>1 DEF LeaderWonPreviousTerm, Leaders
<1>9. HeartbeatEarned'
  <2>1. ASSUME NEW r \in Server,
               fsm'[r].heartbeat_task # "none" \/ fsm'[r].hb_peers # {}
        PROVE  \E t \in 0..(fsm'[r].term - 1) : WonBy(ballots', r, t)
    <3>1. CASE r = s
      BY <3>1, <2>1
    <3>2. CASE r # s
      BY <3>2, <2>1, <1>1, <1>2 DEF IndInv, HeartbeatEarned
    <3> QED BY <3>1, <3>2
  <2> QED BY <1>2, <2>1 DEF HeartbeatEarned
<1>10. HeartbeatFromWinner'
  BY <1>2 DEF IndInv, HeartbeatFromWinner
<1>11. Grow
  BY <1>1, MaxTermAssumption DEF IndInv, TypeOK, Grow, Effect, Node
<1> QED BY <1>4, <1>5, <1>6, <1>7, <1>8, <1>9, <1>10, <1>11 DEF IndInv

(***************************************************************************)
(* A server that starts an election in a term in which it has not voted    *)
(* votes for itself, and its tally is that one vote.                       *)
(***************************************************************************)
LEMMA VoteSelf ==
    ASSUME NEW s \in Server, NEW n \in Node,
           n.voted_peers = {}, n.last_voted_term < n.term
    PROVE  LET c == init_candidate_state(s, n)
           IN  /\ c \in Node
               /\ c.role = n.role /\ c.term = n.term
               /\ c.last_voted = s /\ c.last_voted_term = n.term
               /\ c.voted_peers = {s}
               /\ c.heartbeat_task = n.heartbeat_task /\ c.hb_peers = n.hb_peers
<1> USE MaxTermAssumption
<1> DEFINE v == [n EXCEPT !.last_voted_term = n.term, !.last_voted = s]
           c == [v EXCEPT !.election_timeout_task = "active",
                          !.voted_peers = @ \cup {s}]
<1>1. vote_granted(n, s, n.term) /\ vote_for_leader(n, s, n.term) = v
  BY DEF vote_granted, vote_for_leader, Node
<1>2. init_candidate_state(s, n) = c
  BY <1>1 DEF init_candidate_state
<1>3. /\ v \in Node /\ v.role = n.role /\ v.term = n.term
      /\ v.last_voted = s /\ v.last_voted_term = n.term /\ v.voted_peers = {}
      /\ v.heartbeat_task = n.heartbeat_task /\ v.hb_peers = n.hb_peers
  BY DEF Node
<1> HIDE DEF v
<1>4. /\ c \in Node /\ c.role = v.role /\ c.term = v.term
      /\ c.last_voted = v.last_voted /\ c.last_voted_term = v.last_voted_term
      /\ c.voted_peers = {s}
      /\ c.heartbeat_task = v.heartbeat_task /\ c.hb_peers = v.hb_peers
  BY <1>3 DEF Node, TaskState
<1> HIDE DEF c
<1> QED BY <1>2, <1>3, <1>4

(***************************************************************************)
(* An election timeout: the server moves to the next term and votes for    *)
(* itself, whether it was a follower or a candidate.                       *)
(***************************************************************************)
LEMMA TimeoutStep ==
    ASSUME IndInv, NEW s \in Server, HandleElectionTimeout(s)
    PROVE  IndInv' /\ Grow
<1> USE MaxTermAssumption
<1> DEFINE n == [fsm[s] EXCEPT !.timeout_due = FALSE]
           h == [n EXCEPT !.term = @ + 1, !.role = "candidate"]
           k == [n EXCEPT !.term = @ + 1, !.voted_peers = {}]
           c == IF n.role = "follower" THEN convert_to_candidate(s, n)
                                       ELSE start_new_election(s, n)
           t == fsm[s].term + 1
           b == [voter |-> s, cand |-> s, term |-> t]
<1>1. /\ fsm[s] \in Node /\ Tidy(fsm[s]) /\ fsm \in [Server -> Node]
      /\ fsm[s].role \in {"follower", "candidate"}
      /\ t \in 1..MaxTerm /\ t < MaxTerm /\ fsm[s].last_voted_term < t
      /\ fsm[s].last_voted_term \in Int
  BY NodeFacts DEF HandleElectionTimeout, IndInv, TypeOK
<1>2. /\ n \in Node /\ n.role = fsm[s].role /\ n.term = fsm[s].term
      /\ n.voted_peers = fsm[s].voted_peers
      /\ n.last_voted_term = fsm[s].last_voted_term
      /\ n.heartbeat_task = fsm[s].heartbeat_task /\ n.hb_peers = fsm[s].hb_peers
  BY <1>1 DEF Node
<1>3. fsm' = [fsm EXCEPT ![s] = c]
  BY DEF HandleElectionTimeout
<1>4. PICK reached \in SUBSET get_peers(s) :
        msgs' = msgs \cup {Event("request_vote_req", s, p, c.term, FALSE) : p \in reached}
  BY DEF HandleElectionTimeout
<1>5. ballots' = ballots \cup
        {[voter |-> s, cand |-> s, term |-> c.term] : p \in c.voted_peers}
  BY DEF HandleElectionTimeout
<1>6. /\ c \in Node
      /\ c.role = "candidate" /\ c.term = t
      /\ c.last_voted = s /\ c.last_voted_term = t
      /\ c.voted_peers = {s}
      /\ c.heartbeat_task = fsm[s].heartbeat_task /\ c.hb_peers = fsm[s].hb_peers
  <2>0. /\ n.term + 1 = t /\ t \in 0..MaxTerm
        /\ n.last_voted_term < t
        /\ n.role = "follower" => n.voted_peers = {}
    BY <1>1, <1>2 DEF Tidy
  <2> HIDE DEF n, t
  <2>1. CASE n.role = "follower"
    <3>1. /\ h \in Node
          /\ h.role = "candidate" /\ h.term = t
          /\ h.voted_peers = {} /\ h.last_voted_term < h.term
          /\ h.heartbeat_task = n.heartbeat_task /\ h.hb_peers = n.hb_peers
      BY <1>2, <2>0, <2>1 DEF Node, Role
    <3>2. c = init_candidate_state(s, h)
      BY <2>1 DEF convert_to_candidate
    <3> HIDE DEF h, c
    <3> QED BY <1>2, <3>1, <3>2, VoteSelf
  <2>2. CASE n.role = "candidate"
    <3>1. /\ k \in Node
          /\ k.role = "candidate" /\ k.term = t
          /\ k.voted_peers = {} /\ k.last_voted_term < k.term
          /\ k.heartbeat_task = n.heartbeat_task /\ k.hb_peers = n.hb_peers
      BY <1>2, <2>0, <2>2 DEF Node, Role
    <3>2. c = init_candidate_state(s, k)
      BY <2>2 DEF start_new_election
    <3> HIDE DEF k, c
    <3> QED BY <1>2, <3>1, <3>2, VoteSelf
  <2> QED BY <1>1, <1>2, <2>1, <2>2
<1> HIDE DEF c, n
<1>7. ballots' = ballots \cup {b}
  BY <1>5, <1>6
<1>8. b \in Ballot /\ b.voter = s /\ b.cand = s /\ b.term = t
  BY <1>1 DEF Ballot
<1>9. /\ fsm' \in [Server -> Node]
      /\ fsm'[s] = c
      /\ \A r \in Server : r # s => fsm'[r] = fsm[r]
  BY <1>1, <1>3, <1>6
<1>10. VotesRecorded'
  <2>1. TypeOK /\ VotesRecorded
    BY DEF IndInv
  <2>2. /\ fsm[s].last_voted_term <= fsm'[s].last_voted_term
        /\ fsm[s].last_voted_term # fsm'[s].last_voted_term
    BY <1>1, <1>6, <1>9
  <2> HIDE DEF b, t
  <2>3. \A x \in ballots' :
          \/ x \in ballots
          \/ /\ x \in Ballot /\ x.voter = s
             /\ x.term = fsm'[s].last_voted_term /\ x.cand = fsm'[s].last_voted
    BY <1>6, <1>7, <1>8, <1>9
  <2> QED BY <1>9, <2>1, <2>2, <2>3, VoteStep
<1>11. s \in Backers(ballots', s, t)
  BY <1>7 DEF Backers
<1>12. ASSUME c.heartbeat_task # "none" \/ c.hb_peers # {}
       PROVE  \E u \in 0..(c.term - 1) : WonBy(ballots', s, u)
  <2>1. PICK u \in 0..(fsm[s].term - 1) : Won(s, u)
    BY <1>6, <1>12 DEF IndInv, HeartbeatEarned
  <2>2. WonBy(ballots', s, u)
    BY <1>7, <2>1, BackersFacts
  <2>3. fsm[s].term \in Int
    BY <1>1 DEF Node
  <2> QED BY <1>6, <2>1, <2>2, <2>3
<1>13. \A m \in msgs' :
         \/ m \in msgs
         \/ /\ m \in Message
            /\ Wire(m.term) = m.term
            /\ m.type = "request_vote_req"
  <2>1. t \in 0..MaxTerm
    BY <1>1
  <2>2. ASSUME NEW p \in reached
        PROVE  LET m == Event("request_vote_req", s, p, c.term, FALSE)
               IN  m \in Message /\ Wire(m.term) = m.term /\ m.type = "request_vote_req"
    BY <1>6, <2>1, WireFacts DEF Event, Message, EventType, get_peers
  <2> QED BY <1>4, <2>2
<1>14. ElectionAction(s)
  <2>1. ballots \subseteq ballots' /\ ballots' \subseteq Ballot
    BY <1>7, <1>8 DEF IndInv, TypeOK
  <2>2. /\ fsm[s].term <= c.term /\ fsm[s].last_voted_term <= c.last_voted_term
        /\ c.last_voted_term <= c.term /\ c.term < MaxTerm
    BY <1>1, <1>6 DEF Node
  <2> HIDE DEF b
  <2>3. c.voted_peers \subseteq Backers(ballots', s, c.term)
    BY <1>6, <1>11
  <2>4. NewBallots(s) /\ LeadershipEarned(s)
    BY <1>6, <1>7, <1>8, <1>9 DEF NewBallots, LeadershipEarned
  <2> HIDE DEF t
  <2> QED BY <1>6, <1>12, <1>13, <1>9, <2>1, <2>2, <2>3, <2>4 DEF ElectionAction
<1> QED BY <1>14, <1>10, ElectionStep

(***************************************************************************)
(* What IndInv says of a node still holds of a quiet successor of it.      *)
(***************************************************************************)
LEMMA QuietNode ==
    ASSUME IndInv, NEW s \in Server, NEW o, Quiet(fsm[s], o)
    PROVE  /\ o \in Node
           /\ o.term \in 0..MaxTerm
           /\ o.last_voted_term \in 0..MaxTerm
           /\ o.last_voted_term <= o.term
           /\ o.role = "candidate" => o.term < MaxTerm
           /\ IF o.role = "candidate"
              THEN o.voted_peers \subseteq Supporters(s, o.term)
              ELSE o.voted_peers = {}
           /\ o.role = "leader" => o.term > 0 /\ Won(s, o.term - 1)
           /\ o.heartbeat_task # "none" \/ o.hb_peers # {}
                => \E t \in 0..(o.term - 1) : Won(s, t)
<1> USE MaxTermAssumption
<1>1. /\ o \in Node /\ o.term \in 0..MaxTerm /\ o.last_voted_term \in 0..MaxTerm
      /\ o.last_voted_term <= o.term
  BY NodeFacts DEF Quiet, Node
<1>2. o.role = "candidate" => o.term < MaxTerm
  BY DEF Quiet, IndInv, TermsInOrder
<1>3. IF o.role = "candidate"
      THEN o.voted_peers \subseteq Supporters(s, o.term)
      ELSE o.voted_peers = {}
  BY DEF Quiet, IndInv, TallyIsReal
<1>4. o.role = "leader" => o.term > 0 /\ Won(s, o.term - 1)
  BY DEF Quiet, IndInv, LeaderWonPreviousTerm, Leaders
<1>5. ASSUME o.heartbeat_task # "none" \/ o.hb_peers # {}
      PROVE  \E t \in 0..(o.term - 1) : Won(s, t)
  <2>1. fsm[s].heartbeat_task # "none" \/ fsm[s].hb_peers # {}
    BY <1>5 DEF Quiet
  <2>2. PICK t \in 0..(fsm[s].term - 1) : Won(s, t)
    BY <2>1 DEF IndInv, HeartbeatEarned
  <2>3. fsm[s].term <= o.term /\ fsm[s].term \in Int /\ o.term \in Int
    BY <1>1, NodeFacts DEF Quiet
  <2> QED BY <2>2, <2>3
<1> QED BY <1>1, <1>2, <1>3, <1>4, <1>5

(***************************************************************************)
(* Voter::vote_for_leader: what a granted vote leaves in Voter.            *)
(***************************************************************************)
LEMMA VoteFacts ==
    ASSUME NEW n \in Node, NEW cand \in Server, NEW t \in 0..MaxTerm
    PROVE  LET v == vote_for_leader(n, cand, t)
           IN  /\ v \in Node
               /\ v.role = n.role /\ v.term = n.term
               /\ v.voted_peers = n.voted_peers
               /\ v.heartbeat_task = n.heartbeat_task /\ v.hb_peers = n.hb_peers
               /\ n.last_voted_term <= v.last_voted_term
               /\ v.last_voted_term \in {n.last_voted_term, t}
               /\ v.last_voted_term = n.last_voted_term => v.last_voted = n.last_voted
               /\ vote_granted(n, cand, t)
                    => v.last_voted_term = t /\ v.last_voted = cand
<1> USE MaxTermAssumption
<1>1. CASE t > n.last_voted_term
  <2> DEFINE v == [n EXCEPT !.last_voted_term = t, !.last_voted = cand]
  <2>1. vote_for_leader(n, cand, t) = v
    BY <1>1 DEF vote_for_leader
  <2>2. /\ v \in Node
        /\ v.role = n.role /\ v.term = n.term /\ v.voted_peers = n.voted_peers
        /\ v.heartbeat_task = n.heartbeat_task /\ v.hb_peers = n.hb_peers
        /\ v.last_voted_term = t /\ v.last_voted = cand
    BY DEF Node
  <2>3. n.last_voted_term \in Int
    BY DEF Node
  <2> HIDE DEF v
  <2> QED BY <1>1, <2>1, <2>2, <2>3
<1>2. CASE ~(t > n.last_voted_term)
  <2>1. n.last_voted_term \in Int
    BY DEF Node
  <2> QED BY <1>2, <2>1 DEF vote_for_leader, vote_granted
<1> QED BY <1>1, <1>2

(***************************************************************************)
(* A vote request: a granted vote is cast in the receiver's own term and   *)
(* is in the history before the answer is on its way.                      *)
(***************************************************************************)
LEMMA RequestVoteStep ==
    ASSUME IndInv, NEW m \in msgs, HandleRequestVote(m)
    PROVE  IndInv' /\ Grow
<1> USE MaxTermAssumption
<1> DEFINE s == m.to
           n == adopt_term(fsm[s], m.term)
           granted == m.term >= n.term /\ vote_granted(n, m.from, m.term)
           k == Event("request_vote_res", s, m.from, n.term, granted)
           v == vote_for_leader(n, m.from, m.term)
           o == IF m.term >= n.term THEN v ELSE n
           b == [voter |-> s, cand |-> m.from, term |-> m.term]
<1>1. /\ m \in Message /\ s \in Server /\ m.from \in Server
      /\ m.term \in 0..MaxTerm /\ Wire(m.term) = m.term
  BY DEF IndInv, TypeOK, Message, MessagesTrue
<1>2. fsm[s] \in Node /\ Tidy(fsm[s]) /\ fsm \in [Server -> Node]
  BY <1>1, NodeFacts DEF IndInv, TypeOK
<1>3. Quiet(fsm[s], n) /\ m.term <= n.term
  BY <1>1, <1>2, AdoptQuiet
<1>4. /\ fsm' = [fsm EXCEPT ![s] = o]
      /\ msgs' = (msgs \ {m}) \cup {k}
      /\ ballots' = IF granted THEN ballots \cup {b} ELSE ballots
  BY DEF HandleRequestVote
<1> HIDE DEF n
<1>5. n \in Node /\ n.term \in 0..MaxTerm /\ n.last_voted_term \in 0..MaxTerm
      /\ n.last_voted_term <= n.term
  BY <1>1, <1>3, QuietNode
<1>6. /\ v \in Node
      /\ v.role = n.role /\ v.term = n.term /\ v.voted_peers = n.voted_peers
      /\ v.heartbeat_task = n.heartbeat_task /\ v.hb_peers = n.hb_peers
      /\ n.last_voted_term <= v.last_voted_term
      /\ v.last_voted_term \in {n.last_voted_term, m.term}
      /\ v.last_voted_term = n.last_voted_term => v.last_voted = n.last_voted
      /\ vote_granted(n, m.from, m.term)
           => v.last_voted_term = m.term /\ v.last_voted = m.from
  BY <1>1, <1>5, VoteFacts
<1> HIDE DEF v
<1>7. /\ o \in Node
      /\ o.role = n.role /\ o.term = n.term /\ o.voted_peers = n.voted_peers
      /\ o.heartbeat_task = n.heartbeat_task /\ o.hb_peers = n.hb_peers
      /\ n.last_voted_term <= o.last_voted_term
      /\ o.last_voted_term <= o.term
      /\ o.last_voted_term = n.last_voted_term => o.last_voted = n.last_voted
      /\ granted => o.last_voted_term = m.term /\ o.last_voted = m.from
  BY <1>1, <1>3, <1>5, <1>6
<1>8. granted => n.term = m.term
  BY <1>1, <1>3, <1>5
<1>9. granted \in BOOLEAN
  BY DEF vote_granted
<1> HIDE DEF o, granted
<1>10. /\ fsm' \in [Server -> Node]
       /\ fsm'[s] = o
       /\ \A r \in Server : r # s => fsm'[r] = fsm[r]
  BY <1>1, <1>2, <1>4, <1>7
<1>11. b \in Ballot /\ b.voter = s /\ b.cand = m.from /\ b.term = m.term
  BY <1>1 DEF Ballot
<1>12. VotesRecorded'
  <2>1. TypeOK /\ VotesRecorded
    BY DEF IndInv
  <2>2. fsm[s].last_voted_term = n.last_voted_term /\ fsm[s].last_voted = n.last_voted
    BY <1>3 DEF Quiet
  <2> HIDE DEF b
  <2>3. \A x \in ballots' :
          \/ x \in ballots
          \/ /\ x \in Ballot /\ x.voter = s
             /\ x.term = fsm'[s].last_voted_term /\ x.cand = fsm'[s].last_voted
    BY <1>4, <1>7, <1>10, <1>11
  <2> HIDE DEF s
  <2> QED BY <1>1, <1>7, <1>10, <2>1, <2>2, <2>3, VoteStep
<1>13. /\ k \in Message /\ k.type = "request_vote_res"
       /\ k.from = s /\ k.to = m.from /\ k.vote_granted = granted
       /\ Wire(k.term) = k.term /\ k.term = Wire(n.term)
  BY <1>1, <1>5, <1>9, WireFacts DEF Event, Message, EventType
<1>14. granted => [voter |-> k.from, cand |-> k.to, term |-> k.term] \in ballots'
  BY <1>1, <1>4, <1>8, <1>13
<1> HIDE DEF k
<1>15. ballots \subseteq ballots' /\ ballots' \subseteq Ballot
  BY <1>4, <1>11 DEF IndInv, TypeOK
<1>16. ElectionAction(s)
  <2>1. \A r, t : /\ Supporters(r, t) \subseteq Backers(ballots', r, t)
                  /\ Won(r, t) => WonBy(ballots', r, t)
    BY <1>15, BackersFacts
  <2>2. /\ o.role = "candidate" => o.term < MaxTerm
        /\ IF o.role = "candidate"
           THEN o.voted_peers \subseteq Supporters(s, o.term)
           ELSE o.voted_peers = {}
        /\ o.role = "leader" => o.term > 0 /\ Won(s, o.term - 1)
        /\ o.heartbeat_task # "none" \/ o.hb_peers # {}
             => \E t \in 0..(o.term - 1) : Won(s, t)
    BY <1>1, <1>3, <1>7, QuietNode
  <2>3. \A q \in msgs' : q \in msgs \/ q = k
    BY <1>4
  <2>4. fsm[s].term <= o.term /\ fsm[s].last_voted_term <= o.last_voted_term
    BY <1>3, <1>7 DEF Quiet
  <2>5. NewBallots(s)
    <3> HIDE DEF b
    <3> QED BY <1>1, <1>4, <1>7, <1>8, <1>10, <1>11 DEF NewBallots
  <2>6. LeadershipEarned(s)
    BY <1>3, <1>7, <1>10 DEF LeadershipEarned, Quiet
  <2> QED BY <1>7, <1>10, <1>13, <1>14, <1>15, <2>1, <2>2, <2>3, <2>4, <2>5, <2>6
          DEF ElectionAction
<1> QED BY <1>1, <1>12, <1>16, ElectionStep

(***************************************************************************)
(* convert_to_leader, with an on_become_leader that may step down at once. *)
(***************************************************************************)
LEMMA LeaderFacts ==
    ASSUME NEW s, NEW v \in Node, v.term < MaxTerm
    PROVE  LET l == convert_to_leader(s, v)
           IN  /\ l \in Node
               /\ l.role \in {"leader", "follower"}
               /\ l.term = v.term + 1
               /\ l.voted_peers = {}
               /\ l.last_voted = v.last_voted
               /\ l.last_voted_term = v.last_voted_term
<1> USE MaxTermAssumption
<1> DEFINE l == [v EXCEPT !.voted_peers = {},
                          !.election_timeout_task = pause(@),
                          !.term = @ + 1,
                          !.role = "leader",
                          !.heartbeat_task = "active"]
<1>1. v.term + 1 \in 0..MaxTerm /\ pause(v.election_timeout_task) \in TaskState
  BY DEF Node, pause, TaskState
<1>2. /\ l \in Node /\ l.role = "leader" /\ l.term = v.term + 1
      /\ l.voted_peers = {}
      /\ l.last_voted = v.last_voted /\ l.last_voted_term = v.last_voted_term
  BY <1>1 DEF Node, Role, TaskState
<1>3. convert_to_leader(s, v) = IF s \in Releasers THEN stay_follower(l) ELSE l
  BY DEF convert_to_leader
<1> HIDE DEF l
<1>4. Tidy(l)
  BY <1>2 DEF Tidy
<1>5. Quiet(l, stay_follower(l)) /\ stay_follower(l).role = "follower"
      /\ stay_follower(l).term = l.term
  BY <1>2, <1>4, StayQuiet
<1>6. CASE s \in Releasers
  BY <1>2, <1>3, <1>5, <1>6 DEF Quiet
<1>7. CASE s \notin Releasers
  BY <1>2, <1>3, <1>7
<1> QED BY <1>6, <1>7

(***************************************************************************)
(* A vote response: it counts only for the candidate's present term, so a  *)
(* majority in the tally is a majority of that term's voters.              *)
(***************************************************************************)
LEMMA RequestVoteResponseStep ==
    ASSUME IndInv, NEW m \in msgs, HandleRequestVoteResponse(m)
    PROVE  IndInv' /\ Grow
<1> USE MaxTermAssumption
<1> DEFINE s == m.to
           n == adopt_term(fsm[s], m.term)
           v == [n EXCEPT !.voted_peers = @ \cup {m.from}]
           l == convert_to_leader(s, v)
           counts == m.term >= n.term /\ n.role = "candidate" /\ m.vote_granted
           elected == Cardinality(v.voted_peers) >= majority
           o == IF ~counts THEN n ELSE IF elected THEN l ELSE v
<1>1. /\ m \in Message /\ s \in Server /\ m.from \in Server
      /\ m.term \in 0..MaxTerm /\ m.type = "request_vote_res"
  BY DEF IndInv, TypeOK, Message, HandleRequestVoteResponse, Receivable
<1>2. fsm[s] \in Node /\ Tidy(fsm[s]) /\ fsm \in [Server -> Node]
  BY <1>1, NodeFacts DEF IndInv, TypeOK
<1>3. Quiet(fsm[s], n) /\ m.term <= n.term
  BY <1>1, <1>2, AdoptQuiet
<1>4. fsm' = [fsm EXCEPT ![s] = o] /\ msgs' \subseteq msgs /\ ballots' = ballots
  BY DEF HandleRequestVoteResponse
<1> HIDE DEF n
<1>5. /\ n \in Node /\ n.term \in 0..MaxTerm /\ n.last_voted_term \in 0..MaxTerm
      /\ n.last_voted_term <= n.term
      /\ n.role = "candidate" =>
           n.term < MaxTerm /\ n.voted_peers \subseteq Supporters(s, n.term)
      /\ n.heartbeat_task # "none" \/ n.hb_peers # {}
           => \E t \in 0..(n.term - 1) : Won(s, t)
  BY <1>1, <1>3, QuietNode
<1>6. CASE ~counts
  <2>1. fsm' = [fsm EXCEPT ![s] = n]
    BY <1>4, <1>6
  <2>2. QuietAction(s)
    BY <1>1, <1>2, <1>3, <1>4, <2>1 DEF QuietAction, Quiet
  <2> HIDE DEF s
  <2> QED BY <1>1, <2>2, QuietStep
<1>7. CASE counts
  <2>1. m.term = n.term /\ n.role = "candidate" /\ m.vote_granted
    BY <1>1, <1>3, <1>5, <1>7
  <2>2. m.from \in Supporters(s, n.term)
    BY <1>1, <2>1 DEF IndInv, MessagesTrue, Supporters
  <2>3. /\ v \in Node /\ v.role = "candidate" /\ v.term = n.term
        /\ v.last_voted_term = n.last_voted_term /\ v.last_voted = n.last_voted
        /\ v.voted_peers = n.voted_peers \cup {m.from}
        /\ v.heartbeat_task = n.heartbeat_task /\ v.hb_peers = n.hb_peers
    BY <1>1, <1>5, <2>1 DEF Node
  <2>4. v.voted_peers \subseteq Supporters(s, v.term)
    BY <1>5, <2>1, <2>2, <2>3
  <2> HIDE DEF v
  <2>5. /\ l \in Node
        /\ l.role \in {"leader", "follower"}
        /\ l.term = v.term + 1
        /\ l.voted_peers = {}
        /\ l.last_voted_term = v.last_voted_term /\ l.last_voted = v.last_voted
    BY <1>5, <2>1, <2>3, LeaderFacts
  <2>6. elected => Won(s, v.term)
    BY <2>4, MajorityWins
  <2>7. /\ fsm' = [fsm EXCEPT ![s] = IF elected THEN l ELSE v]
    BY <1>4, <1>7
  <2>8. ElectionAction(s)
    <3>1. \A r, t : /\ Supporters(r, t) \subseteq Backers(ballots', r, t)
                    /\ Won(r, t) => WonBy(ballots', r, t)
      BY <1>4, BackersFacts
    <3>2. ballots' \subseteq Ballot /\ ballots' = ballots /\ msgs' \subseteq msgs
      BY <1>4 DEF IndInv, TypeOK
    <3>3. /\ fsm[s].term <= v.term /\ fsm[s].term <= v.term + 1
          /\ fsm[s].last_voted_term <= v.last_voted_term
      BY <1>2, <1>3, <1>5, <2>3 DEF Quiet, Node
    <3>4. CASE elected
      <4>1. /\ fsm' \in [Server -> Node]
            /\ fsm'[s] = l
            /\ \A r \in Server : r # s => fsm'[r] = fsm[r]
        BY <1>1, <1>2, <2>5, <2>7, <3>4
      <4>2. /\ l.last_voted_term <= l.term
            /\ l.term > 0 /\ l.term - 1 = v.term /\ v.term \in 0..(l.term - 1)
        BY <1>5, <2>3, <2>5
      <4>3. WonBy(ballots', s, v.term)
        BY <2>6, <3>1, <3>4
      <4>4. fsm[s].role = "candidate" /\ n.term = fsm[s].term
        BY <1>3, <2>1 DEF Quiet
      <4>5. LeadershipEarned(s)
        BY <1>1, <2>2, <2>3, <2>5, <2>6, <3>2, <3>4, <4>1, <4>4 DEF LeadershipEarned
      <4> HIDE DEF l
      <4> QED BY <2>5, <3>2, <3>3, <4>1, <4>2, <4>3, <4>5 DEF ElectionAction, NewBallots
    <3>5. CASE ~elected
      <4>1. /\ fsm' \in [Server -> Node]
            /\ fsm'[s] = v
            /\ \A r \in Server : r # s => fsm'[r] = fsm[r]
        BY <1>1, <1>2, <2>3, <2>7, <3>5
      <4>2. NewBallots(s) /\ LeadershipEarned(s)
        BY <2>3, <3>2, <4>1 DEF NewBallots, LeadershipEarned
      <4> QED BY <1>5, <2>1, <2>3, <2>4, <3>1, <3>2, <3>3, <4>1, <4>2 DEF ElectionAction
    <3> QED BY <3>4, <3>5
  <2>9. VotesRecorded'
    <3>1. n.last_voted_term = fsm[s].last_voted_term /\ n.last_voted = fsm[s].last_voted
      BY <1>3 DEF Quiet
    <3>2. \A r \in Server : /\ fsm'[r].last_voted_term = fsm[r].last_voted_term
                            /\ fsm'[r].last_voted = fsm[r].last_voted
      BY <1>2, <2>3, <2>5, <2>7, <3>1
    <3> QED BY <1>4, <3>2 DEF IndInv, VotesRecorded, TypeOK, Ballot
  <2> HIDE DEF s
  <2> QED BY <1>1, <2>8, <2>9, ElectionStep
<1> QED BY <1>6, <1>7

-----------------------------------------------------------------------------
(* The inductive invariant and what follows from it. *)

(***************************************************************************)
(* Newly constructed RaftFSMs satisfy the invariant.                       *)
(***************************************************************************)
LEMMA InitInv == Init => IndInv
<1> SUFFICES ASSUME Init PROVE IndInv
  OBVIOUS
<1> USE MaxTermAssumption
<1>1. /\ NewNode \in Node
      /\ NewNode.role = "follower" /\ NewNode.voted_peers = {} /\ NewNode.hb_peers = {}
      /\ NewNode.term = 0 /\ NewNode.last_voted_term = 0
      /\ NewNode.heartbeat_task = "none"
  BY DEF NewNode, Node, Role, TaskState
<1>2. /\ \A s \in Server : fsm[s] = NewNode
      /\ fsm \in [Server -> Node]
      /\ msgs = {} /\ ballots = {}
  BY <1>1 DEF Init
<1> QED
  BY <1>1, <1>2 DEF IndInv, TypeOK, TermsInOrder, VotesRecorded, MessagesTrue,
                    TallyIsReal, LeaderWonPreviousTerm, Leaders, HeartbeatEarned,
                    HeartbeatFromWinner

(***************************************************************************)
(* Every step of the cluster preserves the invariant, lowers no term and   *)
(* moves one server at most.                                               *)
(***************************************************************************)
LEMMA NextInv == IndInv /\ [Next]_vars => IndInv' /\ Grow
<1> SUFFICES ASSUME IndInv, [Next]_vars PROVE IndInv' /\ Grow
  OBVIOUS
<1>1. CASE UNCHANGED vars
  BY <1>1, LoseStep DEF vars
<1>2. ASSUME NEW s \in Server, ServerStep(s) PROVE IndInv' /\ Grow
  <2>1. CASE \/ Start(s) \/ ElectionTimeoutDue(s) \/ IgnoreElectionTimeout(s)
             \/ HeartbeatDue(s) \/ Stop(s)
    BY <2>1, BookkeepingStep
  <2>2. CASE HandleElectionTimeout(s)
    BY <2>2, TimeoutStep
  <2>3. CASE \E p \in Server : SendHeartbeat(s, p)
    BY <2>3, HeartbeatStep
  <2> QED BY <1>2, <2>1, <2>2, <2>3 DEF ServerStep
<1>3. ASSUME NEW m \in msgs, MessageStep(m) PROVE IndInv' /\ Grow
  <2>1. CASE LoseMessage(m)
    BY <2>1, LoseStep DEF LoseMessage
  <2>2. CASE HandleRequestVote(m)
    BY <2>2, RequestVoteStep
  <2>3. CASE HandleRequestVoteResponse(m)
    BY <2>3, RequestVoteResponseStep
  <2>4. CASE HandleAppendEntries(m) \/ HandleAppendEntriesResponse(m)
    BY <2>4, AppendEntriesStep
  <2> QED BY <1>3, <2>1, <2>2, <2>3, <2>4 DEF MessageStep
<1> QED BY <1>1, <1>2, <1>3 DEF Next

(***************************************************************************)
(* IndInv holds in every reachable state of the cluster.                   *)
(***************************************************************************)
THEOREM Invariance == Spec => []IndInv
BY InitInv, NextInv, PTL DEF Spec

(***************************************************************************)
(* Every RaftFSM, message and recorded vote always has its type; no term   *)
(* leaves the bound, although the codec may enlarge terms and              *)
(* convert_to_leader increments them once more.                            *)
(***************************************************************************)
THEOREM TypeCorrect == Spec => []TypeOK
<1>1. IndInv => TypeOK
  BY DEF IndInv
<1> QED BY <1>1, Invariance, PTL

(***************************************************************************)
(* Voter and the tally of handle_request_vote_response do their work: at   *)
(* most one server ever wins a term.                                       *)
(***************************************************************************)
THEOREM UniqueWinners == Spec => []OneWinnerPerTerm
<1>1. IndInv => OneWinnerPerTerm
  BY WinnersAgree DEF IndInv, OneWinnerPerTerm
<1> QED BY <1>1, Invariance, PTL

(***************************************************************************)
(* No two servers are leader with the same term_, whatever the network     *)
(* does and whoever is stopped, as long as no process loses its Voter.     *)
(***************************************************************************)
THEOREM SafeElections == Spec => []ElectionSafety
<1>1. IndInv => ElectionSafety
  <2> SUFFICES ASSUME IndInv, NEW s \in Leaders, NEW t \in Leaders,
                      fsm[s].term = fsm[t].term
               PROVE  s = t
    BY DEF ElectionSafety
  <2>1. Won(s, fsm[s].term - 1) /\ Won(t, fsm[s].term - 1)
    BY DEF IndInv, LeaderWonPreviousTerm
  <2> QED BY <2>1, WinnersAgree DEF IndInv
<1> QED BY <1>1, Invariance, PTL

(***************************************************************************)
(* What a candidate counts in handle_request_vote_response are votes that  *)
(* other servers have really cast for it in its term.                      *)
(***************************************************************************)
THEOREM TalliesReal == Spec => []TallyIsReal
<1>1. IndInv => TallyIsReal
  BY DEF IndInv
<1> QED BY <1>1, Invariance, PTL

(***************************************************************************)
(* A server is leader only by a majority of the term before its own one.   *)
(***************************************************************************)
THEOREM LeadersElected == Spec => []LeaderWonPreviousTerm
<1>1. IndInv => LeaderWonPreviousTerm
  BY DEF IndInv
<1> QED BY <1>1, Invariance, PTL

(***************************************************************************)
(* The heartbeat loop reads role_ and term_ without a lock, yet only a     *)
(* server that has won an earlier term ever sends a heartbeat.             *)
(***************************************************************************)
THEOREM HeartbeatsEarned == Spec => []HeartbeatFromWinner
<1>1. IndInv => HeartbeatFromWinner
  BY DEF IndInv
<1> QED BY <1>1, Invariance, PTL

(***************************************************************************)
(* term_ and last_voted_term never go back, and no server ever votes above *)
(* its own term.                                                           *)
(***************************************************************************)
THEOREM TermsMonotone == Spec => TermsOnlyGrow
<1>1. IndInv /\ IndInv' /\ [Next]_vars =>
        [\A s \in Server :
           /\ fsm[s].term <= fsm'[s].term
           /\ fsm[s].last_voted_term <= fsm'[s].last_voted_term
           /\ fsm'[s].last_voted_term <= fsm'[s].term]_vars
  BY NextInv DEF Grow, IndInv, TermsInOrder
<1> QED BY <1>1, Invariance, PTL DEF Spec, TermsOnlyGrow

-----------------------------------------------------------------------------
(* The timers. *)

\* The node part of TimersMatchRole, and what makes it inductive: before
\* start() a server is a follower without an election timer.
Timers(n) ==
    /\ n.heartbeat_task = "active" <=> n.role = "leader"
    /\ n.role = "leader" => n.election_timeout_task = "paused"
    /\ n.role = "candidate" => n.election_timeout_task = "active"
    /\ n.status = "constructed" =>
         n.role = "follower" /\ n.election_timeout_task = "none" /\ ~n.timeout_due

TimerInv == \A s \in Server : Timers(fsm[s])

(***************************************************************************)
(* The conversions to follower leave no heartbeat behind.                  *)
(***************************************************************************)
LEMMA FollowerTimers ==
    ASSUME NEW n \in Node, Timers(n)
    PROVE  Timers(convert_to_follower(n)) /\ Timers(stay_follower(n))
<1> DEFINE f == convert_to_follower(n)
<1>1. f.role = "follower" /\ Timers(f) /\ f \in Node
  <2>1. CASE n.role = "follower"
    BY <2>1 DEF convert_to_follower
  <2>2. CASE n.role # "follower"
    BY <2>2 DEF convert_to_follower, pause, Timers, Node, Role, TaskState
  <2> QED BY <2>1, <2>2
<1> HIDE DEF f
<1>2. Timers(pause_scheduled_tasks(f))
  BY <1>1 DEF pause_scheduled_tasks, pause, Timers, Node, TaskState
<1>3. stay_follower(n) = pause_scheduled_tasks(f)
  BY DEF stay_follower, f
<1> QED BY <1>1, <1>2, <1>3 DEF f

(***************************************************************************)
(* So does adopting a higher term.                                         *)
(***************************************************************************)
LEMMA AdoptTimers ==
    ASSUME NEW n \in Node, Timers(n), NEW t \in 0..MaxTerm
    PROVE  Timers(adopt_term(n, t))
<1> DEFINE h == [n EXCEPT !.term = t]
<1>1. h \in Node /\ Timers(h)
  BY DEF Node, Timers
<1>2. adopt_term(n, t) = IF t > n.term THEN convert_to_follower(h) ELSE n
  BY DEF adopt_term
<1> HIDE DEF h
<1> QED BY <1>1, <1>2, FollowerTimers

(***************************************************************************)
(* Starting an election sets the election timer going.                     *)
(***************************************************************************)
LEMMA CandidateTimers ==
    ASSUME NEW s \in Server, NEW n \in Node, Timers(n),
           n.status # "constructed", n.term + 1 \in 0..MaxTerm
    PROVE  /\ n.role = "follower" => Timers(convert_to_candidate(s, n))
           /\ n.role = "candidate" => Timers(start_new_election(s, n))
<1>1. ASSUME NEW k \in Node, k.role = "candidate", k.heartbeat_task # "active",
             k.status # "constructed"
      PROVE  Timers(init_candidate_state(s, k))
  BY <1>1 DEF init_candidate_state, vote_for_leader, Timers, Node
<1>2. CASE n.role = "follower"
  <2> DEFINE k == [n EXCEPT !.term = @ + 1, !.role = "candidate"]
  <2>1. /\ k \in Node /\ k.role = "candidate"
        /\ k.heartbeat_task # "active" /\ k.status # "constructed"
    BY <1>2 DEF Node, Role, Timers
  <2>2. convert_to_candidate(s, n) = init_candidate_state(s, k)
    BY DEF convert_to_candidate
  <2> HIDE DEF k
  <2> QED BY <1>1, <1>2, <2>1, <2>2
<1>3. CASE n.role = "candidate"
  <2> DEFINE k == [n EXCEPT !.term = @ + 1, !.voted_peers = {}]
  <2>1. /\ k \in Node /\ k.role = "candidate"
        /\ k.heartbeat_task # "active" /\ k.status # "constructed"
    BY <1>3 DEF Node, Role, Timers
  <2>2. start_new_election(s, n) = init_candidate_state(s, k)
    BY DEF start_new_election
  <2> HIDE DEF k
  <2> QED BY <1>1, <1>3, <2>1, <2>2
<1> QED BY <1>2, <1>3

(***************************************************************************)
(* Winning an election swaps the election timer for the heartbeat.         *)
(***************************************************************************)
LEMMA LeaderTimers ==
    ASSUME NEW s, NEW v \in Node, Timers(v), v.role = "candidate",
           v.term + 1 \in 0..MaxTerm
    PROVE  Timers(convert_to_leader(s, v))
<1> DEFINE l == [v EXCEPT !.voted_peers = {},
                          !.election_timeout_task = pause(@),
                          !.term = @ + 1,
                          !.role = "leader",
                          !.heartbeat_task = "active"]
<1>1. l \in Node /\ Timers(l)
  BY DEF Node, Role, TaskState, pause, Timers
<1>2. convert_to_leader(s, v) = IF s \in Releasers THEN stay_follower(l) ELSE l
  BY DEF convert_to_leader
<1> HIDE DEF l
<1> QED BY <1>1, <1>2, FollowerTimers

(***************************************************************************)
(* The steps of a server's own threads and stop() keep its timers in line  *)
(* with role_.                                                             *)
(***************************************************************************)
LEMMA ServerTimers ==
    ASSUME IndInv, TimerInv, NEW s \in Server, ServerStep(s)
    PROVE  TimerInv'
<1> USE MaxTermAssumption
<1> DEFINE n == fsm[s]
           o == fsm'[s]
<1>1. n \in Node /\ fsm \in [Server -> Node] /\ Timers(n)
  BY DEF IndInv, TypeOK, TimerInv
<1>2. SUFFICES Timers(o) /\ \A r \in Server : r # s => fsm'[r] = fsm[r]
  BY DEF TimerInv
<1>3. CASE Start(s)
  BY <1>1, <1>3 DEF Start, Timers, Node
<1>4. CASE ElectionTimeoutDue(s) \/ IgnoreElectionTimeout(s)
  <2>1. n.status # "constructed"
    BY <1>1, <1>4 DEF ElectionTimeoutDue, IgnoreElectionTimeout, Timers
  <2>2. \E d \in BOOLEAN : fsm' = [fsm EXCEPT ![s] = [n EXCEPT !.timeout_due = d]]
    BY <1>1, <1>4 DEF ElectionTimeoutDue, IgnoreElectionTimeout
  <2> QED BY <1>1, <2>1, <2>2 DEF Timers, Node
<1>5. CASE HeartbeatDue(s) \/ (\E p \in Server : SendHeartbeat(s, p))
  <2>1. \E P : fsm' = [fsm EXCEPT ![s] = [n EXCEPT !.hb_peers = P]]
    BY <1>1, <1>5 DEF HeartbeatDue, SendHeartbeat
  <2> QED BY <1>1, <2>1 DEF Timers, Node
<1>6. CASE Stop(s)
  <2>1. o.status = n.status \/ o.status = "stopped"
    BY <1>1, <1>6 DEF Stop, Node
  <2>2. /\ o.role = n.role /\ o.timeout_due = n.timeout_due
        /\ o.heartbeat_task = n.heartbeat_task
        /\ o.election_timeout_task = n.election_timeout_task
        /\ \A r \in Server : r # s => fsm'[r] = fsm[r]
    BY <1>1, <1>6 DEF Stop, Node
  <2> QED BY <1>1, <2>1, <2>2 DEF Timers
<1>8. CASE HandleElectionTimeout(s)
  <2> DEFINE k == [n EXCEPT !.timeout_due = FALSE]
             c == IF k.role = "follower" THEN convert_to_candidate(s, k)
                                         ELSE start_new_election(s, k)
  <2>1. /\ k \in Node /\ Timers(k) /\ k.status # "constructed"
        /\ k.term + 1 \in 0..MaxTerm /\ k.role \in {"follower", "candidate"}
    <3>1. n.status # "constructed"
      BY <1>1, <1>8 DEF HandleElectionTimeout, Timers
    <3>2. n.term + 1 \in 0..MaxTerm /\ n.role \in {"follower", "candidate"}
      BY <1>1, <1>8 DEF HandleElectionTimeout, Node
    <3> QED BY <1>1, <3>1, <3>2 DEF Timers, Node
  <2>2. fsm' = [fsm EXCEPT ![s] = c]
    BY <1>8 DEF HandleElectionTimeout
  <2> HIDE DEF k
  <2>3. Timers(c)
    BY <2>1, CandidateTimers
  <2> HIDE DEF c
  <2> QED BY <1>1, <2>2, <2>3
<1> QED BY <1>3, <1>4, <1>5, <1>6, <1>8 DEF ServerStep

(***************************************************************************)
(* So do the handlers of messages.                                         *)
(***************************************************************************)
LEMMA MessageTimers ==
    ASSUME IndInv, TimerInv, NEW m \in msgs, MessageStep(m)
    PROVE  TimerInv'
<1> USE MaxTermAssumption
<1> DEFINE s == m.to
           n == adopt_term(fsm[s], m.term)
<1>1. m \in Message /\ s \in Server /\ m.from \in Server /\ m.term \in 0..MaxTerm
  BY DEF IndInv, TypeOK, Message
<1>2. fsm[s] \in Node /\ Tidy(fsm[s]) /\ fsm \in [Server -> Node] /\ Timers(fsm[s])
  BY <1>1, NodeFacts DEF IndInv, TypeOK, TimerInv
<1>3. n \in Node /\ Timers(n) /\ (n.role = "candidate" => n.term + 1 \in 0..MaxTerm)
  <2>1. Quiet(fsm[s], n)
    BY <1>1, <1>2, AdoptQuiet
  <2> HIDE DEF n
  <2>2. n \in Node /\ n.term \in 0..MaxTerm /\ (n.role = "candidate" => n.term < MaxTerm)
    BY <1>1, <2>1, QuietNode
  <2>3. Timers(n)
    BY <1>1, <1>2, AdoptTimers DEF n
  <2> QED BY <2>2, <2>3
<1>4. CASE LoseMessage(m)
  BY <1>4 DEF LoseMessage, TimerInv
<1>5. SUFFICES ASSUME ~LoseMessage(m)
               PROVE  \E o : fsm' = [fsm EXCEPT ![s] = o] /\ Timers(o)
  BY <1>1, <1>2, <1>4 DEF TimerInv
<1>6. CASE HandleRequestVote(m)
  <2> DEFINE v == vote_for_leader(n, m.from, m.term)
  <2>1. fsm' = [fsm EXCEPT ![s] = IF m.term >= n.term THEN v ELSE n]
    BY <1>6 DEF HandleRequestVote
  <2> HIDE DEF n
  <2>2. Timers(v)
    BY <1>3 DEF vote_for_leader, Timers, Node
  <2> HIDE DEF v
  <2> QED BY <1>3, <2>1, <2>2
<1>7. CASE HandleRequestVoteResponse(m)
  <2> DEFINE v == [n EXCEPT !.voted_peers = @ \cup {m.from}]
             l == convert_to_leader(s, v)
  <2>1. \/ fsm' = [fsm EXCEPT ![s] = n]
        \/ n.role = "candidate" /\ (fsm' = [fsm EXCEPT ![s] = v] \/ fsm' = [fsm EXCEPT ![s] = l])
    BY <1>7 DEF HandleRequestVoteResponse
  <2> HIDE DEF n
  <2>2. ASSUME n.role = "candidate"
        PROVE  /\ v \in Node /\ Timers(v) /\ v.role = "candidate"
               /\ v.term + 1 \in 0..MaxTerm
    BY <1>1, <1>3, <2>2 DEF Timers, Node
  <2> HIDE DEF v
  <2>3. n.role = "candidate" => Timers(l)
    BY <2>2, LeaderTimers
  <2> HIDE DEF l
  <2> QED BY <1>3, <2>1, <2>2, <2>3
<1>8. CASE HandleAppendEntries(m)
  <2>1. \/ fsm' = [fsm EXCEPT ![s] = n]
        \/ fsm' = [fsm EXCEPT ![s] = convert_to_follower(n)]
    BY <1>8 DEF HandleAppendEntries
  <2> HIDE DEF n
  <2> QED BY <1>3, <2>1, FollowerTimers
<1>9. CASE HandleAppendEntriesResponse(m)
  <2>1. fsm' = [fsm EXCEPT ![s] = n]
    BY <1>9 DEF HandleAppendEntriesResponse
  <2> HIDE DEF n
  <2> QED BY <1>3, <2>1
<1> QED BY <1>5, <1>6, <1>7, <1>8, <1>9 DEF MessageStep

(***************************************************************************)
(* TimerInv holds in every reachable state.                                *)
(***************************************************************************)
LEMMA TimerInvariance == Spec => []TimerInv
<1>1. Init => TimerInv
  BY DEF Init, NewNode, TimerInv, Timers
<1>2. IndInv /\ TimerInv /\ [Next]_vars => TimerInv'
  <2>1. CASE UNCHANGED vars
    BY <2>1 DEF vars, TimerInv
  <2>2. CASE Next
    BY <2>2, ServerTimers, MessageTimers DEF Next
  <2> QED BY <2>1, <2>2
<1> QED BY <1>1, <1>2, Invariance, PTL DEF Spec

(***************************************************************************)
(* However often leadership changes or is released, heartbeats             *)
(* are scheduled exactly while the server leads, and the election timer is *)
(* off while it leads and on while it is a candidate.                      *)
(***************************************************************************)
THEOREM TimersRight == Spec => []TimersMatchRole
<1>1. TimerInv => TimersMatchRole
  BY DEF TimerInv, Timers, TimersMatchRole
<1> QED BY <1>1, TimerInvariance, PTL
=============================================================================
