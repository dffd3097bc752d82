------------------------- MODULE RaftFSMRefinement -------------------------
(***************************************************************************)
(* RaftFSM implements Election, for every cluster and every codec that     *)
(* satisfies WireAssumption; and what else follows from the Effect of a    *)
(* step: who may vote in a term that the codec changes, whose votes a      *)
(* leader has, and that a silenced server stays silent.                    *)
(***************************************************************************)
EXTENDS RaftFSMProofs

-----------------------------------------------------------------------------
(* The refinement mapping. *)

(***************************************************************************)
(* A majority is not empty, so a server that has won has a supporter.      *)
(***************************************************************************)
LEMMA WinnerHasBallot ==
    ASSUME NEW s, NEW t, Won(s, t)
    PROVE  \E v \in Server : [voter |-> v, cand |-> s, term |-> t] \in ballots
<1>1. Cardinality(Supporters(s, t)) # 0
  <2>1. Cardinality(Server) \in Nat
    BY FS_CardinalityType, ServerAssumption
  <2>2. majority >= 1
    BY <2>1 DEF majority
  <2> QED BY <2>2, MajorityType, SupportersFinite DEF Won
<1>2. Supporters(s, t) # {}
  BY <1>1, FS_EmptySet
<1> QED BY <1>2 DEF Supporters

\* The mapped winner of a term is the server that has won it.
WinnerIsWon ==
    \A t \in 0..MaxTerm :
        /\ winner[t] \in Server \cup {None}
        /\ \A s \in Server : winner[t] = s <=> Won(s, t)

(***************************************************************************)
(* The choice in the definition of winner is no choice: at most one server *)
(* wins a term.                                                            *)
(***************************************************************************)
LEMMA WinnerFacts == IndInv => WinnerIsWon
<1> SUFFICES ASSUME IndInv, NEW t \in 0..MaxTerm
             PROVE  /\ winner[t] \in Server \cup {None}
                    /\ \A s \in Server : winner[t] = s <=> Won(s, t)
  BY DEF WinnerIsWon
<1> DEFINE elected == {b \in ballots : b.term = t /\ Won(b.cand, t)}
           c == CHOOSE b \in elected : TRUE
<1>1. winner[t] = IF elected = {} THEN None ELSE c.cand
  BY DEF winner
<1>2. elected # {} => c \in elected
  OBVIOUS
<1>3. \A b \in ballots : b.cand \in Server
  BY DEF IndInv, TypeOK, Ballot
<1>4. ASSUME NEW s \in Server, Won(s, t)
      PROVE  elected # {}
  <2>1. PICK v \in Server : [voter |-> v, cand |-> s, term |-> t] \in ballots
    BY <1>4, WinnerHasBallot
  <2> QED BY <1>4, <2>1
<1>5. elected # {} => c.cand \in Server /\ Won(c.cand, t)
  BY <1>2, <1>3
<1> HIDE DEF elected, c
<1>6. \A r, s \in Server : Won(r, t) /\ Won(s, t) => r = s
  BY WinnersAgree DEF IndInv
<1> QED BY <1>1, <1>4, <1>5, <1>6, ServerAssumption

(***************************************************************************)
(* Terms in which a step casts no vote keep their winner, and a winner is  *)
(* never replaced.                                                         *)
(***************************************************************************)
LEMMA WinnerStep ==
    ASSUME WinnerIsWon, WinnerIsWon', NEW s \in Server, Effect(s)
    PROVE  \A t \in 0..MaxTerm :
             winner'[t] # winner[t] => /\ t = fsm'[s].term
                                       /\ winner[t] = None
                                       /\ winner'[t] \in Server
<1> SUFFICES ASSUME NEW t \in 0..MaxTerm, winner'[t] # winner[t]
             PROVE  t = fsm'[s].term /\ winner[t] = None /\ winner'[t] \in Server
  OBVIOUS
<1>1. /\ winner[t] \in Server \cup {None} /\ winner'[t] \in Server \cup {None}
      /\ \A r \in Server : winner[t] = r <=> Won(r, t)
      /\ \A r \in Server : winner'[t] = r <=> Won(r, t)'
  BY DEF WinnerIsWon
<1>2. \A r \in Server : Won(r, t) => Won(r, t)'
  BY WonGrows DEF Effect
<1>3. winner[t] = None
  BY <1>1, <1>2
<1>4. winner'[t] \in Server
  BY <1>1, <1>3
<1>5. PICK r \in Server : winner'[t] = r /\ Won(r, t)' /\ ~Won(r, t)
  BY <1>1, <1>4
<1>6. ASSUME t # fsm'[s].term
      PROVE  FALSE
  <2>1. \A v \in Server :
          [voter |-> v, cand |-> r, term |-> t] \in ballots'
            => [voter |-> v, cand |-> r, term |-> t] \in ballots
    BY <1>6 DEF Effect, NewBallots
  <2>2. Supporters(r, t)' = Supporters(r, t)
    BY <2>1 DEF Effect, Supporters
  <2> QED BY <1>5, <2>2 DEF Won
<1> QED BY <1>3, <1>4, <1>6

(***************************************************************************)
(* The step of a server that becomes leader is its inauguration.           *)
(***************************************************************************)
LEMMA OfficeStep ==
    ASSUME IndInv, IndInv', WinnerIsWon, NEW s \in Server, Effect(s),
           fsm[s].role # "leader", fsm'[s].role = "leader"
    PROVE  Abstract!TakeOffice(s)
<1> USE MaxTermAssumption
<1>1. /\ fsm[s].role = "candidate" /\ fsm'[s].term = fsm[s].term + 1
      /\ Won(s, fsm[s].term) /\ ballots' = ballots
      /\ \A r \in Server : r # s => fsm'[r] = fsm[r]
  BY DEF Effect, LeadershipEarned
<1>2. \A r \in Server : fsm[r].term \in 0..MaxTerm /\ fsm'[r].term \in 0..MaxTerm
  BY DEF IndInv, TypeOK, Node
<1>3. winner[fsm[s].term] = s
  BY <1>1, <1>2 DEF WinnerIsWon
<1>4. winner' = winner
  BY <1>1 DEF winner, Won, Supporters
<1>5. Leaders' = Leaders \cup {s} /\ s \notin Leaders
  BY <1>1 DEF Leaders
<1>6. [r \in Server |-> fsm'[r].term]
        = [[r \in Server |-> fsm[r].term] EXCEPT ![s] = @ + 1]
  BY <1>1
<1> QED BY <1>1, <1>2, <1>3, <1>4, <1>5, <1>6 DEF Abstract!TakeOffice, Abstract!Term

(***************************************************************************)
(* Any other step is a move of one server, which decides at most the       *)
(* election of the term it moves to.                                       *)
(***************************************************************************)
LEMMA MoveStep ==
    ASSUME IndInv, IndInv', Grow, WinnerIsWon, WinnerIsWon', NEW s \in Server,
           Effect(s), fsm'[s].role = "leader" => fsm[s].role = "leader"
    PROVE  \E t \in Abstract!Term :
             Abstract!Move(s, t) /\ (UNCHANGED winner \/ Abstract!Decide(t))
<1> USE MaxTermAssumption
<1>0. PICK t \in 0..MaxTerm : t = fsm'[s].term
  BY DEF IndInv, TypeOK, Node
<1>1. \A r \in Server : r # s => fsm'[r] = fsm[r]
  BY DEF Effect
<1>2. fsm[s].term \in 0..MaxTerm /\ fsm[s].term <= t
  BY <1>0 DEF IndInv, TypeOK, Node, Grow
<1>3. fsm'[s].role = "leader" => t = fsm[s].term
  <2>1. fsm[s].term + 1 # fsm[s].term
    BY <1>2
  <2> QED BY <1>0, <2>1 DEF Effect, LeadershipEarned
<1>4. Abstract!Move(s, t)
  <2>1. [r \in Server |-> fsm'[r].term]
          = [[r \in Server |-> fsm[r].term] EXCEPT ![s] = t]
    BY <1>0, <1>1
  <2>2. \/ Leaders' = Leaders \ {s}
        \/ t = fsm[s].term /\ Leaders' = Leaders
    BY <1>1, <1>3 DEF Leaders
  <2> QED BY <1>2, <2>1, <2>2 DEF Abstract!Move, Abstract!Term
<1>5. UNCHANGED winner \/ Abstract!Decide(t)
  <2>1. \A u \in 0..MaxTerm :
          winner'[u] # winner[u] => u = t /\ winner[u] = None /\ winner'[u] \in Server
    BY <1>0, WinnerStep
  <2>2. /\ winner = [u \in 0..MaxTerm |-> winner[u]]
        /\ winner' = [u \in 0..MaxTerm |-> winner'[u]]
    BY DEF winner
  <2>3. CASE winner'[t] = winner[t]
    <3>1. \A u \in 0..MaxTerm : winner'[u] = winner[u]
      BY <2>1, <2>3
    <3> QED BY <2>2, <3>1
  <2>4. CASE winner'[t] # winner[t]
    <3>1. winner[t] = None /\ winner'[t] \in Server
      BY <1>2, <2>1, <2>4
    <3>2. winner' = [winner EXCEPT ![t] = winner'[t]]
      BY <2>1, <2>2
    <3> QED BY <3>1, <3>2 DEF Abstract!Decide
  <2> QED BY <2>3, <2>4
<1> QED BY <1>4, <1>5 DEF Abstract!Term

(***************************************************************************)
(* Every step of the cluster is a step of Election or changes nothing that *)
(* Election has.                                                           *)
(***************************************************************************)
LEMMA StepSimulation ==
    ASSUME IndInv, IndInv', Grow, WinnerIsWon, WinnerIsWon'
    PROVE  Abstract!Next \/ UNCHANGED Abstract!vars
<1>1. CASE UNCHANGED <<fsm, ballots>>
  <2>1. winner' = winner
    BY <1>1 DEF winner, Won, Supporters
  <2>2. Leaders' = Leaders
    BY <1>1 DEF Leaders
  <2> QED BY <1>1, <2>1, <2>2 DEF Abstract!vars
<1>2. ASSUME NEW s \in Server, Effect(s)
      PROVE  Abstract!Next
  <2>1. CASE fsm[s].role # "leader" /\ fsm'[s].role = "leader"
    BY <1>2, <2>1, OfficeStep DEF Abstract!Next
  <2>2. CASE fsm'[s].role = "leader" => fsm[s].role = "leader"
    BY <1>2, <2>2, MoveStep DEF Abstract!Next
  <2> QED BY <2>1, <2>2
<1> QED BY <1>1, <1>2 DEF Grow

(***************************************************************************)
(* A cluster of RaftFSMs implements Election: each term has at most one    *)
(* winner for ever, and leadership begins one term above a term won.       *)
(***************************************************************************)
THEOREM Refinement == Spec => ImplementsElection
<1>1. Init => Abstract!Init
  <2> SUFFICES ASSUME Init PROVE Abstract!Init
    OBVIOUS
  <2>1. winner = [t \in 0..MaxTerm |-> None]
    BY DEF Init, winner
  <2>2. [s \in Server |-> fsm[s].term] = [s \in Server |-> 0] /\ Leaders = {}
    BY DEF Init, NewNode, Leaders
  <2> QED BY <2>1, <2>2 DEF Abstract!Init, Abstract!Term
<1>2. IndInv' => WinnerIsWon'
  BY WinnerFacts, PTL
<1>3. IndInv /\ [Next]_vars => [Abstract!Next]_(Abstract!vars)
  BY <1>2, NextInv, WinnerFacts, StepSimulation
<1> QED BY <1>1, <1>3, Invariance, PTL DEF Spec, ImplementsElection, Abstract!Spec

-----------------------------------------------------------------------------
(* Whose votes count. *)

(***************************************************************************)
(* In a term that the codec changes nobody ever gets a vote but its own.   *)
(***************************************************************************)
THEOREM ChangedTerms == Spec => []ChangedTermsElectNobody
<1>1. Init => ChangedTermsElectNobody
  BY DEF Init, ChangedTermsElectNobody, Supporters
<1>2. ASSUME ChangedTermsElectNobody, Grow
      PROVE  ChangedTermsElectNobody'
  <2>1. CASE UNCHANGED <<fsm, ballots>>
    BY <1>2, <2>1 DEF ChangedTermsElectNobody, Supporters
  <2>2. ASSUME NEW r \in Server, Effect(r),
               NEW t \in 0..MaxTerm, NEW s \in Server, Wire(t) # t,
               NEW v \in Server, [voter |-> v, cand |-> s, term |-> t] \in ballots'
        PROVE  v = s
    <3> DEFINE b == [voter |-> v, cand |-> s, term |-> t]
    <3>1. CASE b \in ballots
      BY <1>2, <2>2, <3>1 DEF ChangedTermsElectNobody, Supporters
    <3>2. CASE b \notin ballots
      <4>1. b.voter = r /\ (b.cand = r \/ Wire(b.term) = b.term)
        BY <2>2, <3>2 DEF Effect, NewBallots
      <4> QED BY <2>2, <4>1
    <3> QED BY <3>1, <3>2
  <2> QED BY <1>2, <2>1, <2>2 DEF Grow, ChangedTermsElectNobody, Supporters
<1>3. ChangedTermsElectNobody /\ IndInv /\ [Next]_vars => ChangedTermsElectNobody'
  BY <1>2, NextInv
<1> QED BY <1>1, <1>3, Invariance, PTL DEF Spec

\* Requests and answers of an election go from one server to another.
VotesFromPeers ==
    \A m \in msgs :
        m.type \in {"request_vote_req", "request_vote_res"} => m.from # m.to

(***************************************************************************)
(* Requests are sent to peers, and an answer goes back to where its        *)
(* request came from.                                                      *)
(***************************************************************************)
LEMMA PeerMail ==
    ASSUME VotesFromPeers, [Next]_vars
    PROVE  VotesFromPeers'
<1>1. CASE msgs' \subseteq msgs
  BY <1>1 DEF VotesFromPeers
<1>2. ASSUME NEW s \in Server, ServerStep(s)
      PROVE  VotesFromPeers'
  <2>1. CASE HandleElectionTimeout(s)
    <3> DEFINE n == [fsm[s] EXCEPT !.timeout_due = FALSE]
               c == IF n.role = "follower" THEN convert_to_candidate(s, n)
                                           ELSE start_new_election(s, n)
    <3>1. PICK reached \in SUBSET get_peers(s) :
            msgs' = msgs \cup
              {Event("request_vote_req", s, p, c.term, FALSE) : p \in reached}
      BY <2>1 DEF HandleElectionTimeout
    <3> HIDE DEF c
    <3>2. ASSUME NEW p \in reached
          PROVE  LET m == Event("request_vote_req", s, p, c.term, FALSE)
                 IN  m.from # m.to
      BY DEF Event, get_peers
    <3> QED BY <3>1, <3>2 DEF VotesFromPeers
  <2>2. ASSUME NEW p \in Server, SendHeartbeat(s, p)
        PROVE  VotesFromPeers'
    <3>1. PICK t : msgs' = msgs \cup {Event("append_entries_req", s, p, t, FALSE)}
      BY <2>2 DEF SendHeartbeat
    <3>2. Event("append_entries_req", s, p, t, FALSE).type = "append_entries_req"
      BY DEF Event
    <3> QED BY <3>1, <3>2 DEF VotesFromPeers
  <2>3. CASE \/ Start(s) \/ ElectionTimeoutDue(s) \/ IgnoreElectionTimeout(s)
             \/ HeartbeatDue(s) \/ Stop(s)
    BY <1>1, <2>3 DEF Start, ElectionTimeoutDue, IgnoreElectionTimeout, HeartbeatDue,
                      Stop
  <2> QED BY <1>2, <2>1, <2>2, <2>3 DEF ServerStep
<1>3. ASSUME NEW m \in msgs, MessageStep(m)
      PROVE  VotesFromPeers'
  <2>1. CASE LoseMessage(m) \/ HandleRequestVoteResponse(m) \/ HandleAppendEntriesResponse(m)
    BY <1>1, <2>1 DEF LoseMessage, HandleRequestVoteResponse, HandleAppendEntriesResponse
  <2>2. CASE HandleRequestVote(m)
    <3>1. PICK t, g : msgs' = (msgs \ {m}) \cup
                                {Event("request_vote_res", m.to, m.from, t, g)}
      BY <2>2 DEF HandleRequestVote
    <3>2. m.from # m.to
      BY <2>2 DEF HandleRequestVote, Receivable, VotesFromPeers
    <3>3. LET k == Event("request_vote_res", m.to, m.from, t, g) IN k.from # k.to
      BY <3>2 DEF Event
    <3> QED BY <3>1, <3>3 DEF VotesFromPeers
  <2>3. CASE HandleAppendEntries(m)
    <3>1. PICK t : msgs' = (msgs \ {m}) \cup
                             {Event("append_entries_res", m.to, m.from, t, FALSE)}
      BY <2>3 DEF HandleAppendEntries
    <3>2. Event("append_entries_res", m.to, m.from, t, FALSE).type = "append_entries_res"
      BY DEF Event
    <3> QED BY <3>1, <3>2 DEF VotesFromPeers
  <2> QED BY <1>3, <2>1, <2>2, <2>3 DEF MessageStep
<1> QED BY <1>1, <1>2, <1>3 DEF Next, vars

(***************************************************************************)
(* Every leader has the vote of another server; a cluster of one has none. *)
(***************************************************************************)
THEOREM PeersElect == Spec => []LeaderHasPeerVote
<1>1. Init => VotesFromPeers /\ LeaderHasPeerVote
  BY DEF Init, VotesFromPeers, LeaderHasPeerVote, Leaders, NewNode
<1>2. ASSUME IndInv, VotesFromPeers, LeaderHasPeerVote, Grow
      PROVE  LeaderHasPeerVote'
  <2> SUFFICES ASSUME NEW s \in Server, fsm'[s].role = "leader"
               PROVE  \E v \in get_peers(s) : v \in Supporters(s, fsm[s].term - 1)'
    BY DEF LeaderHasPeerVote, Leaders
  <2>1. ASSUME fsm[s].role = "leader", fsm'[s].term = fsm[s].term,
               ballots \subseteq ballots'
        PROVE  \E v \in get_peers(s) : v \in Supporters(s, fsm[s].term - 1)'
    BY <1>2, <2>1 DEF LeaderHasPeerVote, Leaders, Supporters
  <2>2. CASE UNCHANGED <<fsm, ballots>>
    BY <2>1, <2>2
  <2>3. ASSUME NEW r \in Server, Effect(r), r # s
        PROVE  \E v \in get_peers(s) : v \in Supporters(s, fsm[s].term - 1)'
    BY <2>1, <2>3 DEF Effect
  <2>4. ASSUME Effect(s)
        PROVE  \E v \in get_peers(s) : v \in Supporters(s, fsm[s].term - 1)'
    <3>1. CASE fsm[s].role = "leader" /\ fsm'[s].term = fsm[s].term
      BY <2>1, <2>4, <3>1 DEF Effect
    <3>2. CASE ~(fsm[s].role = "leader" /\ fsm'[s].term = fsm[s].term)
      <4>1. PICK m \in msgs : /\ m.type = "request_vote_res" /\ m.to = s
                              /\ m.from \in Supporters(s, fsm[s].term)
        BY <2>4, <3>2 DEF Effect, LeadershipEarned
      <4>2. fsm'[s].term = fsm[s].term + 1 /\ ballots' = ballots
        BY <2>4, <3>2 DEF Effect, LeadershipEarned
      <4>3. fsm[s].term \in Int
        BY <1>2, NodeFacts
      <4>4. fsm'[s].term - 1 = fsm[s].term
        BY <4>2, <4>3
      <4>5. m.from \in Supporters(s, fsm[s].term - 1)'
        BY <4>1, <4>2, <4>4 DEF Supporters
      <4>6. m.from \in get_peers(s)
        BY <1>2, <4>1 DEF VotesFromPeers, get_peers, Supporters
      <4> QED BY <4>5, <4>6
    <3> QED BY <3>1, <3>2
  <2> QED BY <1>2, <2>2, <2>3, <2>4 DEF Grow
<1>3. IndInv /\ VotesFromPeers /\ LeaderHasPeerVote /\ [Next]_vars
        => VotesFromPeers' /\ LeaderHasPeerVote'
  BY <1>2, NextInv, PeerMail
<1> QED BY <1>1, <1>3, Invariance, PTL DEF Spec

=============================================================================
