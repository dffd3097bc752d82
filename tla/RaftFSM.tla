------------------------------ MODULE RaftFSM ------------------------------
(***************************************************************************)
(* A cluster of RaftFSM objects (fsm.hpp) that exchange RaftEvents         *)
(* (protocol.hpp) through their actors (raft_actor.hpp).                   *)
(*                                                                         *)
(* Atomicity.  RaftFSM::handle runs under handler_mtx_, so a handler is    *)
(* one step, the callback on_become_leader within it included.  The        *)
(* executor thread of the Scheduler does some of its work outside that     *)
(* mutex and is split where another step can come in between: it tests     *)
(* paused_ in Task::call before the callable takes handler_mtx_            *)
(* (ElectionTimeoutDue, then HandleElectionTimeout), and it sends a        *)
(* heartbeat to one peer after another without any mutex, reading term_    *)
(* anew each time (HeartbeatDue, then SendHeartbeat).                      *)
(*                                                                         *)
(* User threads call stop() here.  Their calls of stay_follower(), block() *)
(* and unblock() take no mutex and may fall into the middle of a handler;  *)
(* they are in FsmThreads, where a handler is not one step.                *)
(*                                                                         *)
(* There is no clock: a timer may fire at any moment while it is not       *)
(* paused, so ScheduledTask::reset leaves the modelled state alone.        *)
(***************************************************************************)
EXTENDS Integers, FiniteSets

CONSTANTS
    Server,     \* the server ids of RaftActorOptions::peers
    None,       \* Voter::last_voted before the first vote
    MaxTerm,    \* bound on term_ (a uint64_t in the code)
    MaxInFlight,\* bound on the messages in flight at any moment
    Wire(_),    \* what a term becomes when it is encoded, sent and decoded
    Releasers,  \* servers whose on_become_leader calls stay_follower()
    Stoppers    \* servers whose user thread may call stop()

ASSUME ServerAssumption == IsFiniteSet(Server) /\ None \notin Server

ASSUME MaxTermAssumption == MaxTerm \in Nat

(***************************************************************************)
(* NetworkUtil may enlarge a term (module NetworkUtil shows which), but a  *)
(* term that has been through the codec once comes out of it unchanged.    *)
(***************************************************************************)
ASSUME WireAssumption ==
    \A t \in 0..MaxTerm : Wire(t) \in t..MaxTerm /\ Wire(Wire(t)) = Wire(t)

VARIABLES
    fsm,      \* fsm[s]: the RaftFSM of server s, its timers and its threads
    msgs,     \* the messages in flight
    ballots   \* history, not in the code: every vote Voter ever granted

vars == <<fsm, msgs, ballots>>

Role == {"follower", "candidate", "leader"}

\* A std::shared_ptr<ScheduledTask>: null, or a task whose paused_ is known.
TaskState == {"none", "active", "paused"}

Node ==
    [status : {"constructed", "running", "stopped"},
     role : Role,
     term : 0..MaxTerm,
     last_voted : Server \cup {None},
     last_voted_term : 0..MaxTerm,
     voted_peers : SUBSET Server,
     election_timeout_task : TaskState,
     heartbeat_task : TaskState,
     timeout_due : BOOLEAN,      \* executor: past paused(), before handle()
     hb_peers : SUBSET Server]   \* executor: peers the heartbeat loop has left

EventType == {"request_vote_req", "request_vote_res",
              "append_entries_req", "append_entries_res"}

Message ==
    [type : EventType,
     from : Server, to : Server, term : 0..MaxTerm, vote_granted : BOOLEAN]

Ballot == [voter : Server, cand : Server, term : 0..MaxTerm]

TypeOK ==
    /\ fsm \in [Server -> Node]
    /\ msgs \in SUBSET Message
    /\ ballots \in SUBSET Ballot

-----------------------------------------------------------------------------
(* Messages and quorums. *)

\* Mutant: terms are sent as they are.
Event_Plain(type, from, to, term, granted) ==
    [type |-> type, from |-> from, to |-> to, term |-> term, vote_granted |-> granted]

\* RaftBaseEvent::encode on the sender, RaftEventFactory::decode on the receiver.
Event(type, from, to, term, granted) ==
    [type |-> type, from |-> from, to |-> to, term |-> Wire(term),
     vote_granted |-> granted]

get_peers(s) == Server \ {s}

majority == (Cardinality(Server) \div 2) + 1

-----------------------------------------------------------------------------
(* The member functions of Voter and RaftFSM, as functions on a Node. *)

\* Mutant: a second candidate of the same term gets the vote as well.
vote_granted_AnyCandidate(n, cand, term) == term >= n.last_voted_term

\* Voter::vote_for_leader: its result ...
vote_granted(n, cand, term) ==
    \/ term > n.last_voted_term
    \/ term = n.last_voted_term /\ cand = n.last_voted

\* Mutant: the term of the vote is recorded, its candidate is not.
vote_for_leader_KeepCandidate(n, cand, term) ==
    IF term > n.last_voted_term THEN [n EXCEPT !.last_voted_term = term] ELSE n

\* ... and its effect.
vote_for_leader(n, cand, term) ==
    IF term > n.last_voted_term
    THEN [n EXCEPT !.last_voted_term = term, !.last_voted = cand]
    ELSE n

pause(task) == IF task = "none" THEN "none" ELSE "paused"

\* Mutant: init_follower_state does not resume the election timer.
convert_to_follower_NoTimer(n) ==
    IF n.role = "follower" THEN n
    ELSE [n EXCEPT
            !.role = "follower",
            !.voted_peers = IF n.role = "candidate" THEN {} ELSE @,
            !.heartbeat_task = IF n.role = "leader" THEN pause(@) ELSE @,
            !.election_timeout_task = IF n.role = "candidate" THEN pause(@) ELSE @]

\* Mutant: clear_leader_state does not stop the heartbeat.
convert_to_follower_KeepHeartbeat(n) ==
    IF n.role = "follower" THEN n
    ELSE [n EXCEPT !.role = "follower",
                   !.voted_peers = {},
                   !.election_timeout_task = "active"]

\* Mutant: clear_candidate_state does not clear voted_peers_.
convert_to_follower_KeepTally(n) ==
    IF n.role = "follower" THEN n
    ELSE [n EXCEPT !.role = "follower",
                   !.heartbeat_task = IF n.role = "leader" THEN pause(@) ELSE @,
                   !.election_timeout_task = "active"]

convert_to_follower(n) ==
    IF n.role = "follower" THEN n
    ELSE [n EXCEPT
            !.role = "follower",
            !.voted_peers = IF n.role = "candidate" THEN {} ELSE @,
            !.heartbeat_task = IF n.role = "leader" THEN pause(@) ELSE @,
            !.election_timeout_task = "active"]

pause_scheduled_tasks(n) ==
    [n EXCEPT !.election_timeout_task = pause(@), !.heartbeat_task = pause(@)]

stay_follower(n) == pause_scheduled_tasks(convert_to_follower(n))

\* Mutant: vote_self counts the own vote without recording it in voter_.
init_candidate_state_Unrecorded(s, n) ==
    [n EXCEPT !.election_timeout_task = "active", !.voted_peers = @ \cup {s}]

\* start_election_timeout, vote_self; the requests are sent by the caller.
init_candidate_state(s, n) ==
    LET v == vote_for_leader(n, s, n.term)
    IN  [v EXCEPT !.election_timeout_task = "active",
                  !.voted_peers = IF vote_granted(n, s, n.term)
                                  THEN @ \cup {s} ELSE @]

convert_to_candidate(s, n) ==
    init_candidate_state(s, [n EXCEPT !.term = @ + 1, !.role = "candidate"])

\* Mutant: inc_term is called once too often.
start_new_election_SkipTerm(s, n) ==
    init_candidate_state(s, [n EXCEPT !.term = @ + 2, !.voted_peers = {}])

start_new_election(s, n) ==
    init_candidate_state(s, [n EXCEPT !.term = @ + 1, !.voted_peers = {}])

\* Mutant: inc_term is not called.
convert_to_leader_SameTerm(s, n) ==
    [n EXCEPT !.voted_peers = {},
              !.election_timeout_task = pause(@),
              !.role = "leader",
              !.heartbeat_task = "active"]

\* The on_become_leader callback is part of the conversion.
convert_to_leader(s, n) ==
    LET l == [n EXCEPT !.voted_peers = {},
                       !.election_timeout_task = pause(@),
                       !.term = @ + 1,
                       !.role = "leader",
                       !.heartbeat_task = "active"]
    IN  IF s \in Releasers THEN stay_follower(l) ELSE l

\* Mutant: any other term is adopted, a lower one too.
adopt_term_AnyTerm(n, term) ==
    IF term # n.term THEN convert_to_follower([n EXCEPT !.term = term]) ELSE n

\* Mutant: the term is adopted, the role kept.
adopt_term_KeepRole(n, term) ==
    IF term > n.term THEN [n EXCEPT !.term = term] ELSE n

\* Mutant: a leader takes no notice of a higher term.
adopt_term_LeaderStays(n, term) ==
    IF term > n.term /\ n.role # "leader"
    THEN convert_to_follower([n EXCEPT !.term = term]) ELSE n

\* The rule every handler starts with: a higher term is adopted at once.
adopt_term(n, term) ==
    IF term > n.term THEN convert_to_follower([n EXCEPT !.term = term]) ELSE n

-----------------------------------------------------------------------------
(* The RaftFSM constructor and RaftFSM::start. *)

NewNode ==
    [status |-> "constructed", role |-> "follower", term |-> 0,
     last_voted |-> None, last_voted_term |-> 0, voted_peers |-> {},
     election_timeout_task |-> "none", heartbeat_task |-> "none",
     timeout_due |-> FALSE, hb_peers |-> {}]

Init ==
    /\ fsm = [s \in Server |-> NewNode]
    /\ msgs = {}
    /\ ballots = {}

Start(s) ==
    /\ fsm[s].status = "constructed"
    /\ fsm' = [fsm EXCEPT ![s].status = "running",
                          ![s].election_timeout_task = "active"]
    /\ UNCHANGED <<msgs, ballots>>

-----------------------------------------------------------------------------
(* The executor thread of a server's Scheduler. *)

executor_idle(n) == ~n.timeout_due /\ n.hb_peers = {}

\* Task::call finds the election timer due and neither cancelled nor paused.
ElectionTimeoutDue(s) ==
    /\ executor_idle(fsm[s])
    /\ fsm[s].election_timeout_task = "active"
    /\ fsm' = [fsm EXCEPT ![s].timeout_due = TRUE]
    /\ UNCHANGED <<msgs, ballots>>

\* A timeout that nothing reacts to: the server has become the leader since the
\* timer was found due, or is at the bound on terms.
IgnoreElectionTimeout(s) ==
    /\ fsm[s].timeout_due
    /\ fsm[s].role = "leader" \/ fsm[s].term + 2 > MaxTerm
    /\ fsm' = [fsm EXCEPT ![s].timeout_due = FALSE]
    /\ UNCHANGED <<msgs, ballots>>

\* handle_election_timeout starts an election in the next term.  Client::send
\* fails for the peers to which no connection can be made.
HandleElectionTimeout(s) ==
    /\ fsm[s].timeout_due
    /\ fsm[s].role \in {"follower", "candidate"}
    /\ fsm[s].term + 2 <= MaxTerm
    /\ LET n == [fsm[s] EXCEPT !.timeout_due = FALSE]
           c == IF n.role = "follower" THEN convert_to_candidate(s, n)
                                       ELSE start_new_election(s, n)
       IN  /\ fsm' = [fsm EXCEPT ![s] = c]
           /\ \E reached \in SUBSET get_peers(s) :
                msgs' = msgs \cup
                  {Event("request_vote_req", s, p, c.term, FALSE) : p \in reached}
           /\ ballots' = ballots \cup
                 {[voter |-> s, cand |-> s, term |-> c.term] : p \in c.voted_peers}

\* The heartbeat task is found due and not paused; its loop starts.
HeartbeatDue(s) ==
    /\ executor_idle(fsm[s])
    /\ fsm[s].heartbeat_task = "active"
    /\ fsm' = [fsm EXCEPT ![s].hb_peers = get_peers(s)]
    /\ UNCHANGED <<msgs, ballots>>

\* One turn of the loop, in whatever role and term the server now is.
SendHeartbeat(s, p) ==
    /\ p \in fsm[s].hb_peers
    /\ fsm' = [fsm EXCEPT ![s].hb_peers = @ \ {p}]
    /\ msgs' = msgs \cup {Event("append_entries_req", s, p, fsm[s].term, FALSE)}
    /\ UNCHANGED ballots

-----------------------------------------------------------------------------
(* The network thread of a server: RaftFSM::handle for each kind of event. *)

Receivable(m, type) == m.type = type /\ fsm[m.to].status = "running"

\* The network loses a message (Client::send gives no guarantee), or it reaches
\* a server that is not listening.
LoseMessage(m) ==
    /\ msgs' = msgs \ {m}
    /\ UNCHANGED <<fsm, ballots>>

HandleRequestVote(m) ==
    /\ Receivable(m, "request_vote_req")
    /\ LET n == adopt_term(fsm[m.to], m.term)
           granted == m.term >= n.term /\ vote_granted(n, m.from, m.term)
           reply == Event("request_vote_res", m.to, m.from, n.term, granted)
       IN  /\ fsm' = [fsm EXCEPT ![m.to] =
                        IF m.term >= n.term
                        THEN vote_for_leader(n, m.from, m.term) ELSE n]
           /\ msgs' = (msgs \ {m}) \cup {reply}
           /\ ballots' = IF granted
                         THEN ballots \cup {[voter |-> m.to, cand |-> m.from,
                                             term |-> m.term]}
                         ELSE ballots

\* Mutant: is_vote_granted is not asked.
HandleRequestVoteResponse_AnyAnswer(m) ==
    /\ Receivable(m, "request_vote_res")
    /\ LET n == adopt_term(fsm[m.to], m.term)
           v == [n EXCEPT !.voted_peers = @ \cup {m.from}]
           counts == m.term >= n.term /\ n.role = "candidate"
           elected == Cardinality(v.voted_peers) >= majority
       IN  fsm' = [fsm EXCEPT ![m.to] =
                     IF ~counts THEN n
                     ELSE IF elected THEN convert_to_leader(m.to, v) ELSE v]
    /\ msgs' = msgs \ {m}
    /\ UNCHANGED ballots

HandleRequestVoteResponse(m) ==
    /\ Receivable(m, "request_vote_res")
    /\ LET n == adopt_term(fsm[m.to], m.term)
           v == [n EXCEPT !.voted_peers = @ \cup {m.from}]
           counts == m.term >= n.term /\ n.role = "candidate" /\ m.vote_granted
           elected == Cardinality(v.voted_peers) >= majority
       IN  fsm' = [fsm EXCEPT ![m.to] =
                     IF ~counts THEN n
                     ELSE IF elected THEN convert_to_leader(m.to, v) ELSE v]
    /\ msgs' = msgs \ {m}
    /\ UNCHANGED ballots

HandleAppendEntries(m) ==
    /\ Receivable(m, "append_entries_req")
    /\ LET n == adopt_term(fsm[m.to], m.term)
           f == IF m.term >= n.term /\ n.role = "candidate"
                THEN convert_to_follower(n) ELSE n
       IN  /\ fsm' = [fsm EXCEPT ![m.to] = f]
           /\ msgs' = (msgs \ {m}) \cup
                 {Event("append_entries_res", m.to, m.from, f.term, FALSE)}
    /\ UNCHANGED ballots

\* Only the common rule has an effect.
HandleAppendEntriesResponse(m) ==
    /\ Receivable(m, "append_entries_res")
    /\ fsm' = [fsm EXCEPT ![m.to] = adopt_term(@, m.term)]
    /\ msgs' = msgs \ {m}
    /\ UNCHANGED ballots

-----------------------------------------------------------------------------
(* The life of a server. *)

\* The io_context stops; the Scheduler, its timers and role_ stay as they are.
Stop(s) ==
    /\ s \in Stoppers
    /\ fsm[s].status = "running"
    /\ fsm' = [fsm EXCEPT ![s].status = "stopped"]
    /\ UNCHANGED <<msgs, ballots>>

\* The process ends and a new RaftFSM with the same id is constructed.  Nothing
\* is persisted; the connections to the old process are gone with it.
Restart(s) ==
    /\ fsm[s].status # "constructed"
    /\ fsm' = [fsm EXCEPT ![s] = NewNode]
    /\ msgs' = {m \in msgs : m.to # s}
    /\ UNCHANGED ballots

-----------------------------------------------------------------------------
ServerStep(s) ==
    \/ Start(s)
    \/ ElectionTimeoutDue(s)
    \/ IgnoreElectionTimeout(s)
    \/ HandleElectionTimeout(s)
    \/ HeartbeatDue(s)
    \/ \E p \in Server : SendHeartbeat(s, p)
    \/ Stop(s)

MessageStep(m) ==
    \/ LoseMessage(m)
    \/ HandleRequestVote(m)
    \/ HandleRequestVoteResponse(m)
    \/ HandleAppendEntries(m)
    \/ HandleAppendEntriesResponse(m)

Next ==
    /\ \/ \E s \in Server : ServerStep(s)
       \/ \E m \in msgs : MessageStep(m)
    /\ Cardinality(msgs') <= MaxInFlight

Spec == Init /\ [][Next]_vars

\* The same cluster when processes may also end and be started again.
RestartSpec == Init /\ [][Next \/ \E s \in Server : Restart(s)]_vars

(***************************************************************************)
(* Fairness, whether or not servers are stopped: the executor thread runs  *)
(* what is due (a heartbeat falls due again and again while its task is    *)
(* active) and its loop gets on; and if messages from one server to        *)
(* another are in flight again and again, some of them are handled, or     *)
(* found to have no receiver.  Elections need not happen.                  *)
(***************************************************************************)
RunDueTask(s) ==
    /\ HeartbeatDue(s) \/ IgnoreElectionTimeout(s) \/ HandleElectionTimeout(s)
    /\ Cardinality(msgs') <= MaxInFlight

ContinueHeartbeat(s) ==
    /\ \E p \in Server : SendHeartbeat(s, p)
    /\ Cardinality(msgs') <= MaxInFlight

HandleFrom(r, s) ==
    \E m \in msgs :
        /\ m.from = r /\ m.to = s
        /\ \/ HandleRequestVote(m)
           \/ HandleRequestVoteResponse(m)
           \/ HandleAppendEntries(m)
           \/ HandleAppendEntriesResponse(m)
           \/ fsm[s].status # "running" /\ LoseMessage(m)

Fairness ==
    \A s \in Server :
        /\ SF_vars(RunDueTask(s))
        /\ SF_vars(ContinueHeartbeat(s))
        /\ \A r \in get_peers(s) : SF_vars(HandleFrom(r, s))

FairSpec == Spec /\ Fairness

-----------------------------------------------------------------------------
(* Properties. *)

Leaders == {s \in Server : fsm[s].role = "leader"}

\* The servers that granted s their vote in a term, and who won that term.
Supporters(s, t) ==
    {v \in Server : [voter |-> v, cand |-> s, term |-> t] \in ballots}

Won(s, t) == Cardinality(Supporters(s, t)) >= majority

(***************************************************************************)
(* No two servers are leader with the same term_: what Voter and the tally *)
(* in handle_request_vote_response are for.                                *)
(***************************************************************************)
ElectionSafety ==
    \A s, t \in Leaders : fsm[s].term = fsm[t].term => s = t

(***************************************************************************)
(* At most one server ever wins a term, whether or not it still leads: the *)
(* example's lock is released within on_become_leader, so no two holders   *)
(* are leader at once, but each of them was elected in a term of its own.  *)
(***************************************************************************)
OneWinnerPerTerm ==
    \A t \in 0..MaxTerm : \A r, s \in Server : Won(r, t) /\ Won(s, t) => r = s

(***************************************************************************)
(* The tally in voted_peers_ is real: every peer a candidate counts has    *)
(* granted it a vote in the candidate's present term, however late or out  *)
(* of order the responses came; and only a candidate keeps a tally.        *)
(***************************************************************************)
TallyIsReal ==
    \A s \in Server :
        IF fsm[s].role = "candidate"
        THEN fsm[s].voted_peers \subseteq Supporters(s, fsm[s].term)
        ELSE fsm[s].voted_peers = {}

(***************************************************************************)
(* convert_to_leader increments term_, so a leader's term_ is one more     *)
(* than the term it was elected in, and in that term it had a majority.    *)
(***************************************************************************)
LeaderWonPreviousTerm ==
    \A s \in Leaders : fsm[s].term > 0 /\ Won(s, fsm[s].term - 1)

(***************************************************************************)
(* Nobody leads by its own vote alone: handle_request_vote_response is the *)
(* only place where the tally is compared with the majority, and the peer  *)
(* whose response it is has voted.  So a cluster of one has no leader.     *)
(***************************************************************************)
LeaderHasPeerVote ==
    \A s \in Leaders : \E v \in get_peers(s) : v \in Supporters(s, fsm[s].term - 1)

(***************************************************************************)
(* No vote but its own reaches a candidate in a term that the codec        *)
(* changes: the request already arrives as one of a later term, and the    *)
(* response makes the candidate a follower.  Such a term elects nobody.    *)
(***************************************************************************)
ChangedTermsElectNobody ==
    \A t \in 0..MaxTerm : \A s \in Server : Wire(t) # t => Supporters(s, t) \subseteq {s}

(***************************************************************************)
(* The two timers agree with role_: heartbeats are scheduled exactly while *)
(* leader, the election timer is off while leader and on while candidate.  *)
(***************************************************************************)
TimersMatchRole ==
    \A s \in Server :
        LET n == fsm[s]
        IN  /\ n.heartbeat_task = "active" <=> n.role = "leader"
            /\ n.role = "leader" => n.election_timeout_task = "paused"
            /\ n.role = "candidate" => n.election_timeout_task = "active"

(***************************************************************************)
(* No server falls silent that does not release its leadership: once it is *)
(* started, and even stopped, it has a running election timer unless it    *)
(* leads.                                                                  *)
(***************************************************************************)
NonLeaderTimesOut ==
    \A s \in Server \ Releasers :
        fsm[s].status # "constructed" /\ fsm[s].role # "leader"
            => fsm[s].election_timeout_task = "active"

(***************************************************************************)
(* A heartbeat, even one sent by a loop that was overtaken by a step-down, *)
(* comes from a server that has won an election of an earlier term.        *)
(***************************************************************************)
HeartbeatFromWinner ==
    \A m \in msgs :
        m.type = "append_entries_req" => \E t \in 0..(m.term - 1) : Won(m.from, t)

(***************************************************************************)
(* A leader keeps its term_ as long as it leads, gives up only for a       *)
(* higher term and only to become a follower; and nobody leads that was    *)
(* not a candidate in the term before.  Who releases its leadership within *)
(* on_become_leader has stepped down when convert_to_leader returns, and   *)
(* is never seen to lead.                                                  *)
(***************************************************************************)
LeadershipChange ==
    [][\A s \in Server :
         LET n == fsm[s]
             o == fsm'[s]
         IN  /\ n.role = "leader" =>
                  \/ o.role = "leader" /\ o.term = n.term
                  \/ o.role = "follower" /\ o.term > n.term
             /\ n.role # "leader" /\ o.role = "leader" =>
                  n.role = "candidate" /\ o.term = n.term + 1 /\ s \notin Releasers]_vars

(***************************************************************************)
(* term_ and Voter::last_voted_term never go back, and a server never      *)
(* votes in a term above its own.                                          *)
(***************************************************************************)
TermsOnlyGrow ==
    [][\A s \in Server :
         /\ fsm[s].term <= fsm'[s].term
         /\ fsm[s].last_voted_term <= fsm'[s].last_voted_term
         /\ fsm'[s].last_voted_term <= fsm'[s].term]_vars

(***************************************************************************)
(* What the handlers amount to: in terms of who won which term and who     *)
(* leads, every step of the cluster is a step of Election.                 *)
(***************************************************************************)
winner ==
    [t \in 0..MaxTerm |->
        LET elected == {b \in ballots : b.term = t /\ Won(b.cand, t)}
        IN  IF elected = {} THEN None ELSE (CHOOSE b \in elected : TRUE).cand]

Abstract ==
    INSTANCE Election WITH winner <- winner, leads <- Leaders,
                           term <- [s \in Server |-> fsm[s].term]

ImplementsElection == Abstract!Spec

(***************************************************************************)
(* A leader that was overtaken does not go on for ever: while two servers  *)
(* lead, the heartbeats of the one with the higher term_ depose the other  *)
(* one, unless it loses its own leadership first.  It need not be running  *)
(* any more, since stop() does not end its heartbeats; but a stale leader  *)
(* that is stopped hears nothing and leads for ever.                       *)
(***************************************************************************)
StaleLeaderStepsDown ==
    \A r, s \in Server :
        r \in Leaders /\ s \in Leaders /\ fsm[r].term < fsm[s].term
            ~> r \notin Leaders \/ s \notin Leaders \/ fsm[r].status = "stopped"

-----------------------------------------------------------------------------
(* The inductive invariant behind the theorems of RaftFSMProofs. *)

\* A vote is never cast above the server's term; a candidate can be elected
\* within the bound on terms.
TermsInOrder ==
    \A s \in Server :
        /\ fsm[s].last_voted_term <= fsm[s].term
        /\ fsm[s].role = "candidate" => fsm[s].term < MaxTerm

\* Voter remembers the last of a server's votes, and no server votes twice in
\* a term.
VotesRecorded ==
    /\ \A b \in ballots :
         /\ b.term <= fsm[b.voter].last_voted_term
         /\ b.term = fsm[b.voter].last_voted_term => b.cand = fsm[b.voter].last_voted
    /\ \A a, b \in ballots :
         a.voter = b.voter /\ a.term = b.term => a.cand = b.cand

\* A term in flight has been encoded, and a granted vote in flight was cast.
MessagesTrue ==
    \A m \in msgs :
        /\ Wire(m.term) = m.term
        /\ m.type = "request_vote_res" /\ m.vote_granted
             => [voter |-> m.from, cand |-> m.to, term |-> m.term] \in ballots

\* Only a past winner has a heartbeat task or is in the heartbeat loop.
HeartbeatEarned ==
    \A s \in Server :
        fsm[s].heartbeat_task # "none" \/ fsm[s].hb_peers # {}
            => \E t \in 0..(fsm[s].term - 1) : Won(s, t)

(***************************************************************************)
(* What holds in every state and is preserved by every step, whatever the  *)
(* codec does to terms: the votes Voter remembers, the votes in flight,    *)
(* the votes counted and the elections won tell the same story.            *)
(***************************************************************************)
IndInv ==
    /\ TypeOK
    /\ TermsInOrder
    /\ VotesRecorded
    /\ MessagesTrue
    /\ TallyIsReal
    /\ LeaderWonPreviousTerm
    /\ HeartbeatEarned
    /\ HeartbeatFromWinner

-----------------------------------------------------------------------------
(* What the documentation and the comments say of the program. *)

(***************************************************************************)
(* README: "it's impossible to have three leaders in the same time. it's   *)
(* at most two."                                                           *)
(***************************************************************************)
AtMostTwoLeaders == Cardinality(Leaders) <= 2

=============================================================================
