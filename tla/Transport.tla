----------------------------- MODULE Transport -----------------------------
(***************************************************************************)
(* How messages get from one process to another: Client::send, the         *)
(* ConnectionPool and Connection::write on one side (node.hpp,             *)
(* connection_pool.hpp), Server and ServerConnection on the other one.     *)
(*                                                                         *)
(* The threads of a process send to one endpoint.  A socket carries a      *)
(* sequence of parts, the header and the body of each message; it has room *)
(* for Capacity parts that the peer has not read.  asio::write blocks      *)
(* while there is no room: what fits is written in one piece, the rest     *)
(* later, and another thread may write in between, for no lock is held.    *)
(* A header that is read out of step announces an arbitrary length, so     *)
(* from then on a connection may yield anything or be closed.              *)
(***************************************************************************)
EXTENDS Naturals, Sequences, FiniteSets

CONSTANTS
    Thread,     \* the threads that send: the executor and the network thread
    MaxSends,   \* bound on the messages that are sent
    MaxConns,   \* bound on the connections ever made
    Capacity,   \* unread parts a socket has room for
    Oversized   \* numbers of the messages that exceed in_buf_size

ASSUME BoundsAssumption ==
    /\ IsFiniteSet(Thread)
    /\ MaxSends \in Nat /\ MaxConns \in Nat /\ Capacity \in Nat \ {0}

VARIABLES
    conn,    \* the Connection objects ever made, with both ends of their sockets
    pool,    \* conns_[endpoint], 0 if there is none
    thread,  \* where each sending thread is
    sent,    \* how many messages each thread has sent
    peer,    \* the life of the peer's Server
    got      \* history: what on_message was called with, for each thread

netVars == <<conn, pool, thread, sent, peer, got>>

Message == [thread : Thread, n : 1..MaxSends]

Part == [kind : {"header", "body"}, msg : Message]

\* Message::encode.
encode(m) == <<[kind |-> "header", msg |-> m], [kind |-> "body", msg |-> m]>>

NewConnection ==
    [closed |-> FALSE,       \* closed_
     broken |-> FALSE,       \* the next write on the socket fails
     unread |-> <<>>,        \* written and not yet read by the peer
     reader |-> "backlog",   \* the peer's end
     stalled |-> FALSE]      \* history: a write had to wait for room

NetTypeOK ==
    /\ DOMAIN conn \subseteq 1..MaxConns
    /\ \A c \in DOMAIN conn :
         /\ conn[c].closed \in BOOLEAN /\ conn[c].broken \in BOOLEAN
         /\ conn[c].unread \in Seq(Part) /\ Len(conn[c].unread) <= Capacity
         /\ conn[c].reader \in {"backlog", "header", "body", "garbled", "closed"}
    /\ pool \in DOMAIN conn \cup {0}
    /\ \A t \in Thread :
         /\ thread[t].at \in {"idle", "get", "connect", "write"}
         /\ thread[t].conn \in DOMAIN conn \cup {0}
         /\ thread[t].conn = 0 => thread[t].at # "write"
         /\ thread[t].rest \in Seq(Part)
    /\ sent \in [Thread -> 0..MaxSends]
    /\ peer \in {"down", "listening", "running", "stopped"}
    /\ \A t \in Thread : got[t] \in Seq([n : 1..sent[t], conn : DOMAIN conn])

-----------------------------------------------------------------------------
Idle == [at |-> "idle", conn |-> 0, rest |-> <<>>]

NetInit ==
    /\ conn = <<>>
    /\ pool = 0
    /\ thread = [t \in Thread |-> Idle]
    /\ sent = [t \in Thread |-> 0]
    /\ peer = "down"
    /\ got = [t \in Thread |-> <<>>]

(* The sending process. *)

Sent == {m \in Message : m.n <= sent[m.thread]}

\* RemoteRaftActor::send encodes an event and calls Client::send.
Send(t) ==
    /\ thread[t] = Idle
    /\ Cardinality(Sent) < MaxSends
    /\ sent' = [sent EXCEPT ![t] = @ + 1]
    /\ thread' = [thread EXCEPT ![t] = [at |-> "get", conn |-> 0,
                    rest |-> encode([thread |-> t, n |-> sent[t] + 1])]]
    /\ UNCHANGED <<conn, pool, peer, got>>

\* create() runs under the pool's mutex.
MtxFree == \A t \in Thread : thread[t].at # "connect"

\* Mutant: get() never finds a connection in the pool.
GetConnection_AlwaysNew(t) ==
    /\ thread[t].at = "get" /\ MtxFree
    /\ thread' = [thread EXCEPT ![t].at = "connect"]
    /\ UNCHANGED <<conn, pool, sent, peer, got>>

\* Mutant: get() does not lock the mutex.
GetConnection_Unlocked(t) ==
    /\ thread[t].at = "get"
    /\ thread' = [thread EXCEPT
         ![t].at = IF pool = 0 \/ (pool # 0 /\ conn[pool].closed) THEN "connect" ELSE "write",
         ![t].conn = pool]
    /\ UNCHANGED <<conn, pool, sent, peer, got>>

\* ConnectionPool::get: a connection that is not closed is used again.
GetConnection(t) ==
    /\ thread[t].at = "get" /\ MtxFree
    /\ IF pool # 0 /\ ~conn[pool].closed
       THEN thread' = [thread EXCEPT ![t].at = "write", ![t].conn = pool]
       ELSE thread' = [thread EXCEPT ![t].at = "connect"]
    /\ UNCHANGED <<conn, pool, sent, peer, got>>

\* create() succeeds as soon as the peer listens; its system accepts for it.
Connect(t) ==
    /\ thread[t].at = "connect"
    /\ peer \in {"listening", "running"}
    /\ Len(conn) < MaxConns
    /\ conn' = Append(conn, NewConnection)
    /\ pool' = Len(conn) + 1
    /\ thread' = [thread EXCEPT ![t].at = "write", ![t].conn = Len(conn) + 1]
    /\ UNCHANGED <<sent, peer, got>>

\* Mutant: the null pointer that get() returns is not tested.
ConnectFails_NotTested(t) ==
    /\ thread[t].at = "connect"
    /\ thread' = [thread EXCEPT ![t].at = "write"]
    /\ UNCHANGED <<conn, pool, sent, peer, got>>

\* Or it fails: Client::send finds a null pointer and drops the message, and a
\* closed connection stays in the pool.
ConnectFails(t) ==
    /\ thread[t].at = "connect"
    /\ thread' = [thread EXCEPT ![t] = Idle]
    /\ UNCHANGED <<conn, pool, sent, peer, got>>

\* The parts of s that fit into the socket, at least one of them; all, if
\* nobody will ever read them.
Fits(c, s) ==
    IF conn[c].reader = "closed" THEN Len(s)
    ELSE LET room == Capacity - Len(conn[c].unread)
         IN  IF room < Len(s) THEN room ELSE Len(s)

\* Mutant: header and body are written by two calls.
Write_TwoCalls(t) ==
    LET c == thread[t].conn
        rest == thread[t].rest
    IN  /\ thread[t].at = "write" /\ ~conn[c].broken
        /\ Fits(c, rest) > 0
        /\ conn' = [conn EXCEPT ![c].unread = IF conn[c].reader = "closed" THEN @
                                              ELSE Append(@, Head(rest))]
        /\ thread' = [thread EXCEPT ![t] = IF Len(rest) = 1 THEN Idle
                                           ELSE [@ EXCEPT !.rest = Tail(rest)]]
        /\ UNCHANGED <<pool, sent, peer, got>>

\* asio::write: one system call, which may write less than all of it.
Write(t) ==
    LET c == thread[t].conn
        rest == thread[t].rest
        k == Fits(c, rest)
    IN  /\ thread[t].at = "write" /\ ~conn[c].broken
        /\ k > 0
        /\ conn' = [conn EXCEPT ![c].unread = IF conn[c].reader = "closed" THEN @
                                              ELSE @ \o SubSeq(rest, 1, k),
                                ![c].stalled = @ \/ k < Len(rest)]
        /\ thread' = [thread EXCEPT ![t] = IF k = Len(rest) THEN Idle
                        ELSE [@ EXCEPT !.rest = SubSeq(rest, k + 1, Len(rest))]]
        /\ UNCHANGED <<pool, sent, peer, got>>

\* Mutant: a failed write is tried again, on the connection that is in the pool.
WriteFails_Retry(t) ==
    /\ thread[t].at = "write" /\ conn[thread[t].conn].broken
    /\ thread' = [thread EXCEPT ![t].at = "get"]
    /\ UNCHANGED <<conn, pool, sent, peer, got>>

\* The write fails: closed_ is set and the message is dropped.
WriteFails(t) ==
    /\ thread[t].at = "write" /\ conn[thread[t].conn].broken
    /\ conn' = [conn EXCEPT ![thread[t].conn].closed = TRUE]
    /\ thread' = [thread EXCEPT ![t] = Idle]
    /\ UNCHANGED <<pool, sent, peer, got>>

\* The sender learns that its peer has closed, or loses the connection.
Break(c) ==
    /\ ~conn[c].broken
    /\ conn' = [conn EXCEPT ![c].broken = TRUE]
    /\ UNCHANGED <<pool, thread, sent, peer, got>>

-----------------------------------------------------------------------------
(* The receiving process. *)

CloseReader(c) == [c EXCEPT !.reader = "closed", !.unread = <<>>]

\* Server::Server, Server::stop, and the end of the process, by an exception too.
\* stop() closes the acceptor and leaves the connections open and unread.
ServerLife ==
    /\ \/ peer = "down" /\ peer' = "listening" /\ UNCHANGED conn
       \/ /\ peer \in {"listening", "running"} /\ peer' = "stopped"
          /\ conn' = [c \in DOMAIN conn |->
                IF conn[c].reader = "backlog" THEN CloseReader(conn[c]) ELSE conn[c]]
       \/ /\ peer # "down" /\ peer' = "down"
          /\ conn' = [c \in DOMAIN conn |-> CloseReader(conn[c])]
    /\ UNCHANGED <<pool, thread, sent, got>>

Run ==
    /\ peer = "listening"
    /\ peer' = "running"
    /\ UNCHANGED <<conn, pool, thread, sent, got>>

\* Server::accept starts a ServerConnection and accepts again.
Accept(c) ==
    /\ peer = "running" /\ conn[c].reader = "backlog"
    /\ conn' = [conn EXCEPT ![c].reader = "header"]
    /\ UNCHANGED <<pool, thread, sent, peer, got>>

\* read_header, and read_body up to its test of the length.
ReadHeader(c) ==
    /\ peer = "running" /\ conn[c].reader = "header" /\ conn[c].unread # <<>>
    /\ LET k == conn[c]
           p == Head(k.unread)
       IN  conn' = [conn EXCEPT ![c] =
             IF p.kind = "body" THEN [k EXCEPT !.reader = "garbled"]
             ELSE IF p.msg.n \in Oversized THEN CloseReader(k)
             ELSE [k EXCEPT !.reader = "body", !.unread = Tail(k.unread)]]
    /\ UNCHANGED <<pool, thread, sent, peer, got>>

\* The rest of read_body: on_message, then read_header again.
ReadBody(c) ==
    /\ peer = "running" /\ conn[c].reader = "body" /\ conn[c].unread # <<>>
    /\ LET p == Head(conn[c].unread)
       IN  IF p.kind = "header"
           THEN conn' = [conn EXCEPT ![c].reader = "garbled"] /\ UNCHANGED got
           ELSE /\ conn' = [conn EXCEPT ![c].reader = "header", ![c].unread = Tail(@)]
                /\ got' = [got EXCEPT ![p.msg.thread] = Append(@, [n |-> p.msg.n, conn |-> c])]
    /\ UNCHANGED <<pool, thread, sent, peer>>

\* Out of step: what is read is taken for messages, or the length is too large.
ReadGarbled(c) ==
    /\ peer = "running" /\ conn[c].reader = "garbled"
    /\ \/ conn[c].unread # <<>> /\ conn' = [conn EXCEPT ![c].unread = <<>>]
       \/ conn' = [conn EXCEPT ![c] = CloseReader(@)]
    /\ UNCHANGED <<pool, thread, sent, peer, got>>

\* The end of the stream, or an error, in read_header or read_body.
ReadFails(c) ==
    /\ peer = "running" /\ conn[c].reader \in {"header", "body", "garbled"}
    /\ conn[c].broken /\ conn[c].unread = <<>>
    /\ conn' = [conn EXCEPT ![c] = CloseReader(@)]
    /\ UNCHANGED <<pool, thread, sent, peer, got>>

-----------------------------------------------------------------------------
Sending(t) ==
    GetConnection(t) \/ Connect(t) \/ ConnectFails(t) \/ Write(t) \/ WriteFails(t)

\* What a ServerConnection does except for handing a message over.
Reading(c) == Accept(c) \/ ReadHeader(c) \/ ReadGarbled(c) \/ ReadFails(c)

-----------------------------------------------------------------------------
(* Properties. *)

(***************************************************************************)
(* A connection is created on demand and cached until an error closes it,  *)
(* whatever threads ask at the same time: every other connection ever made *)
(* has been closed.                                                        *)
(***************************************************************************)
OneConnection == \A c \in DOMAIN conn : c # pool => conn[c].closed

(***************************************************************************)
(* A message arrives at most once, and is overtaken by a later one of the  *)
(* same thread only if the sender met an error on its connection and       *)
(* changed to another, while the peer had not read it yet.                 *)
(***************************************************************************)
OvertakenAfterError ==
    \A t \in Thread :
        \A i, j \in DOMAIN got[t] :
            i < j /\ got[t][j].n <= got[t][i].n
                => got[t][j].n < got[t][i].n /\ conn[got[t][j].conn].closed

(***************************************************************************)
(* Two threads write to one socket without a lock, yet a connection gets   *)
(* out of step only if a write has had to wait for room in it.             *)
(***************************************************************************)
GarbledAfterStall ==
    \A c \in DOMAIN conn : conn[c].reader = "garbled" => conn[c].stalled

=============================================================================
