--------------------------- MODULE DeliveryProofs ---------------------------
(***************************************************************************)
(* Proofs about Transport, BlockingQueue and their composition Delivery,   *)
(* for any finite sets of threads and getters and any bounds.              *)
(***************************************************************************)
EXTENDS Delivery, BlockingQueueProofs, SequenceTheorems, FiniteSetTheorems, TLAPS

Connection ==
    [closed : BOOLEAN, broken : BOOLEAN, unread : Seq(Part),
     reader : {"backlog", "header", "body", "garbled", "closed"}, stalled : BOOLEAN]

Conns == 1..Len(conn)
Parts(c) == 1..Len(conn[c].unread)

\* The message that thread t is sending, or has sent last.
Current(t) == [thread |-> t, n |-> sent[t]]

\* What a thread has still to write: all of its message, or the body of it when
\* it has had to wait for room.
ThreadShape(t) ==
    \/ thread[t] = Idle
    \/ /\ sent[t] > 0
       /\ thread[t].at \in {"get", "connect"} /\ thread[t].conn = 0
       /\ thread[t].rest = encode(Current(t))
    \/ /\ sent[t] > 0
       /\ thread[t].at = "write" /\ thread[t].conn \in Conns
       /\ \/ thread[t].rest = encode(Current(t))
          \/ /\ thread[t].rest = <<[kind |-> "body", msg |-> Current(t)]>>
             /\ conn[thread[t].conn].stalled

NetShape ==
    /\ conn \in Seq(Connection) /\ Len(conn) <= MaxConns
    /\ \A c \in Conns : Len(conn[c].unread) <= Capacity
    /\ pool = Len(conn)
    /\ thread \in [Thread -> [at : {"idle", "get", "connect", "write"}, conn : Nat,
                              rest : Seq(Part)]]
    /\ \A t \in Thread : ThreadShape(t)
    /\ sent \in [Thread -> 0..MaxSends]
    /\ peer \in {"down", "listening", "running", "stopped"}
    /\ got \in [Thread -> Seq([n : 1..MaxSends, conn : 1..MaxConns])]

\* create() is for one thread at a time, and only when there is no connection
\* that could be used.
PoolGuarded ==
    \A t \in Thread : thread[t].at = "connect" =>
        /\ pool = 0 \/ (pool # 0 /\ conn[pool].closed)
        /\ \A u \in Thread : thread[u].at = "connect" => u = t

\* As long as no write had to wait, headers and bodies take turns, beginning
\* with what the reader expects and ending with a body.
InStep(k) ==
    LET s == k.unread
    IN  /\ k.reader # "garbled"
        /\ k.reader \in {"backlog", "header"} /\ s # <<>> => s[1].kind = "header"
        /\ k.reader = "body" => s # <<>> /\ s[1].kind = "body"
        /\ k.reader # "closed" /\ s # <<>> => s[Len(s)].kind = "body"
        /\ \A i \in 1..(Len(s) - 1) : s[i].kind # s[i + 1].kind

Framed(k) == ~k.stalled => InStep(k)

Framing == \A c \in Conns : Framed(conn[c])

\* The last message of a thread that is not in its hands any more, and the last
\* connection it may have written to.
Last(t) == IF thread[t].at = "idle" THEN sent[t] ELSE sent[t] - 1
Reach(t) == IF thread[t].at = "write" THEN thread[t].conn ELSE Len(conn)

\* What arrives and what is on its way is numbered in the order of connections
\* and, in a connection, in the order of writing.
PartsBounded ==
    \A c \in Conns : \A i \in Parts(c) :
        LET p == conn[c].unread[i]
        IN  p.kind = "body" => p.msg.n <= Last(p.msg.thread) /\ c <= Reach(p.msg.thread)

GotBounded ==
    \A t \in Thread : \A i \in 1..Len(got[t]) :
        got[t][i].n <= Last(t) /\ got[t][i].conn <= Reach(t)

PartsInOrder ==
    \A c, d \in Conns : \A i \in Parts(c), j \in Parts(d) :
        LET p == conn[c].unread[i]
            r == conn[d].unread[j]
        IN  p.kind = "body" /\ r.kind = "body" /\ p.msg.thread = r.msg.thread
              /\ (c < d \/ (c = d /\ i < j))
                => p.msg.n < r.msg.n

GotInOrder ==
    \A t \in Thread : \A i \in 1..Len(got[t]) : \A d \in Conns : \A j \in Parts(d) :
        LET r == conn[d].unread[j]
        IN  r.kind = "body" /\ r.msg.thread = t =>
              IF got[t][i].conn <= d THEN got[t][i].n < r.msg.n ELSE r.msg.n < got[t][i].n

OrderInv == PartsBounded /\ GotBounded /\ PartsInOrder /\ GotInOrder

NetInv ==
    /\ NetShape /\ PoolGuarded /\ OneConnection /\ Framing /\ OrderInv
    /\ OvertakenAfterError

-----------------------------------------------------------------------------
(* Facts about messages and about the shape of the state. *)

(***************************************************************************)
(* A thread that may send has a number left for its message.               *)
(***************************************************************************)
LEMMA NumberLeft ==
    ASSUME sent \in [Thread -> 0..MaxSends], Cardinality(Sent) < MaxSends,
           NEW t \in Thread
    PROVE  sent[t] + 1 \in 1..MaxSends
<1> USE BoundsAssumption
<1> DEFINE N == 1..MaxSends
<1>1. IsFiniteSet(N) /\ Cardinality(N) = MaxSends
  BY FS_Interval
<1>2. IsFiniteSet(Message)
  <2> DEFINE f == [x \in Thread \X N |-> [thread |-> x[1], n |-> x[2]]]
  <2>1. IsFiniteSet(Thread \X N)
    BY <1>1, FS_Product
  <2>2. f \in [Thread \X N -> Message]
    BY DEF Message
  <2>3. ASSUME NEW m \in Message
        PROVE  \E x \in Thread \X N : f[x] = m
    <3>1. <<m.thread, m.n>> \in Thread \X N
      BY DEF Message
    <3>2. f[<<m.thread, m.n>>] = m
      BY <3>1 DEF Message
    <3> QED BY <3>1, <3>2
  <2>4. f \in Surjection(Thread \X N, Message)
    BY <2>2, <2>3 DEF Surjection
  <2> QED BY <2>1, <2>4, FS_Surjection
<1>3. IsFiniteSet(Sent) /\ Cardinality(Sent) \in Nat
  BY <1>2, FS_Subset, FS_CardinalityType DEF Sent
<1>4. CASE sent[t] = MaxSends
  <2> DEFINE g == [i \in N |-> [thread |-> t, n |-> i]]
  <2>1. g \in [N -> Sent]
    BY <1>4 DEF Sent, Message
  <2>2. \A i, j \in N : g[i] = g[j] => i = j
    <3> SUFFICES ASSUME NEW i \in N, NEW j \in N, g[i] = g[j] PROVE i = j
      OBVIOUS
    <3>1. g[i].n = i /\ g[j].n = j
      OBVIOUS
    <3> QED BY <3>1
  <2>3. g \in Injection(N, Sent)
    BY <2>1, <2>2 DEF Injection, IsInjective
  <2>4. Cardinality(N) <= Cardinality(Sent)
    BY <1>3, <2>3, FS_Injection
  <2> QED BY <1>1, <1>3, <2>4
<1> QED BY <1>4

(***************************************************************************)
(* A connection, the parts in it, and the bounds on what a thread wrote.   *)
(***************************************************************************)
ConnTyped ==
    /\ Len(conn) \in Nat /\ DOMAIN conn = Conns
    /\ \A c \in Conns : /\ conn[c] \in Connection /\ conn[c].unread \in Seq(Part)
                        /\ Len(conn[c].unread) \in Nat
                        /\ \A i \in Parts(c) : conn[c].unread[i] \in Part

\* Every connection is a record, with a sequence of parts not yet read.
LEMMA ConnFacts == NetShape => ConnTyped
<1> SUFFICES ASSUME NetShape PROVE ConnTyped
  OBVIOUS
<1>1. conn \in Seq(Connection)
  BY DEF NetShape
<1>2. Len(conn) \in Nat /\ DOMAIN conn = Conns
  BY <1>1 DEF Conns
<1>3. ASSUME NEW c \in Conns
      PROVE  /\ conn[c] \in Connection /\ conn[c].unread \in Seq(Part)
             /\ Len(conn[c].unread) \in Nat
             /\ \A i \in Parts(c) : conn[c].unread[i] \in Part
  <2>1. conn[c] \in Connection
    BY <1>1, <1>3, ElementOfSeq DEF Conns
  <2>2. conn[c].unread \in Seq(Part)
    BY <2>1 DEF Connection
  <2> QED BY <2>1, <2>2, ElementOfSeq DEF Parts
<1> QED BY <1>2, <1>3 DEF ConnTyped

\* A part belongs to a message of some thread.
LEMMA PartFacts ==
    ASSUME NEW p \in Part
    PROVE  /\ p.kind \in {"header", "body"} /\ p.msg \in Message
           /\ p.msg.thread \in Thread /\ p.msg.n \in 1..MaxSends
  BY DEF Part, Message

ThreadTyped ==
    \A t \in Thread : Last(t) \in Int /\ Reach(t) \in Nat /\ Reach(t) <= Len(conn)

\* The bounds on what a thread wrote are numbers.
LEMMA ThreadFacts == NetShape => ThreadTyped
<1> SUFFICES ASSUME NetShape, NEW t \in Thread
             PROVE  Last(t) \in Int /\ Reach(t) \in Nat /\ Reach(t) <= Len(conn)
  BY DEF ThreadTyped
<1>1. sent[t] \in Nat /\ Len(conn) \in Nat /\ thread[t].conn \in Nat
  BY BoundsAssumption, ConnFacts DEF NetShape, ConnTyped
<1>2. thread[t].at = "write" => thread[t].conn \in Conns
  <2>1. ThreadShape(t)
    BY DEF NetShape
  <2>2. Idle.at = "idle"
    BY DEF Idle
  <2> QED BY <2>1, <2>2 DEF ThreadShape
<1> QED BY <1>1, <1>2 DEF Last, Reach, Conns

(***************************************************************************)
(* A thread that writes has a message in hand and a connection for it.     *)
(***************************************************************************)
LEMMA WritesTo ==
    ASSUME NetShape, NEW t \in Thread, thread[t].at = "write"
    PROVE  /\ thread[t].conn \in Conns /\ sent[t] > 0
           /\ \/ thread[t].rest = encode(Current(t))
              \/ /\ thread[t].rest = <<[kind |-> "body", msg |-> Current(t)]>>
                 /\ conn[thread[t].conn].stalled
<1>1. ThreadShape(t)
  BY DEF NetShape
<1>2. thread[t] # Idle
  BY DEF Idle
<1> QED BY <1>1, <1>2 DEF ThreadShape

(***************************************************************************)
(* What has arrived came over a connection that there is.                  *)
(***************************************************************************)
GotTyped ==
    \A t \in Thread :
        /\ DOMAIN got[t] = 1..Len(got[t]) /\ Len(got[t]) \in Nat
        /\ \A i \in DOMAIN got[t] : /\ got[t][i].n \in Nat \ {0}
                                    /\ got[t][i].n <= Last(t)
                                    /\ got[t][i].conn \in Conns

\* Both bounds hold of what has arrived.
LEMMA GotFacts == NetShape /\ OrderInv => GotTyped
<1> SUFFICES ASSUME NetShape, OrderInv, NEW t \in Thread
             PROVE  /\ DOMAIN got[t] = 1..Len(got[t]) /\ Len(got[t]) \in Nat
                    /\ \A i \in DOMAIN got[t] : /\ got[t][i].n \in Nat \ {0}
                                                /\ got[t][i].n <= Last(t)
                                                /\ got[t][i].conn \in Conns
  BY DEF GotTyped
<1>1. got[t] \in Seq([n : 1..MaxSends, conn : 1..MaxConns])
  BY DEF NetShape
<1>2. DOMAIN got[t] = 1..Len(got[t]) /\ Len(got[t]) \in Nat
  BY <1>1
<1>3. ASSUME NEW i \in 1..Len(got[t])
      PROVE  /\ got[t][i].n \in Nat \ {0} /\ got[t][i].n <= Last(t)
             /\ got[t][i].conn \in Conns
  <2>1. got[t][i] \in [n : 1..MaxSends, conn : 1..MaxConns]
    BY <1>1, ElementOfSeq
  <2>2. got[t][i].n \in 1..MaxSends /\ got[t][i].conn \in 1..MaxConns
    BY <2>1
  <2>3. got[t][i].n <= Last(t) /\ got[t][i].conn <= Reach(t)
    BY DEF OrderInv, GotBounded
  <2>4. Reach(t) \in Nat /\ Reach(t) <= Len(conn) /\ Len(conn) \in Nat
    BY ConnFacts, ThreadFacts DEF ThreadTyped, ConnTyped
  <2> QED BY <2>2, <2>3, <2>4, BoundsAssumption DEF Conns
<1> QED BY <1>2, <1>3

\* The same facts after a step.
LEMMA PrimedFacts == NetShape' => ConnTyped' /\ ThreadTyped'
  BY ConnFacts, ThreadFacts, PTL

(***************************************************************************)
(* The order of messages survives a step that only takes parts away, from  *)
(* the front or altogether.                                                *)
(***************************************************************************)
Kept(c) ==
    \E s \in {0, 1} : \A j \in 1..Len(conn'[c].unread) :
        c \in Conns /\ j + s \in Parts(c) /\ conn'[c].unread[j] = conn[c].unread[j + s]

Later(t) == Last(t) <= Last(t)' /\ Reach(t) <= Reach(t)'

\* The parts by themselves.
LEMMA PartsKept ==
    ASSUME NetShape, NetShape', PartsBounded, PartsInOrder,
           \A c \in Conns' : Kept(c), \A t \in Thread : Later(t)
    PROVE  PartsBounded' /\ PartsInOrder'
<1>0. ConnTyped /\ ThreadTyped /\ ThreadTyped' /\ ConnTyped'
  BY ConnFacts, ThreadFacts, PrimedFacts
<1>1. \A c \in Conns' : c \in Int /\ \A i \in Parts(c)' : i \in Int
  BY <1>0 DEF Conns, Parts
<1>2. ASSUME NEW c \in Conns', NEW i \in Parts(c)'
      PROVE  /\ c \in Conns
             /\ \E j \in Parts(c) : conn'[c].unread[i] = conn[c].unread[j]
             /\ conn'[c].unread[i] \in Part
  BY <1>0, <1>2 DEF Kept, Parts, ConnTyped
<1>3. PartsBounded'
  <2> SUFFICES ASSUME NEW c \in Conns', NEW i \in Parts(c)', NEW p, NEW t,
                      p = conn'[c].unread[i], t = p.msg.thread, p.kind = "body"
               PROVE  p.msg.n <= Last(t)' /\ c <= Reach(t)'
    BY DEF PartsBounded
  <2>1. PICK j \in Parts(c) : c \in Conns /\ p = conn[c].unread[j]
    BY <1>2
  <2>2. p \in Part /\ t \in Thread /\ p.msg.n \in Int
    BY <1>2, PartFacts
  <2>3. p.msg.n <= Last(t) /\ c <= Reach(t)
    BY <2>1 DEF PartsBounded
  <2>4. Last(t) <= Last(t)' /\ Reach(t) <= Reach(t)'
    BY <2>2 DEF Later
  <2> QED BY <1>0, <1>1, <2>2, <2>3, <2>4 DEF ThreadTyped
<1>4. PartsInOrder'
  <2> SUFFICES ASSUME NEW c \in Conns', NEW d \in Conns', NEW i \in Parts(c)',
                      NEW j \in Parts(d)', NEW p, NEW r,
                      p = conn'[c].unread[i], r = conn'[d].unread[j],
                      p.kind = "body", r.kind = "body", p.msg.thread = r.msg.thread,
                      c < d \/ (c = d /\ i < j)
               PROVE  p.msg.n < r.msg.n
    BY DEF PartsInOrder
  <2>1. PICK s \in {0, 1} : \A k \in Parts(c)' :
               k + s \in Parts(c) /\ conn'[c].unread[k] = conn[c].unread[k + s]
    BY DEF Kept, Parts
  <2>2. PICK z \in {0, 1} : \A k \in Parts(d)' :
               k + z \in Parts(d) /\ conn'[d].unread[k] = conn[d].unread[k + z]
    BY DEF Kept, Parts
  <2>3. c \in Conns /\ d \in Conns
    BY <1>2
  <2>4. CASE c < d
    <3>1. /\ i + s \in Parts(c) /\ p = conn[c].unread[i + s]
          /\ j + z \in Parts(d) /\ r = conn[d].unread[j + z]
      BY <2>1, <2>2
    <3> QED BY <2>3, <2>4, <3>1 DEF PartsInOrder
  <2>5. CASE c = d /\ i < j
    <3>1. i + s \in Parts(c) /\ j + s \in Parts(c) /\ i + s < j + s
      BY <1>1, <2>1, <2>5
    <3>2. p = conn[c].unread[i + s] /\ r = conn[c].unread[j + s]
      BY <2>1, <2>5
    <3> QED BY <2>3, <2>5, <3>1, <3>2 DEF PartsInOrder
  <2> QED BY <2>4, <2>5
<1> QED BY <1>3, <1>4

\* The parts together with what has arrived.
LEMMA OrderKept ==
    ASSUME NetShape, NetShape', OrderInv, got' = got,
           \A c \in Conns' : Kept(c), \A t \in Thread : Later(t)
    PROVE  OrderInv'
<1>0. ConnTyped /\ ThreadTyped /\ ThreadTyped' /\ ConnTyped'
  BY ConnFacts, ThreadFacts, PrimedFacts
<1>1. \A c \in Conns' : c \in Int /\ \A i \in Parts(c)' : i \in Int
  BY <1>0 DEF Conns, Parts
<1>2. ASSUME NEW c \in Conns', NEW i \in Parts(c)'
      PROVE  /\ c \in Conns
             /\ \E j \in Parts(c) : conn'[c].unread[i] = conn[c].unread[j]
             /\ conn'[c].unread[i] \in Part
  BY <1>0, <1>2 DEF Kept, Parts, ConnTyped
<1>3. PartsBounded' /\ PartsInOrder'
  BY PartsKept DEF OrderInv
<1>4. GotBounded'
  <2> SUFFICES ASSUME NEW t \in Thread, NEW i \in 1..Len(got[t])
               PROVE  got[t][i].n <= Last(t)' /\ got[t][i].conn <= Reach(t)'
    BY DEF GotBounded
  <2>1. got[t][i].n \in Int /\ got[t][i].conn \in Int
    <3>1. got[t] \in Seq([n : 1..MaxSends, conn : 1..MaxConns])
      BY DEF NetShape
    <3>2. got[t][i] \in [n : 1..MaxSends, conn : 1..MaxConns]
      BY <3>1, ElementOfSeq
    <3> QED BY <3>2
  <2>2. got[t][i].n <= Last(t) /\ got[t][i].conn <= Reach(t)
    BY DEF OrderInv, GotBounded
  <2> QED BY <1>0, <2>1, <2>2 DEF Later, ThreadTyped
<1>5. GotInOrder'
  <2> SUFFICES ASSUME NEW t \in Thread, NEW i \in 1..Len(got[t]), NEW d \in Conns',
                      NEW j \in Parts(d)', NEW r, r = conn'[d].unread[j],
                      r.kind = "body", r.msg.thread = t
               PROVE  IF got[t][i].conn <= d THEN got[t][i].n < r.msg.n
                                             ELSE r.msg.n < got[t][i].n
    BY DEF GotInOrder
  <2>1. PICK k \in Parts(d) : d \in Conns /\ r = conn[d].unread[k]
    BY <1>2
  <2> QED BY <2>1 DEF OrderInv, GotInOrder
<1> QED BY <1>3, <1>4, <1>5 DEF OrderInv

-----------------------------------------------------------------------------
(* Steps that write nothing and deliver nothing. *)

\* What such a step may make of a connection k.
Quieter(k, n) ==
    /\ k.closed => n.closed
    /\ n.stalled = k.stalled
    /\ \/ n.unread = k.unread
       \/ n.unread = <<>>
       \/ k.unread # <<>> /\ n.unread = Tail(k.unread)
    /\ Framed(n)

\* All but what is said of got, which may change.
LEMMA QuietRest ==
    ASSUME NetInv, conn' \in Seq(Connection), Len(conn') = Len(conn),
           \A c \in Conns : Quieter(conn[c], conn'[c]),
           thread' = thread \/ \E t \in Thread : thread' = [thread EXCEPT ![t] = Idle],
           peer' \in {"down", "listening", "running", "stopped"},
           pool' = pool, sent' = sent,
           got' \in [Thread -> Seq([n : 1..MaxSends, conn : 1..MaxConns])]
    PROVE  /\ NetShape' /\ PoolGuarded' /\ OneConnection' /\ Framing'
           /\ PartsBounded' /\ PartsInOrder'
           /\ \A t \in Thread : Later(t)
           /\ \A c \in Conns' : Kept(c)
<1>0. NetShape /\ ConnTyped /\ ThreadTyped /\ Conns' = Conns
  BY ConnFacts, ThreadFacts DEF NetInv, Conns
<1>1. \A t \in Thread : thread'[t] \in {thread[t], Idle}
  BY <1>0 DEF NetShape
<1>2. Idle.at = "idle" /\ Idle \in [at : {"idle", "get", "connect", "write"}, conn : Nat,
                                    rest : Seq(Part)]
  BY DEF Idle
<1>3. ASSUME NEW c \in Conns
      PROVE  /\ Len(conn'[c].unread) <= Len(conn[c].unread)
             /\ Kept(c)
  <2> DEFINE s == conn[c].unread
  <2>1. s \in Seq(Part) /\ Len(s) \in Nat /\ Parts(c) = 1..Len(s)
    BY <1>0 DEF ConnTyped, Parts
  <2>2. CASE conn'[c].unread = s
    <3>1. \A j \in 1..Len(s) : j + 0 \in Parts(c) /\ s[j] = s[j + 0]
      BY <2>1
    <3>2. \A j \in 1..Len(conn'[c].unread) :
            c \in Conns /\ j + 0 \in Parts(c) /\ conn'[c].unread[j] = conn[c].unread[j + 0]
      BY <2>2, <3>1
    <3> QED BY <2>1, <2>2, <3>2 DEF Kept
  <2>3. CASE conn'[c].unread = <<>>
    <3>1. Len(conn'[c].unread) = 0
      BY <2>3
    <3> QED BY <2>1, <3>1 DEF Kept
  <2>4. CASE s # <<>> /\ conn'[c].unread = Tail(s)
    <3>1. /\ Len(Tail(s)) = Len(s) - 1
          /\ \A j \in 1..Len(Tail(s)) : Tail(s)[j] = s[j + 1]
      BY <2>1, <2>4, HeadTailProperties
    <3>2. \A j \in 1..Len(Tail(s)) : j + 1 \in Parts(c) /\ Tail(s)[j] = s[j + 1]
      BY <2>1, <3>1
    <3>3. \A j \in 1..Len(conn'[c].unread) :
            c \in Conns /\ j + 1 \in Parts(c) /\ conn'[c].unread[j] = conn[c].unread[j + 1]
      BY <2>4, <3>2
    <3> QED BY <2>1, <2>4, <3>1, <3>3 DEF Kept
  <2> QED BY <2>2, <2>3, <2>4 DEF Quieter
<1>4. NetShape'
  <2>1. thread' \in [Thread -> [at : {"idle", "get", "connect", "write"}, conn : Nat,
                                rest : Seq(Part)]]
    BY <1>0, <1>2 DEF NetShape
  <2>2. ASSUME NEW t \in Thread
        PROVE  ThreadShape(t)'
    <3>1. CASE thread'[t] = Idle
      BY <3>1 DEF ThreadShape, Idle
    <3>2. CASE thread'[t] = thread[t]
      <4>1. ThreadShape(t)
        BY <1>0 DEF NetShape
      <4>2. Current(t)' = Current(t)
        BY DEF Current
      <4>3. \A c \in Conns : conn'[c].stalled = conn[c].stalled
        BY DEF Quieter
      <4> QED BY <1>0, <3>2, <4>1, <4>2, <4>3 DEF ThreadShape, Idle, encode
    <3> QED BY <1>1, <3>1, <3>2
  <2>3. \A c \in Conns : Len(conn'[c].unread) <= Capacity
    <3> TAKE c \in Conns
    <3>1. Len(conn[c].unread) <= Capacity /\ Len(conn[c].unread) \in Nat
      BY <1>0 DEF NetShape, ConnTyped
    <3>2. Len(conn'[c].unread) \in Nat
      <4>1. conn'[c] \in Connection
        BY <1>0, ElementOfSeq DEF Conns
      <4> QED BY <4>1 DEF Connection
    <3> QED BY <1>3, <3>1, <3>2, BoundsAssumption
  <2> QED BY <1>0, <2>1, <2>2, <2>3 DEF NetShape
<1>5. PoolGuarded'
  <2>1. pool = Len(conn) /\ Len(conn) \in Nat
    BY <1>0 DEF NetShape, ConnTyped
  <2>2. pool # 0 => pool \in Conns
    BY <2>1 DEF Conns
  <2>3. \A t \in Thread : thread'[t].at = "connect" => thread[t].at = "connect"
    BY <1>1, <1>2
  <2>4. pool # 0 /\ conn[pool].closed => conn'[pool].closed
    BY <2>2 DEF Quieter
  <2> QED BY <2>3, <2>4 DEF NetInv, PoolGuarded
<1>6. OneConnection'
  <2>1. DOMAIN conn' = Conns /\ DOMAIN conn = Conns
    BY <1>0, <1>4, PrimedFacts DEF ConnTyped
  <2> QED BY <2>1 DEF NetInv, OneConnection, Quieter
<1>7. Framing'
  BY <1>0 DEF Framing, Quieter, Framed
<1>8. \A t \in Thread : Later(t)
  <2> TAKE t \in Thread
  <2>1. /\ Last(t) \in Int /\ Reach(t) \in Nat /\ Reach(t) <= Len(conn)
        /\ Len(conn) \in Nat /\ sent[t] \in Nat
    BY <1>0, BoundsAssumption DEF ThreadTyped, ConnTyped, NetShape
  <2>2. CASE thread'[t] = thread[t]
    BY <2>1, <2>2 DEF Later, Last, Reach
  <2>3. CASE thread'[t] = Idle
    <3>1. Last(t)' = sent[t] /\ Reach(t)' = Len(conn)
      BY <1>2, <2>3 DEF Last, Reach
    <3> QED BY <2>1, <3>1 DEF Later, Last
  <2> QED BY <1>1, <2>2, <2>3
<1>9. \A c \in Conns' : Kept(c)
  BY <1>0, <1>3
<1>10. PartsBounded' /\ PartsInOrder'
  BY <1>0, <1>4, <1>8, <1>9, PartsKept DEF NetInv, OrderInv
<1> QED BY <1>4, <1>5, <1>6, <1>7, <1>8, <1>9, <1>10

\* A step that also leaves got alone.
LEMMA QuietInv ==
    ASSUME NetInv, conn' \in Seq(Connection), Len(conn') = Len(conn),
           \A c \in Conns : Quieter(conn[c], conn'[c]),
           thread' = thread \/ \E t \in Thread : thread' = [thread EXCEPT ![t] = Idle],
           peer' \in {"down", "listening", "running", "stopped"},
           pool' = pool, sent' = sent, got' = got
    PROVE  NetInv'
<1>0. NetShape /\ ConnTyped
  BY ConnFacts DEF NetInv
<1>1. got' \in [Thread -> Seq([n : 1..MaxSends, conn : 1..MaxConns])]
  BY <1>0 DEF NetShape
<1>2. /\ NetShape' /\ PoolGuarded' /\ OneConnection' /\ Framing'
      /\ \A t \in Thread : Later(t)
      /\ \A c \in Conns' : Kept(c)
  BY <1>1, QuietRest
<1>3. OrderInv'
  BY <1>0, <1>2, OrderKept DEF NetInv
<1>4. OvertakenAfterError'
  <2> SUFFICES ASSUME NEW t \in Thread, NEW i \in DOMAIN got[t], NEW j \in DOMAIN got[t],
                      i < j, got[t][j].n <= got[t][i].n
               PROVE  got[t][j].n < got[t][i].n /\ conn'[got[t][j].conn].closed
    BY DEF OvertakenAfterError
  <2>1. got[t][j].n < got[t][i].n /\ conn[got[t][j].conn].closed
    BY DEF NetInv, OvertakenAfterError
  <2>2. got[t][j].conn \in Conns
    BY <1>0, GotFacts DEF NetInv, GotTyped
  <2> QED BY <2>1, <2>2 DEF Quieter
<1> QED BY <1>2, <1>3, <1>4 DEF NetInv

(***************************************************************************)
(* The changes of one connection that steps consist of.                    *)
(***************************************************************************)
LEMMA QuietChanges ==
    ASSUME NEW k \in Connection, Framed(k)
    PROVE  /\ Quieter(k, k)
           /\ [k EXCEPT !.broken = TRUE] \in Connection
           /\ Quieter(k, [k EXCEPT !.broken = TRUE])
           /\ [k EXCEPT !.closed = TRUE] \in Connection
           /\ Quieter(k, [k EXCEPT !.closed = TRUE])
           /\ CloseReader(k) \in Connection /\ Quieter(k, CloseReader(k))
<1>1. Quieter(k, k)
  BY DEF Quieter
<1>2. ASSUME NEW n, n = [k EXCEPT !.broken = TRUE]
      PROVE  n \in Connection /\ Quieter(k, n)
  <2>1. /\ n \in Connection /\ n.unread = k.unread /\ n.reader = k.reader
        /\ n.stalled = k.stalled /\ n.closed = k.closed
    BY <1>2 DEF Connection
  <2> QED BY <2>1 DEF Quieter, Framed, InStep
<1>3. ASSUME NEW n, n = [k EXCEPT !.closed = TRUE]
      PROVE  n \in Connection /\ Quieter(k, n)
  <2>1. /\ n \in Connection /\ n.unread = k.unread /\ n.reader = k.reader
        /\ n.stalled = k.stalled /\ n.closed
    BY <1>3 DEF Connection
  <2> QED BY <2>1 DEF Quieter, Framed, InStep
<1>4. ASSUME NEW n, n = CloseReader(k)
      PROVE  n \in Connection /\ Quieter(k, n)
  <2>1. <<>> \in Seq(Part) /\ Len(<<>>) = 0
    OBVIOUS
  <2>2. /\ n \in Connection /\ n.unread = <<>> /\ n.reader = "closed"
        /\ n.stalled = k.stalled /\ n.closed = k.closed
    BY <1>4, <2>1 DEF Connection, CloseReader
  <2>3. InStep(n)
    BY <2>1, <2>2 DEF InStep
  <2> QED BY <2>2, <2>3 DEF Quieter, Framed
<1> QED BY <1>1, <1>2, <1>3, <1>4

(***************************************************************************)
(* A step that changes one connection and sets at most one thread free.    *)
(***************************************************************************)
LEMMA QuietAt ==
    ASSUME NetInv, NEW c \in Conns, NEW n \in Connection, Quieter(conn[c], n),
           conn' = [conn EXCEPT ![c] = n],
           thread' = thread \/ \E t \in Thread : thread' = [thread EXCEPT ![t] = Idle],
           UNCHANGED <<pool, sent, peer, got>>
    PROVE  NetInv'
<1>0. NetShape /\ ConnTyped
  BY ConnFacts DEF NetInv
<1>1. conn \in Seq(Connection) /\ Len(conn) \in Nat /\ DOMAIN conn = 1..Len(conn)
  BY <1>0 DEF NetShape, ConnTyped, Conns
<1>2. conn' \in Seq(Connection) /\ Len(conn') = Len(conn)
  BY <1>1, ExceptSeq DEF Conns
<1>3. \A d \in Conns : conn'[d] = IF d = c THEN n ELSE conn[d]
  BY <1>1 DEF Conns
<1>4. \A d \in Conns : Quieter(conn[d], conn'[d])
  BY <1>0, <1>3, QuietChanges DEF NetInv, Framing, ConnTyped
<1>5. peer' \in {"down", "listening", "running", "stopped"}
  BY <1>0 DEF NetShape
<1> QED BY <1>2, <1>4, <1>5, QuietInv

(***************************************************************************)
(* A failed connect or write, a lost connection, the end of a reader.      *)
(***************************************************************************)
LEMMA FailureInv ==
    ASSUME NetInv
    PROVE  /\ \A c \in DOMAIN conn : Break(c) => NetInv'
           /\ \A t \in Thread : ConnectFails(t) => NetInv'
           /\ \A t \in Thread : WriteFails(t) => NetInv'
           /\ \A c \in DOMAIN conn : ReadFails(c) => NetInv'
<1>0. NetShape /\ ConnTyped /\ DOMAIN conn = Conns /\ \A c \in Conns : Framed(conn[c])
  BY ConnFacts DEF NetInv, ConnTyped, Framing
<1>1. ASSUME NEW c \in Conns, Break(c)
      PROVE  NetInv'
  <2> DEFINE n == [conn[c] EXCEPT !.broken = TRUE]
  <2>1. n \in Connection /\ Quieter(conn[c], n)
    BY <1>0, QuietChanges DEF ConnTyped
  <2> QED BY <1>1, <2>1, QuietAt DEF Break
<1>2. ASSUME NEW t \in Thread, ConnectFails(t)
      PROVE  NetInv'
  <2>1. \A c \in Conns : Quieter(conn[c], conn'[c])
    BY <1>0, <1>2, QuietChanges DEF ConnectFails, ConnTyped
  <2> QED BY <1>0, <1>2, <2>1, QuietInv DEF ConnectFails, NetShape
<1>3. ASSUME NEW t \in Thread, WriteFails(t)
      PROVE  NetInv'
  <2> DEFINE c == thread[t].conn
             n == [conn[c] EXCEPT !.closed = TRUE]
  <2>1. c \in Conns
    BY <1>0, <1>3, WritesTo DEF WriteFails
  <2>2. n \in Connection /\ Quieter(conn[c], n)
    BY <1>0, <2>1, QuietChanges DEF ConnTyped
  <2> QED BY <1>3, <2>1, <2>2, QuietAt DEF WriteFails
<1>4. ASSUME NEW c \in Conns, ReadFails(c)
      PROVE  NetInv'
  <2> DEFINE n == CloseReader(conn[c])
  <2>1. n \in Connection /\ Quieter(conn[c], n)
    BY <1>0, QuietChanges DEF ConnTyped
  <2>2. conn' = [conn EXCEPT ![c] = n] /\ UNCHANGED <<pool, thread, sent, peer, got>>
    BY <1>4 DEF ReadFails
  <2> QED BY <2>1, <2>2, QuietAt
<1> QED BY <1>0, <1>1, <1>2, <1>3, <1>4

(***************************************************************************)
(* The life of the Server, and the beginning of a ServerConnection.        *)
(***************************************************************************)
LEMMA ServerInv ==
    ASSUME NetInv, ServerLife \/ Run \/ UNCHANGED netVars
    PROVE  NetInv'
<1>0. NetShape /\ ConnTyped /\ DOMAIN conn = Conns /\ \A c \in Conns : Framed(conn[c])
  BY ConnFacts DEF NetInv, ConnTyped, Framing
<1>1. UNCHANGED <<pool, thread, sent, got>>
  BY DEF ServerLife, Run, netVars
<1>2. peer' \in {"down", "listening", "running", "stopped"}
  BY <1>0 DEF ServerLife, Run, netVars, NetShape
<1>3. \/ conn' = conn
      \/ /\ conn' = [c \in DOMAIN conn |-> conn'[c]]
         /\ \A c \in Conns : conn'[c] \in {conn[c], CloseReader(conn[c])}
  BY <1>0 DEF ServerLife, Run, netVars
<1>4. \A c \in Conns : conn'[c] \in Connection /\ Quieter(conn[c], conn'[c])
  BY <1>0, <1>3, QuietChanges DEF ConnTyped
<1>5. conn' \in Seq(Connection) /\ Len(conn') = Len(conn)
  <2>1. CASE conn' = conn
    BY <1>0, <2>1 DEF NetShape
  <2>2. CASE conn' = [c \in DOMAIN conn |-> conn'[c]]
    <3>1. conn' = [c \in 1..Len(conn) |-> conn'[c]] /\ Len(conn) \in Nat
      BY <1>0, <2>2 DEF Conns, ConnTyped
    <3>2. conn' \in [1..Len(conn) -> Connection]
      BY <1>4, <3>1 DEF Conns
    <3>3. conn' \in Seq(Connection)
      BY <3>1, <3>2
    <3> QED BY <3>1, <3>2, <3>3, LenProperties
  <2> QED BY <1>3, <2>1, <2>2
<1> QED BY <1>1, <1>2, <1>4, <1>5, QuietInv

\* Accepting a connection reads nothing of it.
LEMMA AcceptInv ==
    ASSUME NetInv, NEW c \in DOMAIN conn, Accept(c)
    PROVE  NetInv'
<1> DEFINE n == [conn[c] EXCEPT !.reader = "header"]
<1>0. ConnTyped /\ c \in Conns /\ Framed(conn[c])
  BY ConnFacts DEF NetInv, ConnTyped, Framing
<1>1. conn[c] \in Connection /\ conn[c].reader = "backlog"
  BY <1>0 DEF ConnTyped, Accept
<1>2. /\ n \in Connection /\ n.unread = conn[c].unread /\ n.reader = "header"
      /\ n.stalled = conn[c].stalled /\ n.closed = conn[c].closed
  BY <1>1 DEF Connection
<1> HIDE DEF n
<1>3. Quieter(conn[c], n)
  BY <1>0, <1>1, <1>2 DEF Quieter, Framed, InStep
<1>4. conn' = [conn EXCEPT ![c] = n] /\ UNCHANGED <<pool, thread, sent, peer, got>>
  BY DEF Accept, n
<1> QED BY <1>0, <1>2, <1>3, <1>4, QuietAt

(***************************************************************************)
(* Out of step, a connection is emptied or closed.                         *)
(***************************************************************************)
LEMMA ReadGarbledInv ==
    ASSUME NetInv, NEW c \in DOMAIN conn, ReadGarbled(c)
    PROVE  NetInv'
<1>0. ConnTyped /\ c \in Conns /\ Framed(conn[c])
  BY ConnFacts DEF NetInv, ConnTyped, Framing
<1>1. conn[c] \in Connection /\ conn[c].reader = "garbled" /\ conn[c].stalled
  BY <1>0 DEF ConnTyped, ReadGarbled, Framed, InStep
<1>2. CASE conn' = [conn EXCEPT ![c].unread = <<>>]
  <2> DEFINE n == [conn[c] EXCEPT !.unread = <<>>]
  <2>1. <<>> \in Seq(Part)
    OBVIOUS
  <2>2. /\ n \in Connection /\ n.unread = <<>> /\ n.stalled = conn[c].stalled
        /\ n.closed = conn[c].closed
    BY <1>1, <2>1 DEF Connection
  <2> HIDE DEF n
  <2>3. Quieter(conn[c], n)
    BY <1>1, <2>2 DEF Quieter, Framed
  <2>4. conn' = [conn EXCEPT ![c] = n] /\ UNCHANGED <<pool, thread, sent, peer, got>>
    BY <1>2 DEF ReadGarbled, n
  <2> QED BY <1>0, <2>2, <2>3, <2>4, QuietAt
<1>3. CASE conn' = [conn EXCEPT ![c] = CloseReader(@)]
  <2>1. CloseReader(conn[c]) \in Connection /\ Quieter(conn[c], CloseReader(conn[c]))
    BY <1>0, <1>1, QuietChanges
  <2>2. /\ conn' = [conn EXCEPT ![c] = CloseReader(conn[c])]
        /\ UNCHANGED <<pool, thread, sent, peer, got>>
    BY <1>3 DEF ReadGarbled
  <2> QED BY <1>0, <2>1, <2>2, QuietAt
<1> QED BY <1>2, <1>3 DEF ReadGarbled

\* There is something behind the first of two elements.
LEMMA TailLeft ==
    ASSUME NEW S, NEW s \in Seq(S), Len(s) >= 2
    PROVE  Tail(s) # <<>>
<1>1. Len(s) \in Nat /\ s # <<>>
  OBVIOUS
<1>2. Len(Tail(s)) = Len(s) - 1
  BY <1>1, HeadTailProperties
<1>3. Len(Tail(s)) # 0
  BY <1>1, <1>2
<1> QED BY <1>3, EmptySeq

(***************************************************************************)
(* A reader that is in step finds a header, and the body behind it.        *)
(***************************************************************************)
LEMMA ReadHeaderInv ==
    ASSUME NetInv, NEW c \in DOMAIN conn, ReadHeader(c)
    PROVE  NetInv'
<1> DEFINE k == conn[c]
           s == k.unread
           p == Head(s)
           n == IF p.kind = "body" THEN [k EXCEPT !.reader = "garbled"]
                ELSE IF p.msg.n \in Oversized THEN CloseReader(k)
                ELSE [k EXCEPT !.reader = "body", !.unread = Tail(s)]
<1>0. ConnTyped /\ c \in Conns /\ Framed(k)
  BY ConnFacts DEF NetInv, ConnTyped, Framing
<1>1. /\ k \in Connection /\ k.reader = "header" /\ s \in Seq(Part) /\ s # <<>>
      /\ Len(s) \in Nat
  BY <1>0 DEF ConnTyped, ReadHeader
<1>2. conn' = [conn EXCEPT ![c] = n] /\ UNCHANGED <<pool, thread, sent, peer, got>>
  BY DEF ReadHeader
<1>3. p = s[1] /\ p \in Part /\ p.kind \in {"header", "body"} /\ Len(s) >= 1
  BY <1>1, PartFacts
<1>4. n \in Connection /\ Quieter(k, n)
  <2>1. CASE p.kind = "body"
    <3> DEFINE m == [k EXCEPT !.reader = "garbled"]
    <3>1. k.stalled
      BY <1>0, <1>1, <1>3, <2>1 DEF Framed, InStep
    <3>2. /\ m \in Connection /\ m.unread = s /\ m.stalled = k.stalled
          /\ m.closed = k.closed
      BY <1>1 DEF Connection
    <3> HIDE DEF m
    <3>3. Quieter(k, m)
      BY <3>1, <3>2 DEF Quieter, Framed
    <3>4. n = m
      BY <2>1 DEF m
    <3> QED BY <3>2, <3>3, <3>4
  <2>2. CASE p.kind # "body" /\ p.msg.n \in Oversized
    BY <1>0, <1>1, <2>2, QuietChanges
  <2>3. CASE p.kind # "body" /\ p.msg.n \notin Oversized
    <3> DEFINE m == [k EXCEPT !.reader = "body", !.unread = Tail(s)]
    <3>1. /\ Tail(s) \in Seq(Part) /\ Len(Tail(s)) = Len(s) - 1
          /\ \A j \in 1..Len(Tail(s)) : Tail(s)[j] = s[j + 1]
      BY <1>1, HeadTailProperties
    <3>2. /\ m \in Connection /\ m.unread = Tail(s) /\ m.stalled = k.stalled
          /\ m.closed = k.closed /\ m.reader = "body"
      BY <1>1, <3>1 DEF Connection
    <3> HIDE DEF m
    <3>3. ASSUME ~k.stalled
          PROVE  InStep(m)
      <4>1. /\ s[1].kind = "header" /\ s[Len(s)].kind = "body"
            /\ \A i \in 1..(Len(s) - 1) : s[i].kind # s[i + 1].kind
        BY <1>0, <1>1, <3>3 DEF Framed, InStep
      <4>2. Len(s) >= 2
        BY <1>1, <1>3, <4>1
      <4>3. Tail(s)[1] = s[2] /\ s[2] \in Part /\ Tail(s)[Len(Tail(s))] = s[Len(s)]
        BY <1>1, <3>1, <4>2
      <4>4. s[2].kind = "body"
        <5>1. s[1].kind # s[2].kind
          BY <1>1, <4>1, <4>2
        <5> QED BY <4>1, <4>3, <5>1, PartFacts
      <4>5. Tail(s) # <<>>
        BY <1>1, <4>2, TailLeft
      <4>6. \A i \in 1..(Len(Tail(s)) - 1) : Tail(s)[i].kind # Tail(s)[i + 1].kind
        <5> TAKE i \in 1..(Len(Tail(s)) - 1)
        <5>1. /\ i + 1 \in 1..(Len(s) - 1) /\ Tail(s)[i] = s[i + 1]
              /\ Tail(s)[i + 1] = s[(i + 1) + 1]
          BY <1>1, <3>1
        <5> QED BY <4>1, <5>1
      <4> QED BY <3>2, <4>1, <4>3, <4>4, <4>5, <4>6 DEF InStep
    <3>4. Quieter(k, m)
      BY <1>1, <3>2, <3>3 DEF Quieter, Framed
    <3>5. n = m
      BY <2>3 DEF m
    <3> QED BY <3>2, <3>4, <3>5
  <2> QED BY <2>1, <2>2, <2>3
<1> HIDE DEF n
<1> QED BY <1>0, <1>2, <1>4, QuietAt

-----------------------------------------------------------------------------
(* A thread that sends. *)

(***************************************************************************)
(* A step that only changes what a thread is about to do.                  *)
(***************************************************************************)
LEMMA ConnKept ==
    ASSUME NetInv, NetShape', PoolGuarded', UNCHANGED <<conn, pool, got>>,
           \A t \in Thread : Later(t)
    PROVE  NetInv'
<1>0. NetShape /\ ConnTyped
  BY ConnFacts DEF NetInv
<1>1. \A c \in Conns' : Kept(c)
  <2> TAKE c \in Conns'
  <2>1. c \in Conns /\ conn' = conn /\ Len(conn[c].unread) \in Nat
    BY <1>0 DEF Conns, ConnTyped
  <2>2. \A j \in 1..Len(conn[c].unread) :
            j + 0 \in Parts(c) /\ conn[c].unread[j] = conn[c].unread[j + 0]
    BY <2>1 DEF Parts
  <2> QED BY <2>1, <2>2 DEF Kept
<1>2. OrderInv'
  BY <1>0, <1>1, OrderKept DEF NetInv
<1>3. OneConnection' /\ Framing' /\ OvertakenAfterError'
  BY DEF NetInv, OneConnection, Framing, Conns, OvertakenAfterError
<1> QED BY <1>2, <1>3 DEF NetInv

\* send() takes the next number, which nobody has seen yet.
LEMMA SendInv ==
    ASSUME NetInv, NEW t \in Thread, Send(t)
    PROVE  NetInv'
<1> DEFINE m == [thread |-> t, n |-> sent[t] + 1]
           w == [at |-> "get", conn |-> 0, rest |-> encode(m)]
<1>0. NetShape /\ ConnTyped /\ ThreadTyped
  BY ConnFacts, ThreadFacts DEF NetInv
<1>1. /\ thread[t] = Idle /\ UNCHANGED <<conn, pool, peer, got>>
      /\ sent' = [sent EXCEPT ![t] = @ + 1] /\ thread' = [thread EXCEPT ![t] = w]
      /\ Cardinality(Sent) < MaxSends
  BY DEF Send
<1>2. sent \in [Thread -> 0..MaxSends] /\ sent[t] + 1 \in 1..MaxSends /\ sent[t] \in Nat
  BY <1>0, <1>1, NumberLeft, BoundsAssumption DEF NetShape
<1>3. m \in Message
  BY <1>2 DEF Message
<1>4. encode(m) \in Seq(Part)
  BY <1>3 DEF encode, Part
<1>5. w \in [at : {"idle", "get", "connect", "write"}, conn : Nat, rest : Seq(Part)]
  BY <1>4
<1>6. /\ thread' \in [Thread -> [at : {"idle", "get", "connect", "write"}, conn : Nat,
                                 rest : Seq(Part)]]
      /\ sent' \in [Thread -> 0..MaxSends] /\ sent'[t] = sent[t] + 1
      /\ thread'[t] = w
      /\ \A u \in Thread : u # t => thread'[u] = thread[u] /\ sent'[u] = sent[u]
  BY <1>0, <1>1, <1>2, <1>5, BoundsAssumption DEF NetShape
<1>7. \A u \in Thread : ThreadShape(u)'
  <2> TAKE u \in Thread
  <2>1. CASE u = t
    <3>1. m = Current(t)'
      BY <1>6 DEF Current
    <3>2. sent'[t] > 0 /\ thread'[t].at = "get" /\ thread'[t].conn = 0
          /\ thread'[t].rest = encode(m)
      BY <1>2, <1>6
    <3> QED BY <2>1, <3>1, <3>2 DEF ThreadShape, encode
  <2>2. CASE u # t
    <3>1. ThreadShape(u) /\ Current(u)' = Current(u) /\ thread'[u] = thread[u]
          /\ sent'[u] = sent[u] /\ Conns' = Conns
      BY <1>0, <1>1, <1>6, <2>2 DEF NetShape, Current, Conns
    <3> QED BY <1>1, <3>1 DEF ThreadShape, Idle, encode
  <2> QED BY <2>1, <2>2
<1>8. NetShape'
  BY <1>0, <1>1, <1>6, <1>7 DEF NetShape, Conns
<1>9. PoolGuarded'
  <2>0. thread'[t].at = "get"
    BY <1>6
  <2>1. \A u \in Thread : thread'[u].at = "connect" => thread[u].at = "connect"
    <3> HIDE DEF w
    <3> QED BY <1>6, <2>0
  <2> QED BY <1>1, <2>1 DEF NetInv, PoolGuarded
<1>10. \A u \in Thread : Later(u)
  <2> TAKE u \in Thread
  <2>0. Last(u) \in Int /\ Reach(u) \in Nat /\ Len(conn) \in Nat
    BY <1>0 DEF ThreadTyped, ConnTyped
  <2>1. CASE u = t
    <3>1. Last(u)' = sent[t] /\ Reach(u)' = Len(conn)
      BY <1>1, <1>2, <1>6, <2>1 DEF Last, Reach
    <3>2. thread[t].at = "idle"
      BY <1>1 DEF Idle
    <3>3. Last(u) = sent[t] /\ Reach(u) = Len(conn)
      BY <2>1, <3>2 DEF Last, Reach
    <3> QED BY <2>0, <3>1, <3>3 DEF Later
  <2>2. CASE u # t
    <3>1. Last(u)' = Last(u) /\ Reach(u)' = Reach(u)
      BY <1>1, <1>6, <2>2 DEF Last, Reach
    <3> QED BY <2>0, <3>1 DEF Later
  <2> QED BY <2>1, <2>2
<1> QED BY <1>1, <1>8, <1>9, <1>10, ConnKept

(***************************************************************************)
(* get() runs under the mutex: a thread goes on to create a connection     *)
(* only while no other does, and when there is none that is open.          *)
(***************************************************************************)
LEMMA GetConnectionInv ==
    ASSUME NetInv, NEW t \in Thread, GetConnection(t)
    PROVE  NetInv'
<1> DEFINE Place == [at : {"idle", "get", "connect", "write"}, conn : Nat, rest : Seq(Part)]
<1>0. NetShape /\ ConnTyped /\ ThreadTyped
  BY ConnFacts, ThreadFacts DEF NetInv
<1>1. thread[t].at = "get" /\ MtxFree /\ UNCHANGED <<conn, pool, sent, peer, got>>
  BY DEF GetConnection
<1>2. /\ pool = Len(conn) /\ Len(conn) \in Nat /\ thread \in [Thread -> Place]
      /\ thread[t] \in Place
  BY <1>0 DEF NetShape, ConnTyped
<1>3. sent[t] > 0 /\ thread[t].conn = 0 /\ thread[t].rest = encode(Current(t))
  <2>1. ThreadShape(t) /\ thread[t] # Idle
    BY <1>0, <1>1 DEF NetShape, Idle
  <2> QED BY <1>1, <2>1 DEF ThreadShape
<1>4. \/ /\ pool # 0 /\ ~conn[pool].closed
         /\ thread' = [thread EXCEPT ![t].at = "write", ![t].conn = pool]
      \/ /\ ~(pool # 0 /\ ~conn[pool].closed)
         /\ thread' = [thread EXCEPT ![t].at = "connect"]
  BY DEF GetConnection
<1>5. /\ thread' \in [Thread -> Place]
      /\ \A u \in Thread : u # t => thread'[u] = thread[u]
      /\ thread'[t].rest = thread[t].rest
      /\ \/ pool # 0 /\ thread'[t].at = "write" /\ thread'[t].conn = pool
         \/ thread'[t].at = "connect" /\ thread'[t].conn = 0
  <2>1. CASE /\ pool # 0 /\ thread' = [thread EXCEPT ![t].at = "write", ![t].conn = pool]
    BY <1>2, <2>1
  <2>2. CASE thread' = [thread EXCEPT ![t].at = "connect"]
    BY <1>2, <1>3, <2>2
  <2> QED BY <1>4, <2>1, <2>2
<1>6. \A u \in Thread : ThreadShape(u)'
  <2> TAKE u \in Thread
  <2>0. Current(u)' = Current(u) /\ Conns' = Conns /\ sent'[u] = sent[u]
    BY <1>1 DEF Current, Conns
  <2>1. CASE u = t
    <3>1. pool # 0 => pool \in Conns
      BY <1>2 DEF Conns
    <3> QED BY <1>3, <1>5, <2>0, <2>1, <3>1 DEF ThreadShape, encode
  <2>2. CASE u # t
    <3>1. ThreadShape(u) /\ thread'[u] = thread[u]
      BY <1>0, <1>5, <2>2 DEF NetShape
    <3> QED BY <1>1, <2>0, <3>1 DEF ThreadShape, Idle, encode
  <2> QED BY <2>1, <2>2
<1>7. NetShape'
  BY <1>0, <1>1, <1>5, <1>6 DEF NetShape, Conns
<1>8. PoolGuarded'
  <2>1. \A u \in Thread : thread[u].at # "connect"
    BY <1>1 DEF MtxFree
  <2>2. \A u \in Thread : thread'[u].at = "connect" => u = t
    BY <1>5, <2>1
  <2>3. thread'[t].at = "connect" => pool = 0 \/ (pool # 0 /\ conn[pool].closed)
    <3>1. CASE pool # 0 /\ ~conn[pool].closed
      <4>1. thread' = [thread EXCEPT ![t].at = "write", ![t].conn = pool]
        BY <1>4, <3>1
      <4>2. thread'[t].at = "write"
        BY <1>2, <4>1
      <4> QED BY <4>2
    <3> QED BY <3>1
  <2> QED BY <1>1, <2>2, <2>3 DEF PoolGuarded
<1>9. \A u \in Thread : Later(u)
  <2> TAKE u \in Thread
  <2>0. Last(u) \in Int /\ Reach(u) \in Nat
    BY <1>0 DEF ThreadTyped
  <2>1. CASE u = t
    <3>1. Last(u)' = Last(u) /\ Reach(u)' = Reach(u)
      BY <1>1, <1>2, <1>5, <2>1 DEF Last, Reach
    <3> QED BY <2>0, <3>1 DEF Later
  <2>2. CASE u # t
    <3>1. Last(u)' = Last(u) /\ Reach(u)' = Reach(u)
      BY <1>1, <1>5, <2>2 DEF Last, Reach
    <3> QED BY <2>0, <3>1 DEF Later
  <2> QED BY <2>1, <2>2
<1> QED BY <1>1, <1>7, <1>8, <1>9, ConnKept

(***************************************************************************)
(* create() adds a connection, and every older one has been closed.        *)
(***************************************************************************)
LEMMA ConnectInv ==
    ASSUME NetInv, NEW t \in Thread, Connect(t)
    PROVE  NetInv'
<1> DEFINE Place == [at : {"idle", "get", "connect", "write"}, conn : Nat, rest : Seq(Part)]
           d == Len(conn) + 1
<1>0. NetShape /\ ConnTyped /\ ThreadTyped
  BY ConnFacts, ThreadFacts DEF NetInv
<1>1. /\ thread[t].at = "connect" /\ Len(conn) < MaxConns
      /\ conn' = Append(conn, NewConnection) /\ pool' = d
      /\ thread' = [thread EXCEPT ![t].at = "write", ![t].conn = d]
      /\ UNCHANGED <<sent, peer, got>>
  BY DEF Connect
<1>2. /\ conn \in Seq(Connection) /\ Len(conn) \in Nat /\ thread \in [Thread -> Place]
      /\ thread[t] \in Place /\ pool = Len(conn)
  BY <1>0 DEF NetShape, ConnTyped
<1>3. /\ NewConnection \in Connection /\ ~NewConnection.closed
      /\ NewConnection.unread = <<>> /\ ~NewConnection.stalled
      /\ NewConnection.reader = "backlog"
  <2>1. <<>> \in Seq(Part)
    OBVIOUS
  <2> QED BY <2>1 DEF NewConnection, Connection
<1>4. /\ conn' \in Seq(Connection) /\ Len(conn') = d /\ d \in Nat
      /\ \A c \in Conns : conn'[c] = conn[c]
      /\ conn'[d] = NewConnection
      /\ Conns' = Conns \cup {d} /\ d \notin Conns
  BY <1>1, <1>2, <1>3, AppendProperties DEF Conns
<1>5. /\ thread' \in [Thread -> Place]
      /\ \A u \in Thread : u # t => thread'[u] = thread[u]
      /\ thread'[t].rest = thread[t].rest
      /\ thread'[t].at = "write" /\ thread'[t].conn = d
  BY <1>1, <1>2, <1>4
<1>6. \A u \in Thread : ThreadShape(u)'
  <2> TAKE u \in Thread
  <2>0. Current(u)' = Current(u) /\ sent'[u] = sent[u]
    BY <1>1 DEF Current
  <2>1. ThreadShape(u) /\ (thread[u].at = "connect" => thread[u] # Idle)
    BY <1>0 DEF NetShape, Idle
  <2>2. CASE u = t
    <3>1. sent[t] > 0 /\ thread[t].rest = encode(Current(t))
      BY <1>1, <2>1, <2>2 DEF ThreadShape
    <3> QED BY <1>4, <1>5, <2>0, <2>2, <3>1 DEF ThreadShape, encode
  <2>3. CASE u # t
    <3>1. thread'[u] = thread[u]
      BY <1>5, <2>3
    <3> QED BY <1>4, <2>0, <2>1, <3>1 DEF ThreadShape, Idle, encode
  <2> QED BY <2>2, <2>3
<1>7. NetShape'
  <2>1. Len(conn') <= MaxConns
    BY <1>1, <1>2, <1>4, BoundsAssumption
  <2>2. \A c \in Conns' : Len(conn'[c].unread) <= Capacity
    <3>1. Len(NewConnection.unread) = 0
      BY <1>3
    <3>2. \A c \in Conns : Len(conn[c].unread) <= Capacity
      BY <1>0 DEF NetShape
    <3> QED BY <1>4, <3>1, <3>2, BoundsAssumption
  <2> QED BY <1>0, <1>1, <1>4, <1>5, <1>6, <2>1, <2>2 DEF NetShape
<1>8. PoolGuarded'
  <2>1. \A u \in Thread : thread[u].at = "connect" => u = t
    BY <1>1 DEF NetInv, PoolGuarded
  <2>2. \A u \in Thread : thread'[u].at # "connect"
    BY <1>5, <2>1
  <2> QED BY <2>2 DEF PoolGuarded
<1>9. OneConnection'
  <2>1. DOMAIN conn' = Conns' /\ DOMAIN conn = Conns
    BY <1>0, <1>7, PrimedFacts DEF ConnTyped
  <2>2. \A c \in Conns : c # pool => conn[c].closed
    BY <2>1 DEF NetInv, OneConnection
  <2>3. pool \in Conns => conn[pool].closed
    <3>1. pool \in Conns => pool # 0
      BY DEF Conns
    <3> QED BY <1>1, <3>1 DEF NetInv, PoolGuarded
  <2>4. \A c \in Conns : conn'[c].closed
    BY <1>4, <2>2, <2>3
  <2> QED BY <1>1, <1>4, <2>1, <2>4 DEF OneConnection
<1>10. Framing'
  <2>1. Framed(NewConnection)
    <3>1. Len(NewConnection.unread) = 0
      BY <1>3
    <3> QED BY <1>3, <3>1 DEF Framed, InStep
  <2> QED BY <1>4, <2>1 DEF NetInv, Framing
<1>11. \A c \in Conns' : Kept(c)
  <2> TAKE c \in Conns'
  <2>1. CASE c \in Conns
    <3>1. conn'[c].unread = conn[c].unread /\ Len(conn[c].unread) \in Nat
      BY <1>0, <1>4, <2>1 DEF ConnTyped
    <3>2. \A j \in 1..Len(conn[c].unread) :
            j + 0 \in Parts(c) /\ conn[c].unread[j] = conn[c].unread[j + 0]
      BY <3>1 DEF Parts
    <3> QED BY <2>1, <3>1, <3>2 DEF Kept
  <2>2. CASE c = d
    <3>1. Len(conn'[c].unread) = 0
      BY <1>3, <1>4, <2>2
    <3> QED BY <3>1 DEF Kept
  <2> QED BY <1>4, <2>1, <2>2
<1>12. \A u \in Thread : Later(u)
  <2> TAKE u \in Thread
  <2>0. Last(u) \in Int /\ Reach(u) \in Nat /\ Reach(u) <= Len(conn)
    BY <1>0 DEF ThreadTyped
  <2>1. CASE u = t
    <3>1. Last(u)' = Last(u) /\ Reach(u)' = d
      BY <1>1, <1>5, <2>1 DEF Last, Reach
    <3> QED BY <1>2, <2>0, <3>1 DEF Later
  <2>2. CASE u # t
    <3>1. thread'[u] = thread[u] /\ sent' = sent
      BY <1>1, <1>5, <2>2
    <3>2. Last(u)' = Last(u) /\ Reach(u)' \in {Reach(u), d}
      BY <1>4, <3>1 DEF Last, Reach
    <3>3. Reach(u) <= Reach(u)'
      BY <1>2, <2>0, <3>2
    <3> QED BY <2>0, <3>2, <3>3 DEF Later
  <2> QED BY <2>1, <2>2
<1>13. OrderInv'
  BY <1>0, <1>1, <1>7, <1>11, <1>12, OrderKept DEF NetInv
<1>14. OvertakenAfterError'
  <2>1. GotTyped
    BY <1>0, GotFacts DEF NetInv
  <2>2. \A u \in Thread : \A j \in DOMAIN got[u] :
            conn'[got[u][j].conn] = conn[got[u][j].conn]
    BY <1>4, <2>1 DEF GotTyped
  <2> QED BY <1>1, <2>2 DEF NetInv, OvertakenAfterError
<1> QED BY <1>7, <1>8, <1>9, <1>10, <1>13, <1>14 DEF NetInv

(***************************************************************************)
(* What a write appends to a connection.                                   *)
(***************************************************************************)
LEMMA Appended ==
    ASSUME NEW S, NEW s \in Seq(S), NEW r \in Seq(S), NEW k \in 1..Len(r), NEW x,
           x = s \o SubSeq(r, 1, k)
    PROVE  /\ x \in Seq(S) /\ Len(x) = Len(s) + k
           /\ \A i \in 1..Len(s) : x[i] = s[i]
           /\ \A i \in (Len(s) + 1)..(Len(s) + k) : x[i] = r[i - Len(s)]
<1>1. Len(s) \in Nat /\ Len(r) \in Nat /\ k \in Nat
  OBVIOUS
<1> DEFINE a == SubSeq(r, 1, k)
<1>2. a \in Seq(S) /\ Len(a) = k /\ \A i \in 1..k : a[i] = r[i]
  BY <1>1, SubSeqProperties
<1> HIDE DEF a
<1>3. /\ s \o a \in Seq(S) /\ Len(s \o a) = Len(s) + Len(a)
      /\ \A i \in 1..Len(s) + Len(a) :
            (s \o a)[i] = IF i <= Len(s) THEN s[i] ELSE a[i - Len(s)]
  BY <1>2, ConcatProperties
<1>4. x = s \o a
  BY DEF a
<1>5. ASSUME NEW i \in (Len(s) + 1)..(Len(s) + k)
      PROVE  x[i] = r[i - Len(s)]
  <2>1. i \in 1..(Len(s) + Len(a)) /\ ~(i <= Len(s)) /\ i - Len(s) \in 1..k
    BY <1>1, <1>2, <1>5
  <2> QED BY <1>2, <1>3, <1>4, <2>1
<1>6. ASSUME NEW i \in 1..Len(s)
      PROVE  x[i] = s[i]
  <2>1. i \in 1..(Len(s) + Len(a)) /\ i <= Len(s)
    BY <1>1, <1>2, <1>6
  <2> QED BY <1>3, <1>4, <2>1
<1> QED BY <1>2, <1>3, <1>4, <1>5, <1>6

\* What is left of a message after its header.
LEMMA SecondOfTwo ==
    ASSUME NEW a, NEW b
    PROVE  SubSeq(<<a, b>>, 2, 2) = <<b>>
<1> DEFINE r == <<a, b>>
           x == SubSeq(r, 2, 2)
<1>1. \A i \in 2..2 : r[i] \in {b}
  OBVIOUS
<1>2. x \in Seq({b}) /\ Len(x) = 1 /\ x[1] = r[2]
  BY <1>1, SubSeqProperties
<1>3. <<b>> \in Seq({b}) /\ Len(<<b>>) = 1 /\ <<b>>[1] = b /\ r[2] = b
  OBVIOUS
<1> HIDE DEF x
<1>4. x = <<b>>
  BY <1>2, <1>3, SeqEqual
<1> QED BY <1>4 DEF x

(***************************************************************************)
(* A whole message behind whole messages leaves a connection in step.      *)
(***************************************************************************)
LEMMA WholeMessage ==
    ASSUME NEW k \in Connection, NEW n \in Connection, InStep(k), n.reader = k.reader,
           k.reader # "closed", Len(n.unread) = Len(k.unread) + 2,
           \A i \in 1..Len(k.unread) : n.unread[i] = k.unread[i],
           n.unread[Len(k.unread) + 1].kind = "header",
           n.unread[Len(k.unread) + 2].kind = "body"
    PROVE  InStep(n)
<1> DEFINE s == k.unread
           x == n.unread
<1>1. s \in Seq(Part) /\ Len(s) \in Nat /\ x \in Seq(Part) /\ Len(x) \in Nat
  BY DEF Connection
<1>2. x # <<>>
  BY <1>1
<1>3. CASE s = <<>>
  <2>1. Len(s) = 0 /\ k.reader # "body"
    BY <1>3 DEF InStep
  <2>2. x[1].kind = "header" /\ x[2].kind = "body" /\ Len(x) = 2
    BY <2>1
  <2> QED BY <1>1, <2>1, <2>2 DEF InStep
<1>4. CASE s # <<>>
  <2>1. Len(s) >= 1
    BY <1>1, <1>4
  <2>2. x[1] = s[1] /\ x[Len(s)] = s[Len(s)] /\ s[Len(s)].kind = "body"
    BY <1>1, <1>4, <2>1 DEF InStep
  <2>3. \A i \in 1..(Len(x) - 1) : x[i].kind # x[i + 1].kind
    <3> TAKE i \in 1..(Len(x) - 1)
    <3>1. CASE i < Len(s)
      <4>1. i \in 1..(Len(s) - 1) /\ x[i] = s[i] /\ x[i + 1] = s[i + 1]
        BY <1>1, <3>1
      <4> QED BY <4>1 DEF InStep
    <3>2. CASE i = Len(s)
      BY <1>1, <2>2, <3>2
    <3>3. CASE i = Len(s) + 1
      <4>1. i + 1 = Len(s) + 2
        BY <1>1, <3>3
      <4> QED BY <3>3, <4>1
    <3> QED BY <1>1, <3>1, <3>2, <3>3
  <2>4. Len(x) = Len(s) + 2 /\ x[Len(x)].kind = "body"
    OBVIOUS
  <2>5. /\ k.reader # "garbled"
        /\ k.reader \in {"backlog", "header"} => s[1].kind = "header"
        /\ k.reader = "body" => s[1].kind = "body"
    BY <1>4 DEF InStep
  <2> QED BY <1>2, <2>2, <2>3, <2>4, <2>5 DEF InStep
<1> QED BY <1>3, <1>4

(***************************************************************************)
(* What a write is about to do: all of a message, its header only, or its  *)
(* body when the header had been written before.                           *)
(***************************************************************************)
LEMMA WriteCases ==
    ASSUME NetInv, NEW t \in Thread, Write(t), NEW c, NEW r, NEW k,
           c = thread[t].conn, r = thread[t].rest, k = Fits(c, r)
    PROVE  /\ c \in Conns /\ r \in Seq(Part) /\ k \in 1..Len(r) /\ sent[t] > 0
           /\ conn[c].reader # "closed" => Len(conn[c].unread) + k <= Capacity
           /\ conn[c].reader = "closed" => k = Len(r)
           /\ \/ /\ Len(r) = 2 /\ r[1].kind = "header"
                 /\ r[2] = [kind |-> "body", msg |-> Current(t)]
                 /\ k = 1 => SubSeq(r, k + 1, Len(r)) = <<r[2]>>
              \/ /\ Len(r) = 1 /\ r[1] = [kind |-> "body", msg |-> Current(t)]
                 /\ conn[c].stalled
<1>0. NetShape /\ ConnTyped
  BY ConnFacts DEF NetInv
<1>1. thread[t].at = "write" /\ k > 0
  BY DEF Write
<1>2. /\ c \in Conns /\ sent[t] > 0
      /\ \/ r = encode(Current(t))
         \/ r = <<[kind |-> "body", msg |-> Current(t)]>> /\ conn[c].stalled
  BY <1>0, <1>1, WritesTo
<1>3. r \in Seq(Part)
  BY <1>0 DEF NetShape
<1>4. Len(conn[c].unread) \in Nat /\ Len(conn[c].unread) <= Capacity /\ Capacity \in Nat
  BY <1>0, <1>2, BoundsAssumption DEF NetShape, ConnTyped
<1>5. Len(r) \in Nat
  BY <1>3
<1>6. /\ k \in 1..Len(r)
      /\ conn[c].reader # "closed" => Len(conn[c].unread) + k <= Capacity
      /\ conn[c].reader = "closed" => k = Len(r)
  <2>1. CASE conn[c].reader = "closed"
    <3>1. k = Len(r)
      BY <2>1 DEF Fits
    <3> QED BY <1>1, <1>5, <2>1, <3>1
  <2>2. CASE conn[c].reader # "closed"
    <3> DEFINE room == Capacity - Len(conn[c].unread)
    <3>1. room \in Nat
      BY <1>4
    <3>2. k = IF room < Len(r) THEN room ELSE Len(r)
      BY <2>2 DEF Fits
    <3>3. k \in 1..Len(r) /\ k <= room
      <4> HIDE DEF room
      <4> QED BY <1>1, <1>5, <3>1, <3>2
    <3> QED BY <1>4, <2>2, <3>3
  <2> QED BY <2>1, <2>2
<1>7. CASE r = encode(Current(t))
  <2> DEFINE h == [kind |-> "header", msg |-> Current(t)]
             b == [kind |-> "body", msg |-> Current(t)]
  <2>1. r = <<h, b>>
    BY <1>7 DEF encode
  <2>2. h.kind = "header"
    OBVIOUS
  <2> HIDE DEF h, b
  <2>3. Len(r) = 2 /\ r[1] = h /\ r[2] = b
    BY <2>1
  <2>4. SubSeq(r, 2, 2) = <<b>>
    BY <2>1, SecondOfTwo
  <2> QED BY <1>2, <1>3, <1>6, <2>2, <2>3, <2>4 DEF b
<1>8. CASE r = <<[kind |-> "body", msg |-> Current(t)]>> /\ conn[c].stalled
  <2>1. Len(r) = 1 /\ r[1] = [kind |-> "body", msg |-> Current(t)]
    BY <1>8
  <2> QED BY <1>2, <1>3, <1>6, <1>8, <2>1
<1> QED BY <1>2, <1>7, <1>8

(***************************************************************************)
(* Appending parts of which only the last one may be a body, that of the   *)
(* message a thread had in hand and is then rid of, keeps the order.       *)
(***************************************************************************)
LEMMA OrderExtended ==
    ASSUME NetShape, NetShape', OrderInv, got' = got, sent' = sent,
           Len(conn') = Len(conn), NEW t \in Thread, NEW c \in Conns,
           thread[t].at = "write", thread[t].conn = c,
           \A u \in Thread : u # t => thread'[u] = thread[u],
           thread'[t].at = "idle" \/ (thread'[t].at = "write" /\ thread'[t].conn = c),
           \A d \in Conns : d # c => conn'[d] = conn[d],
           Len(conn'[c].unread) >= Len(conn[c].unread),
           \A i \in Parts(c) : conn'[c].unread[i] = conn[c].unread[i],
           \A i \in Parts(c)' : i \notin Parts(c) /\ conn'[c].unread[i].kind = "body" =>
                /\ i = Len(conn'[c].unread) /\ thread'[t].at = "idle"
                /\ conn'[c].unread[i].msg = Current(t)
    PROVE  OrderInv'
<1>0. ConnTyped /\ ThreadTyped /\ ConnTyped' /\ ThreadTyped' /\ Conns' = Conns
  BY ConnFacts, ThreadFacts, PrimedFacts DEF Conns
<1>1. \A d \in Conns : d \in Int
  BY <1>0 DEF Conns, ConnTyped
<1>2. sent[t] \in Nat /\ Last(t) = sent[t] - 1 /\ Reach(t) = c
  BY BoundsAssumption DEF NetShape, Last, Reach
<1>3. \A u \in Thread : /\ Last(u) <= Last(u)' /\ Reach(u) <= Reach(u)'
                        /\ Last(u) \in Int /\ Last(u)' \in Int
                        /\ Reach(u) \in Nat /\ Reach(u)' \in Nat
  <2> TAKE u \in Thread
  <2>1. /\ Last(u) \in Int /\ Last(u)' \in Int /\ Reach(u) \in Nat /\ Reach(u)' \in Nat
        /\ Reach(u) <= Len(conn)
    BY <1>0 DEF ThreadTyped
  <2>2. CASE u = t
    BY <1>2, <2>1, <2>2 DEF Last, Reach
  <2>3. CASE u # t
    <3>1. Last(u)' = Last(u) /\ Reach(u)' = Reach(u)
      BY <2>3 DEF Last, Reach
    <3> QED BY <2>1, <3>1
  <2> QED BY <2>2, <2>3
\* A body in the new state is an old one or the new one.
<1>4. ASSUME NEW d \in Conns, NEW i \in Parts(d)', NEW p, p = conn'[d].unread[i],
             p.kind = "body"
      PROVE  /\ i \in Int /\ p.msg.n \in Int /\ p.msg.thread \in Thread
             /\ \/ i \in Parts(d) /\ p = conn[d].unread[i]
                \/ /\ d = c /\ i = Len(conn'[c].unread) /\ i \notin Parts(c)
                   /\ p.msg.thread = t /\ p.msg.n = sent[t] /\ thread'[t].at = "idle"
  <2>1. p \in Part /\ i \in Int
    BY <1>0, <1>4 DEF ConnTyped, Parts
  <2>2. p.msg.n \in Int /\ p.msg.thread \in Thread
    BY <2>1, PartFacts
  <2>3. CASE d # c
    BY <1>4, <2>1, <2>2, <2>3 DEF Parts
  <2>4. CASE d = c /\ i \in Parts(c)
    BY <1>4, <2>1, <2>2, <2>4
  <2>5. CASE d = c /\ i \notin Parts(c)
    <3>1. i = Len(conn'[c].unread) /\ thread'[t].at = "idle" /\ p.msg = Current(t)
      BY <1>4, <2>5
    <3>2. p.msg.thread = t /\ p.msg.n = sent[t]
      BY <3>1 DEF Current
    <3> QED BY <2>1, <2>2, <2>5, <3>1, <3>2
  <2> QED BY <2>3, <2>4, <2>5
<1>5. ASSUME NEW d \in Conns, NEW i \in Parts(d), NEW p, p = conn[d].unread[i],
             p.kind = "body", p.msg.thread \in Thread
      PROVE  p.msg.n <= Last(p.msg.thread) /\ d <= Reach(p.msg.thread)
  BY <1>5 DEF OrderInv, PartsBounded
<1>6. PartsBounded'
  <2> SUFFICES ASSUME NEW d \in Conns, NEW i \in Parts(d)', NEW p, NEW u,
                      p = conn'[d].unread[i], p.kind = "body", u = p.msg.thread
               PROVE  p.msg.n <= Last(u)' /\ d <= Reach(u)'
    BY <1>0 DEF PartsBounded
  <2>0. p.msg.n \in Int /\ u \in Thread /\ d \in Int
    BY <1>1, <1>4
  <2>1. CASE i \in Parts(d) /\ p = conn[d].unread[i]
    <3>1. p.msg.n <= Last(u) /\ d <= Reach(u)
      BY <1>5, <2>0, <2>1
    <3>2. /\ Last(u) <= Last(u)' /\ Reach(u) <= Reach(u)'
          /\ Last(u) \in Int /\ Last(u)' \in Int
          /\ Reach(u) \in Nat /\ Reach(u)' \in Nat
      BY <1>3, <2>0
    <3> QED BY <2>0, <3>1, <3>2
  <2>2. CASE d = c /\ u = t /\ p.msg.n = sent[t] /\ thread'[t].at = "idle"
    <3>1. Last(t)' = sent[t] /\ Reach(t)' = Len(conn)
      BY <2>2 DEF Last, Reach
    <3> QED BY <1>0, <1>2, <2>2, <3>1 DEF Conns, ConnTyped
  <2> QED BY <1>4, <2>1, <2>2
<1>7. GotBounded'
  <2> SUFFICES ASSUME NEW u \in Thread, NEW i \in 1..Len(got[u])
               PROVE  got[u][i].n <= Last(u)' /\ got[u][i].conn <= Reach(u)'
    BY DEF GotBounded
  <2>1. got[u][i].n \in Int /\ got[u][i].conn \in Int
    BY <1>1, GotFacts DEF GotTyped
  <2>2. got[u][i].n <= Last(u) /\ got[u][i].conn <= Reach(u)
    BY DEF OrderInv, GotBounded
  <2>3. /\ Last(u) <= Last(u)' /\ Reach(u) <= Reach(u)'
        /\ Last(u) \in Int /\ Last(u)' \in Int
        /\ Reach(u) \in Nat /\ Reach(u)' \in Nat
    BY <1>3
  <2> QED BY <2>1, <2>2, <2>3
<1>8. PartsInOrder'
  <2> SUFFICES ASSUME NEW e \in Conns, NEW d \in Conns, NEW i \in Parts(e)',
                      NEW j \in Parts(d)', NEW p, NEW r,
                      p = conn'[e].unread[i], r = conn'[d].unread[j],
                      p.kind = "body", r.kind = "body", p.msg.thread = r.msg.thread,
                      e < d \/ (e = d /\ i < j)
               PROVE  p.msg.n < r.msg.n
    BY <1>0 DEF PartsInOrder
  <2>0. p.msg.n \in Int /\ r.msg.n \in Int /\ i \in Int /\ j \in Int /\ p.msg.thread \in Thread
        /\ e \in Int /\ d \in Int
    BY <1>1, <1>4
  <2>1. CASE /\ i \in Parts(e) /\ p = conn[e].unread[i]
             /\ j \in Parts(d) /\ r = conn[d].unread[j]
    BY <2>1 DEF OrderInv, PartsInOrder
  <2>2. CASE /\ i \in Parts(e) /\ p = conn[e].unread[i]
             /\ r.msg.thread = t /\ r.msg.n = sent[t]
    <3>1. p.msg.n <= Last(t)
      BY <1>5, <2>0, <2>2
    <3> QED BY <1>2, <2>0, <2>2, <3>1
  <2>3. CASE /\ e = c /\ i = Len(conn'[c].unread) /\ p.msg.thread = t /\ i \notin Parts(c)
             /\ j \in Parts(d) /\ r = conn[d].unread[j]
    <3>1. d <= Reach(t)
      BY <1>5, <2>0, <2>3
    <3>2. e = d /\ i < j
      BY <1>2, <2>0, <2>3, <3>1
    <3>3. j <= Len(conn'[c].unread)
      BY <2>3, <3>2 DEF Parts
    <3> QED BY <2>0, <2>3, <3>2, <3>3
  <2>4. CASE /\ e = c /\ i = Len(conn'[c].unread)
             /\ d = c /\ j = Len(conn'[c].unread)
    BY <2>0, <2>4
  <2>5. \/ i \in Parts(e) /\ p = conn[e].unread[i]
        \/ /\ e = c /\ i = Len(conn'[c].unread) /\ i \notin Parts(c)
           /\ p.msg.thread = t
    BY <1>4
  <2>6. \/ j \in Parts(d) /\ r = conn[d].unread[j]
        \/ /\ d = c /\ j = Len(conn'[c].unread)
           /\ r.msg.thread = t /\ r.msg.n = sent[t]
    BY <1>4
  <2> QED BY <2>1, <2>2, <2>3, <2>4, <2>5, <2>6
<1>9. GotInOrder'
  <2> SUFFICES ASSUME NEW u \in Thread, NEW i \in 1..Len(got[u]), NEW d \in Conns,
                      NEW j \in Parts(d)', NEW r, r = conn'[d].unread[j],
                      r.kind = "body", r.msg.thread = u
               PROVE  IF got[u][i].conn <= d THEN got[u][i].n < r.msg.n
                                             ELSE r.msg.n < got[u][i].n
    BY <1>0 DEF GotInOrder
  <2>1. CASE j \in Parts(d) /\ r = conn[d].unread[j]
    BY <2>1 DEF OrderInv, GotInOrder
  <2>2. CASE d = c /\ u = t /\ r.msg.n = sent[t]
    <3>1. got[u][i].n \in Int /\ got[u][i].conn \in Int
      BY <1>1, GotFacts DEF GotTyped
    <3>2. got[u][i].n <= Last(t) /\ got[u][i].conn <= Reach(t)
      BY <2>2 DEF OrderInv, GotBounded
    <3> QED BY <1>2, <2>2, <3>1, <3>2
  <2> QED BY <1>4, <2>1, <2>2
<1> QED BY <1>6, <1>7, <1>8, <1>9 DEF OrderInv

\* A write goes behind everything the thread has written before.
LEMMA WriteInv ==
    ASSUME NetInv, NEW t \in Thread, Write(t)
    PROVE  NetInv'
<1> DEFINE Place == [at : {"idle", "get", "connect", "write"}, conn : Nat, rest : Seq(Part)]
<1>0. NetShape /\ ConnTyped /\ ThreadTyped
  BY ConnFacts, ThreadFacts DEF NetInv
<1>1. PICK c, r, k : c = thread[t].conn /\ r = thread[t].rest /\ k = Fits(c, r)
  OBVIOUS
<1>2. /\ c \in Conns /\ r \in Seq(Part) /\ k \in 1..Len(r) /\ sent[t] > 0
      /\ conn[c].reader # "closed" => Len(conn[c].unread) + k <= Capacity
      /\ conn[c].reader = "closed" => k = Len(r)
      /\ \/ /\ Len(r) = 2 /\ r[1].kind = "header"
            /\ r[2] = [kind |-> "body", msg |-> Current(t)]
            /\ k = 1 => SubSeq(r, k + 1, Len(r)) = <<r[2]>>
         \/ /\ Len(r) = 1 /\ r[1] = [kind |-> "body", msg |-> Current(t)]
            /\ conn[c].stalled
  BY <1>1, WriteCases
<1> DEFINE K == conn[c]
           x == IF K.reader = "closed" THEN K.unread ELSE K.unread \o SubSeq(r, 1, k)
           n == [K EXCEPT !.unread = x, !.stalled = @ \/ k < Len(r)]
           w == IF k = Len(r) THEN Idle
                ELSE [thread[t] EXCEPT !.rest = SubSeq(r, k + 1, Len(r))]
<1>3. /\ thread[t].at = "write" /\ UNCHANGED <<pool, sent, peer, got>>
      /\ conn' = [conn EXCEPT ![c] = n] /\ thread' = [thread EXCEPT ![t] = w]
  BY <1>1 DEF Write
<1>4. /\ K \in Connection /\ K.unread \in Seq(Part) /\ Len(K.unread) \in Nat
      /\ conn \in Seq(Connection) /\ Len(conn) \in Nat /\ pool = Len(conn)
      /\ thread \in [Thread -> Place] /\ thread[t] \in Place /\ Len(r) \in Nat /\ k \in Nat
  BY <1>0, <1>2 DEF NetShape, ConnTyped
<1>9. r \in Seq(Part) /\ Len(r) \in {1, 2} /\ k \in 1..Len(r)
  BY <1>2
<1>5. /\ x \in Seq(Part)
      /\ K.reader = "closed" => x = K.unread
      /\ K.reader # "closed" =>
            /\ Len(x) = Len(K.unread) + k
            /\ \A i \in 1..Len(K.unread) : x[i] = K.unread[i]
            /\ \A i \in (Len(K.unread) + 1)..(Len(K.unread) + k) :
                    x[i] = r[i - Len(K.unread)]
  BY <1>2, <1>4, Appended
<1> HIDE DEF x
<1>6. /\ n \in Connection /\ n.unread = x /\ n.closed = K.closed /\ n.reader = K.reader
      /\ n.stalled = (K.stalled \/ k < Len(r))
  BY <1>4, <1>5 DEF Connection
<1>7. CASE K.reader = "closed"
  <2>1. k = Len(r) /\ x = K.unread
    BY <1>2, <1>5, <1>7
  <2>2. n.stalled = K.stalled
    BY <1>4, <1>6, <2>1 DEF Connection
  <2>3. Framed(K)
    BY <1>2 DEF NetInv, Framing
  <2>4. Quieter(K, n)
    <3> HIDE DEF n
    <3> QED BY <1>6, <2>1, <2>2, <2>3 DEF Quieter, Framed, InStep
  <2>5. thread' = [thread EXCEPT ![t] = Idle]
    BY <1>3, <2>1
  <2> HIDE DEF n
  <2> QED BY <1>2, <1>3, <1>6, <2>4, <2>5, QuietAt
<1>8. CASE K.reader # "closed"
  <2>1. /\ k = Len(r) => w = Idle
        /\ k # Len(r) => /\ k = 1 /\ w \in Place /\ w.at = "write" /\ w.conn = c
                         /\ w.rest = <<[kind |-> "body", msg |-> Current(t)]>>
                         /\ n.stalled
    <3>1. ASSUME k # Len(r)
          PROVE  /\ k = 1 /\ Len(r) = 2 /\ r[2] \in Part /\ k < Len(r)
                 /\ SubSeq(r, k + 1, Len(r)) = <<r[2]>>
                 /\ r[2] = [kind |-> "body", msg |-> Current(t)]
      <4>1. k = 1 /\ Len(r) = 2 /\ k < Len(r)
        <5>1. \A l \in {1, 2} : \A j \in 1..l : j # l => j = 1 /\ l = 2 /\ j < l
          OBVIOUS
        <5> QED BY <1>9, <3>1, <5>1, Zenon
      <4>2. r[2] \in Part
        BY <1>9, <4>1
      <4>3. /\ r[2] = [kind |-> "body", msg |-> Current(t)]
            /\ k = 1 => SubSeq(r, k + 1, Len(r)) = <<r[2]>>
        BY <1>2, <4>1
      <4> QED BY <4>1, <4>2, <4>3
    <3>2. ASSUME k # Len(r)
          PROVE  w = [thread[t] EXCEPT !.rest = <<r[2]>>]
      BY <3>1, <3>2
    <3>3. ASSUME k # Len(r)
          PROVE  w \in Place /\ w.at = "write" /\ w.conn = c /\ w.rest = <<r[2]>>
      <4>1. <<r[2]>> \in Seq(Part)
        BY <3>1, <3>3
      <4> QED BY <1>1, <1>3, <1>4, <3>2, <3>3, <4>1
    <3> QED BY <1>6, <3>1, <3>3
  <2>2. w \in Place /\ Idle.at = "idle"
    <3>1. Idle \in Place /\ Idle.at = "idle"
      BY DEF Idle
    <3> QED BY <2>1, <3>1
  <2> HIDE DEF w, n
  <2>3. /\ conn' \in Seq(Connection) /\ Len(conn') = Len(conn) /\ Conns' = Conns
        /\ conn'[c] = n /\ \A d \in Conns : d # c => conn'[d] = conn[d]
    BY <1>2, <1>3, <1>4, <1>6, ExceptSeq DEF Conns
  <2>4. /\ thread' \in [Thread -> Place] /\ thread'[t] = w
        /\ \A u \in Thread : u # t => thread'[u] = thread[u]
    BY <1>3, <1>4, <2>2
  <2>5. NetShape'
    <3>1. \A u \in Thread : ThreadShape(u)'
      <4> TAKE u \in Thread
      <4>0. Current(u)' = Current(u) /\ sent'[u] = sent[u]
        BY <1>3 DEF Current
      <4>1. CASE u = t
        BY <1>2, <2>1, <2>3, <2>4, <4>0, <4>1 DEF ThreadShape, Idle
      <4>2. CASE u # t
        <5>1. ThreadShape(u) /\ thread'[u] = thread[u]
          BY <1>0, <2>4, <4>2 DEF NetShape
        <5>2. \A d \in Conns : conn[d].stalled => conn'[d].stalled
          BY <1>6, <2>3
        <5> QED BY <2>3, <4>0, <5>1, <5>2 DEF ThreadShape, Idle, encode
      <4> QED BY <4>1, <4>2
    <3>2. \A d \in Conns : Len(conn'[d].unread) <= Capacity
      <4>1. Len(n.unread) <= Capacity
        BY <1>2, <1>5, <1>6, <1>8
      <4> QED BY <1>0, <2>3, <4>1 DEF NetShape
    <3> QED BY <1>0, <1>3, <2>3, <2>4, <3>1, <3>2 DEF NetShape
  <2>6. PoolGuarded'
    <3>1. \A u \in Thread : thread'[u].at = "connect" => thread[u].at = "connect"
      BY <2>1, <2>2, <2>4
    <3>2. \A d \in Conns : conn'[d].closed = conn[d].closed
      BY <1>6, <2>3
    <3>3. pool # 0 => pool \in Conns
      BY <1>4 DEF Conns
    <3> QED BY <1>3, <3>1, <3>2, <3>3 DEF NetInv, PoolGuarded
  <2>7. OneConnection'
    <3>1. DOMAIN conn' = Conns /\ DOMAIN conn = Conns
      BY <1>0, <2>3, <2>5, PrimedFacts DEF ConnTyped
    <3> QED BY <1>3, <1>6, <2>3, <3>1 DEF NetInv, OneConnection
  <2>8. Framing'
    <3>1. ASSUME ~n.stalled
          PROVE  InStep(n)
      <4>0. ~K.stalled /\ ~(k < Len(r))
        BY <1>6, <3>1
      <4>1. ~K.stalled /\ k = Len(r)
        BY <1>9, <4>0
      <4>2. InStep(K)
        BY <1>2, <4>1 DEF NetInv, Framing, Framed
      <4>3. k = 2 /\ r[1].kind = "header" /\ r[2].kind = "body"
        BY <1>2, <4>1
      <4>4. /\ Len(n.unread) = Len(K.unread) + 2
            /\ \A i \in 1..Len(K.unread) : n.unread[i] = K.unread[i]
        BY <1>5, <1>6, <1>8, <4>3
      <4>5. /\ n.unread[Len(K.unread) + 1] = r[(Len(K.unread) + 1) - Len(K.unread)]
            /\ n.unread[Len(K.unread) + 2] = r[(Len(K.unread) + 2) - Len(K.unread)]
        <5>1. /\ Len(K.unread) + 1 \in (Len(K.unread) + 1)..(Len(K.unread) + k)
              /\ Len(K.unread) + 2 \in (Len(K.unread) + 1)..(Len(K.unread) + k)
          BY <1>4, <4>3
        <5> QED BY <1>5, <1>6, <1>8, <5>1
      <4>6. n.unread[Len(K.unread) + 1] = r[1] /\ n.unread[Len(K.unread) + 2] = r[2]
        BY <1>4, <4>5
      <4> QED BY <1>4, <1>6, <1>8, <4>2, <4>3, <4>4, <4>6, WholeMessage
    <3>2. Framed(n)
      BY <3>1 DEF Framed
    <3> QED BY <2>3, <3>2 DEF NetInv, Framing
  <2>9. OrderInv'
    <3>1. /\ Len(n.unread) = Len(K.unread) + k
          /\ \A i \in Parts(c) : n.unread[i] = K.unread[i]
      BY <1>5, <1>6, <1>8 DEF Parts
    <3>2. Len(conn'[c].unread) >= Len(conn[c].unread)
      BY <1>4, <2>3, <3>1
    <3>3. ASSUME NEW i \in Parts(c)', i \notin Parts(c), n.unread[i].kind = "body"
          PROVE  /\ i = Len(n.unread) /\ k = Len(r)
                 /\ n.unread[i].msg = Current(t)
      <4>1. i \in (Len(K.unread) + 1)..(Len(K.unread) + k)
        BY <1>4, <2>3, <3>1, <3>3 DEF Parts
      <4>2. PICK j \in 1..k : j = i - Len(K.unread) /\ n.unread[i] = r[j]
        <5>1. i - Len(K.unread) \in 1..k
          BY <1>4, <4>1
        <5>2. n.unread[i] = r[i - Len(K.unread)]
          BY <1>5, <1>6, <1>8, <4>1
        <5> QED BY <5>1, <5>2
      <4>3. /\ j = Len(r)
            /\ r[j] = [kind |-> "body", msg |-> Current(t)]
        <5>1. r[j].kind = "body" /\ j \in 1..Len(r)
          BY <1>9, <3>3, <4>2
        <5>2. CASE Len(r) = 1
          BY <1>2, <5>1, <5>2
        <5>3. CASE Len(r) = 2
          <6>1. r[1].kind = "header" /\ r[2] = [kind |-> "body", msg |-> Current(t)]
            BY <1>2, <5>3
          <6>2. j = 1 \/ j = 2
            BY <5>1, <5>3
          <6> QED BY <5>1, <5>3, <6>1, <6>2
        <5> QED BY <1>9, <5>2, <5>3
      <4>4. n.unread[i].msg = Current(t)
        BY <4>2, <4>3
      <4> QED BY <1>2, <1>4, <3>1, <4>1, <4>2, <4>3, <4>4
    <3>4. thread'[t].at = "idle" \/ (thread'[t].at = "write" /\ thread'[t].conn = c)
      BY <2>1, <2>2, <2>4
    <3>5. k = Len(r) => thread'[t].at = "idle"
      BY <2>1, <2>2, <2>4
    <3>6. \A i \in Parts(c)' : i \notin Parts(c) /\ conn'[c].unread[i].kind = "body" =>
                /\ i = Len(conn'[c].unread) /\ thread'[t].at = "idle"
                /\ conn'[c].unread[i].msg = Current(t)
      BY <2>3, <3>3, <3>5
    <3>7. \A i \in Parts(c) : conn'[c].unread[i] = conn[c].unread[i]
      BY <2>3, <3>1
    <3>8. OrderInv /\ got' = got /\ sent' = sent /\ thread[t].conn = c
      BY <1>1, <1>3 DEF NetInv
    <3> QED BY <1>0, <1>2, <1>3, <2>3, <2>4, <2>5, <3>2, <3>4, <3>6, <3>7, <3>8, OrderExtended
  <2>10. OvertakenAfterError'
    <3>1. GotTyped
      BY <1>0, GotFacts DEF NetInv
    <3>2. \A u \in Thread : \A j \in DOMAIN got[u] :
            conn'[got[u][j].conn].closed = conn[got[u][j].conn].closed
      BY <1>6, <2>3, <3>1 DEF GotTyped
    <3> QED BY <1>3, <3>2 DEF NetInv, OvertakenAfterError
  <2> QED BY <2>5, <2>6, <2>7, <2>8, <2>9, <2>10 DEF NetInv
<1> QED BY <1>7, <1>8

-----------------------------------------------------------------------------
(* A message that arrives. *)

(***************************************************************************)
(* A sequence without its first element.                                   *)
(***************************************************************************)
LEMMA TailFacts ==
    ASSUME NEW S, NEW s \in Seq(S), s # <<>>
    PROVE  /\ Len(s) \in Nat \ {0} /\ Tail(s) \in Seq(S) /\ Len(Tail(s)) = Len(s) - 1
           /\ \A j \in 1..Len(Tail(s)) : Tail(s)[j] = s[j + 1] /\ j + 1 \in 2..Len(s)
           /\ \A j \in 1..(Len(Tail(s)) - 1) : j + 1 \in 1..(Len(s) - 1)
           /\ Tail(s) # <<>> => /\ 2 \in 1..Len(s) /\ 1 \in 1..(Len(s) - 1)
                                /\ Tail(s)[1] = s[2] /\ Tail(s)[Len(Tail(s))] = s[Len(s)]
<1>1. Len(s) \in Nat \ {0} /\ Tail(s) \in Seq(S) /\ Len(Tail(s)) = Len(s) - 1
  BY EmptySeq, HeadTailProperties
<1>2. \A j \in 1..Len(Tail(s)) : Tail(s)[j] = s[j + 1]
  BY HeadTailProperties
<1>3. \A j \in 1..Len(Tail(s)) : j + 1 \in 2..Len(s)
  BY <1>1
<1>4. \A j \in 1..(Len(Tail(s)) - 1) : j + 1 \in 1..(Len(s) - 1)
  BY <1>1
<1>5. ASSUME Tail(s) # <<>>
      PROVE  /\ 2 \in 1..Len(s) /\ 1 \in 1..(Len(s) - 1)
             /\ Tail(s)[1] = s[2] /\ Tail(s)[Len(Tail(s))] = s[Len(s)]
  <2>1. Len(Tail(s)) \in Nat \ {0}
    BY <1>1, <1>5, EmptySeq
  <2>2. /\ 2 \in 1..Len(s) /\ 1 \in 1..(Len(s) - 1) /\ 1 \in 1..Len(Tail(s))
        /\ Len(Tail(s)) \in 1..Len(Tail(s)) /\ 1 + 1 = 2 /\ Len(Tail(s)) + 1 = Len(s)
    BY <1>1, <2>1
  <2>3. Tail(s)[1] = s[1 + 1] /\ Tail(s)[Len(Tail(s))] = s[Len(Tail(s)) + 1]
    BY <1>2, <2>2
  <2> QED BY <2>2, <2>3
<1> QED BY <1>1, <1>2, <1>3, <1>4, <1>5

(***************************************************************************)
(* Behind the body that a reader in step takes there is a header, if       *)
(* there is anything.                                                      *)
(***************************************************************************)
LEMMA BodyTaken ==
    ASSUME NEW k \in Connection, NEW n, NEW s, s = k.unread, Framed(k),
           k.reader = "body", s # <<>>,
           n = [k EXCEPT !.reader = "header", !.unread = Tail(s)]
    PROVE  n \in Connection /\ Quieter(k, n) /\ n.unread = Tail(s)
<1>1. s \in Seq(Part)
  BY DEF Connection
<1> DEFINE x == Tail(s)
<1>2. /\ x \in Seq(Part)
      /\ \A j \in 1..Len(x) : x[j] = s[j + 1]
      /\ \A j \in 1..(Len(x) - 1) : j + 1 \in 1..(Len(s) - 1)
      /\ x # <<>> => /\ 2 \in 1..Len(s) /\ 1 \in 1..(Len(s) - 1)
                     /\ x[1] = s[2] /\ x[Len(x)] = s[Len(s)]
  BY <1>1, TailFacts
<1> HIDE DEF x
<1>3. /\ n \in Connection /\ n.unread = x /\ n.stalled = k.stalled
      /\ n.closed = k.closed /\ n.reader = "header"
  <2>1. n = [k EXCEPT !.reader = "header", !.unread = x]
    BY DEF x
  <2> QED BY <1>2, <2>1 DEF Connection
<1>4. ASSUME ~k.stalled
      PROVE  InStep(n)
  <2>1. /\ s[1].kind = "body" /\ s[Len(s)].kind = "body"
        /\ \A i \in 1..(Len(s) - 1) : s[i].kind # s[i + 1].kind
    BY <1>4 DEF Framed, InStep
  <2>2. ASSUME x # <<>>
        PROVE  x[1].kind = "header" /\ x[Len(x)].kind = "body"
    <3>1. s[1].kind # s[1 + 1].kind
      BY <1>2, <2>1, <2>2
    <3>2. s[2] \in Part
      BY <1>1, <1>2, <2>2, ElementOfSeq
    <3>3. s[2].kind \in {"header", "body"}
      BY <3>2, PartFacts
    <3> QED BY <1>2, <2>1, <2>2, <3>1, <3>3
  <2>3. \A i \in 1..(Len(x) - 1) : x[i].kind # x[i + 1].kind
    <3> TAKE i \in 1..(Len(x) - 1)
    <3>1. Len(x) \in Nat
      BY <1>2
    <3>2. i \in 1..Len(x) /\ i + 1 \in 1..Len(x)
      BY <3>1
    <3>3. i + 1 \in 1..(Len(s) - 1) /\ x[i] = s[i + 1] /\ x[i + 1] = s[(i + 1) + 1]
      BY <1>2, <3>2
    <3> QED BY <2>1, <3>3
  <2> QED BY <1>3, <2>2, <2>3 DEF InStep
<1>5. Quieter(k, n)
  BY <1>3, <1>4 DEF Quieter, Framed, x
<1> QED BY <1>3, <1>5 DEF x

\* What ReadBody does when it finds the body p of a message of thread u.
Taken(c, p, u) ==
    /\ conn[c].reader = "body" /\ conn[c].unread # <<>>
    /\ p = conn[c].unread[1] /\ p.kind = "body" /\ u = p.msg.thread
    /\ conn' = [conn EXCEPT ![c] =
            [conn[c] EXCEPT !.reader = "header", !.unread = Tail(conn[c].unread)]]
    /\ got' = [got EXCEPT ![u] = Append(@, [n |-> p.msg.n, conn |-> c])]
    /\ UNCHANGED <<pool, thread, sent, peer>>

\* A sequence with one more element.
LEMMA AppendFacts ==
    ASSUME NEW S, NEW s \in Seq(S), NEW e \in S, NEW a, a = Append(s, e)
    PROVE  /\ Len(s) \in Nat /\ a \in Seq(S) /\ Len(a) = Len(s) + 1
           /\ \A i \in 1..Len(s) : a[i] = s[i]
           /\ a[Len(s) + 1] = e
  BY AppendProperties

(***************************************************************************)
(* A message arrives after what was written before it to its connection    *)
(* and to older ones, unless it comes over a connection that is not the    *)
(* last one any more: that one has been closed.                            *)
(***************************************************************************)
LEMMA BodyInv ==
    ASSUME NetInv, NEW c \in Conns, NEW p, NEW u, Taken(c, p, u)
    PROVE  NetInv'
<1> DEFINE Entry == [n : 1..MaxSends, conn : 1..MaxConns]
           s == conn[c].unread
           g == [n |-> p.msg.n, conn |-> c]
           n == [conn[c] EXCEPT !.reader = "header", !.unread = Tail(s)]
<1>0. NetShape /\ ConnTyped /\ ThreadTyped /\ GotTyped
  BY ConnFacts, ThreadFacts, GotFacts DEF NetInv
<1>1. conn \in Seq(Connection) /\ conn[c] \in Connection /\ s \in Seq(Part)
  BY <1>0 DEF NetShape, ConnTyped
<1>20. Len(conn) \in Nat /\ c \in 1..Len(conn)
  BY <1>0 DEF ConnTyped, Conns
<1>21. Parts(c) = 1..Len(s) /\ s # <<>> /\ Len(s) \in Nat \ {0}
  BY <1>1, EmptySeq DEF Parts, Taken
<1>2. 1 \in Parts(c) /\ p \in Part
  <2>1. 1 \in Parts(c)
    <3> HIDE DEF s
    <3> QED BY <1>21
  <2> QED BY <1>0, <2>1 DEF ConnTyped, Taken
<1>3. u \in Thread /\ p.msg.n \in 1..MaxSends /\ p.msg.n \in Int
  BY <1>2, PartFacts DEF Taken
<1>4. c \in 1..MaxConns /\ c \in Int
  BY <1>0, <1>20, BoundsAssumption DEF NetShape
<1>5. g \in Entry /\ g.n = p.msg.n /\ g.conn = c
  BY <1>3, <1>4
<1>6. p.msg.n <= Last(u) /\ c <= Reach(u)
  BY <1>2 DEF NetInv, OrderInv, PartsBounded, Taken
<1>7. n \in Connection /\ Quieter(conn[c], n) /\ n.unread = Tail(s)
  <2>1. Framed(conn[c])
    BY DEF NetInv, Framing
  <2> QED BY <1>1, <1>21, <2>1, BodyTaken DEF Taken
<1> HIDE DEF n, g, Entry
<1>8. conn' = [conn EXCEPT ![c] = n] /\ got' = [got EXCEPT ![u] = Append(@, g)]
  BY DEF n, g, Taken
<1>9. /\ conn' \in Seq(Connection) /\ Len(conn') = Len(conn) /\ Conns' = Conns
      /\ conn'[c] = n /\ \A d \in Conns : d # c => conn'[d] = conn[d]
  <2>1. conn' \in Seq(Connection) /\ Len(conn') = Len(conn)
    BY <1>1, <1>7, <1>8, <1>20, ExceptSeq
  <2>2. DOMAIN conn = Conns
    BY <1>0 DEF ConnTyped
  <2> QED BY <1>8, <2>1, <2>2 DEF Conns
<1>10. \A d \in Conns : Quieter(conn[d], conn'[d])
  BY <1>0, <1>7, <1>9, QuietChanges DEF NetInv, Framing, ConnTyped
<1>11. /\ got \in [Thread -> Seq(Entry)] /\ got[u] \in Seq(Entry) /\ Len(got[u]) \in Nat
       /\ got'[u] = Append(got[u], g)
       /\ \A t \in Thread : t # u => got'[t] = got[t]
  <2>1. got \in [Thread -> Seq(Entry)]
    BY <1>0 DEF NetShape, Entry
  <2>2. got[u] \in Seq(Entry)
    BY <1>3, <2>1
  <2>3. Len(got[u]) \in Nat
    BY <2>2
  <2> QED BY <1>3, <1>8, <2>1, <2>2, <2>3
<1>12. /\ got'[u] \in Seq(Entry) /\ Len(got'[u]) = Len(got[u]) + 1
       /\ \A i \in 1..Len(got[u]) : got'[u][i] = got[u][i]
       /\ got'[u][Len(got[u]) + 1] = g
  <2>1. g \in Entry /\ got[u] \in Seq(Entry)
    BY <1>5, <1>11
  <2> QED BY <1>11, <2>1, AppendFacts
<1>13. got' \in [Thread -> Seq(Entry)]
  BY <1>3, <1>8, <1>11, <1>12
<1>14. /\ NetShape' /\ PoolGuarded' /\ OneConnection' /\ Framing'
       /\ PartsBounded' /\ PartsInOrder' /\ \A t \in Thread : Later(t)
  <2>1. peer' \in {"down", "listening", "running", "stopped"}
    BY <1>0 DEF NetShape, Taken
  <2> QED BY <1>9, <1>10, <1>13, <2>1, QuietRest DEF Entry, Taken
\* An entry of the new state is an old one or the new one.
<1>15. ASSUME NEW t \in Thread, NEW i \in 1..Len(got'[t])
       PROVE  \/ i \in 1..Len(got[t]) /\ got'[t][i] = got[t][i]
              \/ t = u /\ i = Len(got[u]) + 1 /\ got'[t][i] = g
  <2>1. CASE t # u
    BY <1>11, <1>15, <2>1
  <2>2. CASE t = u
    <3>1. Len(got[u]) \in Nat /\ Len(got'[u]) = Len(got[u]) + 1
      BY <1>11, <1>12
    <3>2. i \in 1..Len(got[u]) \/ i = Len(got[u]) + 1
      BY <1>15, <2>2, <3>1
    <3> QED BY <1>12, <2>2, <3>2
  <2> QED BY <2>1, <2>2
<1>16. GotBounded'
  <2> SUFFICES ASSUME NEW t \in Thread, NEW i \in 1..Len(got'[t]), NEW e, e = got'[t][i]
               PROVE  e.n <= Last(t)' /\ e.conn <= Reach(t)'
    BY DEF GotBounded
  <2>1. Last(t)' = Last(t) /\ Reach(t)' = Reach(t)
    BY <1>9 DEF Last, Reach, Taken
  <2>2. CASE i \in 1..Len(got[t]) /\ e = got[t][i]
    BY <2>1, <2>2 DEF NetInv, OrderInv, GotBounded
  <2>3. CASE t = u /\ e = g
    BY <1>5, <1>6, <2>1, <2>3
  <2> QED BY <1>15, <2>2, <2>3
\* A part of the new state is an old one, and not the one that has been taken.
<1>17. ASSUME NEW d \in Conns, NEW j \in Parts(d)', NEW r, r = conn'[d].unread[j]
       PROVE  \E k \in Parts(d) : r = conn[d].unread[k] /\ (d = c => k > 1)
  <2>1. CASE d # c
    BY <1>9, <1>17, <2>1 DEF Parts
  <2>2. CASE d = c
    <3>1. j \in 1..Len(Tail(s)) /\ r = Tail(s)[j]
      BY <1>7, <1>9, <1>17, <2>2 DEF Parts
    <3>2. r = s[j + 1] /\ j + 1 \in 2..Len(s)
      BY <1>1, <1>21, <3>1, TailFacts
    <3>3. j + 1 \in Parts(c) /\ j + 1 > 1 /\ r = conn[c].unread[j + 1]
      BY <1>21, <3>2
    <3> QED BY <2>2, <3>3
  <2> QED BY <2>1, <2>2
<1>18. GotInOrder'
  <2> SUFFICES ASSUME NEW t \in Thread, NEW i \in 1..Len(got'[t]), NEW d \in Conns,
                      NEW j \in Parts(d)', NEW r, NEW e, r = conn'[d].unread[j],
                      e = got'[t][i], r.kind = "body", r.msg.thread = t
               PROVE  IF e.conn <= d THEN e.n < r.msg.n ELSE r.msg.n < e.n
    BY <1>9 DEF GotInOrder
  <2>1. PICK k \in Parts(d) : r = conn[d].unread[k] /\ (d = c => k > 1)
    BY <1>17
  <2>2. CASE i \in 1..Len(got[t]) /\ e = got[t][i]
    BY <2>1, <2>2 DEF NetInv, OrderInv, GotInOrder
  <2>3. CASE t = u /\ e = g
    <3>1. e.conn = c /\ e.n = p.msg.n /\ d \in Int
      BY <1>5, <1>20, <2>3 DEF Conns
    <3>2. CASE c < d \/ c = d
      <4>1. c < d \/ (c = d /\ 1 < k)
        BY <2>1, <3>2
      <4>2. p.msg.n < r.msg.n
        BY <1>2, <2>1, <2>3, <4>1 DEF NetInv, OrderInv, PartsInOrder, Taken
      <4> QED BY <1>4, <3>1, <3>2, <4>2
    <3>3. CASE d < c
      <4>1. r.msg.n < p.msg.n
        BY <1>2, <2>1, <2>3, <3>3 DEF NetInv, OrderInv, PartsInOrder, Taken
      <4> QED BY <1>4, <3>1, <3>3, <4>1
    <3> QED BY <1>4, <3>1, <3>2, <3>3
  <2> QED BY <1>15, <2>2, <2>3
<1>19. OvertakenAfterError'
  <2>0. \A t \in Thread : DOMAIN got'[t] = 1..Len(got'[t]) /\ Len(got'[t]) \in Nat
    <3> TAKE t \in Thread
    <3>1. got'[t] \in Seq(Entry)
      BY <1>13
    <3> QED BY <3>1
  <2> SUFFICES ASSUME NEW t \in Thread, NEW i \in 1..Len(got'[t]),
                      NEW j \in 1..Len(got'[t]), NEW e, NEW f, e = got'[t][i],
                      f = got'[t][j], i < j, f.n <= e.n
               PROVE  f.n < e.n /\ conn'[f.conn].closed
    BY <2>0 DEF OvertakenAfterError
  <2>1. i \in 1..Len(got[t]) /\ e = got[t][i]
    <3>1. CASE t = u /\ i = Len(got[u]) + 1
      <4>1. Len(got'[t]) = Len(got[u]) + 1 /\ Len(got[u]) \in Nat
        BY <1>11, <1>12, <3>1
      <4> QED BY <3>1, <4>1
    <3> QED BY <1>15, <3>1
  <2>2. DOMAIN got[t] = 1..Len(got[t]) /\ e.n \in Int /\ e.conn \in Conns
    BY <1>0, <2>1 DEF GotTyped
  <2>3. \A d \in Conns : conn[d].closed => conn'[d].closed
    BY <1>10 DEF Quieter
  <2>4. CASE j \in 1..Len(got[t]) /\ f = got[t][j]
    <3>1. f.n < e.n /\ conn[f.conn].closed
      BY <2>1, <2>2, <2>4 DEF NetInv, OvertakenAfterError
    <3>2. f.conn \in Conns
      BY <1>0, <2>2, <2>4 DEF GotTyped
    <3> QED BY <2>3, <3>1, <3>2
  <2>5. CASE t = u /\ f = g
    <3>1. IF e.conn <= c THEN e.n < p.msg.n ELSE p.msg.n < e.n
      BY <1>2, <2>1, <2>5 DEF NetInv, OrderInv, GotInOrder, Taken
    <3>2. ~(e.conn <= c) /\ p.msg.n < e.n
      BY <1>3, <1>5, <2>2, <2>5, <3>1
    <3>3. c # pool
      <4>1. pool = Len(conn) /\ e.conn <= Len(conn) /\ e.conn \in Int
        BY <1>0, <1>20, <2>2 DEF NetShape, Conns
      <4> QED BY <1>20, <1>4, <3>2, <4>1
    <3>4. conn[c].closed
      BY <1>0, <3>3 DEF NetInv, OneConnection, ConnTyped
    <3> QED BY <1>5, <2>3, <2>5, <3>2, <3>4
  <2> QED BY <1>15, <2>4, <2>5
<1> QED BY <1>14, <1>16, <1>18, <1>19 DEF NetInv, OrderInv

\* ReadBody takes a body, or finds that it is out of step.
LEMMA ReadBodyInv ==
    ASSUME NetInv, NEW c \in Conns, ReadBody(c)
    PROVE  /\ NetInv'
           /\ Head(conn[c].unread).kind # "header" => Head(conn[c].unread).msg \in Message
<1>0. ConnTyped
  BY ConnFacts DEF NetInv
<1>1. conn[c] \in Connection /\ conn[c].unread \in Seq(Part) /\ conn[c].unread # <<>>
  BY <1>0 DEF ConnTyped, ReadBody
<1>2. PICK p : p = Head(conn[c].unread)
  OBVIOUS
<1>3. p = conn[c].unread[1] /\ p \in Part
  BY <1>1, <1>2
<1>4. p.kind \in {"header", "body"} /\ p.msg \in Message
  BY <1>3, PartFacts
<1>5. CASE p.kind = "header"
  <2> DEFINE n == [conn[c] EXCEPT !.reader = "garbled"]
  <2>1. conn[c].reader = "body" /\ Framed(conn[c])
    BY DEF ReadBody, NetInv, Framing
  <2>2. conn[c].stalled
    BY <1>3, <1>5, <2>1 DEF Framed, InStep
  <2>3. /\ n \in Connection /\ n.unread = conn[c].unread /\ n.stalled = conn[c].stalled
        /\ n.closed = conn[c].closed
    BY <1>1 DEF Connection
  <2>4. conn' = [conn EXCEPT ![c] = n] /\ UNCHANGED <<pool, thread, sent, peer, got>>
    BY <1>2, <1>5 DEF ReadBody
  <2> HIDE DEF n
  <2>5. Quieter(conn[c], n)
    BY <2>2, <2>3 DEF Quieter, Framed
  <2>6. NetInv'
    BY <2>3, <2>4, <2>5, QuietAt
  <2> QED BY <1>2, <1>4, <2>6
<1>6. CASE p.kind = "body"
  <2>1. /\ conn' = [conn EXCEPT ![c].reader = "header", ![c].unread = Tail(@)]
        /\ got' = [got EXCEPT ![p.msg.thread] = Append(@, [n |-> p.msg.n, conn |-> c])]
        /\ UNCHANGED <<pool, thread, sent, peer>> /\ conn[c].reader = "body"
    BY <1>2, <1>6 DEF ReadBody
  <2>2. conn' = [conn EXCEPT ![c] =
            [conn[c] EXCEPT !.reader = "header", !.unread = Tail(conn[c].unread)]]
    BY <1>1, <2>1 DEF Connection
  <2>3. Taken(c, p, p.msg.thread)
    BY <1>1, <1>3, <1>6, <2>1, <2>2 DEF Taken
  <2>4. NetInv'
    BY <2>3, BodyInv
  <2> QED BY <1>2, <1>4, <2>4
<1> QED BY <1>4, <1>5, <1>6

-----------------------------------------------------------------------------
(* The specification. *)

\* There is no connection and no message to begin with.
LEMMA NetInitInv == NetInit => NetInv
<1> SUFFICES ASSUME NetInit PROVE NetInv
  OBVIOUS
<1> USE DEF NetInit
<1>1. Conns = {} /\ Len(conn) = 0 /\ DOMAIN conn = {}
  BY DEF Conns
<1>2. Idle.at = "idle" /\ Idle \in [at : {"idle", "get", "connect", "write"}, conn : Nat,
                                    rest : Seq(Part)]
  BY DEF Idle
<1>3. NetShape
  <2>1. \A t \in Thread : ThreadShape(t)
    BY DEF ThreadShape
  <2> QED BY <1>1, <1>2, <2>1, BoundsAssumption DEF NetShape
<1>4. PoolGuarded
  BY <1>2 DEF PoolGuarded
<1>5. OneConnection /\ Framing
  BY <1>1 DEF OneConnection, Framing
<1>6. \A t \in Thread : got[t] = <<>> /\ Len(got[t]) = 0 /\ DOMAIN got[t] = {}
  OBVIOUS
<1>7. OrderInv
  BY <1>1, <1>6 DEF OrderInv, PartsBounded, GotBounded, PartsInOrder, GotInOrder
<1>8. OvertakenAfterError
  BY <1>6 DEF OvertakenAfterError
<1> QED BY <1>3, <1>4, <1>5, <1>7, <1>8 DEF NetInv

(***************************************************************************)
(* Whatever the getters do, the network's part of a step keeps NetInv.     *)
(***************************************************************************)
LEMMA NetStep ==
    ASSUME NetInv, [Next]_vars
    PROVE  NetInv'
<1>0. DOMAIN conn = Conns
  BY ConnFacts DEF NetInv, ConnTyped
<1>1. ASSUME NEW t \in Thread, Send(t) \/ Sending(t)
      PROVE  NetInv'
  BY <1>1, SendInv, GetConnectionInv, ConnectInv, FailureInv, WriteInv DEF Sending
<1>2. ASSUME NEW c \in DOMAIN conn, Break(c) \/ Reading(c)
      PROVE  NetInv'
  BY <1>2, FailureInv, AcceptInv, ReadHeaderInv, ReadGarbledInv DEF Reading
<1>3. CASE ServerLife \/ Run \/ UNCHANGED netVars
  BY <1>3, ServerInv
<1>4. ASSUME NEW c \in DOMAIN conn, Deliver(c)
      PROVE  NetInv'
  BY <1>0, <1>4, ReadBodyInv DEF Deliver
<1> QED BY <1>1, <1>2, <1>3, <1>4 DEF Next, vars

(***************************************************************************)
(* Everything that is proved about the network, in one inductive           *)
(* invariant of the whole.                                                 *)
(***************************************************************************)
THEOREM NetworkInvariance == Spec => []NetInv
<1>1. Init => NetInv
  BY NetInitInv DEF Init
<1>2. NetInv /\ [Next]_vars => NetInv'
  BY NetStep
<1> QED BY <1>1, <1>2, PTL DEF Spec

(***************************************************************************)
(* ConnectionPool::get keeps to one connection, however many threads ask.  *)
(***************************************************************************)
THEOREM PoolKeepsOne == Spec => []OneConnection
<1>1. NetInv => OneConnection
  BY DEF NetInv
<1> QED BY <1>1, NetworkInvariance, PTL

(***************************************************************************)
(* Messages arrive at most once, and out of order only after an error of   *)
(* their connection, for any number of threads, messages and connections.  *)
(***************************************************************************)
THEOREM NoOvertaking == Spec => []OvertakenAfterError
<1>1. NetInv => OvertakenAfterError
  BY DEF NetInv
<1> QED BY <1>1, NetworkInvariance, PTL

(***************************************************************************)
(* asio::write without a lock keeps messages apart as long as the socket   *)
(* has room for each of them.                                              *)
(***************************************************************************)
THEOREM InStepUntilStall == Spec => []GarbledAfterStall
<1>1. NetInv => GarbledAfterStall
  <2> SUFFICES ASSUME NetInv, NEW c \in DOMAIN conn, conn[c].reader = "garbled"
               PROVE  conn[c].stalled
    BY DEF GarbledAfterStall
  <2>1. c \in Conns
    BY ConnFacts DEF NetInv, ConnTyped
  <2> QED BY <2>1 DEF NetInv, Framing, Framed, InStep
<1> QED BY <1>1, NetworkInvariance, PTL

-----------------------------------------------------------------------------
(* The queue behind the network, and the types. *)

QueueInv ==
    /\ BQInv(Message)
    /\ quit \in {"no", "set", "done"}
    /\ taken \subseteq Message

(***************************************************************************)
(* What the network puts into the queue is a message, so every step is one *)
(* of the queue or leaves it alone.                                        *)
(***************************************************************************)
LEMMA QueueStep ==
    ASSUME NetInv, QueueInv, [Next]_vars
    PROVE  QueueInv'
<1>1. \/ UNCHANGED bqVars
      \/ \E v \in Message : Put(v)
      \/ \E g \in Getter : Get(g) \/ Wait(g)
      \/ Clear
      \/ NotifyAll
  <2>1. ASSUME NEW c \in DOMAIN conn, Deliver(c)
        PROVE  UNCHANGED bqVars \/ \E v \in Message : Put(v)
    <3>1. c \in Conns /\ ReadBody(c)
      BY <2>1, ConnFacts DEF NetInv, ConnTyped, Deliver
    <3>2. CASE Head(conn[c].unread).kind = "header"
      BY <2>1, <3>1, <3>2 DEF Deliver, ReadBody
    <3>3. CASE Head(conn[c].unread).kind # "header"
      <4>1. Head(conn[c].unread).msg \in Message
        BY <3>1, <3>3, ReadBodyInv
      <4> QED BY <2>1, <4>1 DEF Deliver
    <3> QED BY <3>2, <3>3
  <2> QED BY <2>1 DEF Next, vars
<1>2. BQInv(Message)'
  BY <1>1, PutStep, GetStep, OtherStep DEF QueueInv
<1>3. quit' \in {"no", "set", "done"}
  BY <1>1 DEF QueueInv, bqVars, Put, Get, Wait, Clear, NotifyAll
<1>4. taken' \subseteq Message
  <2>1. ASSUME NEW g \in Getter, Get(g)
        PROVE  taken' \subseteq Message
    <3>1. CASE taken' = taken
      BY <3>1 DEF QueueInv
    <3>2. CASE q # <<>> /\ taken' = taken \cup {Head(q)}
      <4>1. q \in Seq(Message)
        BY DEF QueueInv, BQInv, BQTypeOK
      <4>2. Head(q) \in Message
        BY <3>2, <4>1
      <4> QED BY <3>2, <4>2 DEF QueueInv
    <3> QED BY <2>1, <3>1, <3>2 DEF Get
  <2> QED BY <1>1, <2>1 DEF QueueInv, bqVars, Put, Wait, Clear, NotifyAll
<1> QED BY <1>2, <1>3, <1>4 DEF QueueInv

\* The two invariants contain the types of all variables.
LEMMA TypesFollow ==
    ASSUME NetInv, QueueInv
    PROVE  TypeOK
<1>0. NetShape /\ ConnTyped /\ GotTyped /\ ThreadTyped
  BY ConnFacts, GotFacts, ThreadFacts DEF NetInv
<1>1. DOMAIN conn = 1..Len(conn) /\ Len(conn) \in Nat /\ Conns = DOMAIN conn
  BY <1>0 DEF ConnTyped, Conns
<1>2. DOMAIN conn \subseteq 1..MaxConns
  BY <1>0, <1>1, BoundsAssumption DEF NetShape
<1>3. ASSUME NEW c \in DOMAIN conn
      PROVE  /\ conn[c].closed \in BOOLEAN /\ conn[c].broken \in BOOLEAN
             /\ conn[c].unread \in Seq(Part) /\ Len(conn[c].unread) <= Capacity
             /\ conn[c].reader \in {"backlog", "header", "body", "garbled", "closed"}
  <2>1. conn[c] \in Connection /\ Len(conn[c].unread) <= Capacity
    BY <1>0, <1>1 DEF ConnTyped, NetShape
  <2> QED BY <2>1 DEF Connection
<1>4. pool \in DOMAIN conn \cup {0}
  BY <1>0, <1>1 DEF NetShape
<1>5. ASSUME NEW t \in Thread
      PROVE  /\ thread[t].at \in {"idle", "get", "connect", "write"}
             /\ thread[t].conn \in DOMAIN conn \cup {0}
             /\ thread[t].conn = 0 => thread[t].at # "write"
             /\ thread[t].rest \in Seq(Part)
  <2>1. thread[t].at \in {"idle", "get", "connect", "write"} /\ thread[t].rest \in Seq(Part)
    BY <1>0 DEF NetShape
  <2>2. ThreadShape(t)
    BY <1>0 DEF NetShape
  <2>3. Idle.conn = 0 /\ Idle.at = "idle"
    BY DEF Idle
  <2>4. 0 \notin DOMAIN conn
    BY <1>1
  <2> QED BY <1>1, <2>1, <2>2, <2>3, <2>4 DEF ThreadShape
<1>6. ASSUME NEW t \in Thread
      PROVE  got[t] \in Seq([n : 1..sent[t], conn : DOMAIN conn])
  <2> DEFINE Entry == [n : 1..sent[t], conn : DOMAIN conn]
  <2>1. got[t] \in Seq([n : 1..MaxSends, conn : 1..MaxConns])
    BY <1>0 DEF NetShape
  <2>2. sent[t] \in Nat /\ Last(t) <= sent[t] /\ Last(t) \in Int
    BY <1>0, BoundsAssumption DEF NetShape, Last
  <2>3. ASSUME NEW i \in 1..Len(got[t])
        PROVE  got[t][i] \in Entry
    <3>1. got[t][i] \in [n : 1..MaxSends, conn : 1..MaxConns]
      BY <2>1, ElementOfSeq
    <3>2. got[t][i].n \in Nat \ {0} /\ got[t][i].n <= Last(t) /\ got[t][i].conn \in DOMAIN conn
      BY <1>0, <1>1 DEF GotTyped
    <3>3. got[t][i].n \in 1..sent[t]
      BY <2>2, <3>2
    <3> QED BY <3>1, <3>2, <3>3
  <2> HIDE DEF Entry
  <2>4. /\ got[t] \in [1..Len(got[t]) -> [n : 1..MaxSends, conn : 1..MaxConns]]
        /\ Len(got[t]) \in Nat
    BY <2>1, LenProperties
  <2>5. got[t] \in [1..Len(got[t]) -> Entry]
    BY <2>3, <2>4
  <2>6. got[t] \in Seq(Entry)
    BY <2>4, <2>5
  <2> QED BY <2>6 DEF Entry
<1>7. NetTypeOK
  BY <1>0, <1>2, <1>3, <1>4, <1>5, <1>6 DEF NetTypeOK, NetShape
<1> QED BY <1>7 DEF TypeOK, QueueInv, BQInv, BQTypeOK

\* The queue keeps its invariant whatever the network delivers.
THEOREM QueueInvariance == Spec => []QueueInv
<1>1. Init => QueueInv
  <2> SUFFICES ASSUME BQInit PROVE QueueInv
    BY DEF Init
  <2>1. BQTypeOK(Message)
    BY DEF BQInit, BQTypeOK
  <2>2. At("waiting") = {} /\ At("blocking") = {}
    BY DEF BQInit, At
  <2> QED BY <2>1, <2>2 DEF BQInv, NoLostWakeup, QueueInv, BQInit
<1>2. NetInv /\ QueueInv /\ [Next]_vars => QueueInv'
  BY QueueStep
<1> QED BY <1>1, <1>2, NetworkInvariance, PTL DEF Spec

(***************************************************************************)
(* Type correctness of the network and the queue together: in particular,  *)
(* send() never writes to a null connection.                               *)
(***************************************************************************)
THEOREM DeliveryTypes == Spec => []TypeOK
<1>1. NetInv /\ QueueInv => TypeOK
  BY TypesFollow
<1> QED BY <1>1, NetworkInvariance, QueueInvariance, PTL

(***************************************************************************)
(* on_message, called as messages arrive, leaves no getter of the queue    *)
(* waiting for a value that is there.                                      *)
(***************************************************************************)
THEOREM ArrivalsWake == Spec => []NoLostWakeup
<1>1. QueueInv => NoLostWakeup
  BY DEF QueueInv, BQInv
<1> QED BY <1>1, QueueInvariance, PTL

=============================================================================
