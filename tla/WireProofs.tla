----------------------------- MODULE WireProofs -----------------------------
(***************************************************************************)
(* The relay pair of sheetwire.py, proved for any set of connections, any  *)
(* number of chunks and any number of failures and restarts.               *)
(***************************************************************************)
EXTENDS Wire, WellFoundedInduction, TLAPS

-----------------------------------------------------------------------------
(* The inductive invariant.                                                    *)

Frames == [from : Side, conn : Conn, kind : {"open", "data", "close"}, chunk : Nat]
Running == {"top", "recv", "closing", "shut", "pop"}
Leaving == {"closing", "shut", "pop", "done"}

Per(T) == [Side -> T]
PerConn(T) == [Side -> [Conn -> T]]

MainTypes ==
    /\ log \in Seq(Frames)
    /\ pc \in Per({"poll", "handle", "use", "dead"})
    /\ cursor \in Per(Nat) /\ inbox \in Per(SUBSET Nat)
    /\ outbox \in Per(Seq(Frames)) /\ conns \in Per(SUBSET Conn)
    /\ deaths \in Nat /\ restarts \in Nat

ConnTypes ==
    /\ pump \in PerConn(Running \cup {"none", "done"})
    /\ fd \in PerConn(BOOLEAN) /\ ended \in PerConn(BOOLEAN)
    /\ unread \in PerConn(Seq(Nat)) /\ wrote \in PerConn(Nat) /\ got \in PerConn(Seq(Nat))

Types == MainTypes /\ ConnTypes

\* A batch is what the log holds for the relay from some row up to its cursor.
Batches == \A s \in Side :
    /\ cursor[s] <= Len(log) /\ cursor[s] <= Limit
    /\ \A p \in inbox[s] : p \in 1..cursor[s] /\ log[p].from = Peer(s)
    /\ \A p \in inbox[s] : \A q \in p..cursor[s] :
           log[q].from = Peer(s) => q \in inbox[s]
    /\ pc[s] = "use" => inbox[s] # {} /\ Current(s).kind \in {"data", "close"}
    /\ pc[s] \in {"poll", "dead"} => inbox[s] = {}

\* A dead relay has no thread left; a connection a relay never had is untouched.
Threads == \A s \in Side, c \in Conn :
    /\ c \in conns[s] => pump[s][c] \in Running
    /\ ~Alive(s) => pump[s][c] \in {"none", "done"}
    /\ ~Connected(s, c) => /\ fd[s][c] /\ ~ended[s][c] /\ wrote[s][c] = 0
                         /\ unread[s][c] = <<>> /\ got[s][c] = <<>>

\* Chunks that the pump of s has received from its application.
Sent(s, c) == wrote[s][c] - Len(unread[s][c])

\* Chunks are read in the order they were written.
Chunks == \A s \in Side, c \in Conn :
    /\ wrote[s][c] <= MaxChunks
    /\ Len(unread[s][c]) <= wrote[s][c]
    /\ \A k \in DOMAIN unread[s][c] : unread[s][c][k] = Sent(s, c) + k

\* What s has sent and not lost: the log, then what it has not flushed.
Stream(s) == log \o outbox[s]

\* Frames of a connection leave in this order: open, data 1, 2, ..., close.
Rank(f) == IF f.kind = "close" THEN MaxChunks + 1 ELSE f.chunk

OwnFrame(s, f) ==
    /\ Connected(s, f.conn)
    /\ f.kind = "open" => f.chunk = 0 /\ s = "expose"
    /\ f.kind = "data" => f.chunk \in 1..Sent(s, f.conn)
    /\ f.kind = "close" => f.chunk = 0 /\ pump[s][f.conn] \in {"shut", "pop", "done"}

Sorted(q, s) == \A i, j \in DOMAIN q :
    i < j /\ q[i].from = s /\ q[j].from = s /\ q[i].conn = q[j].conn => Rank(q[i]) < Rank(q[j])

Carries(q, s, c, k) == \E p \in DOMAIN q : q[p] = Frame(s, c, "data", k)
NoGaps(q, s) == \A c \in Conn, k \in Nat :
    Carries(q, s, c, k) => \A j \in 1..k : Carries(q, s, c, j)

\* The pump of s for c, or its outbox, was never lost.
Whole(s, c) == pump[s][c] \in Running \/ (Alive(s) /\ restarts = 0)

OutboxIsOwn == \A s \in Side : \A p \in DOMAIN outbox[s] : outbox[s][p].from = s

\* The frames of s are in order; of "serve" only until a relay is started again, which may
\* dial a target a second time.
StreamOK(s) ==
    /\ \A p \in DOMAIN Stream(s) : Stream(s)[p].from = s => OwnFrame(s, Stream(s)[p])
    /\ Sorted(Stream(s), s)
    /\ NoGaps(Stream(s), s)
    /\ \A c \in Conn : Whole(s, c) => \A k \in 1..Sent(s, c) : Carries(Stream(s), s, c, k)

Past(r, p) == p <= cursor[r] /\ p \notin inbox[r]

\* What r handed to the application of c: the first chunks, in order; all it handled while
\* its socket is open.
ReceivedOK(r, c) ==
    /\ \A k \in DOMAIN got[r][c] : got[r][c][k] = k
    /\ Len(got[r][c]) # 0 => Carries(log, Peer(r), c, Len(got[r][c]))
    /\ c \in conns[r] /\ fd[r][c] =>
           \A p \in DOMAIN log :
               log[p].from = Peer(r) /\ log[p].conn = c /\ log[p].kind = "data" =>
                   (Past(r, p) <=> log[p].chunk <= Len(got[r][c]))

Delivery ==
    /\ \A s \in Side : s = "expose" \/ restarts = 0 => StreamOK(s)
    /\ \A r \in Side : r = "serve" \/ restarts = 0 => \A c \in Conn : ReceivedOK(r, c)

\* The target is dialed for connections the client opened, once in the first life of serve.
Dialed == \A c \in Conn : Connected("serve", c) =>
    /\ Connected("expose", c)
    /\ Alive("serve") /\ restarts = 0 =>
           \E p \in DOMAIN log : Past("serve", p) /\ log[p] = Frame("expose", c, "open", 0)

Calm == (\A s \in Side : Alive(s)) /\ restarts = 0
Done(s, c) == ended[s][c] /\ unread[s][c] = <<>>

\* Neither side lets go of a connection before one application has ended its stream and
\* the relay has read all of it; and a side whose application has not ended lets go
\* only when it has handled the peer's close, and all that precedes it.
EndingOK(s, c) ==
    /\ pump[s][c] \in Leaving \/ ~fd[s][c] => Done(s, c) \/ Done(Peer(s), c)
    /\ pump[s][c] \in Leaving /\ ~ended[s][c] => ~fd[s][c]
    /\ ~fd[s][c] /\ ~ended[s][c] =>
           /\ Len(got[s][c]) = Sent(Peer(s), c)
           /\ pump[Peer(s)][c] \in {"shut", "pop", "done"}
Endings == Calm => \A s \in Side, c \in Conn : EndingOK(s, c)

IInv == /\ Types /\ Batches /\ Threads /\ Chunks /\ OutboxIsOwn
        /\ Delivery /\ Dialed /\ Endings

-----------------------------------------------------------------------------
(* Sequences of frames.                                                        *)

\* Rows of a concatenation.
LEMMA Rows ==
    ASSUME NEW S, NEW A \in Seq(S), NEW B \in Seq(S)
    PROVE  /\ A \o B \in Seq(S)
           /\ Len(A \o B) = Len(A) + Len(B)
           /\ DOMAIN A = 1..Len(A) /\ DOMAIN B = 1..Len(B)
           /\ DOMAIN (A \o B) = 1..(Len(A) + Len(B))
           /\ \A p \in DOMAIN A : (A \o B)[p] = A[p]
           /\ \A p \in DOMAIN B : (A \o B)[Len(A) + p] = B[p]
           /\ \A p \in DOMAIN (A \o B) : p \in DOMAIN A \/ (p - Len(A) \in DOMAIN B
                                           /\ (A \o B)[p] = B[p - Len(A)])
  OBVIOUS

\* Rows of a sequence one longer.
LEMMA RowsAppend ==
    ASSUME NEW S, NEW A \in Seq(S), NEW f \in S
    PROVE  /\ Append(A, f) \in Seq(S)
           /\ DOMAIN A = 1..Len(A) /\ Len(A) \in Nat
           /\ Len(Append(A, f)) = Len(A) + 1
           /\ DOMAIN Append(A, f) = 1..(Len(A) + 1)
           /\ \A p \in DOMAIN A : Append(A, f)[p] = A[p]
           /\ Append(A, f)[Len(A) + 1] = f
  OBVIOUS

\* Rows of a sequence one shorter.
LEMMA RowsTail ==
    ASSUME NEW S, NEW A \in Seq(S), A # <<>>
    PROVE  /\ Tail(A) \in Seq(S) /\ Head(A) \in S /\ Head(A) = A[1]
           /\ DOMAIN A = 1..Len(A) /\ Len(A) \in Nat /\ Len(A) # 0
           /\ Len(Tail(A)) = Len(A) - 1
           /\ DOMAIN Tail(A) = 1..(Len(A) - 1)
           /\ \A p \in DOMAIN Tail(A) : Tail(A)[p] = A[p + 1]
  OBVIOUS

\* A later frame keeps the order when its rank is above those of its connection.
LEMMA SortedAppend ==
    ASSUME NEW s, NEW q \in Seq(Frames), NEW f \in Frames, Sorted(q, s),
           \A p \in DOMAIN q : q[p].from = s /\ f.from = s /\ q[p].conn = f.conn
                                   => Rank(q[p]) < Rank(f)
    PROVE  Sorted(Append(q, f), s)
<1> DEFINE Q == Append(q, f)
<1>1. /\ DOMAIN q = 1..Len(q) /\ Len(q) \in Nat /\ DOMAIN Q = 1..(Len(q) + 1)
      /\ \A p \in DOMAIN q : Q[p] = q[p]
      /\ Q[Len(q) + 1] = f
  BY RowsAppend
<1> HIDE DEF Q
<1> SUFFICES ASSUME NEW i \in DOMAIN Q, NEW j \in DOMAIN Q, i < j,
                    Q[i].from = s, Q[j].from = s, Q[i].conn = Q[j].conn
             PROVE  Rank(Q[i]) < Rank(Q[j])
  BY DEF Sorted, Q
<1>2. i \in DOMAIN q
  BY <1>1
<1>3. CASE j \in DOMAIN q
  BY <1>1, <1>2, <1>3 DEF Sorted
<1>4. CASE j = Len(q) + 1
  BY <1>1, <1>2, <1>4
<1> QED
  BY <1>1, <1>3, <1>4

\* What is lost at the end leaves the rest in order.
LEMMA SortedPrefix ==
    ASSUME NEW s, NEW A \in Seq(Frames), NEW B \in Seq(Frames), Sorted(A \o B, s)
    PROVE  Sorted(A, s)
<1> DEFINE Q == A \o B
<1>1. /\ DOMAIN A = 1..Len(A) /\ Len(A) \in Nat /\ Len(B) \in Nat
      /\ DOMAIN Q = 1..(Len(A) + Len(B))
      /\ \A p \in DOMAIN A : Q[p] = A[p]
  BY Rows
<1>2. Sorted(Q, s)
  OBVIOUS
<1> HIDE DEF Q
<1>3. \A p \in DOMAIN A : p \in DOMAIN Q
  BY <1>1
<1> QED
  BY <1>1, <1>2, <1>3 DEF Sorted

\* Frames of the peer in between do not disturb the order.
LEMMA SortedInsert ==
    ASSUME NEW s, NEW A \in Seq(Frames), NEW B \in Seq(Frames), NEW C \in Seq(Frames),
           Sorted(A \o C, s), \A p \in DOMAIN B : B[p].from # s
    PROVE  Sorted((A \o B) \o C, s)
<1> DEFINE Q == A \o C
           AB == A \o B
           R == AB \o C
           back(p) == IF p <= Len(A) THEN p ELSE p - Len(B)
<1>1. /\ A \o B \in Seq(Frames) /\ Len(A) \in Nat /\ Len(B) \in Nat /\ Len(C) \in Nat
      /\ DOMAIN A = 1..Len(A) /\ DOMAIN B = 1..Len(B) /\ DOMAIN C = 1..Len(C)
      /\ Len(A \o B) = Len(A) + Len(B)
      /\ DOMAIN AB = 1..(Len(A) + Len(B))
      /\ \A p \in DOMAIN A : AB[p] = A[p]
      /\ \A p \in DOMAIN AB : p \in DOMAIN A \/ (p - Len(A) \in DOMAIN B
                                           /\ AB[p] = B[p - Len(A)])
  BY Rows
<1>2. /\ DOMAIN Q = 1..(Len(A) + Len(C))
      /\ \A p \in DOMAIN A : Q[p] = A[p]
      /\ \A p \in DOMAIN C : Q[Len(A) + p] = C[p]
  BY Rows
<1>3. /\ DOMAIN R = 1..(Len(AB) + Len(C))
      /\ \A p \in DOMAIN AB : R[p] = AB[p]
      /\ \A p \in DOMAIN R : p \in DOMAIN AB \/ (p - Len(AB) \in DOMAIN C
                                           /\ R[p] = C[p - Len(AB)])
  BY <1>1, Rows
<1>4. Sorted(Q, s)
  OBVIOUS
<1>5. Len(AB) = Len(A) + Len(B)
  BY <1>1
<1> HIDE DEF Q, R, AB
<1>6. \A p \in DOMAIN R : R[p].from = s => back(p) \in DOMAIN Q /\ R[p] = Q[back(p)]
  <2> SUFFICES ASSUME NEW p \in DOMAIN R, R[p].from = s
               PROVE  back(p) \in DOMAIN Q /\ R[p] = Q[back(p)]
    OBVIOUS
  <2>1. CASE p \in DOMAIN A
    BY <2>1, <1>1, <1>2, <1>3
  <2>2. CASE p \notin DOMAIN A /\ p \in DOMAIN AB
    BY <2>2, <1>1, <1>3
  <2>3. CASE p \notin DOMAIN AB
    <3>1. p - Len(AB) \in DOMAIN C /\ R[p] = C[p - Len(AB)] /\ p \in Nat
      BY <2>3, <1>3, <1>1, <1>5
    <3>2. Len(A) + (p - Len(AB)) = p - Len(B) /\ p > Len(A)
      BY <3>1, <1>1, <1>5
    <3> QED
      BY <3>1, <3>2, <1>1, <1>2
  <2> QED
    BY <2>1, <2>2, <2>3
<1> SUFFICES ASSUME NEW i \in DOMAIN R, NEW j \in DOMAIN R, i < j,
                    R[i].from = s, R[j].from = s, R[i].conn = R[j].conn
             PROVE  Rank(R[i]) < Rank(R[j])
  BY DEF Sorted, R, AB
<1>7. /\ back(i) \in DOMAIN Q /\ back(j) \in DOMAIN Q
      /\ R[i] = Q[back(i)] /\ R[j] = Q[back(j)]
  BY <1>6
<1>8. back(i) < back(j)
  <2>1. CASE i \in DOMAIN A
    BY <2>1, <1>1, <1>3, <1>5, <1>7
  <2>2. CASE i \notin DOMAIN A
    BY <2>2, <1>1, <1>3, <1>5
  <2> QED
    BY <2>1, <2>2
<1> HIDE DEF back
<1> QED
  BY <1>4, <1>7, <1>8 DEF Sorted

\* What a concatenation carries.
LEMMA CarriesConcat ==
    ASSUME NEW A \in Seq(Frames), NEW B \in Seq(Frames), NEW s, NEW c, NEW k
    PROVE  Carries(A \o B, s, c, k) <=> Carries(A, s, c, k) \/ Carries(B, s, c, k)
<1> DEFINE Q == A \o B
<1>1. /\ DOMAIN A = 1..Len(A) /\ DOMAIN B = 1..Len(B) /\ Len(A) \in Nat /\ Len(B) \in Nat
      /\ DOMAIN Q = 1..(Len(A) + Len(B))
      /\ \A p \in DOMAIN A : Q[p] = A[p]
      /\ \A p \in DOMAIN B : Q[Len(A) + p] = B[p]
      /\ \A p \in DOMAIN Q : p \in DOMAIN A \/ (p - Len(A) \in DOMAIN B /\ Q[p] = B[p - Len(A)])
  BY Rows
<1> HIDE DEF Q
<1>2. Carries(Q, s, c, k) => Carries(A, s, c, k) \/ Carries(B, s, c, k)
  BY <1>1 DEF Carries
<1>3. Carries(A, s, c, k) => Carries(Q, s, c, k)
  BY <1>1 DEF Carries
<1>4. Carries(B, s, c, k) => Carries(Q, s, c, k)
  <2> SUFFICES ASSUME NEW p \in DOMAIN B, B[p] = Frame(s, c, "data", k)
               PROVE  Carries(Q, s, c, k)
    BY DEF Carries
  <2>1. Len(A) + p \in DOMAIN Q /\ Q[Len(A) + p] = Frame(s, c, "data", k)
    BY <1>1
  <2> QED
    BY <2>1 DEF Carries
<1> QED
  BY <1>2, <1>3, <1>4 DEF Q

\* What a sequence one longer carries.
LEMMA CarriesAppend ==
    ASSUME NEW q \in Seq(Frames), NEW f \in Frames, NEW s, NEW c, NEW k
    PROVE  Carries(Append(q, f), s, c, k) <=> Carries(q, s, c, k) \/ f = Frame(s, c, "data", k)
<1> DEFINE Q == Append(q, f)
<1>1. /\ DOMAIN q = 1..Len(q) /\ Len(q) \in Nat /\ DOMAIN Q = 1..(Len(q) + 1)
      /\ \A p \in DOMAIN q : Q[p] = q[p]
      /\ Q[Len(q) + 1] = f
  BY RowsAppend
<1> HIDE DEF Q
<1>2. \A p \in DOMAIN Q : p \in DOMAIN q \/ p = Len(q) + 1
  BY <1>1
<1>3. Len(q) + 1 \in DOMAIN Q /\ \A p \in DOMAIN q : p \in DOMAIN Q
  BY <1>1
<1>4. Carries(Q, s, c, k) => Carries(q, s, c, k) \/ f = Frame(s, c, "data", k)
  BY <1>1, <1>2 DEF Carries
<1>5. Carries(q, s, c, k) => Carries(Q, s, c, k)
  BY <1>1, <1>3 DEF Carries
<1>6. f = Frame(s, c, "data", k) => Carries(Q, s, c, k)
  BY <1>1, <1>3 DEF Carries
<1> QED
  BY <1>4, <1>5, <1>6 DEF Q

\* No row of the peer carries a chunk of s.
LEMMA CarriesNone ==
    ASSUME NEW B, NEW s, NEW c, NEW k, \A p \in DOMAIN B : B[p].from # s
    PROVE  ~Carries(B, s, c, k)
  BY DEF Carries, Frame

-----------------------------------------------------------------------------
(* Sides, batches and types.                                                   *)

\* There are two sides, each the other's peer.
LEMMA Sides == \A s \in Side : /\ Peer(s) \in Side /\ Peer(s) # s /\ Peer(Peer(s)) = s
                               /\ \A t \in Side : t = s \/ t = Peer(s)
  BY DEF Side, Peer

\* A batch has a first row.
LEMMA First ==
    ASSUME NEW S \in SUBSET Nat, S # {}
    PROVE  Min(S) \in S /\ \A p \in S : Min(S) <= p
<1> DEFINE R == {pq \in Nat \X Nat : pq[1] < pq[2]}
<1>1. R = OpToRel(<, Nat)
  BY DEF OpToRel
<1>2. IsWellFoundedOn(R, Nat)
  BY <1>1, NatLessThanWellFounded
<1>3. PICK x \in S : \A y \in S : <<y, x>> \notin R
  <2> HIDE DEF R
  <2> QED
    BY <1>2, WFMin
<1>4. ASSUME NEW y \in S PROVE x <= y
  <2>1. x \in Nat /\ y \in Nat /\ <<y, x>> \in Nat \X Nat
    OBVIOUS
  <2>2. ~(<<y, x>>[1] < <<y, x>>[2])
    BY <1>3, <2>1
  <2> QED
    BY <2>1, <2>2
<1> QED
  BY <1>4 DEF Min

\* The frame a relay is at is the first of its batch, a row of the log from its peer.
LEMMA CurrentRow ==
    ASSUME Types, Batches, NEW s \in Side, inbox[s] # {}
    PROVE  LET m == Min(inbox[s])
           IN  /\ m \in inbox[s] /\ \A p \in inbox[s] : m <= p
               /\ m \in DOMAIN log /\ m \in 1..cursor[s] /\ m \in Nat
               /\ Current(s) = log[m] /\ Current(s) \in Frames /\ Current(s).from = Peer(s)
<1>1. /\ inbox[s] \in SUBSET Nat /\ log \in Seq(Frames)
      /\ DOMAIN log = 1..Len(log) /\ Len(log) \in Nat
      /\ cursor[s] \in Nat /\ cursor[s] <= Len(log)
  BY DEF Types, MainTypes, Per, Batches
<1>2. /\ Min(inbox[s]) \in inbox[s]
      /\ \A p \in inbox[s] : Min(inbox[s]) <= p
  BY <1>1, First
<1>3. /\ Min(inbox[s]) \in 1..cursor[s]
      /\ log[Min(inbox[s])].from = Peer(s)
  BY <1>2 DEF Batches
<1> QED
  BY <1>1, <1>2, <1>3 DEF Current

\* Every variable keeps its type.
LEMMA TypesStep ==
    ASSUME Types, Batches, [Next]_vars
    PROVE  Types'
<1>0. /\ \A s \in Side, c \in Conn, kind \in {"open", "data", "close"}, k \in Nat :
             Frame(s, c, kind, k) \in Frames
      /\ \A q \in Seq(Nat) : q # <<>> => Head(q) \in Nat /\ Tail(q) \in Seq(Nat)
      /\ \A s \in Side : inbox[s] # {} => /\ Current(s).conn \in Conn
                                         /\ Current(s).chunk \in Nat
  <2>1. ASSUME NEW s \in Side, inbox[s] # {}
        PROVE  Current(s).conn \in Conn /\ Current(s).chunk \in Nat
    <3>1. Current(s) \in Frames
      BY <2>1, CurrentRow
    <3> QED
      BY <3>1 DEF Frames
  <2> QED
    BY <2>1 DEF Frames, Frame
<1> USE Sides DEF Types, MainTypes, ConnTypes, Per, PerConn, Running, relay, app, faults
<1>1. ASSUME NEW s \in Side, NEW c \in Conn, AppWrites(s, c) PROVE Types'
  BY <1>1 DEF AppWrites
<1>2. ASSUME NEW s \in Side, NEW c \in Conn, AppEnds(s, c) PROVE Types'
  BY <1>2 DEF AppEnds
<1>3. ASSUME NEW s \in Side, NEW c \in Conn, PumpRecv(s, c) PROVE Types'
  BY <1>3 DEF PumpRecv, PumpAt
<1>4. ASSUME NEW s \in Side, NEW c \in Conn, PumpData(s, c) PROVE Types'
  BY <1>0, <1>4 DEF PumpData, PumpAt, Enqueue
<1>5. ASSUME NEW s \in Side, NEW c \in Conn, PumpEof(s, c) PROVE Types'
  BY <1>5 DEF PumpEof, PumpAt
<1>6. ASSUME NEW s \in Side, NEW c \in Conn, PumpSendsClose(s, c) PROVE Types'
  BY <1>0, <1>6 DEF PumpSendsClose, PumpAt, Enqueue
<1>7. ASSUME NEW s \in Side, NEW c \in Conn, PumpShuts(s, c) PROVE Types'
  BY <1>7 DEF PumpShuts, PumpAt
<1>8. ASSUME NEW s \in Side, NEW c \in Conn, PumpPops(s, c) PROVE Types'
  BY <1>8 DEF PumpPops, PumpAt
<1>9. ASSUME NEW c \in Conn, Accept(c) PROVE Types'
  <2>1. "expose" \in Side /\ Frame("expose", c, "open", 0) \in Frames
    BY <1>0 DEF Side
  <2>2. MainTypes'
    BY <1>9, <2>1 DEF Accept, Enqueue
  <2>3. ConnTypes'
    BY <1>9, <2>1 DEF Accept
  <2> QED
    BY <2>2, <2>3
<1>10. ASSUME NEW s \in Side, Poll(s) PROVE Types'
  BY <1>10, BoundsAssumption DEF Poll, NewRows, LastRow
<1>11. ASSUME Dial PROVE Types'
  <2>1. "serve" \in Side /\ inbox["serve"] # {}
    BY <1>11 DEF Side, Dial, Handling
  <2>2. Current("serve").conn \in Conn
    BY <1>0, <2>1
  <2>3. MainTypes'
    BY <1>11, <2>1, <2>2 DEF Dial, Handled
  <2>4. ConnTypes'
    BY <1>11, <2>1, <2>2 DEF Dial, Handled
  <2> QED
    BY <2>3, <2>4
<1>12. ASSUME NEW s \in Side, Look(s) PROVE Types'
  <2>1. ConnTypes'
    BY <1>12 DEF Look
  <2>2. MainTypes'
    <3>1. CASE Current(s).conn \in conns[s]
      BY <1>12, <3>1 DEF Look
    <3>2. CASE Current(s).conn \notin conns[s]
      <4>1. Handled(s)
        BY <1>12, <3>2 DEF Look
      <4>2. inbox[s] \ {Min(inbox[s])} \in SUBSET Nat
        OBVIOUS
      <4>3. pc' \in Per({"poll", "handle", "use", "dead"}) /\ inbox' \in Per(SUBSET Nat)
        BY <4>1, <4>2 DEF Handled
      <4> QED
        BY <1>12, <4>1, <4>3 DEF Look, Handled
    <3> QED
      BY <3>1, <3>2
  <2> QED
    BY <2>1, <2>2
<1>13. ASSUME NEW s \in Side, Deliver(s) PROVE Types'
  <2>1. inbox[s] # {}
    BY <1>13 DEF Deliver, Batches
  <2>2. Current(s).conn \in Conn /\ Current(s).chunk \in Nat
    BY <1>0, <2>1
  <2>3. CASE DeliverData(s, Current(s))
    BY <1>13, <2>2, <2>3 DEF Deliver, DeliverData, Handled
  <2>4. CASE DeliverClose(s, Current(s))
    BY <1>13, <2>2, <2>4 DEF Deliver, DeliverClose, Handled
  <2> QED
    BY <1>13, <2>3, <2>4 DEF Deliver
<1>14. ASSUME NEW s \in Side, Exits(s), deaths' \in Nat PROVE Types'
  BY <1>14 DEF Exits, Connected
<1>15. ASSUME NEW s \in Side, LookupFails(s) PROVE Types'
  BY <1>14, <1>15 DEF LookupFails
<1>16. ASSUME NEW s \in Side, RequestFails(s) PROVE Types'
  BY <1>14, <1>16 DEF RequestFails
<1>17. ASSUME NEW s \in Side, Flush(s) PROVE Types'
  BY <1>17 DEF Flush
<1>18. ASSUME NEW s \in Side, Restart(s) PROVE Types'
  BY <1>18 DEF Restart
<1>19. CASE UNCHANGED vars
  BY <1>19 DEF vars
<1> QED
  BY <1>1, <1>2, <1>3, <1>4, <1>5, <1>6, <1>7, <1>8, <1>9, <1>10, <1>11, <1>12, <1>13,
     <1>15, <1>16, <1>17, <1>18, <1>19 DEF Next, Main, Pump

-----------------------------------------------------------------------------
(* Batches and threads.                                                        *)

\* Applications, pumps and the accept loop leave the log and the main threads alone.
LEMMA QuietSteps ==
    ASSUME NEW s \in Side, NEW c \in Conn,
           AppWrites(s, c) \/ AppEnds(s, c) \/ Pump(s, c) \/ Accept(c)
    PROVE  UNCHANGED <<log, pc, cursor, inbox, faults>>
  BY DEF AppWrites, AppEnds, Pump, PumpRecv, PumpData, PumpEof, PumpSendsClose, PumpShuts,
         PumpPops, PumpAt, Enqueue, Accept, relay, faults

\* The log only grows.
LEMMA LogGrows ==
    ASSUME Types, [Next]_vars
    PROVE  /\ Len(log) <= Len(log')
           /\ DOMAIN log = 1..Len(log) /\ DOMAIN log' = 1..Len(log')
           /\ \A p \in DOMAIN log : p \in DOMAIN log' /\ log'[p] = log[p]
<1>1. log \in Seq(Frames) /\ DOMAIN log = 1..Len(log) /\ Len(log) \in Nat
  BY DEF Types, MainTypes
<1>2. ASSUME NEW s \in Side, Flush(s)
      PROVE  /\ Len(log) <= Len(log') /\ DOMAIN log' = 1..Len(log')
             /\ \A p \in DOMAIN log : p \in DOMAIN log' /\ log'[p] = log[p]
  <2>1. outbox[s] \in Seq(Frames) /\ log' = log \o outbox[s] /\ Len(outbox[s]) \in Nat
    BY <1>2 DEF Types, MainTypes, Per, Flush
  <2>2. /\ Len(log \o outbox[s]) = Len(log) + Len(outbox[s])
        /\ DOMAIN (log \o outbox[s]) = 1..(Len(log) + Len(outbox[s]))
        /\ \A p \in DOMAIN log : (log \o outbox[s])[p] = log[p]
    BY <1>1, <2>1, Rows
  <2> QED
    BY <1>1, <2>1, <2>2
<1>3. ASSUME ~\E s \in Side : Flush(s)
      PROVE  log' = log
  <2>1. CASE \E s \in Side, c \in Conn : AppWrites(s, c) \/ AppEnds(s, c) \/ Pump(s, c)
    BY <2>1, QuietSteps
  <2>2. CASE \E c \in Conn : Accept(c)
    BY <2>2, QuietSteps DEF Side
  <2>3. CASE \E s \in Side : Main(s) \/ RequestFails(s) \/ Restart(s)
    BY <1>3, <2>3 DEF Main, Poll, Dial, Look, Handled, Deliver, LookupFails, RequestFails,
                      Exits, Restart
  <2> QED
    BY <2>1, <2>2, <2>3 DEF Next, vars
<1> QED
  BY <1>1, <1>2, <1>3

\* Handling a frame takes the first row off the batch and leaves the others.
LEMMA HandledRow ==
    ASSUME Types, Batches, NEW s \in Side, inbox[s] # {}, Handled(s)
    PROVE  /\ inbox'[s] = inbox[s] \ {Min(inbox[s])}
           /\ cursor' = cursor /\ log' = log /\ outbox' = outbox
           /\ UNCHANGED faults
           /\ pc'[s] = "handle"
           /\ \A t \in Side : t # s => inbox'[t] = inbox[t] /\ pc'[t] = pc[t]
           /\ \A p \in DOMAIN log : \A t \in Side :
                 Past(t, p)' <=> Past(t, p) \/ (t = s /\ p = Min(inbox[s]))
           /\ Batches'
<1> DEFINE m == Min(inbox[s])
<1>1. /\ inbox \in [Side -> SUBSET Nat] /\ cursor \in [Side -> Nat]
      /\ pc \in [Side -> {"poll", "handle", "use", "dead"}]
  BY DEF Types, MainTypes, Per
<1>2. /\ m \in inbox[s] /\ m \in Nat /\ m <= cursor[s]
      /\ \A p \in inbox[s] : m <= p
  BY CurrentRow, <1>1
<1>3. /\ inbox'[s] = inbox[s] \ {m} /\ pc'[s] = "handle"
      /\ cursor' = cursor /\ log' = log /\ outbox' = outbox /\ UNCHANGED faults
      /\ \A t \in Side : t # s => inbox'[t] = inbox[t] /\ pc'[t] = pc[t]
  BY <1>1 DEF Handled
<1> HIDE DEF m
<1>4. Batches'
  <2> SUFFICES ASSUME NEW t \in Side
               PROVE  /\ cursor[t] <= Len(log)
                      /\ \A p \in inbox'[t] : p \in 1..cursor[t] /\ log[p].from = Peer(t)
                      /\ \A p \in inbox'[t] : \A q \in p..cursor[t] :
                             log[q].from = Peer(t) => q \in inbox'[t]
                      /\ pc'[t] = "use" => /\ inbox'[t] # {}
                                           /\ log[Min(inbox'[t])].kind \in {"data", "close"}
                      /\ pc'[t] \in {"poll", "dead"} => inbox'[t] = {}
    BY <1>3 DEF Batches, Current
  <2>1. CASE t # s
    BY <2>1, <1>3 DEF Batches, Current
  <2>2. CASE t = s
    <3>1. \A p \in inbox[s] \ {m} : \A q \in p..cursor[s] : q # m
      BY <1>1, <1>2
    <3>2. /\ cursor[s] <= Len(log)
          /\ \A p \in inbox[s] : p \in 1..cursor[s] /\ log[p].from = Peer(s)
          /\ \A p \in inbox[s] : \A q \in p..cursor[s] : log[q].from = Peer(s) => q \in inbox[s]
      BY DEF Batches
    <3> QED
      BY <2>2, <3>1, <3>2, <1>3
  <2> QED
    BY <2>1, <2>2
<1>5. \A p \in DOMAIN log : \A t \in Side : Past(t, p)' <=> Past(t, p) \/ (t = s /\ p = m)
  BY <1>1, <1>2, <1>3 DEF Past
<1> QED
  BY <1>3, <1>4, <1>5 DEF m

\* Batches stay what the log holds.
LEMMA BatchesStep ==
    ASSUME Types, Batches, [Next]_vars
    PROVE  Batches'
<1>0. /\ log \in Seq(Frames) /\ Len(log) \in Nat /\ DOMAIN log = 1..Len(log)
      /\ inbox \in [Side -> SUBSET Nat] /\ cursor \in [Side -> Nat]
      /\ pc \in [Side -> {"poll", "handle", "use", "dead"}]
  BY DEF Types, MainTypes, Per
<1>1. ASSUME UNCHANGED <<log, pc, cursor, inbox>> PROVE Batches'
  BY <1>1 DEF Batches, Current
<1>2. ASSUME NEW s \in Side, Poll(s) PROVE Batches'
  <2>1. /\ cursor' = [cursor EXCEPT ![s] = LastRow]
        /\ inbox' = [inbox EXCEPT ![s] = NewRows(s)]
        /\ pc' = [pc EXCEPT ![s] = "handle"] /\ log' = log
    BY <1>2 DEF Poll
  <2> SUFFICES ASSUME NEW t \in Side
               PROVE  /\ cursor'[t] <= Len(log) /\ cursor'[t] <= Limit
                      /\ \A p \in inbox'[t] : p \in 1..cursor'[t] /\ log[p].from = Peer(t)
                      /\ \A p \in inbox'[t] : \A q \in p..cursor'[t] :
                             log[q].from = Peer(t) => q \in inbox'[t]
                      /\ pc'[t] = "use" => /\ inbox'[t] # {}
                                           /\ log[Min(inbox'[t])].kind \in {"data", "close"}
                      /\ pc'[t] \in {"poll", "dead"} => inbox'[t] = {}
    BY <2>1 DEF Batches, Current
  <2>2. CASE t = s
    <3>1. cursor'[s] = LastRow /\ inbox'[s] = NewRows(s) /\ pc'[s] = "handle"
      BY <1>0, <2>1
    <3>2. LastRow \in Nat /\ LastRow <= Len(log) /\ LastRow <= Limit
      BY <1>0, BoundsAssumption DEF LastRow
    <3> QED
      BY <1>0, <2>2, <3>1, <3>2 DEF NewRows
  <2>3. CASE t # s
    <3>1. cursor'[t] = cursor[t] /\ inbox'[t] = inbox[t] /\ pc'[t] = pc[t]
      BY <1>0, <2>1, <2>3
    <3> QED
      BY <3>1 DEF Batches, Current
  <2> QED
    BY <2>2, <2>3
<1>3. ASSUME Dial PROVE Batches'
  BY <1>3, HandledRow DEF Dial, Handling, Side
<1>4. ASSUME NEW s \in Side, Look(s) PROVE Batches'
  <2>1. CASE Current(s).conn \in conns[s]
    BY <1>0, <1>4, <2>1 DEF Look, Handling, Batches, Current
  <2>2. CASE Current(s).conn \notin conns[s]
    BY <1>4, <2>2, HandledRow DEF Look, Handling
  <2> QED
    BY <2>1, <2>2
<1>5. ASSUME NEW s \in Side, Deliver(s) PROVE Batches'
  BY <1>5, HandledRow DEF Deliver, Batches
<1>6. ASSUME NEW s \in Side, Exits(s) PROVE Batches'
  <2>1. log' = log /\ cursor'[s] = 0 /\ inbox'[s] = {} /\ pc'[s] = "dead"
    BY <1>0, <1>6 DEF Exits
  <2>2. 0 <= Len(log) /\ 0 <= Limit
    BY <1>0, BoundsAssumption
  <2>3. \A t \in Side \ {s} : cursor'[t] = cursor[t] /\ inbox'[t] = inbox[t] /\ pc'[t] = pc[t]
    BY <1>0, <1>6 DEF Exits
  <2> QED
    BY <2>1, <2>2, <2>3 DEF Batches, Current
<1>7. ASSUME NEW s \in Side, Flush(s) PROVE Batches'
  <2>1. /\ UNCHANGED <<cursor, inbox>> /\ pc' = [pc EXCEPT ![s] = "poll"]
    BY <1>7 DEF Flush
  <2>2. Len(log) <= Len(log') /\ \A p \in DOMAIN log : log'[p] = log[p]
    BY <1>7, LogGrows DEF Next, Main
  <2> SUFFICES ASSUME NEW t \in Side
               PROVE  /\ cursor[t] <= Len(log')
                      /\ \A p \in inbox[t] : p \in 1..cursor[t] /\ log'[p].from = Peer(t)
                      /\ \A p \in inbox[t] : \A q \in p..cursor[t] :
                             log'[q].from = Peer(t) => q \in inbox[t]
                      /\ pc'[t] = "use" => /\ inbox[t] # {}
                                           /\ log'[Min(inbox[t])].kind \in {"data", "close"}
                      /\ pc'[t] \in {"poll", "dead"} => inbox[t] = {}
    BY <2>1 DEF Batches, Current
  <2>3. \A p \in 1..cursor[t] : log'[p] = log[p]
    BY <1>0, <2>2 DEF Batches
  <2>4. Len(log') \in Nat
    BY TypesStep, <1>7 DEF Types, MainTypes
  <2>5. /\ pc'[t] = "use" => pc[t] = "use"
        /\ pc'[t] \in {"poll", "dead"} => pc[t] \in {"poll", "dead"} \/ inbox[t] = {}
    BY <1>0, <1>7, <2>1 DEF Flush
  <2>6. inbox[t] # {} => log'[Min(inbox[t])] = log[Min(inbox[t])]
    BY <2>2, CurrentRow
  <2> QED
    BY <1>0, <2>2, <2>3, <2>4, <2>5, <2>6 DEF Batches, Current
<1>8. ASSUME NEW s \in Side, Restart(s) PROVE Batches'
  BY <1>0, <1>8 DEF Restart, Alive, Batches, Current
<1> QED
  BY <1>1, <1>2, <1>3, <1>4, <1>5, <1>6, <1>7, <1>8, QuietSteps
     DEF Next, Main, LookupFails, RequestFails, vars, relay, Side

\* Threads and connections stay in step.
LEMMA ThreadsStep ==
    ASSUME Types, Batches, Threads, [Next]_vars
    PROVE  Threads'
<1> USE DEF Running, Connected, Alive
<1>0. /\ pc \in [Side -> {"poll", "handle", "use", "dead"}] /\ conns \in [Side -> SUBSET Conn]
      /\ pump \in [Side -> [Conn -> Running \cup {"none", "done"}]]
      /\ fd \in [Side -> [Conn -> BOOLEAN]] /\ ended \in [Side -> [Conn -> BOOLEAN]]
      /\ unread \in [Side -> [Conn -> Seq(Nat)]] /\ wrote \in [Side -> [Conn -> Nat]]
      /\ got \in [Side -> [Conn -> Seq(Nat)]]
  BY DEF Types, MainTypes, ConnTypes, Per, PerConn
<1>1. ASSUME NEW s \in Side, NEW c \in Conn, AppWrites(s, c) PROVE Threads'
  BY <1>0, <1>1 DEF AppWrites, Threads, relay
<1>2. ASSUME NEW s \in Side, NEW c \in Conn, AppEnds(s, c) PROVE Threads'
  BY <1>0, <1>2 DEF AppEnds, Threads, relay
<1>3. ASSUME NEW s \in Side, NEW c \in Conn, NEW from \in Running, NEW to,
             PumpAt(s, c, from, to), pc' = pc,
             \/ to \in Running /\ conns' = conns
             \/ to = "done" /\ conns' = [conns EXCEPT ![s] = conns[s] \ {c}],
             \A t \in Side, d \in Conn : t # s \/ d # c =>
                 /\ fd'[t][d] = fd[t][d] /\ ended'[t][d] = ended[t][d]
                 /\ wrote'[t][d] = wrote[t][d] /\ unread'[t][d] = unread[t][d]
                 /\ got'[t][d] = got[t][d]
      PROVE Threads'
  <2>1. /\ pump'[s][c] = to /\ pump[s][c] \in Running /\ to # "none"
        /\ \A t \in Side, d \in Conn : t # s \/ d # c => pump'[t][d] = pump[t][d]
    BY <1>0, <1>3 DEF PumpAt
  <2>2. /\ pc[s] # "dead" /\ \A t \in Side : conns'[t] \subseteq conns[t]
        /\ to = "done" => c \notin conns'[s]
    <3>1. pc[s] # "dead"
      BY <1>0, <2>1 DEF Threads
    <3>2. CASE conns' = conns /\ to \in Running
      BY <3>1, <3>2
    <3>3. CASE conns' = [conns EXCEPT ![s] = conns[s] \ {c}]
      BY <1>0, <3>1, <3>3
    <3> QED
      BY <1>3, <3>2, <3>3
  <2> QED
    BY <1>3, <2>1, <2>2 DEF Threads
<1>4. ASSUME NEW s \in Side, NEW c \in Conn,
             PumpRecv(s, c) \/ PumpEof(s, c) \/ PumpSendsClose(s, c) \/ PumpPops(s, c)
      PROVE Threads'
  BY <1>3, <1>4 DEF PumpRecv, PumpEof, PumpSendsClose, PumpPops, Enqueue, relay, app
<1>5. ASSUME NEW s \in Side, NEW c \in Conn, PumpData(s, c) PROVE Threads'
  <2>1. \A t \in Side, d \in Conn : t # s \/ d # c => unread'[t][d] = unread[t][d]
    BY <1>0, <1>5 DEF PumpData
  <2> QED
    BY <1>3, <1>5, <2>1 DEF PumpData, Enqueue
<1>6. ASSUME NEW s \in Side, NEW c \in Conn, PumpShuts(s, c) PROVE Threads'
  <2>1. \A t \in Side, d \in Conn : t # s \/ d # c => fd'[t][d] = fd[t][d]
    BY <1>0, <1>6 DEF PumpShuts
  <2> QED
    BY <1>3, <1>6, <2>1 DEF PumpShuts, relay, app
<1>7. ASSUME NEW c \in Conn, Accept(c) PROVE Threads'
  BY <1>0, <1>7 DEF Accept, Enqueue, Threads, app, Side
<1>8. ASSUME NEW s \in Side, Poll(s) PROVE Threads'
  BY <1>0, <1>8 DEF Poll, Threads, app
<1>9. ASSUME Dial PROVE Threads'
  <2>1. "serve" \in Side /\ inbox["serve"] # {} /\ pc'["serve"] = "handle"
    BY <1>0, <1>9 DEF Side, Dial, Handling, Handled
  <2>2. Current("serve").conn \in Conn
    BY <2>1, CurrentRow DEF Frames
  <2>3. \A t \in Side : t # "serve" => pc'[t] = pc[t]
    BY <1>0, <1>9 DEF Dial, Handled
  <2> DEFINE c == Current("serve").conn
  <2>4. /\ pump'["serve"][c] = "top" /\ conns'["serve"] = conns["serve"] \cup {c}
        /\ \A t \in Side : t # "serve" => conns'[t] = conns[t]
        /\ \A t \in Side, d \in Conn : t # "serve" \/ d # c => pump'[t][d] = pump[t][d]
    BY <1>0, <1>9, <2>1, <2>2 DEF Dial
  <2>5. \A t \in Side, d \in Conn : t # "serve" \/ d # c =>
           /\ fd'[t][d] = fd[t][d] /\ ended'[t][d] = ended[t][d]
           /\ wrote'[t][d] = wrote[t][d] /\ unread'[t][d] = unread[t][d]
           /\ got'[t][d] = got[t][d]
    BY <1>0, <1>9, <2>1, <2>2 DEF Dial
  <2> HIDE DEF c
  <2> QED
    BY <2>1, <2>3, <2>4, <2>5 DEF Threads
<1>10. ASSUME NEW s \in Side, Look(s) PROVE Threads'
  <2>1. UNCHANGED <<conns, pump, fd, app>> /\ \A t \in Side : pc'[t] = "dead" => pc[t] = "dead"
    BY <1>0, <1>10 DEF Look, Handled
  <2> QED
    BY <2>1 DEF Threads, app
<1>11. ASSUME NEW s \in Side, Deliver(s) PROVE Threads'
  <2>1. /\ Current(s).conn \in Conn /\ Current(s).conn \in conns[s]
        /\ pump[s][Current(s).conn] # "none"
        /\ \A t \in Side : pc'[t] = "dead" => pc[t] = "dead"
    BY <1>0, <1>11 DEF Deliver, Handled, Threads
  <2>2. CASE DeliverData(s, Current(s))
    BY <1>0, <1>11, <2>1, <2>2 DEF Deliver, DeliverData, Threads
  <2>3. CASE DeliverClose(s, Current(s))
    BY <1>0, <1>11, <2>1, <2>3 DEF Deliver, DeliverClose, Threads
  <2> QED
    BY <1>11, <2>2, <2>3 DEF Deliver
<1>12. ASSUME NEW s \in Side, Exits(s) PROVE Threads'
  BY <1>0, <1>12 DEF Exits, Threads, app
<1>13. ASSUME NEW s \in Side, Flush(s) PROVE Threads'
  BY <1>0, <1>13 DEF Flush, Threads, app
<1>14. ASSUME NEW s \in Side, Restart(s) PROVE Threads'
  BY <1>0, <1>14 DEF Restart, Threads, app
<1>15. CASE UNCHANGED vars
  BY <1>15 DEF vars, relay, app, Threads
<1> QED
  BY <1>1, <1>2, <1>3, <1>4, <1>5, <1>6, <1>7, <1>8, <1>9, <1>10, <1>11, <1>12, <1>13,
     <1>14, <1>15 DEF Next, Main, Pump, LookupFails, RequestFails

\* What an application has written and not yet had read follows what was read.
LEMMA ChunksStep ==
    ASSUME Types, Batches, Chunks, [Next]_vars
    PROVE  Chunks'
<1>0. /\ unread \in [Side -> [Conn -> Seq(Nat)]] /\ wrote \in [Side -> [Conn -> Nat]]
      /\ MaxChunks \in Nat
  BY BoundsAssumption DEF Types, ConnTypes, PerConn
<1>1. ASSUME UNCHANGED <<unread, wrote>> PROVE Chunks'
  BY <1>1 DEF Chunks, Sent
<1>2. ASSUME NEW s \in Side, NEW c \in Conn, AppWrites(s, c) PROVE Chunks'
  <2>1. /\ wrote[s][c] < MaxChunks
        /\ wrote' = [wrote EXCEPT ![s][c] = wrote[s][c] + 1]
        /\ unread' = [unread EXCEPT ![s][c] = Append(unread[s][c], wrote[s][c] + 1)]
    BY <1>2 DEF AppWrites
  <2>2. /\ wrote'[s][c] = wrote[s][c] + 1
        /\ unread'[s][c] = Append(unread[s][c], wrote[s][c] + 1)
        /\ \A t \in Side, d \in Conn : t # s \/ d # c =>
               wrote'[t][d] = wrote[t][d] /\ unread'[t][d] = unread[t][d]
    BY <1>0, <2>1
  <2>3. /\ unread[s][c] \in Seq(Nat) /\ wrote[s][c] \in Nat
        /\ Len(unread[s][c]) <= wrote[s][c]
        /\ \A k \in DOMAIN unread[s][c] : unread[s][c][k] = Sent(s, c) + k
    BY <1>0 DEF Chunks
  <2>4. \A k \in DOMAIN unread'[s][c] : unread'[s][c][k] = Sent(s, c) + k
    <3>1. /\ DOMAIN unread[s][c] = 1..Len(unread[s][c]) /\ Len(unread[s][c]) \in Nat
          /\ DOMAIN unread'[s][c] = 1..(Len(unread[s][c]) + 1)
          /\ \A p \in DOMAIN unread[s][c] : unread'[s][c][p] = unread[s][c][p]
          /\ unread'[s][c][Len(unread[s][c]) + 1] = wrote[s][c] + 1
      BY <2>2, <2>3, RowsAppend
    <3>2. Sent(s, c) = wrote[s][c] - Len(unread[s][c])
      BY DEF Sent
    <3> TAKE k \in DOMAIN unread'[s][c]
    <3>3. CASE k \in DOMAIN unread[s][c]
      BY <2>3, <3>1, <3>3
    <3>4. CASE k = Len(unread[s][c]) + 1
      BY <2>3, <3>1, <3>2, <3>4
    <3> QED
      BY <3>1, <3>3, <3>4
  <2>5. Sent(s, c)' = Sent(s, c) /\ Len(unread'[s][c]) = Len(unread[s][c]) + 1
    <3>1. Len(unread'[s][c]) = Len(unread[s][c]) + 1 /\ Len(unread[s][c]) \in Nat
      BY <2>2, <2>3, RowsAppend
    <3> QED
      BY <2>2, <2>3, <3>1 DEF Sent
  <2>6. ASSUME NEW t \in Side, NEW d \in Conn, t # s \/ d # c
        PROVE  /\ wrote'[t][d] = wrote[t][d] /\ unread'[t][d] = unread[t][d]
               /\ Sent(t, d)' = Sent(t, d)
    BY <2>2, <2>6 DEF Sent
  <2>7. /\ wrote'[s][c] <= MaxChunks /\ Len(unread'[s][c]) <= wrote'[s][c]
        /\ \A k \in DOMAIN unread'[s][c] : unread'[s][c][k] = Sent(s, c)' + k
    BY <1>0, <2>1, <2>2, <2>3, <2>4, <2>5
  <2> QED
    BY <2>6, <2>7 DEF Chunks
<1>3. ASSUME NEW s \in Side, NEW c \in Conn, PumpData(s, c) PROVE Chunks'
  <2>1. /\ unread[s][c] # <<>> /\ wrote' = wrote
        /\ unread' = [unread EXCEPT ![s][c] = Tail(unread[s][c])]
    BY <1>3 DEF PumpData
  <2>2. /\ unread'[s][c] = Tail(unread[s][c])
        /\ \A t \in Side, d \in Conn : t # s \/ d # c => unread'[t][d] = unread[t][d]
    BY <1>0, <2>1
  <2>3. /\ unread[s][c] \in Seq(Nat) /\ wrote[s][c] \in Nat
        /\ Len(unread[s][c]) <= wrote[s][c]
        /\ \A k \in DOMAIN unread[s][c] : unread[s][c][k] = Sent(s, c) + k
    BY <1>0 DEF Chunks
  <2>4. /\ Len(unread[s][c]) \in Nat /\ DOMAIN unread[s][c] = 1..Len(unread[s][c])
        /\ Len(unread'[s][c]) = Len(unread[s][c]) - 1
        /\ DOMAIN unread'[s][c] = 1..(Len(unread[s][c]) - 1)
        /\ \A k \in DOMAIN unread'[s][c] : unread'[s][c][k] = unread[s][c][k + 1]
    <3> DEFINE q == unread[s][c]
    <3>1. q \in Seq(Nat) /\ q # <<>> /\ unread'[s][c] = Tail(q)
      BY <2>1, <2>2, <2>3
    <3> HIDE DEF q
    <3>2. /\ DOMAIN q = 1..Len(q) /\ Len(q) \in Nat
          /\ Len(Tail(q)) = Len(q) - 1 /\ DOMAIN Tail(q) = 1..(Len(q) - 1)
          /\ \A p \in DOMAIN Tail(q) : Tail(q)[p] = q[p + 1]
      BY <3>1, RowsTail
    <3>3. unread[s][c] = q
      BY DEF q
    <3> QED
      BY <3>1, <3>2, <3>3
  <2>5. Sent(s, c)' = Sent(s, c) + 1 /\ Sent(s, c) \in Nat
    BY <2>1, <2>3, <2>4 DEF Sent
  <2>6. \A k \in DOMAIN unread'[s][c] : unread'[s][c][k] = Sent(s, c)' + k
    <3> TAKE k \in DOMAIN unread'[s][c]
    <3>1. k \in Nat /\ k + 1 \in DOMAIN unread[s][c]
      BY <2>4
    <3>2. unread[s][c][k + 1] = Sent(s, c) + (k + 1)
      BY <2>3, <3>1
    <3>3. Sent(s, c) + (k + 1) = (Sent(s, c) + 1) + k
      BY <2>5, <3>1
    <3>4. unread'[s][c][k] = unread[s][c][k + 1]
      BY <2>4
    <3> QED
      BY <2>5, <3>2, <3>3, <3>4
  <2>7. Len(unread'[s][c]) <= wrote'[s][c]
    BY <2>1, <2>3, <2>4
  <2>8. ASSUME NEW t \in Side, NEW d \in Conn, t # s \/ d # c
        PROVE  /\ wrote'[t][d] = wrote[t][d] /\ unread'[t][d] = unread[t][d]
               /\ Sent(t, d)' = Sent(t, d)
    BY <2>1, <2>2, <2>8 DEF Sent
  <2> QED
    BY <2>1, <2>6, <2>7, <2>8 DEF Chunks
<1>4. ASSUME Dial PROVE Chunks'
  BY <1>0, <1>4 DEF Dial, Chunks, Sent
<1> QED
  BY <1>1, <1>2, <1>3, <1>4
     DEF Next, Main, Pump, AppEnds, PumpRecv, PumpEof, PumpSendsClose, PumpShuts, PumpPops,
         Accept, Poll, Look, Deliver, LookupFails, RequestFails, Exits, Flush, Restart, app, vars

\* A relay's outbox holds its own frames.
LEMMA OutboxStep ==
    ASSUME Types, OutboxIsOwn, [Next]_vars
    PROVE  OutboxIsOwn'
<1>0. outbox \in [Side -> Seq(Frames)] /\ unread \in [Side -> [Conn -> Seq(Nat)]]
  BY DEF Types, MainTypes, ConnTypes, Per, PerConn
<1>1. ASSUME UNCHANGED outbox PROVE OutboxIsOwn'
  BY <1>1 DEF OutboxIsOwn
<1>2. ASSUME NEW s \in Side, NEW f \in Frames, f.from = s, Enqueue(s, f) PROVE OutboxIsOwn'
  <2>1. outbox' = [outbox EXCEPT ![s] = Append(outbox[s], f)] /\ outbox[s] \in Seq(Frames)
    BY <1>0, <1>2 DEF Enqueue
  <2>2. /\ outbox'[s] = Append(outbox[s], f)
        /\ \A t \in Side : t # s => outbox'[t] = outbox[t]
    BY <1>0, <2>1
  <2>3. /\ DOMAIN outbox[s] = 1..Len(outbox[s]) /\ Len(outbox[s]) \in Nat
        /\ DOMAIN outbox'[s] = 1..(Len(outbox[s]) + 1)
        /\ \A p \in DOMAIN outbox[s] : outbox'[s][p] = outbox[s][p]
        /\ outbox'[s][Len(outbox[s]) + 1] = f
    BY <2>1, <2>2, RowsAppend
  <2>4. \A p \in DOMAIN outbox'[s] : outbox'[s][p].from = s
    BY <1>2, <2>3 DEF OutboxIsOwn
  <2> QED
    BY <2>2, <2>4 DEF OutboxIsOwn
<1>3. ASSUME NEW s \in Side, outbox' = [outbox EXCEPT ![s] = <<>>] PROVE OutboxIsOwn'
  BY <1>0, <1>3 DEF OutboxIsOwn
<1>4. ASSUME NEW s \in Side, NEW c \in Conn, PumpData(s, c) PROVE OutboxIsOwn'
  <2>1. Head(unread[s][c]) \in Nat
    BY <1>0, <1>4 DEF PumpData
  <2> QED
    BY <1>2, <1>4, <2>1 DEF PumpData, Frame, Frames
<1>5. ASSUME NEW s \in Side, NEW c \in Conn, PumpSendsClose(s, c) PROVE OutboxIsOwn'
  BY <1>2, <1>5 DEF PumpSendsClose, Frame, Frames
<1>6. ASSUME NEW c \in Conn, Accept(c) PROVE OutboxIsOwn'
  BY <1>2, <1>6 DEF Accept, Frame, Frames, Side
<1>7. ASSUME NEW s \in Side, Flush(s) \/ Exits(s) PROVE OutboxIsOwn'
  BY <1>3, <1>7 DEF Flush, Exits
<1> QED
  BY <1>1, <1>4, <1>5, <1>6, <1>7
     DEF Next, Main, Pump, AppWrites, AppEnds, PumpRecv, PumpEof, PumpShuts, PumpPops,
         Poll, Dial, Look, Handled, Deliver, LookupFails, RequestFails, Restart, relay, vars

-----------------------------------------------------------------------------
(* Streams.                                                                    *)

Gone == {"shut", "pop", "done"}

\* The pump of c went on by a step of its own, or nothing happened to it.
PumpGoesOn(s, c) == /\ Connected(s, c) => Connected(s, c)'
                    /\ pump[s][c] \in Gone => pump'[s][c] \in Gone
                    /\ Whole(s, c)' => Whole(s, c) \/ Sent(s, c)' = 0

\* Both parts of a stream are sequences of frames.
LEMMA StreamTypes ==
    ASSUME Types, NEW s \in Side
    PROVE  log \in Seq(Frames) /\ outbox[s] \in Seq(Frames) /\ Stream(s) \in Seq(Frames)
<1>1. log \in Seq(Frames) /\ outbox[s] \in Seq(Frames)
  BY DEF Types, MainTypes, Per
<1> QED
  BY <1>1, Rows DEF Stream

\* A stream that carries the same frames of s in order, as pumps go on, stays well-formed.
LEMMA StreamKept ==
    ASSUME NEW s \in Side, StreamOK(s),
           \A p \in DOMAIN Stream(s)' : Stream(s)'[p].from = s =>
               \E q \in DOMAIN Stream(s) : Stream(s)[q] = Stream(s)'[p],
           \A p \in DOMAIN Stream(s) : Stream(s)[p].conn \in Conn,
           Sorted(Stream(s)', s),
           \A c \in Conn, k \in Nat : Carries(Stream(s)', s, c, k) <=> Carries(Stream(s), s, c, k),
           \A c \in Conn : PumpGoesOn(s, c) /\ Sent(s, c)' = Sent(s, c)
                           /\ Sent(s, c) \in Nat
    PROVE  StreamOK(s)'
<1>1. ASSUME NEW p \in DOMAIN Stream(s)', Stream(s)'[p].from = s
      PROVE  OwnFrame(s, Stream(s)[p])'
  <2>1. PICK f : f = Stream(s)'[p]
    OBVIOUS
  <2>2. PICK q \in DOMAIN Stream(s) : Stream(s)[q] = f
    BY <1>1, <2>1
  <2>3. OwnFrame(s, f) /\ f.conn \in Conn
    BY <1>1, <2>1, <2>2 DEF StreamOK
  <2>4. /\ Connected(s, f.conn) => Connected(s, f.conn)'
        /\ pump[s][f.conn] \in Gone => pump'[s][f.conn] \in Gone
        /\ Sent(s, f.conn)' = Sent(s, f.conn)
    BY <2>3 DEF PumpGoesOn
  <2>5. OwnFrame(s, f)'
    BY <2>3, <2>4 DEF OwnFrame, Gone
  <2> QED
    BY <2>1, <2>5 DEF OwnFrame
<1>2. NoGaps(Stream(s)', s)
  <2> SUFFICES ASSUME NEW c \in Conn, NEW k \in Nat, Carries(Stream(s)', s, c, k), NEW j \in 1..k
               PROVE  Carries(Stream(s)', s, c, j)
    BY DEF NoGaps
  <2>1. j \in Nat /\ Carries(Stream(s), s, c, k)
    OBVIOUS
  <2>2. Carries(Stream(s), s, c, j)
    BY <2>1 DEF StreamOK, NoGaps
  <2> QED
    BY <2>1, <2>2
<1>3. ASSUME NEW c \in Conn, Whole(s, c)', NEW k \in 1..Sent(s, c)'
      PROVE  Carries(Stream(s)', s, c, k)
  <2>1. Whole(s, c) /\ k \in 1..Sent(s, c) /\ k \in Nat
    BY <1>3 DEF PumpGoesOn
  <2> QED
    BY <2>1 DEF StreamOK
<1> QED
  BY <1>1, <1>2, <1>3 DEF StreamOK

\* The pump or the accept loop of s enqueues a frame of c whose turn it is.
LEMMA StreamAppended ==
    ASSUME NEW s \in Side, NEW f \in Frames, f.from = s, Types, StreamOK(s), Enqueue(s, f),
           \A p \in DOMAIN Stream(s) : Stream(s)[p].from = s /\ Stream(s)[p].conn = f.conn =>
               Rank(Stream(s)[p]) < Rank(f),
           OwnFrame(s, f)',
           \A c \in Conn : PumpGoesOn(s, c) /\ Sent(s, c) \in Nat,
           \A c \in Conn : c # f.conn => Sent(s, c)' = Sent(s, c),
           f.kind = "data" => /\ f.chunk = Sent(s, f.conn) + 1
                              /\ Sent(s, f.conn)' = Sent(s, f.conn) + 1
                              /\ Whole(s, f.conn),
           f.kind # "data" => Sent(s, f.conn)' = Sent(s, f.conn)
    PROVE  StreamOK(s)'
<1> DEFINE q == Stream(s)
<1>0. PICK Q : Q = Stream(s)'
  OBVIOUS
<1>1. q \in Seq(Frames) /\ Q = Append(q, f)
  <2>1. log \in Seq(Frames) /\ outbox[s] \in Seq(Frames) /\ q \in Seq(Frames)
    BY StreamTypes
  <2>2. log' = log /\ outbox'[s] = Append(outbox[s], f)
    BY DEF Enqueue, Types, MainTypes, Per
  <2>3. log \o Append(outbox[s], f) = Append(log \o outbox[s], f)
    BY <2>1
  <2> QED
    BY <1>0, <2>1, <2>2, <2>3 DEF Stream
<1>2. /\ DOMAIN q = 1..Len(q) /\ Len(q) \in Nat /\ DOMAIN Q = 1..(Len(q) + 1)
      /\ \A p \in DOMAIN q : Q[p] = q[p] /\ q[p] \in Frames
      /\ Q[Len(q) + 1] = f
      /\ \A p \in DOMAIN Q : p \in DOMAIN q \/ p = Len(q) + 1
  BY <1>1, RowsAppend
<1>3. \A c \in Conn, k \in Nat :
          Carries(Q, s, c, k) <=> Carries(q, s, c, k) \/ f = Frame(s, c, "data", k)
  BY <1>1, CarriesAppend
<1>4. Sorted(Q, s)
  <2>1. Sorted(q, s)
    BY DEF StreamOK
  <2> QED
    BY <1>1, <2>1, SortedAppend
<1>5. /\ \A p \in DOMAIN q : q[p].from = s => OwnFrame(s, q[p])
      /\ NoGaps(q, s)
      /\ \A c \in Conn : Whole(s, c) => \A k \in 1..Sent(s, c) : Carries(q, s, c, k)
  BY DEF StreamOK
<1>6. \A c \in Conn : Sent(s, c)' \in Nat /\ Sent(s, c) <= Sent(s, c)'
  BY DEF Frames
<1>7. f.conn \in Conn /\ f.chunk \in Nat
  BY DEF Frames
<1>8. f.kind = "data" => f = Frame(s, f.conn, "data", f.chunk)
  BY DEF Frames, Frame
<1>9. \A c \in Conn, k \in Nat :
          f = Frame(s, c, "data", k) => f.kind = "data" /\ c = f.conn /\ k = f.chunk
  BY DEF Frame
<1> HIDE DEF q
<1>10. ASSUME NEW p \in DOMAIN Q, Q[p].from = s
       PROVE  \E g \in Frames : g = Q[p] /\ OwnFrame(s, g)'
  <2>1. CASE p = Len(q) + 1
    BY <1>2, <2>1
  <2>2. CASE p \in DOMAIN q
    <3>0. PICK g : g = q[p]
      OBVIOUS
    <3>1. /\ g \in Frames /\ OwnFrame(s, g) /\ g.conn \in Conn /\ g.from = s /\ Q[p] = g
      BY <1>2, <1>5, <1>10, <2>2, <3>0 DEF Frames
    <3>2. PumpGoesOn(s, g.conn) /\ Sent(s, g.conn)' \in Nat /\ Sent(s, g.conn) \in Nat
          /\ Sent(s, g.conn) <= Sent(s, g.conn)'
      BY <1>6, <3>1
    <3>3. OwnFrame(s, g)'
      BY <3>1, <3>2 DEF OwnFrame, PumpGoesOn, Gone
    <3> QED
      BY <3>1, <3>3
  <2> QED
    BY <1>2, <2>1, <2>2
<1>11. NoGaps(Q, s)
  <2> SUFFICES ASSUME NEW c \in Conn, NEW k \in Nat, Carries(Q, s, c, k), NEW j \in 1..k
               PROVE  Carries(Q, s, c, j)
    BY DEF NoGaps
  <2>1. CASE Carries(q, s, c, k)
    BY <1>3, <1>5, <2>1 DEF NoGaps
  <2>2. CASE f = Frame(s, c, "data", k)
    <3>1. f.kind = "data" /\ c = f.conn /\ k = f.chunk
      BY <1>9, <2>2
    <3>2. Whole(s, c) /\ k = Sent(s, c) + 1 /\ Sent(s, c) \in Nat
      BY <3>1
    <3>3. CASE j = k
      BY <1>3, <2>2, <3>3
    <3>4. CASE j # k
      <4>1. j \in 1..Sent(s, c) /\ j \in Nat
        BY <3>2, <3>4
      <4> QED
        BY <1>3, <1>5, <3>2, <4>1
    <3> QED
      BY <3>3, <3>4
  <2> QED
    BY <1>3, <2>1, <2>2
<1>12. ASSUME NEW c \in Conn, Whole(s, c)', NEW k \in 1..Sent(s, c)'
       PROVE  Carries(Q, s, c, k)
  <2>1. Whole(s, c) /\ k \in Nat
    BY <1>6, <1>12 DEF PumpGoesOn
  <2>2. CASE k \in 1..Sent(s, c)
    BY <1>3, <1>5, <2>1, <2>2
  <2>3. CASE k \notin 1..Sent(s, c)
    <3>1. c = f.conn /\ f.kind = "data" /\ k = f.chunk
      BY <1>6, <1>12, <2>1, <2>3
    <3> QED
      BY <1>3, <1>8, <2>1, <3>1
  <2> QED
    BY <2>2, <2>3
<1>13. \A p \in DOMAIN Stream(s)' : Stream(s)'[p].from = s => OwnFrame(s, Stream(s)[p])'
  BY <1>0, <1>10 DEF OwnFrame
<1> QED
  BY <1>0, <1>4, <1>11, <1>12, <1>13 DEF StreamOK

\* The peer's flush puts its own frames between the log and the outbox of s.
LEMMA StreamInserted ==
    ASSUME NEW s \in Side, Types, OutboxIsOwn, StreamOK(s), Flush(Peer(s)),
           \A c \in Conn : PumpGoesOn(s, c) /\ Sent(s, c)' = Sent(s, c) /\ Sent(s, c) \in Nat
    PROVE  StreamOK(s)'
<1> DEFINE t == Peer(s)
           A == log
           B == outbox[t]
           C == outbox[s]
           AB == A \o B
<1>1. t \in Side /\ t # s
  BY Sides
<1>2. A \in Seq(Frames) /\ B \in Seq(Frames) /\ C \in Seq(Frames) /\ AB \in Seq(Frames)
  BY <1>1, StreamTypes, Rows
<1>3. Stream(s)' = AB \o C
  BY <1>1 DEF Stream, Flush, Types, MainTypes, Per
<1>4. \A p \in DOMAIN B : B[p].from # s
  BY <1>1 DEF OutboxIsOwn
<1>5. Stream(s) = A \o C
  BY DEF Stream
<1> HIDE DEF A, B, C, AB, t
<1>6. Sorted(AB \o C, s)
  <2>1. Sorted(A \o C, s)
    BY <1>5 DEF StreamOK
  <2> QED
    BY <1>2, <1>4, <2>1, SortedInsert DEF AB
<1>7. \A c \in Conn, k \in Nat : Carries(AB \o C, s, c, k) <=> Carries(A \o C, s, c, k)
  <2> TAKE c \in Conn, k \in Nat
  <2>1. Carries(AB \o C, s, c, k) <=> Carries(AB, s, c, k) \/ Carries(C, s, c, k)
    BY <1>2, CarriesConcat
  <2>2. Carries(AB, s, c, k) <=> Carries(A, s, c, k) \/ Carries(B, s, c, k)
    BY <1>2, CarriesConcat DEF AB
  <2>3. Carries(A \o C, s, c, k) <=> Carries(A, s, c, k) \/ Carries(C, s, c, k)
    BY <1>2, CarriesConcat
  <2>4. ~Carries(B, s, c, k)
    BY <1>4, CarriesNone
  <2> QED
    BY <2>1, <2>2, <2>3, <2>4
<1>8. \A p \in DOMAIN (AB \o C) : (AB \o C)[p].from = s =>
          \E q \in DOMAIN (A \o C) : (A \o C)[q] = (AB \o C)[p]
  <2> SUFFICES ASSUME NEW p \in DOMAIN (AB \o C), (AB \o C)[p].from = s
               PROVE  \E q \in DOMAIN (A \o C) : (A \o C)[q] = (AB \o C)[p]
    OBVIOUS
  <2>1. /\ DOMAIN A = 1..Len(A) /\ DOMAIN C = 1..Len(C) /\ Len(A) \in Nat /\ Len(C) \in Nat
        /\ DOMAIN (A \o C) = 1..(Len(A) + Len(C))
        /\ \A x \in DOMAIN A : (A \o C)[x] = A[x]
        /\ \A x \in DOMAIN C : (A \o C)[Len(A) + x] = C[x]
    BY <1>2, Rows
  <2>2. \/ p \in DOMAIN AB /\ (AB \o C)[p] = AB[p]
        \/ p - Len(AB) \in DOMAIN C /\ (AB \o C)[p] = C[p - Len(AB)]
    BY <1>2, Rows
  <2>3. p \in DOMAIN AB => \/ p \in DOMAIN A /\ AB[p] = A[p]
                           \/ p - Len(A) \in DOMAIN B /\ AB[p] = B[p - Len(A)]
    BY <1>2, Rows DEF AB
  <2>4. ASSUME NEW x \in DOMAIN A PROVE x \in DOMAIN (A \o C)
    BY <2>1
  <2>5. ASSUME NEW x \in DOMAIN C PROVE Len(A) + x \in DOMAIN (A \o C)
    BY <2>1
  <2> QED
    BY <1>4, <2>1, <2>2, <2>3, <2>4, <2>5
<1>9. \A p \in DOMAIN Stream(s) : Stream(s)[p].conn \in Conn
  <2> TAKE p \in DOMAIN Stream(s)
  <2>1. Stream(s)[p] \in Frames
    BY StreamTypes
  <2> QED
    BY <2>1 DEF Frames
<1> QED
  BY <1>3, <1>5, <1>6, <1>7, <1>8, <1>9, StreamKept

\* What s has flushed is in order and without gaps too.
LEMMA LogPart ==
    ASSUME NEW s \in Side, Types, StreamOK(s)
    PROVE  /\ \A p \in DOMAIN log : log[p].from = s => OwnFrame(s, log[p])
           /\ Sorted(log, s) /\ NoGaps(log, s)
           /\ \A p \in DOMAIN log : /\ p \in Nat /\ log[p] \in Frames
                                    /\ log[p].conn \in Conn /\ log[p].chunk \in Nat
<1> DEFINE q == Stream(s)
<1>1. /\ log \in Seq(Frames) /\ outbox[s] \in Seq(Frames) /\ q \in Seq(Frames)
      /\ q = log \o outbox[s]
  BY StreamTypes DEF Stream
<1>2. /\ DOMAIN log = 1..Len(log) /\ Len(log) \in Nat /\ Len(outbox[s]) \in Nat
      /\ DOMAIN outbox[s] = 1..Len(outbox[s])
      /\ DOMAIN q = 1..(Len(log) + Len(outbox[s]))
      /\ \A p \in DOMAIN log : q[p] = log[p]
      /\ \A p \in DOMAIN outbox[s] : q[Len(log) + p] = outbox[s][p]
  BY <1>1, Rows
<1>3. /\ \A p \in DOMAIN q : q[p].from = s => OwnFrame(s, q[p])
      /\ Sorted(q, s) /\ NoGaps(q, s)
  BY DEF StreamOK
<1>4. Sorted(log, s)
  BY <1>1, <1>3, SortedPrefix
<1>5. ASSUME NEW c \in Conn, NEW k \in Nat, Carries(log, s, c, k), NEW j \in 1..k
      PROVE  Carries(log, s, c, j)
  <2>1. Carries(q, s, c, j) /\ j \in Nat
    BY <1>1, <1>3, <1>5, CarriesConcat DEF NoGaps
  <2>2. CASE Carries(outbox[s], s, c, j)
    <3>1. PICK p \in DOMAIN log : log[p] = Frame(s, c, "data", k)
      BY <1>5 DEF Carries
    <3>2. PICK x \in DOMAIN outbox[s] : outbox[s][x] = Frame(s, c, "data", j)
      BY <2>2 DEF Carries
    <3>3. /\ p \in DOMAIN q /\ Len(log) + x \in DOMAIN q /\ p < Len(log) + x
          /\ q[p] = Frame(s, c, "data", k) /\ q[Len(log) + x] = Frame(s, c, "data", j)
      BY <1>2, <3>1, <3>2
    <3>4. Rank(Frame(s, c, "data", k)) < Rank(Frame(s, c, "data", j))
      BY <1>3, <3>3 DEF Sorted, Frame
    <3>5. k < j
      BY <3>4 DEF Rank, Frame
    <3> QED
      BY <3>5
  <2> QED
    BY <1>1, <2>1, <2>2, CarriesConcat
<1>6. ASSUME NEW p \in DOMAIN log
      PROVE  /\ log[p].from = s => OwnFrame(s, log[p])
             /\ p \in Nat /\ log[p] \in Frames /\ log[p].conn \in Conn /\ log[p].chunk \in Nat
  <2>1. p \in DOMAIN q /\ q[p] = log[p] /\ log[p] \in Frames /\ p \in Nat
    BY <1>1, <1>2
  <2> HIDE DEF q
  <2> QED
    BY <1>3, <2>1 DEF Frames
<1> QED
  BY <1>4, <1>5, <1>6 DEF NoGaps

\* When the relay dies, what it flushed is a stream without gaps still.
LEMMA StreamLost ==
    ASSUME NEW s \in Side, Types, StreamOK(s), Exits(s)
    PROVE  StreamOK(s)'
<1>1. log \in Seq(Frames) /\ Stream(s)' = log
  <2>1. outbox'[s] = <<>> /\ log' = log /\ log \in Seq(Frames)
    BY DEF Exits, Types, MainTypes, Per
  <2>2. log \o <<>> = log
    BY <2>1
  <2> QED
    BY <2>1, <2>2 DEF Stream
<1>2. Sorted(log, s) /\ NoGaps(log, s)
  BY LogPart
<1>3. ASSUME NEW c \in Conn PROVE ~Whole(s, c)'
  BY DEF Whole, Alive, Exits, Running, Types, MainTypes, ConnTypes, Per, PerConn
<1>4. ASSUME NEW p \in DOMAIN log, log[p].from = s
      PROVE  OwnFrame(s, log[p])'
  <2>0. PICK f : f = log[p]
    OBVIOUS
  <2>1. OwnFrame(s, f) /\ f.conn \in Conn
    BY <1>4, <2>0, LogPart
  <2>2. /\ pump[s][f.conn] \in Gone => pump'[s][f.conn] \in Gone
        /\ pump[s][f.conn] # "none" => pump'[s][f.conn] # "none"
        /\ wrote' = wrote /\ unread' = unread
    BY <2>1 DEF Exits, Gone, app, Types, ConnTypes, PerConn
  <2>3. OwnFrame(s, f)'
    BY <2>1, <2>2 DEF OwnFrame, Connected, Gone, Sent
  <2>4. log' = log
    BY DEF Exits
  <2> QED
    BY <2>0, <2>3, <2>4 DEF OwnFrame
<1>5. \A p \in DOMAIN Stream(s)' : Stream(s)'[p].from = s => OwnFrame(s, Stream(s)[p])'
  BY <1>1, <1>4 DEF OwnFrame, Exits
<1> QED
  BY <1>1, <1>2, <1>3, <1>5 DEF StreamOK

\* Nobody reads more from an application than it wrote.
LEMMA SentIsNat ==
    ASSUME Types, Chunks, NEW s \in Side, NEW c \in Conn
    PROVE  /\ Sent(s, c) \in Nat /\ Sent(s, c) <= MaxChunks /\ MaxChunks \in Nat
           /\ unread[s][c] = <<>> => Sent(s, c) = wrote[s][c]
  BY BoundsAssumption DEF Types, ConnTypes, PerConn, Chunks, Sent

\* An application that writes has not been read from.
LEMMA SentWrites ==
    ASSUME Types, NEW t \in Side, NEW c \in Conn, AppWrites(t, c), NEW s \in Side, NEW d \in Conn
    PROVE  Sent(s, d)' = Sent(s, d)
<1>0. unread \in [Side -> [Conn -> Seq(Nat)]] /\ wrote \in [Side -> [Conn -> Nat]]
  BY DEF Types, ConnTypes, PerConn
<1>1. CASE t = s /\ d = c
  <2>1. wrote'[s][d] = wrote[s][d] + 1 /\ unread'[s][d] = Append(unread[s][d], wrote[s][d] + 1)
    BY <1>0, <1>1 DEF AppWrites
  <2>2. unread[s][d] \in Seq(Nat) /\ wrote[s][d] \in Nat
    BY <1>0
  <2>3. Len(unread'[s][d]) = Len(unread[s][d]) + 1 /\ Len(unread[s][d]) \in Nat
    BY <2>1, <2>2, RowsAppend
  <2>4. wrote'[s][d] = wrote[s][d] + 1
    BY <2>1
  <2>5. \A w, n \in Nat : (w + 1) - (n + 1) = w - n
    OBVIOUS
  <2> QED
    BY <2>2, <2>3, <2>4, <2>5 DEF Sent
<1>2. CASE ~(t = s /\ d = c)
  BY <1>0, <1>2 DEF AppWrites, Sent
<1> QED
  BY <1>1, <1>2

\* Steps that touch neither the log nor the outbox of s.
LEMMA StreamStill ==
    ASSUME NEW s \in Side, Types, Chunks, StreamOK(s), log' = log, outbox'[s] = outbox[s],
           \A c \in Conn : PumpGoesOn(s, c) /\ Sent(s, c)' = Sent(s, c)
    PROVE  StreamOK(s)'
<1>1. Stream(s)' = Stream(s)
  BY DEF Stream
<1>2. \A p \in DOMAIN Stream(s) : Stream(s)[p].conn \in Conn
  <2> TAKE p \in DOMAIN Stream(s)
  <2>1. Stream(s)[p] \in Frames
    BY StreamTypes
  <2> QED
    BY <2>1 DEF Frames
<1>3. Sorted(Stream(s), s)
  BY DEF StreamOK
<1> QED
  BY <1>1, <1>2, <1>3, SentIsNat, StreamKept

\* Pumps that no step of this kind moves go on.
LEMMA PumpsIdle ==
    ASSUME NEW s \in Side, pump'[s] = pump[s], restarts \in Nat,
           \/ restarts' \in Nat /\ restarts' # 0
           \/ restarts' = restarts /\ (pc'[s] # "dead" => pc[s] # "dead")
    PROVE  \A c \in Conn : PumpGoesOn(s, c)
  BY DEF PumpGoesOn, Connected, Whole, Alive

\* In its first life serve dials each connection once: the open it is at is the only one.
LEMMA DialsFresh ==
    ASSUME IInv, Dial, restarts = 0
    PROVE  ~Connected("serve", Current("serve").conn)
<1> DEFINE m == Min(inbox["serve"])
           c == Current("serve").conn
           q == Stream("expose")
<1>1. "serve" \in Side /\ "expose" \in Side /\ Peer("serve") = "expose" /\ inbox["serve"] # {}
  BY DEF Side, Peer, Dial, Handling
<1>2. /\ m \in inbox["serve"] /\ m \in DOMAIN log
      /\ log[m] = Current("serve") /\ log[m] \in Frames /\ log[m].from = "expose"
  BY <1>1, CurrentRow DEF IInv
<1>3. log[m].kind = "open" /\ log[m].conn = c /\ c \in Conn
  BY <1>2 DEF Dial, Handling, Frames
<1>4. Alive("serve")
  BY DEF Dial, Handling, Alive
<1> SUFFICES ASSUME Connected("serve", c) PROVE FALSE
  OBVIOUS
<1>5. PICK p \in DOMAIN log : Past("serve", p) /\ log[p] = Frame("expose", c, "open", 0)
  BY <1>3, <1>4 DEF IInv, Dialed
<1>6. p # m
  BY <1>2, <1>5 DEF Past
<1>7. /\ \A x \in DOMAIN log : x \in DOMAIN q /\ q[x] = log[x] /\ x \in Nat
      /\ StreamOK("expose")
  <2>1. /\ log \in Seq(Frames) /\ outbox["expose"] \in Seq(Frames)
        /\ q = log \o outbox["expose"]
    BY <1>1, StreamTypes DEF IInv, Stream
  <2>2. /\ DOMAIN log = 1..Len(log) /\ Len(log) \in Nat /\ Len(outbox["expose"]) \in Nat
        /\ DOMAIN q = 1..(Len(log) + Len(outbox["expose"]))
        /\ \A x \in DOMAIN log : q[x] = log[x]
    BY <2>1, Rows
  <2>3. StreamOK("expose")
    BY <1>1 DEF IInv, Delivery
  <2> QED
    BY <2>2, <2>3
<1> HIDE DEF m, c, q
<1>8. OwnFrame("expose", log[m]) /\ Sorted(q, "expose")
  BY <1>2, <1>7 DEF StreamOK, q
<1>9. Rank(log[m]) = 0 /\ Rank(log[p]) = 0
  BY <1>3, <1>5, <1>8 DEF OwnFrame, Rank, Frame
<1>10. log[p].from = "expose" /\ log[p].conn = c
  BY <1>5 DEF Frame
<1>11. p < m \/ m < p
  BY <1>2, <1>5, <1>6, <1>7
<1> QED
  BY <1>2, <1>3, <1>5, <1>7, <1>8, <1>9, <1>10, <1>11 DEF Sorted

\* Every step leaves the frames of a relay in order, but for what a restarted pair does to
\* those of serve.
LEMMA StreamStep ==
    ASSUME IInv, [Next]_vars, NEW s \in Side, s = "expose" \/ restarts' = 0
    PROVE  StreamOK(s)'
<1>0. /\ outbox \in [Side -> Seq(Frames)] /\ pc \in [Side -> {"poll", "handle", "use", "dead"}]
      /\ pump \in [Side -> [Conn -> Running \cup {"none", "done"}]]
      /\ unread \in [Side -> [Conn -> Seq(Nat)]] /\ wrote \in [Side -> [Conn -> Nat]]
      /\ restarts \in Nat
      /\ Types /\ Batches /\ Threads /\ Chunks /\ OutboxIsOwn
  BY DEF IInv, Types, MainTypes, ConnTypes, Per, PerConn
<1>1. StreamOK(s)
  <2>1. restarts' = 0 => restarts = 0
    BY <1>0, QuietSteps DEF Next, Main, Poll, Dial, Look, Handled, Deliver, LookupFails,
                            RequestFails, Exits, Flush, Restart, faults, vars, Side
  <2> QED
    BY <2>1 DEF IInv, Delivery
<1>2. \A p \in DOMAIN Stream(s) :
          /\ Stream(s)[p].kind \in {"open", "data", "close"} /\ Stream(s)[p].conn \in Conn
          /\ Stream(s)[p].from = s => OwnFrame(s, Stream(s)[p])
  <2> TAKE p \in DOMAIN Stream(s)
  <2>1. Stream(s)[p] \in Frames
    BY <1>0, StreamTypes
  <2> QED
    BY <1>1, <2>1 DEF Frames, StreamOK
<1>3. \A c \in Conn : Sent(s, c) \in Nat /\ Sent(s, c) <= MaxChunks /\ MaxChunks \in Nat
  BY <1>0, SentIsNat
<1>4. ASSUME UNCHANGED <<wrote, unread>> PROVE \A c \in Conn : Sent(s, c)' = Sent(s, c)
  BY <1>4 DEF Sent
\* No frame leaves, and no pump starts or loses its outbox.
<1>5. ASSUME NEW t \in Side, NEW c \in Conn, AppWrites(t, c) PROVE StreamOK(s)'
  <2>1. \A d \in Conn : Sent(s, d)' = Sent(s, d)
    BY <1>0, <1>5, SentWrites
  <2>2. UNCHANGED <<log, outbox, pump, pc, restarts>>
    BY <1>5 DEF AppWrites, relay, faults
  <2> QED
    BY <1>0, <1>1, <2>1, <2>2, PumpsIdle, StreamStill
<1>6. ASSUME NEW t \in Side, NEW c \in Conn, AppEnds(t, c) PROVE StreamOK(s)'
  <2>1. UNCHANGED <<log, outbox, pump, pc, restarts, wrote, unread>>
    BY <1>6 DEF AppEnds, relay, faults
  <2> QED
    BY <1>0, <1>1, <1>4, <2>1, PumpsIdle, StreamStill
<1>7. ASSUME NEW t \in Side, NEW c \in Conn, NEW from \in Running, NEW to \in Running \cup {"done"},
             PumpAt(t, c, from, to), from \in Gone => to \in Gone, pc' = pc
      PROVE \A d \in Conn : PumpGoesOn(s, d)
  <2> SUFFICES ASSUME NEW d \in Conn PROVE PumpGoesOn(s, d)
    OBVIOUS
  <2>1. restarts' = restarts
    BY <1>7 DEF PumpAt, faults
  <2>2. CASE t = s /\ d = c
    <3>1. pump[s][d] = from /\ pump'[s][d] = to
      BY <1>0, <1>7, <2>2 DEF PumpAt
    <3> QED
      BY <1>7, <2>1, <3>1 DEF PumpGoesOn, Connected, Whole, Alive, Running
  <2>3. CASE ~(t = s /\ d = c)
    <3>1. pump'[s][d] = pump[s][d]
      BY <1>0, <1>7, <2>3 DEF PumpAt
    <3> QED
      BY <1>7, <2>1, <3>1 DEF PumpGoesOn, Connected, Whole, Alive
  <2> QED
    BY <2>2, <2>3
<1>8. ASSUME NEW t \in Side, NEW c \in Conn,
             PumpRecv(t, c) \/ PumpEof(t, c) \/ PumpShuts(t, c) \/ PumpPops(t, c)
      PROVE StreamOK(s)'
  <2>1. UNCHANGED <<log, outbox, pc, wrote, unread>>
    BY <1>8 DEF PumpRecv, PumpEof, PumpShuts, PumpPops, relay, app
  <2>2. \A d \in Conn : PumpGoesOn(s, d)
    BY <1>7, <1>8, <2>1 DEF PumpRecv, PumpEof, PumpShuts, PumpPops, Running, Gone
  <2> QED
    BY <1>0, <1>1, <1>4, <2>1, <2>2, StreamStill
<1>9. ASSUME NEW t \in Side, Poll(t) \/ Look(t) \/ Deliver(t) PROVE StreamOK(s)'
  <2>1. UNCHANGED <<log, outbox, pump, restarts, wrote, unread>>
    BY <1>9 DEF Poll, Look, Deliver, Handled, faults, app
  <2>2. pc'[s] # "dead" => pc[s] # "dead"
    BY <1>0, <1>9 DEF Poll, Look, Deliver, Handled, Handling
  <2> QED
    BY <1>0, <1>1, <1>4, <2>1, <2>2, PumpsIdle, StreamStill
<1>10. ASSUME NEW t \in Side, Exits(t) PROVE StreamOK(s)'
  <2>1. CASE t = s
    BY <1>0, <1>1, <1>10, <2>1, StreamLost
  <2>2. CASE t # s
    <3>1. /\ UNCHANGED <<log, restarts, wrote, unread>> /\ outbox'[s] = outbox[s]
          /\ pump'[s] = pump[s] /\ pc'[s] = pc[s]
      BY <1>0, <1>10, <2>2 DEF Exits, app
    <3> QED
      BY <1>0, <1>1, <1>4, <3>1, PumpsIdle, StreamStill
  <2> QED
    BY <2>1, <2>2
<1>11. ASSUME NEW t \in Side, Restart(t) PROVE StreamOK(s)'
  <2>1. UNCHANGED <<log, outbox, pump, wrote, unread>> /\ restarts' \in Nat /\ restarts' # 0
    BY <1>0, <1>11 DEF Restart, app
  <2> QED
    BY <1>0, <1>1, <1>4, <2>1, PumpsIdle, StreamStill
<1>12. CASE UNCHANGED vars
  <2>1. UNCHANGED <<log, outbox, pump, pc, restarts, wrote, unread>>
    BY <1>12 DEF vars, relay, app, faults
  <2> QED
    BY <1>0, <1>1, <1>4, <2>1, PumpsIdle, StreamStill
<1>13. ASSUME Dial PROVE StreamOK(s)'
  <2> DEFINE c == Current("serve").conn
  <2>1. UNCHANGED <<log, outbox, restarts>>
    BY <1>13 DEF Dial, Handled, faults
  <2>2. "serve" \in Side /\ c \in Conn /\ pc["serve"] = "handle"
    BY <1>0, <1>13, CurrentRow DEF Dial, Handling, Frames, Side
  <2>3. CASE s # "serve"
    <3>1. /\ pump'[s] = pump[s] /\ pc'[s] = pc[s]
          /\ \A d \in Conn : wrote'[s][d] = wrote[s][d] /\ unread'[s][d] = unread[s][d]
      BY <1>0, <1>13, <2>2, <2>3 DEF Dial, Handled
    <3>2. \A d \in Conn : Sent(s, d)' = Sent(s, d)
      BY <3>1 DEF Sent
    <3> QED
      BY <1>0, <1>1, <2>1, <3>1, <3>2, PumpsIdle, StreamStill
  <2>4. CASE s = "serve"
    <3>1. ~Connected(s, c) /\ pump[s][c] = "none"
      BY <1>13, <2>1, <2>4, DialsFresh DEF Connected
    <3>2. wrote[s][c] = 0 /\ unread[s][c] = <<>>
      BY <1>0, <2>2, <2>4, <3>1 DEF Threads
    <3>3. /\ pump'[s][c] = "top" /\ wrote'[s][c] = 0 /\ unread'[s][c] = <<>> /\ pc'[s] = "handle"
          /\ \A d \in Conn : d # c => /\ pump'[s][d] = pump[s][d] /\ wrote'[s][d] = wrote[s][d]
                                     /\ unread'[s][d] = unread[s][d]
      BY <1>0, <1>13, <2>2, <2>4 DEF Dial, Handled
    <3> HIDE DEF c
    <3>4. \A d \in Conn : Sent(s, d)' = Sent(s, d)
      BY <3>2, <3>3 DEF Sent
    <3>5. \A d \in Conn : d = c => Sent(s, d)' = 0
      <4> SUFFICES ASSUME NEW d \in Conn, d = c PROVE Sent(s, d)' = 0
        OBVIOUS
      <4>1. wrote'[s][d] = 0 /\ Len(unread'[s][d]) = 0
        BY <3>3
      <4> QED
        BY <4>1 DEF Sent
    <3>6. \A d \in Conn : PumpGoesOn(s, d)
      BY <2>1, <2>2, <2>4, <3>1, <3>3, <3>5 DEF PumpGoesOn, Connected, Whole, Alive, Gone
    <3> QED
      BY <1>0, <1>1, <2>1, <3>4, <3>6, StreamStill
  <2> QED
    BY <2>3, <2>4
\* Frames move from the outbox to the log.
<1>14. ASSUME NEW t \in Side, Flush(t) PROVE StreamOK(s)'
  <2>1. /\ UNCHANGED <<pump, restarts, wrote, unread>> /\ log' = log \o outbox[t]
        /\ outbox' = [outbox EXCEPT ![t] = <<>>] /\ (pc'[s] # "dead" => pc[s] # "dead")
    BY <1>0, <1>14 DEF Flush, app, faults
  <2>2. \A c \in Conn : PumpGoesOn(s, c) /\ Sent(s, c)' = Sent(s, c)
    BY <1>0, <1>4, <2>1, PumpsIdle
  <2>3. CASE t = s
    <3>1. log \in Seq(Frames) /\ outbox[s] \in Seq(Frames) /\ Stream(s) \in Seq(Frames)
      BY <1>0, StreamTypes
    <3>2. Stream(s)' = Stream(s) \o <<>> /\ Stream(s) \o <<>> = Stream(s)
      BY <1>0, <2>1, <2>3, <3>1 DEF Stream
    <3>3. Sorted(Stream(s), s)
      BY <1>1 DEF StreamOK
    <3> QED
      BY <1>1, <1>2, <1>3, <2>2, <3>2, <3>3, StreamKept
  <2>4. CASE t # s
    BY <1>0, <1>1, <1>3, <1>14, <2>2, <2>4, Sides, StreamInserted
  <2> QED
    BY <2>3, <2>4
\* A frame is enqueued.
<1>15. ASSUME NEW t \in Side, t # s, NEW f, Enqueue(t, f), UNCHANGED <<wrote, restarts>>,
              unread'[s] = unread[s], pump'[s] = pump[s]
       PROVE StreamOK(s)'
  <2>1. log' = log /\ outbox'[s] = outbox[s] /\ pc' = pc
    BY <1>0, <1>15 DEF Enqueue
  <2>2. \A c \in Conn : PumpGoesOn(s, c) /\ Sent(s, c)' = Sent(s, c)
    BY <1>0, <1>15, <2>1, PumpsIdle DEF Sent
  <2> QED
    BY <1>0, <1>1, <2>1, <2>2, StreamStill
<1>16. ASSUME NEW t \in Side, NEW c \in Conn, PumpData(t, c) PROVE StreamOK(s)'
  <2>1. CASE t = s
    <3> DEFINE k == Head(unread[s][c])
    <3>1. /\ pump[s][c] = "recv" /\ pump'[s][c] = "top" /\ unread[s][c] # <<>>
          /\ unread'[s][c] = Tail(unread[s][c]) /\ wrote' = wrote
          /\ \A d \in Conn : d # c => unread'[s][d] = unread[s][d]
          /\ Enqueue(s, Frame(s, c, "data", k)) /\ pc' = pc
      BY <1>0, <1>16, <2>1 DEF PumpData, PumpAt, Enqueue
    <3>2. /\ unread[s][c] \in Seq(Nat) /\ wrote[s][c] \in Nat /\ Len(unread[s][c]) \in Nat
          /\ Len(Tail(unread[s][c])) = Len(unread[s][c]) - 1
          /\ k = unread[s][c][1] /\ 1 \in DOMAIN unread[s][c]
      BY <1>0, <3>1, RowsTail
    <3>3. k = Sent(s, c) + 1 /\ Sent(s, c) \in Nat
      BY <1>0, <1>3, <3>2 DEF Chunks
    <3>4. Sent(s, c)' = Sent(s, c) + 1 /\ \A d \in Conn : d # c => Sent(s, d)' = Sent(s, d)
      <4>1. wrote'[s][c] = wrote[s][c] /\ Len(unread'[s][c]) = Len(unread[s][c]) - 1
        BY <3>1, <3>2
      <4>2. wrote[s][c] - (Len(unread[s][c]) - 1) = (wrote[s][c] - Len(unread[s][c])) + 1
        BY <3>2
      <4>3. \A d \in Conn : d # c => Sent(s, d)' = Sent(s, d)
        BY <3>1 DEF Sent
      <4> QED
        BY <4>1, <4>2, <4>3 DEF Sent
    <3>5. PICK f \in Frames : f = Frame(s, c, "data", k)
      <4>1. k \in Nat
        BY <3>3
      <4> HIDE DEF k
      <4> QED
        BY <4>1 DEF Frames, Frame
    <3> HIDE DEF k
    <3>6. /\ f.from = s /\ f.conn = c /\ f.kind = "data" /\ f.chunk = Sent(s, c) + 1
          /\ Rank(f) = Sent(s, c) + 1
      BY <3>3, <3>5 DEF Frame, Rank
    <3>7. \A p \in DOMAIN Stream(s) : Stream(s)[p].from = s /\ Stream(s)[p].conn = f.conn =>
              Rank(Stream(s)[p]) < Rank(f)
      BY <1>2, <3>1, <3>3, <3>6 DEF OwnFrame, Rank
    <3>8. OwnFrame(s, f)'
      BY <3>1, <3>3, <3>4, <3>6 DEF OwnFrame, Connected
    <3>9. \A d \in Conn : PumpGoesOn(s, d)
      BY <1>7, <1>16, <2>1, <3>1 DEF PumpData, Running, Gone
    <3>10. Whole(s, c)
      BY <3>1 DEF Whole, Running
    <3>11. Enqueue(s, f)
      BY <3>1, <3>5
    <3> QED
      BY <1>0, <1>1, <1>3, <3>4, <3>6, <3>7, <3>8, <3>9, <3>10, <3>11, StreamAppended
  <2>2. CASE t # s
    <3>1. unread'[s] = unread[s] /\ pump'[s] = pump[s] /\ UNCHANGED <<wrote, restarts>>
      BY <1>0, <1>16, <2>2 DEF PumpData, PumpAt, faults
    <3> QED
      BY <1>15, <1>16, <2>2, <3>1 DEF PumpData
  <2> QED
    BY <2>1, <2>2
<1>17. ASSUME NEW t \in Side, NEW c \in Conn, PumpSendsClose(t, c) PROVE StreamOK(s)'
  <2>1. CASE t = s
    <3>1. /\ pump[s][c] = "closing" /\ pump'[s][c] = "shut" /\ UNCHANGED <<wrote, unread>>
          /\ Enqueue(s, Frame(s, c, "close", 0)) /\ pc' = pc
      BY <1>0, <1>17, <2>1 DEF PumpSendsClose, PumpAt, Enqueue, app
    <3>2. PICK f \in Frames : f = Frame(s, c, "close", 0)
      BY DEF Frames, Frame
    <3>3. /\ f.from = s /\ f.conn = c /\ f.kind = "close" /\ f.chunk = 0
          /\ Rank(f) = MaxChunks + 1
      BY <3>2 DEF Frame, Rank
    <3>4. \A p \in DOMAIN Stream(s) : Stream(s)[p].from = s /\ Stream(s)[p].conn = f.conn =>
              Rank(Stream(s)[p]) < Rank(f)
      BY <1>2, <1>3, <3>1, <3>3 DEF OwnFrame, Rank
    <3>5. OwnFrame(s, f)'
      BY <3>1, <3>3 DEF OwnFrame, Connected
    <3>6. \A d \in Conn : PumpGoesOn(s, d)
      BY <1>7, <1>17, <2>1, <3>1 DEF PumpSendsClose, Running, Gone
    <3>7. Enqueue(s, f)
      BY <3>1, <3>2
    <3> QED
      BY <1>0, <1>1, <1>3, <1>4, <3>1, <3>3, <3>4, <3>5, <3>6, <3>7, StreamAppended
  <2>2. CASE t # s
    <3>1. unread'[s] = unread[s] /\ pump'[s] = pump[s] /\ UNCHANGED <<wrote, restarts>>
      BY <1>0, <1>17, <2>2 DEF PumpSendsClose, PumpAt, faults, app
    <3> QED
      BY <1>15, <1>17, <2>2, <3>1 DEF PumpSendsClose
  <2> QED
    BY <2>1, <2>2
<1>18. ASSUME NEW c \in Conn, Accept(c) PROVE StreamOK(s)'
  <2>1. CASE s = "expose"
    <3>1. /\ pump[s][c] = "none" /\ UNCHANGED <<wrote, unread, restarts>> /\ pc' = pc
          /\ Enqueue(s, Frame(s, c, "open", 0))
      BY <1>18, <2>1 DEF Accept, Connected, Enqueue, faults, app
    <3>2. pump'[s][c] = "top" /\ \A d \in Conn : d # c => pump'[s][d] = pump[s][d]
      BY <1>0, <1>18, <2>1 DEF Accept
    <3>3. PICK f \in Frames : f = Frame(s, c, "open", 0)
      BY DEF Frames, Frame
    <3>4. f.from = s /\ f.conn = c /\ f.kind = "open" /\ f.chunk = 0
      BY <3>3 DEF Frame
    <3>5. \A p \in DOMAIN Stream(s) : Stream(s)[p].from = s /\ Stream(s)[p].conn = f.conn =>
              Rank(Stream(s)[p]) < Rank(f)
      BY <1>2, <3>1, <3>4 DEF OwnFrame, Connected
    <3>6. OwnFrame(s, f)'
      BY <2>1, <3>2, <3>4 DEF OwnFrame, Connected
    <3>7. wrote[s][c] = 0 /\ unread[s][c] = <<>>
      BY <1>0, <3>1 DEF Threads, Connected
    <3>8. Sent(s, c)' = 0
      <4>1. wrote'[s][c] = 0 /\ Len(unread'[s][c]) = 0
        BY <3>1, <3>7
      <4> QED
        BY <4>1 DEF Sent
    <3>9. \A d \in Conn : PumpGoesOn(s, d)
      BY <3>1, <3>2, <3>8 DEF PumpGoesOn, Connected, Whole, Alive, Gone
    <3>10. Enqueue(s, f)
      BY <3>1, <3>3
    <3> QED
      BY <1>0, <1>1, <1>3, <1>4, <3>1, <3>4, <3>5, <3>6, <3>9, <3>10, StreamAppended
  <2>2. CASE s # "expose"
    <3>1. /\ "expose" \in Side /\ UNCHANGED <<wrote, unread, restarts>> /\ pump'[s] = pump[s]
          /\ Enqueue("expose", Frame("expose", c, "open", 0))
      BY <1>0, <1>18, <2>2 DEF Accept, faults, app, Side
    <3> QED
      BY <1>15, <2>2, <3>1
  <2> QED
    BY <2>1, <2>2
<1> QED
  BY <1>5, <1>6, <1>8, <1>9, <1>10, <1>11, <1>12, <1>13, <1>14, <1>16, <1>17, <1>18
     DEF Next, Main, Pump, LookupFails, RequestFails

-----------------------------------------------------------------------------
(* What is received.                                                           *)

\* What r may rely on of its peer's frames in the log.
LEMMA PeerLog ==
    ASSUME IInv, NEW r \in Side, r = "serve" \/ restarts = 0
    PROVE  /\ \A p \in DOMAIN log : log[p].from = Peer(r) => OwnFrame(Peer(r), log[p])
           /\ Sorted(log, Peer(r)) /\ NoGaps(log, Peer(r))
           /\ \A p \in DOMAIN log : /\ p \in Nat /\ log[p] \in Frames
                                    /\ log[p].conn \in Conn /\ log[p].chunk \in Nat
<1>1. Peer(r) \in Side /\ (Peer(r) = "expose" \/ restarts = 0)
  BY DEF Peer, Side
<1>2. StreamOK(Peer(r)) /\ Types
  BY <1>1 DEF IInv, Delivery
<1> QED
  BY <1>1, <1>2, LogPart

\* Two chunks of a connection are in the log in the order of their numbers.
LEMMA ChunkOrder ==
    ASSUME NEW s, NEW c, Sorted(log, s), NEW p \in DOMAIN log, NEW q \in DOMAIN log,
           p \in Nat, q \in Nat, log[p].from = s, log[q].from = s, log[p].conn = c, log[q].conn = c,
           log[p].kind # "close", log[q].kind # "close", log[p].chunk \in Nat, log[q].chunk \in Nat
    PROVE  /\ p < q <=> log[p].chunk < log[q].chunk
           /\ p = q <=> log[p].chunk = log[q].chunk
<1>1. p < q => Rank(log[p]) < Rank(log[q])
  BY DEF Sorted
<1>2. q < p => Rank(log[q]) < Rank(log[p])
  BY DEF Sorted
<1>3. Rank(log[p]) = log[p].chunk /\ Rank(log[q]) = log[q].chunk
  BY DEF Rank
<1> QED
  BY <1>1, <1>2, <1>3

\* Data frames of c from the peer of r, in the log.
DataRows(r, c) == {p \in DOMAIN log : log[p].from = Peer(r) /\ log[p].conn = c
                                      /\ log[p].kind = "data"}

\* Steps that hand nothing to the application of c.
LEMMA ReceivedStill ==
    ASSUME Types, NEW r \in Side, NEW c \in Conn, ReceivedOK(r, c),
           log' = log, got'[r][c] = got[r][c],
           c \in conns'[r] /\ fd'[r][c] =>
               /\ c \in conns[r] /\ fd[r][c]
               /\ \A p \in DataRows(r, c) : Past(r, p)' <=> Past(r, p)
    PROVE  ReceivedOK(r, c)'
  BY DEF ReceivedOK, DataRows, Carries

\* The main thread of r hands a chunk on: it is the next one.
LEMMA ReceivedData ==
    ASSUME IInv, NEW r \in Side, r = "serve" \/ restarts = 0, NEW c \in Conn,
           inbox[r] # {}, Current(r).conn = c, Current(r).kind = "data",
           c \in conns[r], fd[r][c], ReceivedOK(r, c),
           Handled(r), got'[r][c] = Append(got[r][c], Current(r).chunk)
    PROVE  ReceivedOK(r, c)'
<1> DEFINE m == Min(inbox[r])
           n == Len(got[r][c])
           k == log[m].chunk
<1>1. Types /\ Batches
  BY DEF IInv
<1>2. /\ m \in inbox[r] /\ \A p \in inbox[r] : m <= p
      /\ m \in DOMAIN log /\ m \in 1..cursor[r] /\ m \in Nat
      /\ Current(r) = log[m] /\ log[m] \in Frames /\ log[m].from = Peer(r)
  BY <1>1, CurrentRow
<1>3. /\ \A p \in DOMAIN log : log[p].from = Peer(r) => OwnFrame(Peer(r), log[p])
      /\ Sorted(log, Peer(r)) /\ NoGaps(log, Peer(r))
      /\ \A p \in DOMAIN log : p \in Nat /\ log[p].chunk \in Nat
  BY PeerLog
<1>4. /\ got[r][c] \in Seq(Nat) /\ n \in Nat /\ k \in Nat /\ cursor[r] \in Nat
      /\ log[m] = Frame(Peer(r), c, "data", k)
  BY <1>1, <1>2 DEF Types, MainTypes, ConnTypes, Per, PerConn, Frames, Frame
<1>5. \A p \in DataRows(r, c) : Past(r, p) <=> log[p].chunk <= n
  BY DEF ReceivedOK, DataRows
<1>6. m \in DataRows(r, c)
  BY <1>2 DEF DataRows
<1>7. \A p \in DataRows(r, c) : \A q \in DataRows(r, c) :
          (p < q <=> log[p].chunk < log[q].chunk) /\ (p = q <=> log[p].chunk = log[q].chunk)
  <2> TAKE p \in DataRows(r, c)
  <2> TAKE q \in DataRows(r, c)
  <2>1. /\ p \in DOMAIN log /\ q \in DOMAIN log /\ p \in Nat /\ q \in Nat
        /\ log[p].from = Peer(r) /\ log[q].from = Peer(r) /\ log[p].conn = c /\ log[q].conn = c
        /\ log[p].kind = "data" /\ log[q].kind = "data"
        /\ log[p].chunk \in Nat /\ log[q].chunk \in Nat
    BY <1>3 DEF DataRows
  <2>2. log[p].kind # "close" /\ log[q].kind # "close"
    BY <2>1
  <2> QED
    BY <1>3, <2>1, <2>2, ChunkOrder
<1>8. /\ cursor' = cursor /\ log' = log
      /\ \A p \in DOMAIN log : Past(r, p)' <=> Past(r, p) \/ p = m
  BY <1>1, HandledRow
<1>9. got'[r][c] = Append(got[r][c], k)
  BY <1>2
<1>10. ~Past(r, m)
  BY <1>2 DEF Past
<1>11. Carries(log, Peer(r), c, k)
  BY <1>2, <1>4 DEF Carries
<1> HIDE DEF m, n, k
<1>12. k = n + 1
  <2>1. k > n
    <3>1. log[m].chunk = k
      BY DEF k
    <3> QED
      BY <1>4, <1>5, <1>6, <1>10, <3>1
  <2>2. PICK q \in DOMAIN log : log[q] = Frame(Peer(r), c, "data", n + 1)
    <3>1. n + 1 \in 1..k
      BY <1>4, <2>1
    <3> QED
      BY <1>3, <1>4, <1>11, <3>1 DEF NoGaps, Carries
  <2>3. q \in DataRows(r, c) /\ log[q].chunk = n + 1 /\ q \in Nat /\ log[q].from = Peer(r)
    BY <1>3, <2>2 DEF DataRows, Frame
  <2>4. ~Past(r, q)
    BY <1>4, <1>5, <2>3
  <2>5. ~(q < m)
    BY <1>2, <1>4, <2>3, <2>4 DEF Past
  <2>6. ~(n + 1 < k)
    <3>1. log[m].chunk = k
      BY DEF k
    <3> QED
      BY <1>6, <1>7, <2>3, <2>5, <3>1
  <2> QED
    BY <1>4, <2>1, <2>6
<1>13. /\ Len(got'[r][c]) = n + 1 /\ DOMAIN got'[r][c] = 1..(n + 1)
       /\ \A j \in DOMAIN got[r][c] : got'[r][c][j] = got[r][c][j]
       /\ got'[r][c][n + 1] = k /\ DOMAIN got[r][c] = 1..n
  BY <1>4, <1>9, RowsAppend DEF n
<1>14. \A j \in DOMAIN got'[r][c] : got'[r][c][j] = j
  <2> TAKE j \in DOMAIN got'[r][c]
  <2>1. CASE j = n + 1
    BY <1>12, <1>13, <2>1
  <2>2. CASE j \in DOMAIN got[r][c]
    BY <1>13, <2>2 DEF ReceivedOK
  <2> QED
    BY <1>4, <1>13, <2>1, <2>2
<1>15. Carries(log', Peer(r), c, Len(got'[r][c]))
  BY <1>8, <1>11, <1>12, <1>13
<1>16. ASSUME NEW p \in DataRows(r, c) PROVE Past(r, p)' <=> log[p].chunk <= n + 1
  <2>1. p \in DOMAIN log /\ log[p].chunk \in Nat
    BY <1>3 DEF DataRows
  <2>2. p = m <=> log[p].chunk = n + 1
    BY <1>6, <1>7, <1>12 DEF k
  <2> QED
    BY <1>4, <1>5, <1>8, <2>1, <2>2
<1> QED
  BY <1>8, <1>13, <1>14, <1>15, <1>16 DEF ReceivedOK, DataRows

\* A flush of the peer adds chunks that come after all that was received.
LEMMA ReceivedFlush ==
    ASSUME IInv, NEW r \in Side, r = "serve" \/ restarts = 0, NEW c \in Conn,
           NEW s \in Side, Flush(s), ReceivedOK(r, c)
    PROVE  ReceivedOK(r, c)'
<1> DEFINE n == Len(got[r][c])
           t == Peer(r)
<1>1. /\ Types /\ Batches /\ OutboxIsOwn
      /\ t \in Side /\ StreamOK(t) /\ (s = r \/ s = t) /\ t # r
  BY Sides DEF IInv, Delivery, Peer, Side
<1>2. /\ log \in Seq(Frames) /\ outbox[s] \in Seq(Frames) /\ log' = log \o outbox[s]
      /\ got[r][c] \in Seq(Nat) /\ n \in Nat /\ cursor[r] \in Nat /\ cursor[r] <= Len(log)
      /\ UNCHANGED <<cursor, inbox, conns, fd, got>>
  BY <1>1 DEF Types, MainTypes, ConnTypes, Per, PerConn, Flush, app, Batches
<1>3. /\ DOMAIN log = 1..Len(log) /\ Len(log) \in Nat
      /\ DOMAIN outbox[s] = 1..Len(outbox[s]) /\ Len(outbox[s]) \in Nat
      /\ DOMAIN log' = 1..(Len(log) + Len(outbox[s]))
      /\ \A p \in DOMAIN log : log'[p] = log[p] /\ p \in DOMAIN log' /\ p \in Nat
      /\ \A p \in DOMAIN log' : p \in DOMAIN log \/ (p > Len(log) /\ p - Len(log) \in DOMAIN outbox[s]
                                           /\ log'[p] = outbox[s][p - Len(log)])
  BY <1>2, Rows
<1> HIDE DEF n, t
<1>4. \A k : Carries(log, t, c, k) => Carries(log', t, c, k)
  BY <1>3 DEF Carries
<1>5. ASSUME NEW p \in DOMAIN log', p \notin DOMAIN log, log'[p].from = t, log'[p].conn = c,
             log'[p].kind = "data"
      PROVE  log'[p].chunk > n /\ ~Past(r, p)
  <2>1. ~Past(r, p)
    BY <1>2, <1>3, <1>5 DEF Past
  <2>2. s = t
    <3>1. log'[p].from = s
      BY <1>1, <1>3, <1>5 DEF OutboxIsOwn
    <3> QED
      BY <1>5, <3>1
  <2>3. Stream(t) = log' /\ Stream(t) \in Seq(Frames)
    BY <1>1, <1>2, <2>2, StreamTypes DEF Stream
  <2>4. PICK f \in Frames : f = log'[p] /\ OwnFrame(t, f)
    BY <1>1, <1>5, <2>3 DEF StreamOK
  <2>5. f.chunk \in Nat /\ f.chunk # 0 /\ Rank(f) = f.chunk
    BY <1>5, <2>4 DEF OwnFrame, Rank, Frames
  <2>6. CASE n = 0
    BY <2>1, <2>4, <2>5, <2>6
  <2>7. CASE n # 0
    <3>1. PICK q \in DOMAIN log : log[q] = Frame(t, c, "data", n)
      BY <2>7 DEF ReceivedOK, Carries, n, t
    <3>2. q \in DOMAIN log' /\ log'[q] = Frame(t, c, "data", n) /\ q < p
      BY <1>3, <1>5, <3>1
    <3>3. Sorted(log', t)
      BY <1>1, <2>3 DEF StreamOK
    <3>4. Rank(log'[q]) < Rank(log'[p])
      BY <1>5, <3>2, <3>3 DEF Sorted, Frame
    <3>5. Rank(log'[q]) = n
      BY <3>2 DEF Rank, Frame
    <3> QED
      BY <1>2, <2>1, <2>4, <2>5, <3>4, <3>5
  <2> QED
    BY <2>6, <2>7
<1>6. \A p : Past(r, p)' <=> Past(r, p)
  BY <1>2 DEF Past
<1>7. ASSUME c \in conns[r], fd[r][c], NEW p \in DOMAIN log', log'[p].from = t,
             log'[p].conn = c, log'[p].kind = "data"
      PROVE  Past(r, p) <=> log'[p].chunk <= n
  <2>1. CASE p \in DOMAIN log
    BY <1>3, <1>7, <2>1 DEF ReceivedOK, n, t
  <2>2. CASE p \notin DOMAIN log
    <3>1. log'[p].chunk \in Nat
      <4>1. log'[p] \in Frames
        <5>1. log' \in Seq(Frames)
          BY <1>2, Rows
        <5> QED
          BY <1>7, <5>1
      <4> QED
        BY <4>1 DEF Frames
    <3>2. log'[p].chunk > n /\ ~Past(r, p)
      BY <1>5, <1>7, <2>2
    <3> QED
      BY <1>2, <3>1, <3>2
  <2> QED
    BY <2>1, <2>2
<1> QED
  BY <1>2, <1>4, <1>6, <1>7 DEF ReceivedOK, n, t

\* A target that is dialed reads from the first chunk on: they are all still to be handled.
LEMMA ReceivedDial ==
    ASSUME IInv, Dial, NEW c \in Conn, c = Current("serve").conn
    PROVE  ReceivedOK("serve", c)'
<1> DEFINE m == Min(inbox["serve"])
<1>1. /\ Types /\ Batches /\ "serve" \in Side /\ "expose" \in Side
      /\ Peer("serve") = "expose" /\ inbox["serve"] # {} /\ Handled("serve")
      /\ got'["serve"][c] = <<>>
  BY DEF IInv, Peer, Side, Dial, Handling, Types, ConnTypes, PerConn
<1>2. /\ m \in inbox["serve"] /\ m \in DOMAIN log /\ m \in 1..cursor["serve"] /\ m \in Nat
      /\ Current("serve") = log[m] /\ log[m].from = "expose"
      /\ cursor["serve"] \in Nat
  BY <1>1, CurrentRow DEF Types, MainTypes, Per
<1>3. log[m].kind = "open" /\ log[m].conn = c
  BY <1>2 DEF Dial, Handling
<1>4. /\ \A p \in DOMAIN log : log[p].from = "expose" => OwnFrame("expose", log[p])
      /\ Sorted(log, "expose")
      /\ \A p \in DOMAIN log : p \in Nat /\ log[p].chunk \in Nat
  BY <1>1, PeerLog
<1>5. log' = log /\ \A p \in DOMAIN log : Past("serve", p)' <=> Past("serve", p) \/ p = m
  BY <1>1, HandledRow
<1> HIDE DEF m
<1>6. ASSUME NEW p \in DOMAIN log, log[p].from = "expose", log[p].conn = c, log[p].kind = "data"
      PROVE  ~Past("serve", p)' /\ log[p].chunk # 0 /\ log[p].chunk \in Nat
  <2>1. log[p].chunk # 0 /\ log[p].chunk \in Nat /\ p \in Nat
    <3>1. OwnFrame("expose", log[p]) /\ log[p].chunk \in Nat /\ p \in Nat
      BY <1>4, <1>6
    <3> QED
      BY <1>6, <3>1 DEF OwnFrame
  <2>2. log[m].chunk = 0
    <3>1. OwnFrame("expose", log[m])
      BY <1>2, <1>4
    <3> QED
      BY <1>3, <3>1 DEF OwnFrame
  <2>3. m < p
    BY <1>2, <1>3, <1>4, <1>6, <2>1, <2>2, ChunkOrder
  <2>4. p <= cursor["serve"] => p \in inbox["serve"]
    <3>1. p <= cursor["serve"] => p \in m..cursor["serve"]
      BY <1>2, <2>1, <2>3
    <3> QED
      BY <1>1, <1>2, <1>6, <3>1 DEF Batches
  <2>5. ~Past("serve", p) /\ p # m
    BY <1>2, <2>1, <2>3, <2>4 DEF Past
  <2> QED
    BY <1>5, <2>1, <2>5
<1>7. Len(got'["serve"][c]) = 0 /\ DOMAIN got'["serve"][c] = {}
  BY <1>1
<1> QED
  BY <1>1, <1>5, <1>6, <1>7 DEF ReceivedOK

\* A relay that did not start again in this step had not before.
LEMMA RestartsCount ==
    ASSUME Types, [Next]_vars
    PROVE  restarts' \in Nat /\ (restarts' = 0 => restarts = 0)
<1>1. restarts \in Nat
  BY DEF Types, MainTypes
<1> QED
  BY <1>1, QuietSteps DEF Next, Main, Poll, Dial, Look, Handled, Deliver, LookupFails,
                          RequestFails, Exits, Flush, Restart, faults, vars, Side

\* Every step leaves what the applications received a beginning of what was sent.
LEMMA ReceivedStep ==
    ASSUME IInv, [Next]_vars, NEW r \in Side, r = "serve" \/ restarts' = 0, NEW c \in Conn
    PROVE  ReceivedOK(r, c)'
<1>0. /\ Types /\ Batches /\ Threads
      /\ cursor \in [Side -> Nat] /\ inbox \in [Side -> SUBSET Nat]
      /\ conns \in [Side -> SUBSET Conn] /\ fd \in [Side -> [Conn -> BOOLEAN]]
      /\ got \in [Side -> [Conn -> Seq(Nat)]]
      /\ pc \in [Side -> {"poll", "handle", "use", "dead"}]
      /\ log \in Seq(Frames) /\ DOMAIN log = 1..Len(log) /\ Len(log) \in Nat
  BY DEF IInv, Types, MainTypes, ConnTypes, Per, PerConn
<1>1. ReceivedOK(r, c) /\ (r = "serve" \/ restarts = 0)
  BY <1>0, RestartsCount DEF IInv, Delivery
\* Steps of applications and threads that hand nothing over.
<1>2. ASSUME UNCHANGED <<log, cursor, inbox>>, got' = got,
             \A t \in Side : conns'[t] \subseteq conns[t],
             \A t \in Side, d \in Conn : fd'[t][d] => fd[t][d]
      PROVE ReceivedOK(r, c)'
  BY <1>0, <1>1, <1>2, ReceivedStill DEF Past
<1>3. ASSUME NEW t \in Side, NEW d \in Conn, AppWrites(t, d) \/ AppEnds(t, d)
      PROVE ReceivedOK(r, c)'
  BY <1>2, <1>3 DEF AppWrites, AppEnds, relay
<1>4. ASSUME NEW t \in Side, NEW d \in Conn,
             PumpRecv(t, d) \/ PumpData(t, d) \/ PumpEof(t, d) \/ PumpSendsClose(t, d)
      PROVE ReceivedOK(r, c)'
  BY <1>2, <1>4 DEF PumpRecv, PumpData, PumpEof, PumpSendsClose, Enqueue, relay, app
<1>5. ASSUME NEW t \in Side, NEW d \in Conn, PumpShuts(t, d) PROVE ReceivedOK(r, c)'
  BY <1>0, <1>2, <1>5 DEF PumpShuts, relay, app
<1>6. ASSUME NEW t \in Side, NEW d \in Conn, PumpPops(t, d) PROVE ReceivedOK(r, c)'
  BY <1>0, <1>2, <1>6 DEF PumpPops, app
<1>7. ASSUME NEW t \in Side, Exits(t) PROVE ReceivedOK(r, c)'
  <2>1. /\ log' = log /\ got' = got /\ conns' = [conns EXCEPT ![t] = {}]
        /\ fd' = [fd EXCEPT ![t] = [d \in Conn |-> fd[t][d] /\ ~Connected(t, d)]]
        /\ cursor' = [cursor EXCEPT ![t] = 0] /\ inbox' = [inbox EXCEPT ![t] = {}]
    BY <1>7 DEF Exits, app
  <2>2. CASE t = r
    BY <1>0, <1>1, <2>1, <2>2, ReceivedStill
  <2>3. CASE t # r
    BY <1>0, <1>1, <2>1, <2>3, ReceivedStill DEF Past
  <2> QED
    BY <2>2, <2>3
<1>8. ASSUME NEW t \in Side, Restart(t) PROVE ReceivedOK(r, c)'
  BY <1>2, <1>8 DEF Restart, app
<1>9. CASE UNCHANGED vars
  BY <1>2, <1>9 DEF vars, relay, app
\* A poll finds what is past the cursor; what is not in the batch is handled.
<1>10. ASSUME NEW t \in Side, Poll(t) PROVE ReceivedOK(r, c)'
  <2>1. UNCHANGED <<log, conns, fd, got>>
    BY <1>10 DEF Poll, app
  <2>2. ASSUME NEW p \in DataRows(r, c) PROVE Past(r, p)' <=> Past(r, p)
    <3>1. p \in DOMAIN log /\ log[p].from = Peer(r) /\ p \in Nat /\ p <= Len(log)
      BY <1>0 DEF DataRows
    <3>2. CASE t = r
      <4>1. cursor'[r] = LastRow /\ inbox'[r] = NewRows(r) /\ inbox[r] = {}
        BY <1>0, <1>10, <3>2 DEF Poll, Batches
      <4>2. LastRow \in Nat /\ LastRow <= Len(log) /\ cursor[r] <= LastRow
        BY <1>0, BoundsAssumption DEF LastRow, Batches
      <4> QED
        BY <1>0, <3>1, <4>1, <4>2 DEF Past, NewRows
    <3>3. CASE t # r
      BY <1>0, <1>10, <3>3 DEF Poll, Past
    <3> QED
      BY <3>2, <3>3
  <2> QED
    BY <1>0, <1>1, <2>1, <2>2, ReceivedStill
\* A frame is handled that gives this application nothing.
<1>11. ASSUME NEW t \in Side, inbox[t] # {}, Handled(t), got'[r][c] = got[r][c],
              c \in conns'[r] /\ fd'[r][c] => /\ c \in conns[r] /\ fd[r][c]
                                              /\ t = r => Current(r).conn # c
       PROVE ReceivedOK(r, c)'
  <2>1. /\ log' = log
        /\ \A p \in DOMAIN log : Past(r, p)' <=> Past(r, p) \/ (t = r /\ p = Min(inbox[t]))
    BY <1>0, <1>11, HandledRow
  <2>2. t = r /\ Current(r).conn # c => Min(inbox[t]) \notin DataRows(r, c)
    BY <1>0, <1>11, CurrentRow DEF DataRows
  <2>3. ASSUME c \in conns'[r], fd'[r][c], NEW p \in DataRows(r, c)
        PROVE  Past(r, p)' <=> Past(r, p)
    <3>1. p \in DOMAIN log
      BY DEF DataRows
    <3>2. Past(r, p)' <=> Past(r, p) \/ (t = r /\ p = Min(inbox[t]))
      BY <2>1, <3>1
    <3>3. ~(t = r /\ p = Min(inbox[t]))
      BY <1>11, <2>2, <2>3
    <3> QED
      BY <3>2, <3>3
  <2> QED
    BY <1>0, <1>1, <1>11, <2>1, <2>3, ReceivedStill
<1>12. ASSUME Dial PROVE ReceivedOK(r, c)'
  <2>1. /\ "serve" \in Side /\ inbox["serve"] # {} /\ Handled("serve")
        /\ Current("serve").conn \in Conn
    BY <1>0, <1>12, CurrentRow DEF Dial, Handling, Side, Frames
  <2>2. CASE r = "serve" /\ c = Current("serve").conn
    BY <1>12, <2>2, ReceivedDial
  <2>3. CASE ~(r = "serve" /\ c = Current("serve").conn)
    <3>1. /\ got'[r][c] = got[r][c] /\ fd'[r][c] = fd[r][c]
          /\ c \in conns'[r] => c \in conns[r]
      BY <1>0, <1>12, <2>1, <2>3 DEF Dial
    <3> QED
      BY <1>11, <2>1, <2>3, <3>1
  <2> QED
    BY <2>2, <2>3
<1>13. ASSUME NEW t \in Side, Look(t) PROVE ReceivedOK(r, c)'
  <2>1. UNCHANGED <<conns, fd, got>> /\ inbox[t] # {}
    BY <1>13 DEF Look, Handling, app
  <2>2. CASE Current(t).conn \in conns[t]
    BY <1>2, <1>13, <2>1, <2>2 DEF Look
  <2>3. CASE Current(t).conn \notin conns[t]
    BY <1>11, <1>13, <2>1, <2>3 DEF Look
  <2> QED
    BY <2>2, <2>3
<1>14. ASSUME NEW t \in Side, Deliver(t) PROVE ReceivedOK(r, c)'
  <2>1. /\ inbox[t] # {} /\ Handled(t) /\ Current(t).conn \in conns[t] /\ Current(t).conn \in Conn
    BY <1>0, <1>14 DEF Deliver, Batches
  <2>2. CASE t = r /\ c = Current(r).conn
    <3>1. CASE DeliverData(r, Current(r)) /\ fd[r][c]
      <4>1. got'[r][c] = Append(got[r][c], Current(r).chunk) /\ Current(r).kind = "data"
        BY <1>0, <2>2, <3>1 DEF DeliverData
      <4> QED
        BY <1>1, <2>1, <2>2, <3>1, <4>1, ReceivedData
    <3>2. CASE DeliverData(r, Current(r)) /\ ~fd[r][c]
      <4>1. got'[r][c] = got[r][c] /\ fd' = fd
        BY <1>0, <2>2, <3>2 DEF DeliverData
      <4> QED
        BY <1>11, <2>1, <3>2, <4>1
    <3>3. CASE DeliverClose(r, Current(r))
      <4>1. got' = got /\ c \notin conns'[r]
        BY <1>0, <2>2, <3>3 DEF DeliverClose
      <4> QED
        BY <1>11, <2>1, <4>1
    <3> QED
      BY <1>14, <2>2, <3>1, <3>2, <3>3 DEF Deliver
  <2>3. CASE ~(t = r /\ c = Current(r).conn)
    <3>1. /\ got'[r][c] = got[r][c] /\ fd'[r][c] = fd[r][c]
          /\ c \in conns'[r] => c \in conns[r]
      <4>1. CASE DeliverData(t, Current(t))
        BY <1>0, <2>1, <2>3, <4>1 DEF DeliverData
      <4>2. CASE DeliverClose(t, Current(t))
        BY <1>0, <2>1, <2>3, <4>2 DEF DeliverClose
      <4> QED
        BY <1>14, <4>1, <4>2 DEF Deliver
    <3> QED
      BY <1>11, <2>1, <2>3, <3>1
  <2> QED
    BY <2>2, <2>3
<1>15. ASSUME NEW t \in Side, Flush(t) PROVE ReceivedOK(r, c)'
  BY <1>1, <1>15, ReceivedFlush
\* A client that connects has no answer yet.
<1>16. ASSUME NEW d \in Conn, Accept(d) PROVE ReceivedOK(r, c)'
  <2>1. /\ UNCHANGED <<log, cursor, inbox, fd, got>> /\ "expose" \in Side
        /\ ~Connected("expose", d)
        /\ conns' = [conns EXCEPT !["expose"] = conns["expose"] \cup {d}]
    BY <1>16 DEF Accept, Enqueue, app, Side
  <2>2. CASE r = "expose" /\ c = d
    <3>1. got[r][c] = <<>>
      BY <1>0, <2>1, <2>2 DEF Threads
    <3>2. DataRows(r, c) = {}
      <4> SUFFICES ASSUME NEW p \in DataRows(r, c) PROVE FALSE
        OBVIOUS
      <4>1. p \in DOMAIN log /\ log[p].from = Peer(r) /\ log[p].conn = c
        BY DEF DataRows
      <4>2. OwnFrame("serve", log[p])
        <5>1. Peer(r) = "serve"
          BY <2>2 DEF Peer
        <5> QED
          BY <1>1, <4>1, <5>1, PeerLog
      <4>3. Connected("serve", c)
        BY <4>1, <4>2 DEF OwnFrame
      <4> QED
        BY <2>1, <2>2, <4>3 DEF IInv, Dialed
    <3>3. Len(got'[r][c]) = 0 /\ DOMAIN got'[r][c] = {} /\ log' = log
      BY <2>1, <3>1
    <3> QED
      BY <3>2, <3>3 DEF ReceivedOK, DataRows
  <2>3. CASE ~(r = "expose" /\ c = d)
    <3>1. c \in conns'[r] => c \in conns[r]
      BY <1>0, <2>1, <2>3
    <3> QED
      BY <1>0, <1>1, <2>1, <3>1, ReceivedStill DEF Past
  <2> QED
    BY <2>2, <2>3
<1> QED
  BY <1>3, <1>4, <1>5, <1>6, <1>7, <1>8, <1>9, <1>10, <1>12, <1>13, <1>14, <1>15, <1>16
     DEF Next, Main, Pump, LookupFails, RequestFails

-----------------------------------------------------------------------------
(* Connections begin and end.                                                  *)

\* A relay takes up a connection by accepting or by dialing, and never unlearns it.
LEMMA Connects ==
    ASSUME Types, Batches, [Next]_vars, NEW s \in Side, NEW c \in Conn
    PROVE  /\ Connected(s, c) => Connected(s, c)'
           /\ Connected(s, c)' /\ ~Connected(s, c) =>
                  \/ s = "expose" /\ Accept(c)
                  \/ s = "serve" /\ Dial /\ c = Current("serve").conn
<1>0. pump \in [Side -> [Conn -> Running \cup {"none", "done"}]]
  BY DEF Types, ConnTypes, PerConn
<1>1. ASSUME NEW t \in Side, NEW d \in Conn, NEW from \in Running, NEW to \in Running \cup {"done"},
             PumpAt(t, d, from, to)
      PROVE Connected(s, c)' <=> Connected(s, c)
  BY <1>0, <1>1 DEF PumpAt, Connected, Running
<1>2. ASSUME NEW t \in Side, NEW d \in Conn, Pump(t, d) PROVE Connected(s, c)' <=> Connected(s, c)
  BY <1>1, <1>2 DEF Pump, PumpRecv, PumpData, PumpEof, PumpSendsClose, PumpShuts, PumpPops,
                    Running
<1>3. ASSUME NEW d \in Conn, Accept(d)
      PROVE  /\ Connected(s, c) => Connected(s, c)'
             /\ Connected(s, c)' /\ ~Connected(s, c) => s = "expose" /\ c = d
  BY <1>0, <1>3 DEF Accept, Connected
<1>4. ASSUME Dial
      PROVE  /\ Connected(s, c) => Connected(s, c)'
             /\ Connected(s, c)' /\ ~Connected(s, c) => s = "serve" /\ c = Current("serve").conn
  <2>1. Current("serve").conn \in Conn /\ "serve" \in Side
    BY <1>4, CurrentRow DEF Dial, Handling, Frames, Side
  <2> QED
    BY <1>0, <1>4, <2>1 DEF Dial, Connected
<1>5. ASSUME NEW t \in Side, Exits(t) PROVE Connected(s, c)' <=> Connected(s, c)
  BY <1>0, <1>5 DEF Exits, Connected
<1>6. ASSUME pump' = pump PROVE Connected(s, c)' <=> Connected(s, c)
  BY <1>6 DEF Connected
<1> QED
  BY <1>2, <1>3, <1>4, <1>5, <1>6
     DEF Next, Main, AppWrites, AppEnds, Poll, Look, Deliver, LookupFails, RequestFails, Flush,
         Restart, vars

\* What a live relay has handled it does not forget.
LEMMA PastStays ==
    ASSUME Types, Batches, [Next]_vars, restarts' = 0, NEW r \in Side, Alive(r)',
           NEW p \in DOMAIN log, log[p].from = Peer(r), Past(r, p)
    PROVE  Past(r, p)'
<1>0. /\ cursor \in [Side -> Nat] /\ inbox \in [Side -> SUBSET Nat]
      /\ pc \in [Side -> {"poll", "handle", "use", "dead"}] /\ restarts \in Nat
      /\ DOMAIN log = 1..Len(log) /\ Len(log) \in Nat /\ p \in Nat /\ cursor[r] <= Len(log)
  BY DEF Types, MainTypes, Per, Batches
<1>1. ASSUME UNCHANGED <<cursor, inbox>> PROVE Past(r, p)'
  BY <1>1 DEF Past
<1>2. ASSUME NEW s \in Side, Poll(s) PROVE Past(r, p)'
  <2>1. LastRow \in Nat /\ cursor[r] <= LastRow
    BY <1>0, BoundsAssumption DEF LastRow, Batches
  <2> QED
    BY <1>0, <1>2, <2>1 DEF Poll, Past, NewRows
<1>3. ASSUME NEW s \in Side, inbox[s] # {}, Handled(s) PROVE Past(r, p)'
  BY <1>3, HandledRow
<1>4. ASSUME NEW s \in Side, Exits(s) PROVE Past(r, p)'
  BY <1>0, <1>4 DEF Exits, Past, Alive
<1>5. ASSUME NEW s \in Side, Restart(s) PROVE FALSE
  BY <1>0, <1>5 DEF Restart
<1>6. ASSUME NEW s \in Side, (s = "serve" /\ Dial) \/ Look(s) \/ Deliver(s) PROVE Past(r, p)'
  BY <1>1, <1>3, <1>6 DEF Dial, Look, Deliver, Handling, Batches
<1> QED
  BY <1>1, <1>2, <1>4, <1>5, <1>6, QuietSteps
     DEF Next, Main, LookupFails, RequestFails, Flush, vars, relay, Side

\* A target is dialed for a connection whose open serve has read.
LEMMA DialedStep ==
    ASSUME IInv, [Next]_vars
    PROVE  Dialed'
<1> SUFFICES ASSUME NEW c \in Conn, Connected("serve", c)'
             PROVE  /\ Connected("expose", c)'
                    /\ Alive("serve")' /\ restarts' = 0 =>
                           \E p \in DOMAIN log' :
                               Past("serve", p)' /\ log'[p] = Frame("expose", c, "open", 0)
  BY DEF Dialed
<1>0. /\ Types /\ Batches /\ "serve" \in Side /\ "expose" \in Side
      /\ Peer("serve") = "expose"
  BY DEF IInv, Side, Peer
<1>1. CASE Connected("serve", c)
  <2>1. Connected("expose", c)'
    BY <1>0, <1>1, Connects DEF IInv, Dialed
  <2>2. ASSUME Alive("serve")', restarts' = 0
        PROVE  \E p \in DOMAIN log' :
                   Past("serve", p)' /\ log'[p] = Frame("expose", c, "open", 0)
    <3>1. Alive("serve") /\ restarts = 0
      <4>1. pc'["serve"] # "dead" => pc["serve"] # "dead" \/ Restart("serve")
        BY <1>0, QuietSteps DEF Next, Main, Poll, Dial, Look, Handled, Handling, Deliver,
             LookupFails, RequestFails, Exits, Flush, vars, relay, Types, MainTypes, Per, Restart
      <4>2. restarts = 0 /\ ~Restart("serve")
        BY <1>0, <2>2, RestartsCount DEF Restart, Types, MainTypes
      <4> QED
        BY <2>2, <4>1, <4>2 DEF Alive
    <3>2. PICK p \in DOMAIN log : Past("serve", p) /\ log[p] = Frame("expose", c, "open", 0)
      BY <1>1, <3>1 DEF IInv, Dialed
    <3>3. Past("serve", p)'
      BY <1>0, <2>2, <3>2, PastStays DEF Frame
    <3>4. p \in DOMAIN log' /\ log'[p] = log[p]
      BY <1>0, LogGrows
    <3> QED
      BY <3>2, <3>3, <3>4
  <2> QED
    BY <2>1, <2>2
<1>2. CASE ~Connected("serve", c)
  <2>0. PICK m : m = Min(inbox["serve"])
    OBVIOUS
  <2>1. Dial /\ c = Current("serve").conn
    BY <1>0, <1>2, Connects
  <2>2. /\ m \in DOMAIN log /\ log[m] = Current("serve") /\ log[m].from = "expose"
        /\ log[m].kind = "open" /\ log[m].conn = c
        /\ inbox["serve"] # {} /\ Handled("serve")
    BY <1>0, <2>0, <2>1, CurrentRow DEF Dial, Handling
  <2>3. /\ Past("serve", m)' /\ log' = log
    BY <1>0, <2>0, <2>2, HandledRow
  <2>4. OwnFrame("expose", log[m]) /\ log[m] \in Frames
    BY <1>0, <2>2, PeerLog
  <2>5. log[m] = Frame("expose", c, "open", 0)
    <3>1. log[m].chunk = 0
      BY <2>2, <2>4 DEF OwnFrame
    <3> QED
      BY <2>2, <2>4, <3>1 DEF Frames, Frame
  <2>6. Connected("expose", c)
    BY <2>2, <2>4 DEF OwnFrame
  <2>7. Connected("expose", c)'
    BY <1>0, <2>6, Connects
  <2> QED
    BY <2>2, <2>3, <2>5, <2>7
<1> QED
  BY <1>1, <1>2

\* A relay that handles the close of its peer has handed on all that the peer sent.
LEMMA CloseComesLast ==
    ASSUME IInv, Calm, NEW r \in Side, NEW c \in Conn,
           inbox[r] # {}, Current(r).conn = c, Current(r).kind = "close",
           c \in conns[r], fd[r][c]
    PROVE  Len(got[r][c]) = Sent(Peer(r), c) /\ pump[Peer(r)][c] \in Gone
<1> DEFINE t == Peer(r)
           m == Min(inbox[r])
           n == Len(got[r][c])
           q == Stream(t)
<1>1. /\ Types /\ Batches /\ Chunks /\ t \in Side /\ restarts = 0 /\ Alive(t)
      /\ n \in Nat /\ Sent(t, c) \in Nat /\ Sent(t, c) <= MaxChunks
      /\ cursor[r] \in Nat /\ cursor[r] <= Len(log)
  <2>1. Types /\ Chunks /\ Batches /\ t \in Side
    BY Sides DEF IInv
  <2>2. got[r][c] \in Seq(Nat) /\ cursor[r] \in Nat
    BY <2>1 DEF Types, MainTypes, ConnTypes, Per, PerConn
  <2> QED
    BY <2>1, <2>2, SentIsNat DEF Calm, Batches
<1>2. StreamOK(t) /\ ReceivedOK(r, c)
  BY <1>1 DEF IInv, Delivery
<1>3. /\ m \in inbox[r] /\ m \in DOMAIN log /\ m \in Nat /\ m \in 1..cursor[r]
      /\ \A p \in inbox[r] : m <= p
      /\ log[m].from = t /\ log[m].conn = c /\ log[m].kind = "close"
  BY <1>1, CurrentRow
<1>4. /\ \A p \in DOMAIN log : log[p].from = t => OwnFrame(t, log[p])
      /\ \A p \in DOMAIN log : p \in Nat
  BY <1>1, PeerLog
<1>5. /\ DOMAIN log = 1..Len(log) /\ Len(log) \in Nat
      /\ DOMAIN q = 1..(Len(log) + Len(outbox[t])) /\ Len(outbox[t]) \in Nat
      /\ \A p \in DOMAIN log : q[p] = log[p]
  BY <1>1, StreamTypes, Rows DEF Stream
<1> HIDE DEF t, m, n, q
<1>6. pump[t][c] \in Gone
  <2>1. OwnFrame(t, log[m])
    BY <1>3, <1>4
  <2> QED
    BY <1>3, <2>1 DEF OwnFrame, Gone
<1>7. ASSUME NEW k \in 1..Sent(t, c) PROVE k <= n
  <2>1. PICK p \in DOMAIN q : q[p] = Frame(t, c, "data", k)
    BY <1>1, <1>2 DEF StreamOK, Whole, Carries, q
  <2>2. q[p].from = t /\ q[p].conn = c /\ q[p].kind = "data" /\ q[p].chunk = k
    BY <2>1 DEF Frame
  <2>3. m \in DOMAIN q /\ q[m] = log[m] /\ p \in Nat
    BY <1>3, <1>5
  <2>4. Rank(q[p]) < Rank(q[m]) /\ ~(Rank(q[m]) < Rank(q[p]))
    <3>1. Rank(q[p]) = k /\ Rank(q[m]) = MaxChunks + 1 /\ MaxChunks \in Nat /\ k <= MaxChunks
      BY <1>1, <1>3, <2>2, <2>3, BoundsAssumption DEF Rank
    <3> QED
      BY <1>1, <3>1
  <2>5. m < p => Rank(q[m]) < Rank(q[p])
    BY <1>2, <1>3, <2>2, <2>3 DEF StreamOK, Sorted, q
  <2>6. p # m
    BY <1>3, <2>2, <2>3
  <2>7. p < m
    BY <1>3, <2>3, <2>4, <2>5, <2>6
  <2>8. p \in DOMAIN log /\ log[p] = q[p]
    BY <1>3, <1>5, <2>3, <2>7
  <2>9. Past(r, p)
    BY <1>1, <1>3, <2>3, <2>7 DEF Past
  <2> QED
    BY <1>2, <2>2, <2>8, <2>9 DEF ReceivedOK, t, n
<1>8. n # 0 => n <= Sent(t, c)
  <2> SUFFICES ASSUME n # 0 PROVE n <= Sent(t, c)
    OBVIOUS
  <2>1. PICK p \in DOMAIN log : log[p] = Frame(t, c, "data", n)
    BY <1>2 DEF ReceivedOK, Carries, t, n
  <2>2. OwnFrame(t, log[p])
    BY <1>4, <2>1 DEF Frame
  <2> QED
    BY <1>1, <2>1, <2>2 DEF OwnFrame, Frame
<1>9. Sent(t, c) # 0 => Sent(t, c) <= n
  BY <1>1, <1>7
<1>10. n = Sent(t, c)
  BY <1>1, <1>8, <1>9
<1> QED
  BY <1>6, <1>10 DEF t, n

\* Nobody lets go early, and whoever lets go has handed on what there was.
LEMMA EndingsStep ==
    ASSUME IInv, [Next]_vars
    PROVE  Endings'
<1> SUFFICES ASSUME Calm' PROVE \A t \in Side, d \in Conn : EndingOK(t, d)'
  BY DEF Endings
<1>0. /\ Types /\ Batches /\ Threads /\ Chunks
      /\ pump \in [Side -> [Conn -> Running \cup {"none", "done"}]]
      /\ fd \in [Side -> [Conn -> BOOLEAN]] /\ ended \in [Side -> [Conn -> BOOLEAN]]
      /\ unread \in [Side -> [Conn -> Seq(Nat)]] /\ wrote \in [Side -> [Conn -> Nat]]
      /\ got \in [Side -> [Conn -> Seq(Nat)]] /\ conns \in [Side -> SUBSET Conn]
      /\ pc \in [Side -> {"poll", "handle", "use", "dead"}] /\ restarts \in Nat
  BY DEF IInv, Types, MainTypes, ConnTypes, Per, PerConn
<1>1. \A s \in Side : ~Exits(s) /\ ~Restart(s)
  <2>1. \A s \in Side : pc'[s] # "dead"
    BY DEF Calm, Alive
  <2>2. restarts' = 0
    BY DEF Calm
  <2> QED
    BY <1>0, <2>1, <2>2 DEF Exits, Restart
<1>2. Calm
  <2>1. restarts = 0
    BY <1>0, RestartsCount DEF Calm
  <2>2. \A s \in Side : pc'[s] # "dead" => pc[s] # "dead"
    BY <1>0, <1>1, QuietSteps DEF Next, Main, Poll, Dial, Look, Handled, Handling, Deliver,
       LookupFails, RequestFails, Flush, vars, relay
  <2> QED
    BY <2>1, <2>2 DEF Calm, Alive
<1>3. \A t \in Side, d \in Conn : EndingOK(t, d)
  BY <1>2 DEF IInv, Endings
\* Only what EndingOK reads of t, its peer and d matters.
<1>4. ASSUME NEW t \in Side, NEW d \in Conn,
             pump'[t][d] = pump[t][d], pump'[Peer(t)][d] = pump[Peer(t)][d],
             fd'[t][d] = fd[t][d], ended'[t][d] = ended[t][d],
             got'[t][d] = got[t][d] \/ fd[t][d],
             ended'[Peer(t)][d] = ended[Peer(t)][d],
             unread'[t][d] = unread[t][d] \/ ~ended[t][d],
             unread'[Peer(t)][d] = unread[Peer(t)][d] \/ ~ended[Peer(t)][d],
             Sent(Peer(t), d)' = Sent(Peer(t), d)
      PROVE  EndingOK(t, d)'
  BY <1>3, <1>4 DEF EndingOK, Done
<1>5. ASSUME UNCHANGED <<pump, fd, ended, unread, wrote, got>>
      PROVE \A t \in Side, d \in Conn : EndingOK(t, d)'
  BY <1>3, <1>5 DEF EndingOK, Done, Sent
\* Applications.
<1>6. ASSUME NEW s \in Side, NEW c \in Conn, AppWrites(s, c), NEW t \in Side, NEW d \in Conn
      PROVE EndingOK(t, d)'
  <2>1. /\ UNCHANGED <<pump, fd, ended, got>> /\ ~ended[s][c]
        /\ \A u \in Side : unread'[u][d] = unread[u][d] \/ ~ended[u][d]
    BY <1>0, <1>6 DEF AppWrites
  <2>2. \A u \in Side : Sent(u, d)' = Sent(u, d)
    BY <1>0, <1>6, SentWrites
  <2> QED
    BY <1>4, <2>1, <2>2, Sides
<1>7. ASSUME NEW s \in Side, NEW c \in Conn, AppEnds(s, c), NEW t \in Side, NEW d \in Conn
      PROVE EndingOK(t, d)'
  <2>1. UNCHANGED <<pump, fd, unread, wrote, got>>
    BY <1>7 DEF AppEnds
  <2>2. \A u \in Side : ended[u][d] => ended'[u][d]
    BY <1>0, <1>7 DEF AppEnds
  <2> QED
    BY <1>0, <1>3, <2>1, <2>2, Sides DEF EndingOK, Done, Sent
\* Pumps.
<1>8. ASSUME NEW s \in Side, NEW c \in Conn, NEW from \in Running, NEW to \in Running \cup {"done"},
             PumpAt(s, c, from, to), from \in Gone => to \in Gone,
             to \in Leaving => from \in Leaving \/ ~fd[s][c] \/ Done(s, c),
             UNCHANGED <<fd, ended, unread, wrote, got>>, NEW t \in Side, NEW d \in Conn
      PROVE EndingOK(t, d)'
  <2>1. /\ pump[s][c] = from /\ pump'[s][c] = to
        /\ \A u \in Side, e \in Conn : u # s \/ e # c => pump'[u][e] = pump[u][e]
    BY <1>0, <1>8 DEF PumpAt
  <2>2. Sent(Peer(t), d)' = Sent(Peer(t), d)
    BY <1>8 DEF Sent
  <2>3. CASE t = s /\ d = c
    BY <1>3, <1>8, <2>1, <2>2, <2>3, Sides DEF EndingOK, Done, Gone
  <2>4. CASE t # s /\ d = c
    BY <1>3, <1>8, <2>1, <2>2, <2>4, Sides DEF EndingOK, Done, Gone
  <2>5. CASE d # c
    BY <1>4, <1>8, <2>1, <2>2, <2>5, Sides
  <2> QED
    BY <2>3, <2>4, <2>5
<1>9. ASSUME NEW s \in Side, NEW c \in Conn, PumpRecv(s, c), NEW t \in Side, NEW d \in Conn
      PROVE EndingOK(t, d)'
  BY <1>8, <1>9 DEF PumpRecv, app, Running, Gone, Leaving
<1>10. ASSUME NEW s \in Side, NEW c \in Conn, PumpEof(s, c), NEW t \in Side, NEW d \in Conn
       PROVE EndingOK(t, d)'
  BY <1>8, <1>10 DEF PumpEof, app, Running, Gone, Leaving, Done
<1>11. ASSUME NEW s \in Side, NEW c \in Conn, PumpSendsClose(s, c) \/ PumpPops(s, c),
              NEW t \in Side, NEW d \in Conn
       PROVE EndingOK(t, d)'
  BY <1>8, <1>11 DEF PumpSendsClose, PumpPops, app, Running, Gone, Leaving
<1>12. ASSUME NEW s \in Side, NEW c \in Conn, PumpData(s, c), NEW t \in Side, NEW d \in Conn
       PROVE EndingOK(t, d)'
  <2>1. /\ pump[s][c] = "recv" /\ pump'[s][c] = "top" /\ unread[s][c] # <<>>
        /\ \A u \in Side, e \in Conn : u # s \/ e # c =>
               pump'[u][e] = pump[u][e] /\ unread'[u][e] = unread[u][e]
        /\ UNCHANGED <<fd, wrote, ended, got>>
    BY <1>0, <1>12 DEF PumpData, PumpAt
  <2>2. \A u \in Side, e \in Conn : u # s \/ e # c => Sent(u, e)' = Sent(u, e)
    BY <2>1 DEF Sent
  <2>3. ~Done(s, c) /\ "recv" \notin Leaving /\ "top" \notin Leaving /\ "recv" \notin Gone
    BY <2>1 DEF Done, Leaving, Gone
  <2>4. CASE t = s /\ d = c
    BY <1>3, <2>1, <2>2, <2>3, <2>4, Sides DEF EndingOK, Done
  <2>5. CASE t # s /\ d = c
    BY <1>3, <2>1, <2>2, <2>3, <2>5, Sides DEF EndingOK, Done, Gone
  <2>6. CASE d # c
    BY <1>4, <2>1, <2>2, <2>6, Sides
  <2> QED
    BY <2>4, <2>5, <2>6
<1>13. ASSUME NEW s \in Side, NEW c \in Conn, PumpShuts(s, c), NEW t \in Side, NEW d \in Conn
       PROVE EndingOK(t, d)'
  <2>1. /\ pump[s][c] = "shut" /\ pump'[s][c] = "pop" /\ fd'[s][c] = FALSE
        /\ \A u \in Side, e \in Conn : u # s \/ e # c =>
               pump'[u][e] = pump[u][e] /\ fd'[u][e] = fd[u][e]
        /\ UNCHANGED <<wrote, unread, ended, got>>
    BY <1>0, <1>13 DEF PumpShuts, PumpAt, app
  <2>2. \A u \in Side, e \in Conn : Sent(u, e)' = Sent(u, e)
    BY <2>1 DEF Sent
  <2>3. "shut" \in Leaving /\ "pop" \in Leaving
    BY DEF Leaving
  <2>4. CASE t = s /\ d = c
    BY <1>3, <2>1, <2>2, <2>3, <2>4, Sides DEF EndingOK, Done
  <2>5. CASE t # s /\ d = c
    BY <1>3, <2>1, <2>2, <2>3, <2>5, Sides DEF EndingOK, Done
  <2>6. CASE d # c
    BY <1>4, <2>1, <2>2, <2>6, Sides
  <2> QED
    BY <2>4, <2>5, <2>6
<1>14. ASSUME NEW s \in Side, NEW c \in Conn, Pump(s, c), NEW t \in Side, NEW d \in Conn
       PROVE EndingOK(t, d)'
  BY <1>9, <1>10, <1>11, <1>12, <1>13, <1>14 DEF Pump
\* A connection that begins: its pump was not gone, and its socket is open.
<1>15. ASSUME NEW s \in Side, NEW c \in Conn, pump[s][c] = "none", pump'[s][c] = "top",
              fd[s][c], fd'[s][c], ~ended[s][c], wrote[s][c] = 0, unread[s][c] = <<>>,
              wrote'[s][c] = 0, unread'[s][c] = <<>>,
              \A u \in Side, e \in Conn : u # s \/ e # c =>
                  /\ pump'[u][e] = pump[u][e] /\ fd'[u][e] = fd[u][e]
                  /\ ended'[u][e] = ended[u][e] /\ wrote'[u][e] = wrote[u][e]
                  /\ unread'[u][e] = unread[u][e] /\ got'[u][e] = got[u][e],
              NEW t \in Side, NEW d \in Conn
       PROVE EndingOK(t, d)'
  <2>1. \A u \in Side, e \in Conn : Sent(u, e)' = Sent(u, e)
    BY <1>15 DEF Sent
  <2>2. "none" \notin Gone /\ "top" \notin Leaving
    BY DEF Leaving, Gone
  <2>3. CASE t = s /\ d = c
    BY <1>15, <2>2, <2>3 DEF EndingOK
  <2>4. CASE t # s /\ d = c
    BY <1>3, <1>15, <2>1, <2>2, <2>4, Sides DEF EndingOK, Done, Gone
  <2>5. CASE d # c
    BY <1>4, <1>15, <2>1, <2>5, Sides
  <2> QED
    BY <2>3, <2>4, <2>5
<1>16. ASSUME NEW c \in Conn, Accept(c), NEW t \in Side, NEW d \in Conn PROVE EndingOK(t, d)'
  <2>1. /\ "expose" \in Side /\ ~Connected("expose", c) /\ pump["expose"][c] = "none"
        /\ UNCHANGED <<fd, ended, wrote, unread, got>>
        /\ pump'["expose"][c] = "top"
        /\ \A u \in Side, e \in Conn : u # "expose" \/ e # c => pump'[u][e] = pump[u][e]
    BY <1>0, <1>16 DEF Accept, app, Side, Connected
  <2>2. /\ fd["expose"][c] /\ ~ended["expose"][c] /\ wrote["expose"][c] = 0
        /\ unread["expose"][c] = <<>>
    BY <1>0, <2>1 DEF Threads
  <2> QED
    BY <1>15, <2>1, <2>2
<1>17. ASSUME Dial, NEW t \in Side, NEW d \in Conn PROVE EndingOK(t, d)'
  <2>0. PICK c : c = Current("serve").conn
    OBVIOUS
  <2>1. "serve" \in Side /\ c \in Conn
    BY <1>0, <1>17, <2>0, CurrentRow DEF Dial, Handling, Frames, Side
  <2>2. ~Connected("serve", c) /\ pump["serve"][c] = "none"
    BY <1>2, <1>17, <2>0, DialsFresh DEF Calm, Connected
  <2>3. /\ fd["serve"][c] /\ ~ended["serve"][c] /\ wrote["serve"][c] = 0
        /\ unread["serve"][c] = <<>>
    BY <1>0, <2>1, <2>2 DEF Threads
  <2>4. /\ pump'["serve"][c] = "top" /\ fd'["serve"][c] /\ wrote'["serve"][c] = 0
        /\ unread'["serve"][c] = <<>>
        /\ \A u \in Side, e \in Conn : u # "serve" \/ e # c =>
               /\ pump'[u][e] = pump[u][e] /\ fd'[u][e] = fd[u][e]
               /\ ended'[u][e] = ended[u][e] /\ wrote'[u][e] = wrote[u][e]
               /\ unread'[u][e] = unread[u][e] /\ got'[u][e] = got[u][e]
    BY <1>0, <1>17, <2>0, <2>1 DEF Dial
  <2> QED
    BY <1>15, <2>1, <2>2, <2>3, <2>4
\* The main threads.
<1>18. ASSUME NEW s \in Side, Deliver(s), NEW t \in Side, NEW d \in Conn PROVE EndingOK(t, d)'
  <2>0. PICK c : c = Current(s).conn
    OBVIOUS
  <2>1. /\ inbox[s] # {} /\ c \in conns[s] /\ c \in Conn
        /\ UNCHANGED <<pump, ended, wrote, unread>>
    BY <1>0, <1>18, <2>0 DEF Deliver, Batches
  <2>2. \A u \in Side, e \in Conn : Sent(u, e)' = Sent(u, e)
    BY <2>1 DEF Sent
  <2>3. CASE DeliverData(s, Current(s))
    <3>1. /\ fd' = fd
          /\ \A u \in Side, e \in Conn : got'[u][e] = got[u][e] \/ fd[u][e]
      BY <1>0, <2>3 DEF DeliverData
    <3> QED
      BY <1>4, <2>1, <2>2, <3>1, Sides
  <2>4. CASE DeliverClose(s, Current(s))
    <3>1. /\ got' = got /\ fd'[s][c] = FALSE
          /\ \A u \in Side, e \in Conn : u # s \/ e # c => fd'[u][e] = fd[u][e]
      BY <1>0, <2>0, <2>1, <2>4 DEF DeliverClose
    <3>2. CASE t = s /\ d = c /\ fd[s][c]
      <4>1. Len(got[s][c]) = Sent(Peer(s), c) /\ pump[Peer(s)][c] \in Gone
        BY <1>2, <2>0, <2>1, <2>4, <3>2, CloseComesLast DEF DeliverClose
      <4>2. Done(s, c) \/ Done(Peer(s), c)
        BY <1>3, <2>1, <4>1, Sides DEF EndingOK, Gone, Leaving
      <4> QED
        BY <1>3, <2>1, <2>2, <3>1, <3>2, <4>1, <4>2, Sides DEF EndingOK, Done, Gone
    <3>3. CASE ~(t = s /\ d = c /\ fd[s][c])
      <4>1. fd'[t][d] = fd[t][d]
        <5>1. CASE t = s /\ d = c
          <6>1. fd[s][c] \in BOOLEAN /\ ~fd[s][c]
            BY <1>0, <2>1, <3>3, <5>1
          <6> QED
            BY <3>1, <5>1, <6>1
        <5>2. CASE ~(t = s /\ d = c)
          BY <3>1, <5>2
        <5> QED
          BY <5>1, <5>2
      <4> QED
        BY <1>4, <2>1, <2>2, <3>1, <4>1, Sides
    <3> QED
      BY <3>2, <3>3
  <2> QED
    BY <1>18, <2>3, <2>4 DEF Deliver
<1>19. ASSUME NEW s \in Side, Poll(s) \/ Look(s) \/ Flush(s)
       PROVE \A t \in Side, d \in Conn : EndingOK(t, d)'
  BY <1>5, <1>19 DEF Poll, Look, Flush, app
<1>20. CASE UNCHANGED vars
  BY <1>5, <1>20 DEF vars, app
<1> QED
  BY <1>1, <1>6, <1>7, <1>14, <1>16, <1>17, <1>18, <1>19, <1>20
     DEF Next, Main, LookupFails, RequestFails

-----------------------------------------------------------------------------
(* What the relays promise.                                                    *)

\* The first state satisfies the invariant.
LEMMA InitEstablishes == ASSUME Init PROVE IInv
<1>1. /\ log = <<>> /\ DOMAIN log = {} /\ Len(log) = 0
      /\ \A s \in Side : /\ outbox[s] = <<>> /\ DOMAIN outbox[s] = {}
                         /\ Stream(s) = <<>> /\ DOMAIN Stream(s) = {}
                         /\ pc[s] = "poll" /\ cursor[s] = 0 /\ inbox[s] = {} /\ conns[s] = {}
      /\ \A s \in Side, c \in Conn :
             /\ pump[s][c] = "none" /\ fd[s][c] /\ unread[s][c] = <<>> /\ wrote[s][c] = 0
             /\ ~ended[s][c] /\ got[s][c] = <<>> /\ DOMAIN got[s][c] = {}
             /\ Len(got[s][c]) = 0 /\ Len(unread[s][c]) = 0 /\ DOMAIN unread[s][c] = {}
  BY DEF Init, Stream
<1>2. Types
  BY DEF Init, Types, MainTypes, ConnTypes, Per, PerConn, Running
<1>3. Batches /\ Threads /\ OutboxIsOwn
  BY <1>1, BoundsAssumption DEF Batches, Threads, OutboxIsOwn, Alive, Connected
<1>4. \A s \in Side, c \in Conn : Sent(s, c) = 0
  BY <1>1 DEF Sent
<1>5. Chunks
  BY <1>1, BoundsAssumption DEF Chunks
<1>6. \A s \in Side : StreamOK(s)
  <2>1. ASSUME NEW s \in Side, NEW c \in Conn, NEW k \in 1..Sent(s, c) PROVE FALSE
    BY <1>4, <2>1
  <2> QED
    BY <1>1, <2>1 DEF StreamOK, Sorted, NoGaps, Carries
<1>7. \A r \in Side, c \in Conn : ReceivedOK(r, c)
  BY <1>1 DEF ReceivedOK
<1>8. Dialed
  BY <1>1 DEF Dialed, Connected, Side
<1>9. Endings
  BY <1>1 DEF Endings, EndingOK, Leaving
<1> QED
  BY <1>2, <1>3, <1>5, <1>6, <1>7, <1>8, <1>9 DEF IInv, Delivery

\* Every step preserves it.
LEMMA NextPreserves == ASSUME IInv, [Next]_vars PROVE IInv'
<1>1. Types /\ Batches /\ Threads /\ Chunks /\ OutboxIsOwn
  BY DEF IInv
<1>2. \A s \in Side : s = "expose" \/ restarts' = 0 => StreamOK(s)'
  BY StreamStep
<1>3. \A r \in Side : r = "serve" \/ restarts' = 0 => \A c \in Conn : ReceivedOK(r, c)'
  BY ReceivedStep
<1> QED
  BY <1>1, <1>2, <1>3, TypesStep, BatchesStep, ThreadsStep, ChunksStep, OutboxStep, DialedStep,
     EndingsStep DEF IInv, Delivery

\* The invariant holds in every state of the relays.
THEOREM Invariance == Spec => []IInv
  BY InitEstablishes, NextPreserves, PTL DEF Spec

\* A main thread that has looked an entry up has a frame to handle, its cursor never runs
\* ahead of the sheet, and an entry in conns has a pump that has not finished.
THEOREM RelayTypes == Spec => []TypeOK
<1>1. IInv => TypeOK
  <2> SUFFICES ASSUME IInv PROVE TypeOK
    OBVIOUS
  <2>1. Types /\ Batches /\ Threads /\ Chunks
    BY DEF IInv
  <2>2. ASSUME NEW s \in Side
        PROVE  /\ pc[s] \in {"poll", "handle", "use", "dead"} /\ cursor[s] \in 0..Len(log)
               /\ pc[s] = "use" => inbox[s] # {}
               /\ conns[s] \subseteq Conn
               /\ \A c \in conns[s] : pump[s][c] \in {"top", "recv", "closing", "shut", "pop"}
    BY <2>1 DEF Types, MainTypes, Per, Batches, Threads, Running
  <2>3. ASSUME NEW s \in Side, NEW c \in Conn
        PROVE  fd[s][c] \in BOOLEAN /\ wrote[s][c] \in 0..MaxChunks
    BY <2>1, BoundsAssumption DEF Types, ConnTypes, PerConn, Chunks
  <2>4. \A s \in Side : cursor[s] <= LastRow
    BY <2>1 DEF Batches, LastRow
  <2>5. Len(log) \in Nat /\ LastRow \in Nat /\ \A s \in Side : cursor[s] \in Nat
    BY <2>1, BoundsAssumption DEF LastRow, Types, MainTypes, Per
  <2> QED
    BY <2>2, <2>3, <2>4, <2>5 DEF TypeOK
<1> QED
  BY <1>1, Invariance, PTL

\* What an application received is a beginning of what the other one wrote: in order, nothing
\* twice, nothing that was not written, through any interleaving of pumps, ticks and batches.
THEOREM ReceivesInOrder == Spec => []InOrder
<1>1. IInv => InOrder
  <2> SUFFICES ASSUME IInv, NEW s \in Side, NEW c \in Conn, s = "serve" \/ restarts = 0
               PROVE  /\ Len(got[s][c]) <= wrote[Peer(s)][c]
                      /\ \A k \in DOMAIN got[s][c] : got[s][c][k] = k
    BY DEF InOrder
  <2> DEFINE n == Len(got[s][c])
  <2>1. /\ Types /\ Chunks /\ Peer(s) \in Side /\ ReceivedOK(s, c)
        /\ n \in Nat
    BY Sides DEF IInv, Delivery, Types, ConnTypes, PerConn
  <2>2. /\ wrote[Peer(s)][c] \in Nat /\ Sent(Peer(s), c) \in Nat
        /\ Sent(Peer(s), c) <= wrote[Peer(s)][c]
    BY <2>1 DEF Types, ConnTypes, PerConn, Chunks, Sent
  <2>3. n # 0 => n <= Sent(Peer(s), c)
    <3> SUFFICES ASSUME n # 0 PROVE n <= Sent(Peer(s), c)
      OBVIOUS
    <3>1. PICK p \in DOMAIN log : log[p] = Frame(Peer(s), c, "data", n)
      BY <2>1 DEF ReceivedOK, Carries
    <3>2. OwnFrame(Peer(s), log[p])
      BY <3>1, PeerLog DEF Frame
    <3> HIDE DEF n
    <3> QED
      BY <2>2, <3>1, <3>2 DEF OwnFrame, Frame
  <2> QED
    BY <2>1, <2>2, <2>3 DEF ReceivedOK
<1> QED
  BY <1>1, Invariance, PTL

\* An application that reads the end of a stream it has not ended itself has all of it,
\* while both relays of the first pair live.
THEOREM EndsComplete == Spec => []NoTruncation
<1>1. IInv => NoTruncation
  <2> SUFFICES ASSUME IInv, NEW s \in Side, NEW c \in Conn, SeesEnd(s, c), ~ended[s][c],
                      \A t \in Side : Alive(t), restarts = 0
               PROVE  Len(got[s][c]) = wrote[Peer(s)][c]
    BY DEF NoTruncation
  <2>1. Types /\ Chunks /\ Peer(s) \in Side /\ EndingOK(s, c)
    BY Sides DEF IInv, Endings, Calm
  <2>2. Len(got[s][c]) = Sent(Peer(s), c) /\ Done(Peer(s), c)
    BY <2>1 DEF SeesEnd, EndingOK, Done
  <2>3. Sent(Peer(s), c) = wrote[Peer(s)][c]
    BY <2>1, <2>2, SentIsNat DEF Done
  <2> QED
    BY <2>2, <2>3
<1> QED
  BY <1>1, Invariance, PTL
=============================================================================
