-------------------------------- MODULE Wire --------------------------------
(***************************************************************************)
(* The two relays of sheetwire.py, "expose" on the client's side and       *)
(* "serve" on the service's, and the Wire tab between them: an append-only *)
(* log of frames that each relay writes its outbox to and reads with a     *)
(* cursor.                                                                 *)
(*                                                                         *)
(* A relay is a main thread (poll, handle the frames one by one, flush)    *)
(* and one pump thread per connection (recv, enqueue).  They share conns   *)
(* and outbox; every access to conns is a step of its own.  An application *)
(* (client or target) writes numbered chunks and ends its side of the      *)
(* stream when it likes; it may go on reading after that.                  *)
(*                                                                         *)
(* A socket the relay closes sends its FIN when no thread is inside a      *)
(* recv on it: the blocked system call keeps the socket alive.             *)
(***************************************************************************)
EXTENDS Naturals, Sequences, FiniteSetsExt

CONSTANTS
    Conn,           \* connection ids
    MaxChunks,      \* bound: chunks an application writes per connection
    Limit,          \* frames of the tab that a poll looks at: rows 2 to 100000
    MaxEvents       \* bound: chunks written, relays that die, relays started again

ASSUME BoundsAssumption == MaxChunks \in Nat /\ Limit \in Nat

Side == {"expose", "serve"}
Peer(s) == IF s = "expose" THEN "serve" ELSE "expose"

VARIABLES
    log,            \* the Wire tab: sequence of frames
    pc, cursor,     \* per side, where the main thread is and the rows it has read
    inbox,          \* per side, the rows of the last poll that it has still to handle
    outbox, conns,  \* per side, the frames to flush and the connections it knows
    pump,           \* per side and connection, where its pump thread is
    fd,             \* per side and connection: the relay has the socket open
    unread,         \* ... what the application wrote and the relay has not received
    wrote, ended,   \* ... what the application did
    got,            \* ... the chunks the application received
    deaths, restarts    \* relays that died of a failed request, and that were started again

relay == <<pc, cursor, inbox, outbox, conns>>
app == <<unread, wrote, ended, got>>
faults == <<deaths, restarts>>
vars == <<log, relay, pump, fd, app, faults>>

Frame(s, c, kind, chunk) == [from |-> s, conn |-> c, kind |-> kind, chunk |-> chunk]

Init ==
    /\ log = <<>>
    /\ pc = [s \in Side |-> "poll"]
    /\ cursor = [s \in Side |-> 0]
    /\ inbox = [s \in Side |-> {}]
    /\ outbox = [s \in Side |-> <<>>]
    /\ conns = [s \in Side |-> {}]
    /\ pump = [s \in Side |-> [c \in Conn |-> "none"]]
    /\ fd = [s \in Side |-> [c \in Conn |-> TRUE]]
    /\ unread = [s \in Side |-> [c \in Conn |-> <<>>]]
    /\ wrote = [s \in Side |-> [c \in Conn |-> 0]]
    /\ ended = [s \in Side |-> [c \in Conn |-> FALSE]]
    /\ got = [s \in Side |-> [c \in Conn |-> <<>>]]
    /\ deaths = 0
    /\ restarts = 0

Affordable ==
    deaths + restarts + MapThenSumSet(LAMBDA x : wrote[x[1]][x[2]], Side \X Conn) < MaxEvents
Alive(s) == pc[s] # "dead"
Connected(s, c) == pump[s][c] # "none"
\* The application reads the end of the stream.
SeesEnd(s, c) == Connected(s, c) /\ ~fd[s][c] /\ pump[s][c] # "recv"

-----------------------------------------------------------------------------
(* Applications.                                                               *)

\* The target answers what it was asked.
AppWrites(s, c) ==
    /\ Connected(s, c) /\ ~SeesEnd(s, c)
    /\ ~ended[s][c] /\ wrote[s][c] < MaxChunks /\ Affordable
    /\ s = "serve" => wrote[s][c] < Len(got[s][c])
    /\ wrote' = [wrote EXCEPT ![s][c] = @ + 1]
    /\ unread' = [unread EXCEPT ![s][c] = Append(@, wrote[s][c] + 1)]
    /\ UNCHANGED <<log, relay, pump, fd, ended, got, faults>>

AppEnds(s, c) ==
    /\ Connected(s, c) /\ ~ended[s][c]
    /\ ended' = [ended EXCEPT ![s][c] = TRUE]
    /\ UNCHANGED <<log, relay, pump, fd, unread, wrote, got, faults>>

-----------------------------------------------------------------------------
(* Pump threads.                                                               *)

Enqueue(s, frame) == /\ outbox' = [outbox EXCEPT ![s] = Append(@, frame)]
                     /\ UNCHANGED <<log, pc, cursor, inbox>>
PumpAt(s, c, from, to) == /\ pump[s][c] = from /\ pump' = [pump EXCEPT ![s][c] = to]
                          /\ UNCHANGED faults

\* recv on a socket the main thread has closed raises; on an open one it blocks.
PumpRecv(s, c) ==
    /\ PumpAt(s, c, "top", IF fd[s][c] THEN "recv" ELSE "closing")
    /\ UNCHANGED <<log, relay, fd, app>>

PumpData(s, c) ==
    /\ PumpAt(s, c, "recv", "top")
    /\ unread[s][c] # <<>>
    /\ Enqueue(s, Frame(s, c, "data", Head(unread[s][c])))
    /\ unread' = [unread EXCEPT ![s][c] = Tail(@)]
    /\ UNCHANGED <<conns, fd, wrote, ended, got>>

\* A plausible slip: the end of the stream is taken before what precedes it.
PumpEofEarly(s, c) ==
    /\ PumpAt(s, c, "recv", "closing")
    /\ ended[s][c]
    /\ UNCHANGED <<log, relay, fd, app>>

PumpEof(s, c) ==
    /\ PumpAt(s, c, "recv", "closing")
    /\ ended[s][c] /\ unread[s][c] = <<>>
    /\ UNCHANGED <<log, relay, fd, app>>

\* A plausible slip: the socket is closed without a word to the peer.
PumpClosesQuietly(s, c) ==
    /\ PumpAt(s, c, "closing", "shut")
    /\ UNCHANGED <<log, relay, fd, app>>

\* finally: enqueue the close frame, close the socket, forget it.
PumpSendsClose(s, c) ==
    /\ PumpAt(s, c, "closing", "shut")
    /\ Enqueue(s, Frame(s, c, "close", 0))
    /\ UNCHANGED <<conns, fd, app>>

PumpShuts(s, c) ==
    /\ PumpAt(s, c, "shut", "pop")
    /\ fd' = [fd EXCEPT ![s][c] = FALSE]
    /\ UNCHANGED <<log, relay, app>>

\* A plausible slip: the pump leaves its entry behind.
PumpKeeps(s, c) ==
    /\ PumpAt(s, c, "pop", "done")
    /\ UNCHANGED <<log, relay, fd, app>>

PumpPops(s, c) ==
    /\ PumpAt(s, c, "pop", "done")
    /\ conns' = [conns EXCEPT ![s] = @ \ {c}]
    /\ UNCHANGED <<log, pc, cursor, inbox, outbox, fd, app>>

Pump(s, c) == \/ PumpRecv(s, c) \/ PumpData(s, c) \/ PumpEof(s, c)
              \/ PumpSendsClose(s, c) \/ PumpShuts(s, c) \/ PumpPops(s, c)

-----------------------------------------------------------------------------
(* Main threads.                                                               *)

\* A client connects: accept_loop registers it, enqueues the open and starts the pump.
Accept(c) ==
    /\ Alive("expose") /\ ~Connected("expose", c)
    /\ conns' = [conns EXCEPT !["expose"] = @ \cup {c}]
    /\ Enqueue("expose", Frame("expose", c, "open", 0))
    /\ pump' = [pump EXCEPT !["expose"][c] = "top"]
    /\ UNCHANGED <<fd, app, faults>>

\* The log grows for ever, the range a poll asks for ends at Limit.
LastRow == IF Len(log) < Limit THEN Len(log) ELSE Limit

\* The rows a poll returns: those past the cursor that the peer wrote.
NewRows(s) == {p \in (cursor[s] + 1)..LastRow : log[p].from = Peer(s)}

\* A plausible slip: the cursor stays on the last row read instead of moving past it.
PollBehind(s) ==
    /\ pc[s] = "poll"
    /\ pc' = [pc EXCEPT ![s] = "handle"]
    /\ cursor' = [cursor EXCEPT ![s] = IF LastRow > @ THEN LastRow - 1 ELSE @]
    /\ inbox' = [inbox EXCEPT ![s] = NewRows(s)]
    /\ UNCHANGED <<log, outbox, conns, pump, fd, app, faults>>

Poll(s) ==
    /\ pc[s] = "poll"
    /\ pc' = [pc EXCEPT ![s] = "handle"]
    /\ cursor' = [cursor EXCEPT ![s] = LastRow]
    /\ inbox' = [inbox EXCEPT ![s] = NewRows(s)]
    /\ UNCHANGED <<log, outbox, conns, pump, fd, app, faults>>

\* The frame the loop over the batch is at.
Current(s) == log[Min(inbox[s])]
Handling(s, kinds) == pc[s] = "handle" /\ inbox[s] # {} /\ Current(s).kind \in kinds
Handled(s) == /\ pc' = [pc EXCEPT ![s] = "handle"]
              /\ inbox' = [inbox EXCEPT ![s] = @ \ {Min(@)}]
              /\ UNCHANGED <<log, cursor, outbox, faults>>

\* serve, an open frame: dial the target.  The socket is a new one.
Dial ==
    LET c == Current("serve").conn
    IN  /\ Handling("serve", {"open"}) /\ Handled("serve")
        /\ conns' = [conns EXCEPT !["serve"] = @ \cup {c}]
        /\ pump' = [pump EXCEPT !["serve"][c] = "top"]
        /\ fd' = [fd EXCEPT !["serve"][c] = TRUE]
        /\ unread' = [unread EXCEPT !["serve"][c] = <<>>]
        /\ wrote' = [wrote EXCEPT !["serve"][c] = 0]
        /\ ended' = [ended EXCEPT !["serve"][c] = FALSE]
        /\ got' = [got EXCEPT !["serve"][c] = <<>>]

\* "conn_id in conns" ...
Look(s) ==
    /\ Handling(s, {"data", "close"})
    /\ IF Current(s).conn \in conns[s]
       THEN /\ pc' = [pc EXCEPT ![s] = "use"]
            /\ UNCHANGED <<log, cursor, inbox, outbox, faults>>
       ELSE Handled(s)
    /\ UNCHANGED <<conns, pump, fd, app>>

\* ... "conns[conn_id]": the entry is still there.
DeliverData(s, f) ==
    /\ f.kind = "data"
    /\ got' = [got EXCEPT ![s][f.conn] = IF fd[s][f.conn] THEN Append(@, f.chunk) ELSE @]
    /\ UNCHANGED <<conns, fd>>

DeliverClose(s, f) ==
    /\ f.kind = "close"
    /\ fd' = [fd EXCEPT ![s][f.conn] = FALSE]
    /\ conns' = [conns EXCEPT ![s] = @ \ {f.conn}]
    /\ UNCHANGED got

Deliver(s) ==
    /\ pc[s] = "use" /\ Current(s).conn \in conns[s]
    /\ DeliverData(s, Current(s)) \/ DeliverClose(s, Current(s))
    /\ Handled(s)
    /\ UNCHANGED <<pump, unread, wrote, ended>>

\* A plausible slip: of a batch only the first frame is sent.
FlushFirst(s) ==
    /\ pc[s] = "handle" /\ inbox[s] = {}
    /\ log' = log \o (IF outbox[s] = <<>> THEN <<>> ELSE <<Head(outbox[s])>>)
    /\ pc' = [pc EXCEPT ![s] = "poll"]
    /\ outbox' = [outbox EXCEPT ![s] = <<>>]
    /\ UNCHANGED <<cursor, inbox, conns, pump, fd, app, faults>>

Flush(s) ==
    /\ pc[s] = "handle" /\ inbox[s] = {}
    /\ log' = log \o outbox[s]
    /\ pc' = [pc EXCEPT ![s] = "poll"]
    /\ outbox' = [outbox EXCEPT ![s] = <<>>]
    /\ UNCHANGED <<cursor, inbox, conns, pump, fd, app, faults>>

\* The process ends, its threads with it, and the kernel closes its sockets.
Exits(s) ==
    /\ pc' = [pc EXCEPT ![s] = "dead"]
    /\ cursor' = [cursor EXCEPT ![s] = 0]
    /\ inbox' = [inbox EXCEPT ![s] = {}]
    /\ outbox' = [outbox EXCEPT ![s] = <<>>]
    /\ conns' = [conns EXCEPT ![s] = {}]
    /\ pump' = [pump EXCEPT ![s] = [c \in Conn |-> IF @[c] = "none" THEN "none" ELSE "done"]]
    /\ fd' = [fd EXCEPT ![s] = [c \in Conn |-> @[c] /\ ~Connected(s, c)]]
    /\ UNCHANGED <<log, app, restarts>>

\* ... the entry is gone: KeyError, which nobody catches.
LookupFails(s) ==
    /\ pc[s] = "use" /\ Current(s).conn \notin conns[s]
    /\ Exits(s) /\ UNCHANGED deaths

\* A poll or a flush the Sheets API refuses, a target that does not accept: uncaught too.
RequestFails(s) ==
    /\ Affordable
    /\ \/ pc[s] = "poll"
       \/ pc[s] = "handle" /\ inbox[s] = {} /\ outbox[s] # <<>>
       \/ s = "serve" /\ Handling(s, {"open"})
    /\ Exits(s) /\ deaths' = deaths + 1

Restart(s) ==
    /\ ~Alive(s) /\ Affordable
    /\ pc' = [pc EXCEPT ![s] = "poll"]
    /\ restarts' = restarts + 1
    /\ UNCHANGED <<log, cursor, inbox, outbox, conns, pump, fd, app, deaths>>

Main(s) == Poll(s) \/ (s = "serve" /\ Dial) \/ Look(s) \/ Deliver(s) \/ LookupFails(s) \/ Flush(s)

Next == \/ \E s \in Side, c \in Conn : AppWrites(s, c) \/ AppEnds(s, c) \/ Pump(s, c)
        \/ \E c \in Conn : Accept(c)
        \/ \E s \in Side : Main(s) \/ RequestFails(s) \/ Restart(s)

Spec == Init /\ [][Next]_vars

\* The threads of a live relay go on; applications, failures and restarts owe nothing.
FairSpec == /\ Spec
            /\ \A s \in Side : WF_vars(Main(s)) /\ \A c \in Conn : WF_vars(Pump(s, c))

-----------------------------------------------------------------------------
(* Properties.                                                                 *)

\* The relays' books agree: what is in conns has a pump that has not finished.
TypeOK ==
    /\ \A s \in Side :
        /\ pc[s] \in {"poll", "handle", "use", "dead"}
        /\ cursor[s] \in 0..LastRow
        /\ pc[s] = "use" => inbox[s] # {}
        /\ conns[s] \subseteq Conn
        /\ \A c \in conns[s] : pump[s][c] \in {"top", "recv", "closing", "shut", "pop"}
    /\ \A s \in Side, c \in Conn : /\ fd[s][c] \in BOOLEAN
                                   /\ wrote[s][c] \in 0..MaxChunks

\* What an application received so far is what the other one wrote first, in order and
\* nothing twice, however its bytes were cut into frames, batches and ticks.  A relay that
\* is started again reads the whole log anew: a target dialed again is fed the request
\* from its start, exactly; a client may then read a second answer.
InOrder == \A s \in Side, c \in Conn : s = "serve" \/ restarts = 0 =>
    /\ Len(got[s][c]) <= wrote[Peer(s)][c]
    /\ \A k \in DOMAIN got[s][c] : got[s][c][k] = k

\* An application that reads the end of the stream, not having ended it itself nor lost
\* a relay, has received all the other one wrote.
NoTruncation == \A s \in Side, c \in Conn :
    SeesEnd(s, c) /\ ~ended[s][c] /\ (\A t \in Side : Alive(t)) /\ restarts = 0
    => Len(got[s][c]) = wrote[Peer(s)][c]

\* While the first pair of relays lives and the log has not outgrown the range they read, a
\* request reaches a target that has not hung up, in full.
RequestsArrive == <>[](
    (\A s \in Side : Alive(s)) /\ restarts = 0 /\ Len(log) <= Limit => \A c \in Conn :
    \/ ended["serve"][c]
    \/ Len(got["serve"][c]) = wrote["expose"][c])

\* When the target ends its stream the relays let go of the connection: the client's
\* socket is closed too, unless a relay dies or the log outgrows the range they read.
EndsRelayed == \A c \in Conn : ended["serve"][c] ~>
    \/ ~fd["expose"][c]
    \/ restarts > 0 \/ \E s \in Side : ~Alive(s)
    \/ Len(log) > Limit

-----------------------------------------------------------------------------
(* What the comments say and the code does not do.                             *)

\* "curl localhost:9080 reaches side B's web - through the cells": while a client waits
\* for a target that has not hung up on it, and no request of a relay fails, the relays
\* are there to serve it.
CurlReaches == \A c \in Conn :
    /\ deaths = 0
    /\ wrote["expose"][c] > 0 /\ got["serve"][c] = <<>>
    /\ ~ended["serve"][c]
    => \A s \in Side : Alive(s)
=============================================================================
