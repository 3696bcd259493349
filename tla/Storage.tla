------------------------------ MODULE Storage ------------------------------
(***************************************************************************)
(* The requests of apiserver.py on one spreadsheet and the backends of     *)
(* storage.py that load and save it: threads that wait for the lock, the   *)
(* load and the save step by step, both of which may fail, a server that   *)
(* dies at any point, and the programs with which users edit the same      *)
(* files.                                                                  *)
(*                                                                         *)
(* A tab is the set of updates it shows; an update is a mark left in the   *)
(* tabs a request touches.  Backend "file" is .xlsx and .ods, replaced by  *)
(* a rename; "blob" is CryptPad, replaced by one PUT; "csvdir" is a file   *)
(* per tab, each read on its own, truncated and written in place.          *)
(***************************************************************************)
EXTENDS Naturals

CONSTANTS
    Request,    \* requests: what is done by one load and save
    Hand,       \* the mark of an edit by hand
    Tab,        \* tabs
    Touches,    \* per request, the tabs it updates (none: it only reads)
    After,      \* an apply of several rows: what it does next under the same lock
    NoRequest, NoTab,
    MaxFaults   \* bound: failing loads and saves, crashes, saves by hand

ASSUME TouchesAssumption == Touches \in [Request -> SUBSET Tab]
ASSUME AfterAssumption ==
    /\ After \in [Request -> Request \cup {NoRequest}]
    /\ \A q, r \in Request : After[q] = After[r] /\ After[q] # NoRequest => q = r
    /\ \A r \in Request : After[r] # r /\ (Touches[r] = {} => After[r] = NoRequest)
ASSUME NamesAssumption == NoRequest \notin Request /\ NoTab \notin Tab
ASSUME FaultsAssumption == MaxFaults \in Nat

VARIABLES
    backend,    \* file, blob or csvdir
    store,      \* per tab, the updates it shows
    temps,      \* requests whose temporary file is in the directory
    server,     \* pc and the request that has the lock, with the tabs it has loaded
    todo,       \* csvdir: tabs still to write, and the one truncated
    request,    \* per request, where it is
    copy,       \* the tabs open in a user's program
    faults

vars == <<backend, store, temps, server, todo, request, copy, faults>>

Marks == Request \cup {Hand}
Book == [Tab -> SUBSET Marks]
\* Some tabs of a book: what has been loaded so far, what a user has open.
Partial == UNION {[T -> SUBSET Marks] : T \in SUBSET Tab}
Nothing == [t \in {} |-> {}]
Empty == [t \in Tab |-> {}]
Extend(b, T, s) == [t \in DOMAIN b \cup T |-> IF t \in T THEN s[t] ELSE b[t]]
With(b, r) == [t \in Tab |-> IF t \in Touches[r] THEN b[t] \cup {r} ELSE b[t]]
New == With(server.base, server.who)
Unlocked == [pc |-> "idle", who |-> NoRequest, base |-> Nothing]
NoTodo == [tabs |-> {}, open |-> NoTab]
\* What is read at once: the workbook, or one file of the directory.
Parts == IF backend = "csvdir" THEN {{t} : t \in Tab} ELSE {Tab}

Init ==
    /\ backend \in {"file", "blob", "csvdir"}
    /\ store = Empty
    /\ temps = {}
    /\ server = Unlocked /\ todo = NoTodo
    /\ request = [r \in Request |-> "new"]
    /\ copy = Nothing
    /\ faults = 0

Go(pc) == server' = [server EXCEPT !.pc = pc]
Fault == faults < MaxFaults /\ faults' = faults + 1
\* The handler ends, one way or the other, and the lock is released.
Release(how) ==
    /\ server' = Unlocked /\ todo' = NoTodo
    /\ request' = [request EXCEPT ![server.who] = how]
\* The save is through: what has been loaded is of no more use.
Stored ==
    /\ server' = [server EXCEPT !.pc = "stored", !.base = Nothing]
    /\ request' = [request EXCEPT ![server.who] = "stored"]

-----------------------------------------------------------------------------
(* Serving.                                                                    *)

\* A connection is accepted; its thread waits for the lock.
Connect(r) ==
    /\ server.pc # "down" /\ request[r] = "new" /\ \A q \in Request : After[q] # r
    /\ request' = [request EXCEPT ![r] = "waits"]
    /\ UNCHANGED <<backend, store, temps, server, todo, copy, faults>>

\* The lock is taken before the body is read.
Lock(r) ==
    /\ server.pc = "idle" /\ request[r] = "waits"
    /\ server' = [Unlocked EXCEPT !.pc = "body", !.who = r]
    /\ UNCHANGED <<backend, store, temps, todo, request, copy, faults>>

\* The client sends its body; the handler calls _wb.
SendBody ==
    /\ server.pc = "body" /\ Go("load")
    /\ UNCHANGED <<backend, store, temps, todo, request, copy, faults>>

\* The client hangs up: what there is of its body is no JSON.
HangUp ==
    /\ server.pc = "body" /\ Release("refused")
    /\ UNCHANGED <<backend, store, temps, copy, faults>>

\* Read the workbook, or one more file.
Load(T) ==
    /\ server.pc = "load" /\ T \in Parts /\ T \cap DOMAIN server.base = {}
    /\ server' = [server EXCEPT !.base = Extend(@, T, store)]
    /\ UNCHANGED <<backend, store, temps, todo, request, copy, faults>>

Loaded ==
    /\ server.pc = "load" /\ DOMAIN server.base = Tab /\ Go("handle")
    /\ UNCHANGED <<backend, store, temps, todo, request, copy, faults>>

\* No permission, no answer from the server, a file that is none.
LoadFails ==
    /\ server.pc = "load" /\ Fault /\ Release("failed")
    /\ UNCHANGED <<backend, store, temps, copy>>

\* The server answers with 404 or, whatever the status, an empty body: the book is taken
\* not to exist.  A new one is put into a temporary file ...
LoadsNothing ==
    /\ server.pc = "load" /\ backend = "blob" /\ server.base = Nothing /\ Fault /\ Go("create")
    /\ temps' = temps \cup {server.who}
    /\ UNCHANGED <<backend, store, todo, request, copy>>

\* ... and PUT over what there is; the request goes on with it.
CreateBook ==
    /\ server.pc = "create"
    /\ server' = [server EXCEPT !.pc = "handle", !.base = Empty]
    /\ store' = Empty /\ temps' = temps \ {server.who}
    /\ UNCHANGED <<backend, todo, request, copy, faults>>

\* The PUT fails, or its answer is lost.
CreateFails ==
    /\ server.pc = "create" /\ Fault /\ Release("failed")
    /\ store' \in {store, Empty} /\ temps' = temps \ {server.who}
    /\ UNCHANGED <<backend, copy>>

AnswerRead ==
    /\ server.pc = "handle" /\ Touches[server.who] = {} /\ Release("answered")
    /\ UNCHANGED <<backend, store, temps, copy, faults>>

Saves == server.pc = "handle" /\ Touches[server.who] # {}

\* A plausible slip: the file itself is opened for writing.
WriteInPlace ==
    /\ Saves /\ backend # "csvdir" /\ Go("written")
    /\ temps' = temps \cup {server.who} /\ store' = [t \in Tab |-> {}]
    /\ UNCHANGED <<backend, todo, request, copy, faults>>

WriteTemp ==
    /\ Saves /\ backend # "csvdir" /\ Go("written")
    /\ temps' = temps \cup {server.who}
    /\ UNCHANGED <<backend, store, todo, request, copy, faults>>

\* os.replace, or the PUT of the blob.
Replace ==
    /\ server.pc = "written" /\ Stored
    /\ store' = New /\ temps' = temps \ {server.who}
    /\ UNCHANGED <<backend, todo, copy, faults>>

\* A plausible slip: an exception leaves the temporary file.
SaveFailsUntidy ==
    /\ server.pc = "written" /\ Fault /\ Release("failed")
    /\ UNCHANGED <<backend, store, temps, copy>>

\* No space, no permission, no answer from the server: the file is removed.
SaveFails ==
    /\ server.pc = "written" /\ Fault /\ Release("failed")
    /\ temps' = temps \ {server.who}
    /\ UNCHANGED <<backend, store, copy>>

\* The PUT arrives, its answer does not.
PutUnheard ==
    /\ server.pc = "written" /\ backend = "blob" /\ Fault /\ Release("stored")
    /\ store' = New /\ temps' = temps \ {server.who}
    /\ UNCHANGED <<backend, copy>>

StartTabs ==
    /\ Saves /\ backend = "csvdir" /\ Go("tabs")
    /\ todo' = [tabs |-> Tab, open |-> NoTab]
    /\ UNCHANGED <<backend, store, temps, request, copy, faults>>

Truncate(t) ==
    /\ server.pc = "tabs" /\ todo.open = NoTab /\ t \in todo.tabs
    /\ todo' = [todo EXCEPT !.open = t]
    /\ store' = [store EXCEPT ![t] = {}]
    /\ UNCHANGED <<backend, temps, server, request, copy, faults>>

\* A plausible slip: the loop does not move on.
WriteRowsAgain ==
    /\ server.pc = "tabs" /\ todo.open # NoTab
    /\ todo' = [todo EXCEPT !.open = NoTab]
    /\ store' = [store EXCEPT ![todo.open] = New[todo.open]]
    /\ UNCHANGED <<backend, temps, server, request, copy, faults>>

\* Some of the rows have reached the file.
WriteSome ==
    /\ server.pc = "tabs" /\ todo.open # NoTab
    /\ \E rows \in SUBSET New[todo.open] :
        /\ store[todo.open] \subseteq rows /\ rows # store[todo.open]
        /\ store' = [store EXCEPT ![todo.open] = rows]
    /\ UNCHANGED <<backend, temps, server, todo, request, copy, faults>>

WriteRows ==
    /\ server.pc = "tabs" /\ todo.open # NoTab
    /\ todo' = [tabs |-> todo.tabs \ {todo.open}, open |-> NoTab]
    /\ store' = [store EXCEPT ![todo.open] = New[todo.open]]
    /\ UNCHANGED <<backend, temps, server, request, copy, faults>>

EndTabs ==
    /\ server.pc = "tabs" /\ todo.tabs = {} /\ Stored
    /\ todo' = NoTodo
    /\ UNCHANGED <<backend, store, temps, copy, faults>>

\* What there is of the file that is open stays.
TabsFail ==
    /\ server.pc = "tabs" /\ todo.tabs # {} /\ Fault /\ Release("failed")
    /\ UNCHANGED <<backend, store, temps, copy>>

\* The next row of the apply: load and save once more.
Another ==
    /\ server.pc = "stored" /\ After[server.who] # NoRequest
    /\ server' = [server EXCEPT !.pc = "load", !.who = After[@]]
    /\ request' = [request EXCEPT ![After[server.who]] = "waits"]
    /\ UNCHANGED <<backend, store, temps, todo, copy, faults>>

Answer ==
    /\ server.pc = "stored" /\ After[server.who] = NoRequest /\ Release("answered")
    /\ UNCHANGED <<backend, store, temps, copy, faults>>

\* The process dies: every connection breaks, a temporary file and half a csvdir stay.
Crash ==
    /\ server.pc # "down" /\ Fault
    /\ server' = [Unlocked EXCEPT !.pc = "down"] /\ todo' = NoTodo
    /\ request' = [r \in Request |-> IF request[r] = "waits" THEN "broken" ELSE request[r]]
    /\ UNCHANGED <<backend, store, temps, copy>>

Restart ==
    /\ server.pc = "down" /\ server' = Unlocked
    /\ UNCHANGED <<backend, store, temps, todo, request, copy, faults>>

\* A server that starts loads the book, too, and puts a new one where it finds none.
RestartsEmpty ==
    /\ server.pc = "down" /\ backend = "blob" /\ Fault
    /\ server' \in {server, Unlocked} /\ store' = Empty
    /\ UNCHANGED <<backend, temps, todo, request, copy>>

-----------------------------------------------------------------------------
(* A user's program, or one that syncs files, opens the workbook, or one file  *)
(* of the directory, and saves it, edited, later: by a rename, so that what    *)
(* the server writes into a file it has open then goes nowhere.                *)

Open(T) ==
    /\ T \in Parts /\ copy' = Extend(Nothing, T, store)
    /\ UNCHANGED <<backend, store, temps, server, todo, request, faults>>

Edited(t) == [copy EXCEPT ![t] = @ \cup {Hand}]
SaveByHand(t) ==
    /\ t \in DOMAIN copy /\ Fault
    /\ store' = Extend(store, DOMAIN copy, Edited(t)) /\ copy' = Nothing
    /\ todo' = IF todo.open \in DOMAIN copy
               THEN [tabs |-> todo.tabs \ {todo.open}, open |-> NoTab] ELSE todo
    /\ UNCHANGED <<backend, temps, server, request>>

-----------------------------------------------------------------------------

Handler ==
    \/ (\E T \in Parts : Load(T)) \/ Loaded \/ CreateBook
    \/ AnswerRead \/ WriteTemp \/ Replace \/ Another \/ Answer
    \/ StartTabs \/ (\E t \in Tab : Truncate(t)) \/ WriteSome \/ WriteRows \/ EndTabs
Faults ==
    \/ LoadFails \/ LoadsNothing \/ CreateFails
    \/ SaveFails \/ PutUnheard \/ TabsFail \/ Crash

Next ==
    \/ \E r \in Request : Connect(r) \/ Lock(r)
    \/ SendBody \/ HangUp \/ Handler \/ Faults \/ Restart \/ RestartsEmpty
    \/ \E T \in Parts : Open(T)
    \/ \E t \in Tab : SaveByHand(t)

Spec == Init /\ [][Next]_vars

\* A free lock is given to a waiting thread, handlers run on, and a client that has
\* announced a body sends it or hangs up.
FairSpec ==
    /\ Spec
    /\ WF_vars(\E r \in Request : Lock(r)) /\ WF_vars(Handler) /\ WF_vars(SendBody \/ HangUp)

-----------------------------------------------------------------------------
(* Properties.                                                                 *)

Pc == {"idle", "body", "load", "create", "handle", "written", "tabs", "stored", "down"}

\* Every variable has its type, and a temporary file is left behind only by a crash.
TypeOK ==
    /\ backend \in {"file", "blob", "csvdir"}
    /\ store \in Book
    /\ temps \subseteq Request
    /\ \A r \in temps : request[r] # "broken" =>
           server.pc \in {"written", "create"} /\ server.who = r
    /\ server \in [pc : Pc, who : Request \cup {NoRequest}, base : Partial]
    /\ todo \in [tabs : SUBSET Tab, open : Tab \cup {NoTab}]
    /\ request \in [Request -> {"new", "waits", "stored", "answered", "refused", "failed",
                              "broken"}]
    /\ copy \in Partial
    /\ faults \in 0..MaxFaults

\* The backends keep the promise of module Workbook: whatever fails or dies, the book
\* changes by updates of one request at a time, on top of what that request has read, and
\* nothing is answered that was not stored, an apply not before all of its rows.  A csvdir
\* is read and written file by file, and only a file being written is ever half there; a
\* blob that the server once fails to deliver is lost.
Promise == INSTANCE Workbook WITH
    atomic <- backend # "csvdir",
    certain <- backend # "blob",
    book <- store,
    base <- server.base,
    saving <- IF server.pc = "tabs" THEN server.who ELSE NoRequest,
    written <- IF server.pc = "tabs" THEN Tab \ todo.tabs ELSE {},
    stored <- {r \in Request : \/ request[r] = "stored"
                               \/ request[r] = "answered" /\ Touches[r] # {}},
    answered <- {r \in Request : request[r] = "answered"}
KeepsPromise == Promise!Spec

\* Nobody waits for the lock for ever: it is released however a request ends.
EveryRequestEnds == \A r \in Request : request[r] = "waits" ~> request[r] # "waits"
=============================================================================
