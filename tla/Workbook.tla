------------------------------ MODULE Workbook ------------------------------
(***************************************************************************)
(* What the apiserver promises of the spreadsheet behind it: requests are  *)
(* taken one at a time, each acts on what it has read of the book and      *)
(* leaves all of its update or none; it is answered only once the update   *)
(* is stored.  An apply of several rows does this row by row and is        *)
(* answered after the last.                                                *)
(*                                                                         *)
(* A book that is read and saved in one step (atomic) changes in no other  *)
(* way but by a user who saves a copy over it.  One that is a file per tab *)
(* is read and written tab by tab, in between which users save theirs, and *)
(* a tab may be seen or left half written.  A store that may deny having   *)
(* the book (not certain) is given an empty one in its place.              *)
(***************************************************************************)
CONSTANTS
    Request,    \* requests
    Hand,       \* the mark of an edit by hand
    Tab,        \* tabs
    Touches,    \* per request, the tabs it updates (none: it only reads)
    After,      \* what a request of several updates stores next, or NoRequest
    NoRequest

VARIABLES
    atomic,     \* the book is read and saved in one step
    certain,    \* the store always delivers the book it has
    book,       \* per tab, the updates it shows
    base,       \* the tabs that the request being served has read
    copy,       \* the tabs that a user has open in a program of their own
    saving,     \* tab by tab: the request whose update is being saved, or NoRequest
    written,    \* ... and the tabs it is through with
    stored,     \* requests whose update was stored
    answered

kind == <<atomic, certain>>
save == <<saving, written>>
vars == <<kind, book, base, copy, save, stored, answered>>

Nothing == [t \in {} |-> {}]
Extend(b, T, s) == [t \in DOMAIN b \cup T |-> IF t \in T THEN s[t] ELSE b[t]]
With(b, r) == [t \in Tab |-> IF t \in Touches[r] THEN b[t] \cup {r} ELSE b[t]]
Parts == IF atomic THEN {Tab} ELSE {{t} : t \in Tab}

Init ==
    /\ atomic \in BOOLEAN /\ certain \in BOOLEAN
    /\ book = [t \in Tab |-> {}] /\ base = Nothing /\ copy = Nothing
    /\ saving = NoRequest /\ written = {}
    /\ stored = {} /\ answered = {}

Read(T) ==
    /\ T \in Parts /\ T \cap DOMAIN base = {} /\ base' = Extend(base, T, book)
    /\ UNCHANGED <<kind, book, copy, save, stored, answered>>

Dropped == base' = Nothing /\ saving' = NoRequest /\ written' = {}

\* The updates of one request are stored in their order, each on a book that was read.
MayStore(r) == DOMAIN base = Tab /\ \A q \in Request : After[q] = r => q \in stored

Store(r) ==
    /\ atomic /\ MayStore(r) /\ Dropped
    /\ book' = With(base, r) /\ stored' = stored \cup {r}
    /\ UNCHANGED <<kind, copy, answered>>

Begin(r) ==
    /\ ~atomic /\ MayStore(r) /\ saving = NoRequest /\ saving' = r
    /\ UNCHANGED <<kind, book, base, copy, written, stored, answered>>

\* Of the tab being written some rows are there, of those it is to hold.
Cut(r, t) ==
    /\ saving = r /\ t \in Tab \ written
    /\ \E rows \in SUBSET With(base, r)[t] : book' = [book EXCEPT ![t] = rows]
    /\ UNCHANGED <<kind, base, copy, save, stored, answered>>

Write(r, t) ==
    /\ saving = r /\ t \in Tab \ written /\ written' = written \cup {t}
    /\ book' = [book EXCEPT ![t] = With(base, r)[t]]
    /\ UNCHANGED <<kind, base, copy, saving, stored, answered>>

Finish(r) ==
    /\ saving = r /\ written = Tab /\ Dropped
    /\ stored' = stored \cup {r}
    /\ UNCHANGED <<kind, book, copy, answered>>

Answer(r) ==
    /\ r \in stored \/ Touches[r] = {}
    /\ After[r] = NoRequest
    /\ answered' = answered \cup {r} /\ Dropped
    /\ UNCHANGED <<kind, book, copy, stored>>

\* The request fails or the server dies: what is not written will not be.
Drop == Dropped /\ UNCHANGED <<kind, book, copy, stored, answered>>

\* The store has denied having the book; the request, if it goes on, has read an empty one.
Lose ==
    /\ ~certain /\ book' = [t \in Tab |-> {}]
    /\ base' \in {Nothing, book'} /\ saving' = NoRequest /\ written' = {}
    /\ UNCHANGED <<kind, copy, stored, answered>>

\* The lock is not for users: what they save is what they opened, edited, whatever the
\* requests have stored since, and a request that has read the tab will not see it.  A tab
\* saved while it is being written stays as the user saved it.
Open(T) ==
    /\ T \in Parts /\ copy' = Extend(Nothing, T, book)
    /\ UNCHANGED <<kind, book, base, save, stored, answered>>

HandSave(t) ==
    /\ t \in DOMAIN copy /\ copy' = Nothing
    /\ book' = Extend(book, DOMAIN copy, [copy EXCEPT ![t] = @ \cup {Hand}])
    /\ written' \in {written, IF saving = NoRequest THEN written ELSE written \cup DOMAIN copy}
    /\ UNCHANGED <<kind, base, saving, stored, answered>>

Next ==
    \/ Drop \/ Lose
    \/ \E T \in Parts : Read(T) \/ Open(T)
    \/ \E t \in Tab : HandSave(t)
    \/ \E r \in Request : \/ Store(r) \/ Begin(r) \/ Finish(r) \/ Answer(r)
                          \/ \E t \in Tab : Cut(r, t) \/ Write(r, t)

Spec == Init /\ [][Next]_vars
=============================================================================
