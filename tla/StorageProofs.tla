--------------------------- MODULE StorageProofs ---------------------------
(***************************************************************************)
(* Proofs about module Storage for any requests, tabs and number of        *)
(* failures: its type invariant, and that every backend keeps the promise  *)
(* of module Workbook.                                                     *)
(***************************************************************************)
EXTENDS Storage, TLAPS

\* What is known of the request that has the lock, and of what it has loaded.
Serving ==
    /\ server.pc \in {"body", "load", "create", "handle", "written", "tabs"} =>
           server.who \in Request /\ request[server.who] = "waits"
    /\ server.pc = "stored" => /\ server.who \in Request /\ Touches[server.who] # {}
                               /\ request[server.who] = "stored"
    /\ server.pc \in {"handle", "written", "tabs"} => server.base \in Book
    /\ server.pc \notin {"load", "handle", "written", "tabs"} => server.base = Nothing
    /\ server.pc \in {"written", "tabs"} => Touches[server.who] # {}

\* Which backend does what, and how much of the workbook a user opens at once.
Backends ==
    /\ server.pc = "tabs" => backend = "csvdir"
    /\ server.pc = "written" => backend # "csvdir"
    /\ server.pc = "create" => backend = "blob"
    /\ copy # Nothing => DOMAIN copy \in Parts

\* How far the loop over the files has come.
Files ==
    /\ server.pc # "tabs" => todo = NoTodo
    /\ todo.open # NoTab => todo.open \in todo.tabs

\* An apply stores its rows in order: a later one has not been begun, or all before are in.
Ordered ==
    /\ server.who \in Request /\ After[server.who] # NoRequest =>
           request[After[server.who]] = "new"
    /\ \A q \in Request : After[q] # NoRequest /\ request[After[q]] # "new" =>
           request[q] = "stored"

IInv == TypeOK /\ Serving /\ Backends /\ Files /\ Ordered

\* A request leaves a book a book.
LEMMA WithIsBook ==
    ASSUME NEW b \in Book, NEW r \in Request
    PROVE  With(b, r) \in Book
BY TouchesAssumption DEF With, Book, Marks


\* Some tabs of a book, without the union that says so.
LEMMA PartialDef ==
    ASSUME NEW b
    PROVE  b \in Partial <=> DOMAIN b \in SUBSET Tab /\ b \in [DOMAIN b -> SUBSET Marks]
<1>1. ASSUME NEW T \in SUBSET Tab, b \in [T -> SUBSET Marks]
      PROVE  DOMAIN b \in SUBSET Tab /\ b \in [DOMAIN b -> SUBSET Marks]
  BY <1>1
<1> QED
  BY <1>1 DEF Partial

\* What has been loaded, with more of it, is some tabs of a book.
LEMMA ExtendIsPartial ==
    ASSUME NEW b \in Partial, NEW T \in SUBSET Tab, NEW s \in Book
    PROVE  /\ Extend(b, T, s) \in Partial
           /\ DOMAIN Extend(b, T, s) = DOMAIN b \cup T
<1> DEFINE e == Extend(b, T, s)
<1>1. DOMAIN e = DOMAIN b \cup T
  BY DEF Extend
<1>2. DOMAIN b \in SUBSET Tab /\ b \in [DOMAIN b -> SUBSET Marks]
  BY PartialDef
<1>3. \A t \in DOMAIN b \cup T : e[t] \in SUBSET Marks
  BY <1>2 DEF Extend, Book
<1>4. e = [t \in DOMAIN b \cup T |-> e[t]]
  BY DEF Extend
<1>5. e \in [DOMAIN b \cup T -> SUBSET Marks]
  BY <1>3, <1>4
<1> HIDE DEF e
<1>6. e \in Partial
  BY <1>1, <1>2, <1>5, PartialDef
<1> QED
  BY <1>1, <1>6 DEF e

\* All tabs loaded are a book.
LEMMA WholeIsBook ==
    ASSUME NEW b \in Partial, DOMAIN b = Tab
    PROVE  b \in Book
BY PartialDef DEF Book

\* An empty book is one, and all of its tabs.
LEMMA EmptyIsBook == Empty \in Book /\ Empty \in Partial
<1>1. Empty \in Book /\ DOMAIN Empty = Tab
  BY DEF Empty, Book
<1> QED
  BY <1>1, PartialDef DEF Book

\* Nothing is some tabs of a book.
LEMMA NothingIsPartial == Nothing \in Partial
<1>1. DOMAIN Nothing = {} /\ Nothing \in [{} -> SUBSET Marks]
  BY DEF Nothing
<1> QED
  BY <1>1, PartialDef

\* A book saved over by hand is a book.
LEMMA HandSaveIsBook ==
    ASSUME store \in Book, copy \in Partial, NEW t \in DOMAIN copy
    PROVE  Extend(store, DOMAIN copy, Edited(t)) \in Book
<1>1. DOMAIN copy \in SUBSET Tab /\ copy \in [DOMAIN copy -> SUBSET Marks]
  BY PartialDef
<1>2. Edited(t) \in [DOMAIN copy -> SUBSET Marks]
  BY <1>1 DEF Edited, Marks
<1>3. DOMAIN store = Tab /\ store \in [Tab -> SUBSET Marks]
  BY DEF Book
<1>4. Tab \cup DOMAIN copy = Tab
  BY <1>1
<1>5. Extend(store, DOMAIN copy, Edited(t)) =
          [u \in Tab |-> IF u \in DOMAIN copy THEN Edited(t)[u] ELSE store[u]]
  BY <1>3, <1>4 DEF Extend
<1>6. \A u \in Tab : (IF u \in DOMAIN copy THEN Edited(t)[u] ELSE store[u]) \in SUBSET Marks
  BY <1>2, <1>3
<1> QED
  BY <1>5, <1>6 DEF Book

\* What is read at once are tabs.
LEMMA PartsAreTabs == \A T \in Parts : T \in SUBSET Tab
BY DEF Parts

\* Every step keeps the type of every variable.
LEMMA StepKeepsTypes == IInv /\ [Next]_vars => TypeOK'
<1> SUFFICES ASSUME IInv, [Next]_vars PROVE TypeOK'
  OBVIOUS
<1> USE NamesAssumption, FaultsAssumption, NothingIsPartial
<1> USE DEF IInv, TypeOK, Pc
<1>1. ASSUME NEW r \in Request, Connect(r) PROVE TypeOK'
  BY <1>1 DEF Connect
<1>2. ASSUME NEW r \in Request, Lock(r) PROVE TypeOK'
  BY <1>2 DEF Lock, Unlocked
<1>3. CASE SendBody
  BY <1>3 DEF SendBody, Go
<1>4. CASE HangUp
  BY <1>4 DEF HangUp, Release, Unlocked, NoTodo, Serving
<1>5. ASSUME NEW T \in Parts, Load(T) PROVE TypeOK'
  BY <1>5, ExtendIsPartial, PartsAreTabs DEF Load
<1>6. CASE Loaded
  BY <1>6 DEF Loaded, Go
<1>7. CASE LoadFails
  BY <1>7 DEF LoadFails, Fault, Release, Unlocked, NoTodo, Serving
<1>8. CASE LoadsNothing
  BY <1>8 DEF LoadsNothing, Fault, Go, Serving
<1>9. CASE CreateBook
  BY <1>9, EmptyIsBook DEF CreateBook, Serving
<1>10. CASE CreateFails
  BY <1>10, EmptyIsBook DEF CreateFails, Fault, Release, Unlocked, NoTodo, Serving
<1>11. CASE AnswerRead
  BY <1>11 DEF AnswerRead, Release, Unlocked, NoTodo, Serving
<1>12. CASE WriteTemp
  BY <1>12 DEF WriteTemp, Saves, Go, Serving
<1>13. CASE Replace
  BY <1>13, WithIsBook DEF Replace, Stored, New, Serving
<1>14. CASE SaveFails
  BY <1>14 DEF SaveFails, Fault, Release, Unlocked, NoTodo, Serving
<1>15. CASE PutUnheard
  BY <1>15, WithIsBook DEF PutUnheard, Fault, Release, Unlocked, NoTodo, New, Serving
<1>16. CASE StartTabs
  BY <1>16 DEF StartTabs, Saves, Go
<1>17. ASSUME NEW t \in Tab, Truncate(t) PROVE TypeOK'
  BY <1>17 DEF Truncate, Book
<1>18. CASE WriteSome
  <2>1. New \in Book /\ todo.open \in Tab
    BY <1>18, WithIsBook DEF WriteSome, New, Serving
  <2>2. PICK rows \in SUBSET New[todo.open] : store' = [store EXCEPT ![todo.open] = rows]
    BY <1>18 DEF WriteSome
  <2>3. rows \in SUBSET Marks
    BY <2>1, <2>2 DEF Book
  <2>4. store' \in Book
    BY <2>1, <2>2, <2>3 DEF Book
  <2> QED
    BY <1>18, <2>4 DEF WriteSome
<1>19. CASE WriteRows
  <2>1. New \in Book /\ todo.open \in Tab
    BY <1>19, WithIsBook DEF WriteRows, New, Serving
  <2> QED
    BY <1>19, <2>1 DEF WriteRows, Book
<1>20. CASE EndTabs
  BY <1>20 DEF EndTabs, Stored, NoTodo, Serving
<1>21. CASE TabsFail
  BY <1>21 DEF TabsFail, Fault, Release, Unlocked, NoTodo, Serving
<1>22. CASE Another
  <2>1. After[server.who] \in Request
    BY <1>22, AfterAssumption DEF Another, Serving
  <2> QED
    BY <1>22, <2>1 DEF Another, Serving, Ordered
<1>23. CASE Answer
  BY <1>23 DEF Answer, Release, Unlocked, NoTodo, Serving
<1>24. CASE Crash
  BY <1>24 DEF Crash, Fault, Unlocked, NoTodo, Serving
<1>25. CASE Restart
  BY <1>25 DEF Restart, Unlocked
<1>26. CASE RestartsEmpty
  BY <1>26, EmptyIsBook DEF RestartsEmpty, Fault, Unlocked
<1>27. ASSUME NEW T \in Parts, Open(T) PROVE TypeOK'
  BY <1>27, ExtendIsPartial, PartsAreTabs DEF Open
<1>28. ASSUME NEW t \in Tab, SaveByHand(t) PROVE TypeOK'
  BY <1>28, HandSaveIsBook DEF SaveByHand, Fault
<1>29. CASE UNCHANGED vars
  BY <1>29 DEF vars
<1> QED
  BY <1>1, <1>2, <1>3, <1>4, <1>5, <1>6, <1>7, <1>8, <1>9, <1>10, <1>11, <1>12, <1>13, <1>14,
     <1>15, <1>16, <1>17, <1>18, <1>19, <1>20, <1>21, <1>22, <1>23, <1>24, <1>25, <1>26, <1>27,
     <1>28, <1>29
  DEF Next, Handler, Faults

\* Every step keeps what is known of the request that has the lock.
LEMMA StepKeepsServing == IInv /\ [Next]_vars => Serving'
<1> SUFFICES ASSUME IInv, [Next]_vars PROVE Serving'
  OBVIOUS
<1> USE NamesAssumption
<1> USE DEF IInv, TypeOK, Pc, Serving
<1>1. ASSUME NEW r \in Request, Connect(r) PROVE Serving'
  BY <1>1 DEF Connect
<1>2. ASSUME NEW r \in Request, Lock(r) PROVE Serving'
  BY <1>2 DEF Lock, Unlocked
<1>3. CASE SendBody
  BY <1>3 DEF SendBody, Go
<1>4. CASE HangUp
  BY <1>4 DEF HangUp, Release, Unlocked
<1>5. ASSUME NEW T \in Parts, Load(T) PROVE Serving'
  BY <1>5 DEF Load
<1>6. CASE Loaded
  BY <1>6, WholeIsBook DEF Loaded, Go
<1>7. CASE LoadFails
  BY <1>7 DEF LoadFails, Release, Unlocked
<1>8. CASE LoadsNothing
  BY <1>8 DEF LoadsNothing, Go
<1>9. CASE CreateBook
  BY <1>9, EmptyIsBook DEF CreateBook
<1>10. CASE CreateFails
  BY <1>10 DEF CreateFails, Release, Unlocked
<1>11. CASE AnswerRead
  BY <1>11 DEF AnswerRead, Release, Unlocked
<1>12. CASE WriteTemp
  BY <1>12 DEF WriteTemp, Saves, Go
<1>13. CASE Replace
  BY <1>13 DEF Replace, Stored
<1>14. CASE SaveFails
  BY <1>14 DEF SaveFails, Release, Unlocked
<1>15. CASE PutUnheard
  BY <1>15 DEF PutUnheard, Release, Unlocked
<1>16. CASE StartTabs
  BY <1>16 DEF StartTabs, Saves, Go
<1>17. ASSUME NEW t \in Tab, Truncate(t) PROVE Serving'
  BY <1>17 DEF Truncate
<1>18. CASE WriteSome
  BY <1>18 DEF WriteSome
<1>19. CASE WriteRows
  BY <1>19 DEF WriteRows
<1>20. CASE EndTabs
  BY <1>20 DEF EndTabs, Stored
<1>21. CASE TabsFail
  BY <1>21 DEF TabsFail, Release, Unlocked
<1>22. CASE Another
  BY <1>22, AfterAssumption DEF Another
<1>23. CASE Answer
  BY <1>23 DEF Answer, Release, Unlocked
<1>24. CASE Crash
  BY <1>24 DEF Crash, Unlocked
<1>25. CASE Restart
  BY <1>25 DEF Restart, Unlocked
<1>26. CASE RestartsEmpty
  BY <1>26 DEF RestartsEmpty, Unlocked
<1>27. ASSUME NEW T \in Parts, Open(T) PROVE Serving'
  BY <1>27 DEF Open
<1>28. ASSUME NEW t \in Tab, SaveByHand(t) PROVE Serving'
  BY <1>28 DEF SaveByHand
<1>29. CASE UNCHANGED vars
  BY <1>29 DEF vars
<1> QED
  BY <1>1, <1>2, <1>3, <1>4, <1>5, <1>6, <1>7, <1>8, <1>9, <1>10, <1>11, <1>12, <1>13, <1>14,
     <1>15, <1>16, <1>17, <1>18, <1>19, <1>20, <1>21, <1>22, <1>23, <1>24, <1>25, <1>26, <1>27,
     <1>28, <1>29
  DEF Next, Handler, Faults

\* Every step keeps what is known of the backend.
LEMMA StepKeepsBackends == IInv /\ [Next]_vars => Backends'
<1> SUFFICES ASSUME IInv, [Next]_vars PROVE Backends'
  OBVIOUS
<1> USE NamesAssumption
<1> USE DEF IInv, TypeOK, Pc, Backends, Parts
<1>1. ASSUME NEW r \in Request, Connect(r) PROVE Backends'
  BY <1>1 DEF Connect
<1>2. ASSUME NEW r \in Request, Lock(r) PROVE Backends'
  BY <1>2 DEF Lock, Unlocked
<1>3. CASE SendBody
  BY <1>3 DEF SendBody, Go
<1>4. CASE HangUp
  BY <1>4 DEF HangUp, Release, Unlocked
<1>5. ASSUME NEW T \in Parts, Load(T) PROVE Backends'
  BY <1>5 DEF Load
<1>6. CASE Loaded
  BY <1>6 DEF Loaded, Go
<1>7. CASE LoadFails
  BY <1>7 DEF LoadFails, Release, Unlocked
<1>8. CASE LoadsNothing
  BY <1>8 DEF LoadsNothing, Go
<1>9. CASE CreateBook
  BY <1>9 DEF CreateBook
<1>10. CASE CreateFails
  BY <1>10 DEF CreateFails, Release, Unlocked
<1>11. CASE AnswerRead
  BY <1>11 DEF AnswerRead, Release, Unlocked
<1>12. CASE WriteTemp
  BY <1>12 DEF WriteTemp, Saves, Go
<1>13. CASE Replace
  BY <1>13 DEF Replace, Stored
<1>14. CASE SaveFails
  BY <1>14 DEF SaveFails, Release, Unlocked
<1>15. CASE PutUnheard
  BY <1>15 DEF PutUnheard, Release, Unlocked
<1>16. CASE StartTabs
  BY <1>16 DEF StartTabs, Saves, Go
<1>17. ASSUME NEW t \in Tab, Truncate(t) PROVE Backends'
  BY <1>17 DEF Truncate
<1>18. CASE WriteSome
  BY <1>18 DEF WriteSome
<1>19. CASE WriteRows
  BY <1>19 DEF WriteRows
<1>20. CASE EndTabs
  BY <1>20 DEF EndTabs, Stored
<1>21. CASE TabsFail
  BY <1>21 DEF TabsFail, Release, Unlocked
<1>22. CASE Another
  BY <1>22 DEF Another
<1>23. CASE Answer
  BY <1>23 DEF Answer, Release, Unlocked
<1>24. CASE Crash
  BY <1>24 DEF Crash, Unlocked
<1>25. CASE Restart
  BY <1>25 DEF Restart, Unlocked
<1>26. CASE RestartsEmpty
  BY <1>26 DEF RestartsEmpty, Unlocked
<1>27. ASSUME NEW T \in Parts, Open(T) PROVE Backends'
  <2>1. DOMAIN copy' = T
    BY <1>27 DEF Open, Extend, Nothing
  <2> QED
    BY <1>27, <2>1 DEF Open
<1>28. ASSUME NEW t \in Tab, SaveByHand(t) PROVE Backends'
  BY <1>28 DEF SaveByHand
<1>29. CASE UNCHANGED vars
  BY <1>29 DEF vars
<1> QED
  BY <1>1, <1>2, <1>3, <1>4, <1>5, <1>6, <1>7, <1>8, <1>9, <1>10, <1>11, <1>12, <1>13, <1>14,
     <1>15, <1>16, <1>17, <1>18, <1>19, <1>20, <1>21, <1>22, <1>23, <1>24, <1>25, <1>26, <1>27,
     <1>28, <1>29
  DEF Next, Handler, Faults

\* Every step keeps what is known of the loop over the files.
LEMMA StepKeepsFiles == IInv /\ [Next]_vars => Files'
<1> SUFFICES ASSUME IInv, [Next]_vars PROVE Files'
  OBVIOUS
<1> USE NamesAssumption
<1> USE DEF IInv, TypeOK, Pc, Files, NoTodo
<1>1. ASSUME NEW r \in Request, Connect(r) PROVE Files'
  BY <1>1 DEF Connect
<1>2. ASSUME NEW r \in Request, Lock(r) PROVE Files'
  BY <1>2 DEF Lock, Unlocked
<1>3. CASE SendBody
  BY <1>3 DEF SendBody, Go
<1>4. CASE HangUp
  BY <1>4 DEF HangUp, Release, Unlocked
<1>5. ASSUME NEW T \in Parts, Load(T) PROVE Files'
  BY <1>5 DEF Load
<1>6. CASE Loaded
  BY <1>6 DEF Loaded, Go
<1>7. CASE LoadFails
  BY <1>7 DEF LoadFails, Release, Unlocked
<1>8. CASE LoadsNothing
  BY <1>8 DEF LoadsNothing, Go
<1>9. CASE CreateBook
  BY <1>9 DEF CreateBook
<1>10. CASE CreateFails
  BY <1>10 DEF CreateFails, Release, Unlocked
<1>11. CASE AnswerRead
  BY <1>11 DEF AnswerRead, Release, Unlocked
<1>12. CASE WriteTemp
  BY <1>12 DEF WriteTemp, Saves, Go
<1>13. CASE Replace
  BY <1>13 DEF Replace, Stored
<1>14. CASE SaveFails
  BY <1>14 DEF SaveFails, Release, Unlocked
<1>15. CASE PutUnheard
  BY <1>15 DEF PutUnheard, Release, Unlocked
<1>16. CASE StartTabs
  BY <1>16 DEF StartTabs, Saves, Go
<1>17. ASSUME NEW t \in Tab, Truncate(t) PROVE Files'
  BY <1>17 DEF Truncate
<1>18. CASE WriteSome
  BY <1>18 DEF WriteSome
<1>19. CASE WriteRows
  BY <1>19 DEF WriteRows
<1>20. CASE EndTabs
  BY <1>20 DEF EndTabs, Stored
<1>21. CASE TabsFail
  BY <1>21 DEF TabsFail, Release, Unlocked
<1>22. CASE Another
  BY <1>22 DEF Another
<1>23. CASE Answer
  BY <1>23 DEF Answer, Release, Unlocked
<1>24. CASE Crash
  BY <1>24 DEF Crash, Unlocked
<1>25. CASE Restart
  BY <1>25 DEF Restart, Unlocked
<1>26. CASE RestartsEmpty
  BY <1>26 DEF RestartsEmpty, Unlocked
<1>27. ASSUME NEW T \in Parts, Open(T) PROVE Files'
  BY <1>27 DEF Open
<1>28. ASSUME NEW t \in Tab, SaveByHand(t) PROVE Files'
  <2>1. DOMAIN copy \in SUBSET Tab
    BY PartialDef
  <2> QED
    BY <1>28, <2>1 DEF SaveByHand
<1>29. CASE UNCHANGED vars
  BY <1>29 DEF vars
<1> QED
  BY <1>1, <1>2, <1>3, <1>4, <1>5, <1>6, <1>7, <1>8, <1>9, <1>10, <1>11, <1>12, <1>13, <1>14,
     <1>15, <1>16, <1>17, <1>18, <1>19, <1>20, <1>21, <1>22, <1>23, <1>24, <1>25, <1>26, <1>27,
     <1>28, <1>29
  DEF Next, Handler, Faults

\* Every step keeps the rows of an apply in order.
LEMMA StepKeepsOrder == IInv /\ [Next]_vars => Ordered'
<1> SUFFICES ASSUME IInv, [Next]_vars PROVE Ordered'
  OBVIOUS
<1> USE NamesAssumption, AfterAssumption
<1> USE DEF IInv, TypeOK, Pc, Serving, Ordered
<1>1. ASSUME NEW r \in Request, Connect(r) PROVE Ordered'
  BY <1>1 DEF Connect
<1>2. ASSUME NEW r \in Request, Lock(r) PROVE Ordered'
  BY <1>2 DEF Lock, Unlocked
<1>3. CASE SendBody
  BY <1>3 DEF SendBody, Go
<1>4. CASE HangUp
  BY <1>4 DEF HangUp, Release, Unlocked
<1>5. ASSUME NEW T \in Parts, Load(T) PROVE Ordered'
  BY <1>5 DEF Load
<1>6. CASE Loaded
  BY <1>6 DEF Loaded, Go
<1>7. CASE LoadFails
  BY <1>7 DEF LoadFails, Release, Unlocked
<1>8. CASE LoadsNothing
  BY <1>8 DEF LoadsNothing, Go
<1>9. CASE CreateBook
  BY <1>9 DEF CreateBook
<1>10. CASE CreateFails
  BY <1>10 DEF CreateFails, Release, Unlocked
<1>11. CASE AnswerRead
  BY <1>11 DEF AnswerRead, Release, Unlocked
<1>12. CASE WriteTemp
  BY <1>12 DEF WriteTemp, Saves, Go
<1>13. CASE Replace
  BY <1>13 DEF Replace, Stored
<1>14. CASE SaveFails
  BY <1>14 DEF SaveFails, Release, Unlocked
<1>15. CASE PutUnheard
  BY <1>15 DEF PutUnheard, Release, Unlocked
<1>16. CASE StartTabs
  BY <1>16 DEF StartTabs, Saves, Go
<1>17. ASSUME NEW t \in Tab, Truncate(t) PROVE Ordered'
  BY <1>17 DEF Truncate
<1>18. CASE WriteSome
  BY <1>18 DEF WriteSome
<1>19. CASE WriteRows
  BY <1>19 DEF WriteRows
<1>20. CASE EndTabs
  BY <1>20 DEF EndTabs, Stored
<1>21. CASE TabsFail
  BY <1>21 DEF TabsFail, Release, Unlocked
<1>22. CASE Another
  BY <1>22 DEF Another
<1>23. CASE Answer
  BY <1>23 DEF Answer, Release, Unlocked
<1>24. CASE Crash
  BY <1>24 DEF Crash, Unlocked
<1>25. CASE Restart
  BY <1>25 DEF Restart, Unlocked
<1>26. CASE RestartsEmpty
  BY <1>26 DEF RestartsEmpty, Unlocked
<1>27. ASSUME NEW T \in Parts, Open(T) PROVE Ordered'
  BY <1>27 DEF Open
<1>28. ASSUME NEW t \in Tab, SaveByHand(t) PROVE Ordered'
  BY <1>28 DEF SaveByHand
<1>29. CASE UNCHANGED vars
  BY <1>29 DEF vars
<1> QED
  BY <1>1, <1>2, <1>3, <1>4, <1>5, <1>6, <1>7, <1>8, <1>9, <1>10, <1>11, <1>12, <1>13, <1>14,
     <1>15, <1>16, <1>17, <1>18, <1>19, <1>20, <1>21, <1>22, <1>23, <1>24, <1>25, <1>26, <1>27,
     <1>28, <1>29
  DEF Next, Handler, Faults

\* In every reachable state: the types, what the request being served has loaded and what
\* is left of its save.
THEOREM Inductive == Spec => []IInv
<1>1. IInv /\ [Next]_vars => IInv'
  BY StepKeepsTypes, StepKeepsServing, StepKeepsBackends, StepKeepsFiles, StepKeepsOrder DEF IInv
<1>2. Init => IInv
  BY NamesAssumption, FaultsAssumption, AfterAssumption, NothingIsPartial, EmptyIsBook
  DEF Init, IInv, TypeOK, Serving, Backends, Files, Ordered, Unlocked, NoTodo, Pc
<1> QED
  BY <1>1, <1>2, PTL DEF Spec

\* Whatever fails or dies, every variable has its type, and no temporary file is left by
\* anything but a crash.
THEOREM TypeCorrect == Spec => []TypeOK
<1>1. IInv => TypeOK
  BY DEF IInv
<1> QED
  BY Inductive, <1>1, PTL

-----------------------------------------------------------------------------
(* The promise of module Workbook.                                             *)

\* The promise names the same workbooks, parts and requests as the server.
LEMMA SameNames ==
    /\ Promise!Nothing = Nothing /\ Promise!Parts = Parts
    /\ \A b, r : Promise!With(b, r) = With(b, r)
    /\ \A b, T, s : Promise!Extend(b, T, s) = Extend(b, T, s)
BY DEF Promise!Nothing, Nothing, Promise!Parts, Parts, Promise!With, With, Promise!Extend, Extend

\* Every step of every backend is a step of the promised book, or none.
LEMMA StepIsPromised == IInv /\ IInv' /\ [Next]_vars => [Promise!Next]_(Promise!vars)
<1> SUFFICES ASSUME IInv, IInv', [Next]_vars PROVE [Promise!Next]_(Promise!vars)
  OBVIOUS
<1> DEFINE Same == UNCHANGED Promise!vars
<1> USE NamesAssumption, AfterAssumption, SameNames
<1> USE DEF IInv, TypeOK, Pc, Serving, Backends, Ordered, Promise!kind, Promise!save,
            Promise!Dropped
<1>1. ASSUME NEW r \in Request, Connect(r) PROVE Same
  BY <1>1 DEF Connect, Promise!vars
<1>2. ASSUME NEW r \in Request, Lock(r) PROVE Same
  BY <1>2 DEF Lock, Unlocked, Promise!vars
<1>3. ASSUME SendBody PROVE Same
  BY <1>3 DEF SendBody, Go, Promise!vars
<1>4. ASSUME HangUp PROVE Promise!Drop
  BY <1>4 DEF HangUp, Release, Unlocked, Promise!Drop
<1>5. ASSUME NEW T \in Parts, Load(T) PROVE Promise!Read(T)
  BY <1>5 DEF Load, Promise!Read
<1>6. ASSUME Loaded PROVE Same
  BY <1>6 DEF Loaded, Go, Promise!vars
<1>7. ASSUME LoadFails PROVE Promise!Drop
  BY <1>7 DEF LoadFails, Release, Unlocked, Promise!Drop
<1>8. ASSUME LoadsNothing PROVE Same
  BY <1>8 DEF LoadsNothing, Go, Promise!vars
<1>9. ASSUME CreateBook PROVE Promise!Lose
  BY <1>9 DEF CreateBook, Empty, Promise!Lose
<1>10. ASSUME CreateFails PROVE Promise!Drop \/ Promise!Lose
  BY <1>10 DEF CreateFails, Release, Unlocked, Empty, Promise!Drop, Promise!Lose
<1>11. ASSUME AnswerRead PROVE \E r \in Request : Promise!Answer(r)
  <2>1. PICK r \in Request : r = server.who
    BY <1>11 DEF AnswerRead
  <2>2. Promise!Answer(r)
    BY <1>11, <2>1 DEF AnswerRead, Release, Unlocked, Promise!Answer
  <2> QED
    BY <2>2
<1>12. ASSUME WriteTemp PROVE Same
  BY <1>12 DEF WriteTemp, Saves, Go, Promise!vars
<1>13. ASSUME Replace PROVE \E r \in Request : Promise!Store(r)
  <2>1. PICK r \in Request : r = server.who
    BY <1>13 DEF Replace
  <2>2. Promise!Store(r)
    BY <1>13, <2>1 DEF Replace, Stored, New, Promise!MayStore, Book, Promise!Store
  <2> QED
    BY <2>2
<1>14. ASSUME SaveFails PROVE Promise!Drop
  BY <1>14 DEF SaveFails, Release, Unlocked, Promise!Drop
<1>15. ASSUME PutUnheard PROVE \E r \in Request : Promise!Store(r)
  <2>1. PICK r \in Request : r = server.who
    BY <1>15 DEF PutUnheard
  <2>2. Promise!Store(r)
    BY <1>15, <2>1 DEF PutUnheard, Release, Unlocked, New, Promise!MayStore, Book, Promise!Store
  <2> QED
    BY <2>2
<1>16. ASSUME StartTabs PROVE \E r \in Request : Promise!Begin(r)
  <2>1. PICK r \in Request : r = server.who
    BY <1>16 DEF StartTabs, Saves
  <2>2. Promise!Begin(r)
    BY <1>16, <2>1 DEF StartTabs, Saves, Go, Files, NoTodo, Promise!MayStore, Book, Promise!Begin
  <2> QED
    BY <2>2
<1>17. ASSUME NEW u \in Tab, Truncate(u) PROVE \E r \in Request, t \in Tab : Promise!Cut(r, t)
  <2>1. PICK r \in Request : r = server.who
    BY <1>17 DEF Truncate
  <2>2. Promise!Cut(r, u)
    BY <1>17, <2>1 DEF Truncate, Promise!Cut
  <2> QED
    BY <2>2
<1>18. ASSUME WriteSome PROVE \E r \in Request, t \in Tab : Promise!Cut(r, t)
  <2>1. PICK r \in Request : r = server.who
    BY <1>18 DEF WriteSome
  <2>2. PICK u \in Tab : u = todo.open
    BY <1>18 DEF WriteSome
  <2>3. Promise!Cut(r, u)
    BY <1>18, <2>1, <2>2 DEF WriteSome, New, Files, Promise!Cut
  <2> QED
    BY <2>3
<1>19. ASSUME WriteRows PROVE \E r \in Request, t \in Tab : Promise!Write(r, t)
  <2>1. PICK r \in Request : r = server.who
    BY <1>19 DEF WriteRows
  <2>2. PICK u \in Tab : u = todo.open
    BY <1>19 DEF WriteRows
  <2>3. todo.tabs \in SUBSET Tab /\ u \in todo.tabs
    BY <1>19, <2>2 DEF WriteRows, Files
  <2>4. Tab \ todo'.tabs = (Tab \ todo.tabs) \cup {u}
    BY <1>19, <2>2, <2>3 DEF WriteRows
  <2>5. Promise!Write(r, u)
    BY <1>19, <2>1, <2>2, <2>3, <2>4 DEF WriteRows, New, Promise!Write
  <2> QED
    BY <2>5
<1>20. ASSUME EndTabs PROVE \E r \in Request : Promise!Finish(r)
  <2>1. PICK r \in Request : r = server.who
    BY <1>20 DEF EndTabs
  <2>2. Promise!Finish(r)
    BY <1>20, <2>1 DEF EndTabs, Stored, NoTodo, Promise!Finish
  <2> QED
    BY <2>2
<1>21. ASSUME TabsFail PROVE Promise!Drop
  BY <1>21 DEF TabsFail, Release, Unlocked, Promise!Drop
<1>22. ASSUME Another PROVE Same
  BY <1>22 DEF Another, Promise!vars
<1>23. ASSUME Answer PROVE \E r \in Request : Promise!Answer(r)
  <2>1. PICK r \in Request : r = server.who
    BY <1>23 DEF Answer
  <2>2. Promise!Answer(r)
    BY <1>23, <2>1 DEF Answer, Release, Unlocked, Promise!Answer
  <2> QED
    BY <2>2
<1>24. ASSUME Crash PROVE Promise!Drop
  BY <1>24 DEF Crash, Unlocked, Promise!Drop
<1>25. ASSUME Restart PROVE Same
  BY <1>25 DEF Restart, Unlocked, Promise!vars
<1>26. ASSUME RestartsEmpty PROVE Promise!Lose
  BY <1>26 DEF RestartsEmpty, Unlocked, Empty, Promise!Lose
<1>27. ASSUME NEW T \in Parts, Open(T) PROVE Promise!Open(T)
  BY <1>27 DEF Open, Promise!Open
<1>28. ASSUME NEW t \in Tab, SaveByHand(t) PROVE Promise!HandSave(t)
  <2>1. DOMAIN copy \in SUBSET Tab
    BY PartialDef
  <2>2. store' = Promise!Extend(store, DOMAIN copy, [copy EXCEPT ![t] = @ \cup {Hand}])
    BY <1>28 DEF SaveByHand, Edited
  <2>3. server.pc = "tabs" /\ todo.open \in DOMAIN copy => DOMAIN copy = {todo.open}
    <3> SUFFICES ASSUME server.pc = "tabs", todo.open \in DOMAIN copy PROVE DOMAIN copy =
       {todo.open}
      OBVIOUS
    <3>1. copy # Nothing
      BY DEF Nothing
    <3>2. DOMAIN copy \in Parts /\ backend = "csvdir"
      BY <3>1
    <3>3. \E u \in Tab : DOMAIN copy = {u}
      BY <3>2 DEF Parts
    <3> QED
      BY <3>3
  <2> QED
    BY <1>28, <2>1, <2>2, <2>3 DEF SaveByHand, Files, NoTodo, Promise!HandSave
<1>29. ASSUME UNCHANGED vars PROVE Same
  BY <1>29 DEF vars, Promise!vars
<1> HIDE DEF IInv, TypeOK, Pc, Serving, Backends, Ordered, Same
<1> QED
  BY <1>1, <1>2, <1>3, <1>4, <1>5, <1>6, <1>7, <1>8, <1>9, <1>10, <1>11, <1>12, <1>13, <1>14,
     <1>15, <1>16, <1>17, <1>18, <1>19, <1>20, <1>21, <1>22, <1>23, <1>24, <1>25, <1>26, <1>27,
     <1>28, <1>29
  DEF Next, Handler, Faults, Promise!Next, Same

\* Every backend keeps the promise: the book changes by updates of one request at a time,
\* on top of what the request has read; whole ones, but for the files of a csvdir, each of
\* which may be seen or left half written; nothing is answered that was not stored; and the
\* rest of the book goes only where a user saves over it or a blob's server denies having it.
THEOREM PromiseKept == Spec => KeepsPromise
<1>1. Init => Promise!Init
  BY DEF Init, Promise!Init, Unlocked, Empty, Nothing, Promise!Nothing
<1> QED
  BY <1>1, StepIsPromised, Inductive, PTL DEF Spec, KeepsPromise, Promise!Spec
=============================================================================
