----------------------------- MODULE ChatProofs -----------------------------
(***************************************************************************)
(* What Chat guarantees for any number of tabs, answers and restarts.      *)
(*                                                                         *)
(* The invariant is one of single answers (AnswerInv), of what a request   *)
(* has read (MarksInv), and of two answers (Alone).  It rests on time: a   *)
(* living task is younger than STALE_GENERATION, what a request marks is   *)
(* older, and no answer grows younger except by being stored.              *)
(***************************************************************************)
EXTENDS Chat, FiniteSetTheorems, TLAPS

Types ==
    /\ status \in [Answers -> {"none", "generating", "gone"} \cup Final]
    /\ content \in [Answers -> SUBSET Calls]
    /\ age \in [Answers -> 0..StaleAge]
    /\ journal \in [Answers -> Nat]
    /\ task \in [Answers -> {"none", "ended", "dead"} \cup Living]
    /\ shown \in [Answers -> SUBSET Calls]
    /\ read \in [Answers -> SUBSET Calls]
    /\ result \in [Answers -> [as : {"none"} \cup Final, text : SUBSET Calls]]
    /\ event \in [Answers -> {"none", "done", "error"}]
    /\ tab = [t \in Tabs |-> tab[t]]

\* An answer that does not exist yet has left no trace.
Untouched(a) ==
    status[a] = "none" => /\ task[a] = "none"
                          /\ journal[a] = 0
                          /\ event[a] = "none"
                          /\ age[a] = 0
                          /\ read[a] = {}
                          /\ shown[a] = {}

\* A living task is young, has an answer to write and has committed nothing.
Alive(a) ==
    task[a] \in Living => /\ status[a] \in {"generating", "gone"}
                          /\ age[a] < StaleAge
                          /\ journal[a] = 0
                          /\ event[a] = "none"

\* The books: what is committed for an answer, by its status.
Books(a) ==
    /\ status[a] \in Saved => journal[a] = 1
    /\ status[a] \in {"generating", "failed", "interrupted"} => journal[a] = 0
    /\ journal[a] <= 1
    /\ event[a] = "done" => status[a] \in Saved \cup {"gone"}
    /\ status[a] = "gone" => dialogue = "deleted"

\* The text: what is shown has been read, in one call, and is what is stored.
Text(a) ==
    /\ task[a] = "search" => read[a] = {} /\ shown[a] = {}
    /\ task[a] \in Calls => read[a] \subseteq {task[a]} /\ shown[a] \subseteq read[a]
    /\ task[a] \in {"saving", "loaded"} =>
         /\ result[a].as \in {"complete", "stopped", "failed"}
         /\ \E c \in Calls : result[a].text \subseteq {c}
         /\ shown[a] \subseteq result[a].text

AnswerInv(a) == Untouched(a) /\ Alive(a) /\ Books(a) /\ Text(a)

MarksInv ==
    \A t \in Tabs : \A a \in Answers :
        a \in tab[t].marks => /\ status[a] \in {"generating", "interrupted", "gone"}
                              /\ age[a] >= StaleAge

Alone == \A a, b \in Answers : task[a] \in Living /\ task[b] \in Living => a = b

ChatInv ==
    /\ Types
    /\ \A a \in Answers : AnswerInv(a)
    /\ MarksInv
    /\ Alone

USE DEF Final, Saved, Calls, First, InTurn, Living, StaleAge, TimeoutAge, NoAnswer,
        NoResult, IdleTab

-----------------------------------------------------------------------------
LEMMA InitInv == Init => ChatInv
<1>1. ASSUME Init PROVE Types
  BY <1>1 DEF Init, Types
<1>2. ASSUME Init PROVE \A a \in Answers : AnswerInv(a)
  BY <1>2 DEF Init, AnswerInv, Untouched, Alive, Books, Text
<1>3. ASSUME Init PROVE MarksInv /\ Alone
  BY <1>3 DEF Init, MarksInv, Alone
<1> QED BY <1>1, <1>2, <1>3 DEF ChatInv

\* A new answer: nobody else's task can be alive.
LEMMA NewAnswerInv ==
    ASSUME ChatInv, NEW a \in Answers, NEW p, NEW q,
           IsNext(a), dialogue # "deleted", dialogue' = "open", NewAnswer(a, p, q)
    PROVE  ChatInv'
<1> USE DEF ChatInv, NewAnswer, MarkedStatus, StaleAnswers, IsNext
<1>1. \A b \in Answers : task[b] \notin Living
  <2> SUFFICES ASSUME NEW b \in Answers, task[b] \in Living PROVE FALSE
    OBVIOUS
  <2>1. status[b] = "generating" /\ age[b] < StaleAge
    BY DEF AnswerInv, Alive, Books
  <2>2. MarkedStatus[b] # "generating"
    BY DEF CanWrite
  <2> QED BY <2>1, <2>2 DEF Types
<1>2. Types'
  BY DEF Types
<1>3. ASSUME NEW b \in Answers PROVE AnswerInv(b)'
  <2>1. CASE b = a
    BY <2>1 DEF Types, AnswerInv, Untouched, Alive, Books, Text
  <2>2. CASE b # a
    BY <2>2, <1>1 DEF Types, AnswerInv, Untouched, Alive, Books, Text
  <2> QED BY <2>1, <2>2
<1>4. MarksInv'
  BY DEF Types, MarksInv
<1>5. Alone'
  BY <1>1 DEF Types, Alone
<1> QED BY <1>2, <1>3, <1>4, <1>5

LEMMA ReadInv ==
    ASSUME ChatInv, NEW t \in Tabs, NEW x, Read(t, x)
    PROVE  ChatInv'
<1> USE DEF ChatInv, Read, rows, tasks
<1>1. Types' /\ Alone'
  BY DEF Types, Alone
<1>2. \A a \in Answers : AnswerInv(a)'
  BY DEF AnswerInv, Untouched, Alive, Books, Text
<1>3. MarksInv'
  BY DEF Types, MarksInv, StaleAnswers
<1> QED BY <1>1, <1>2, <1>3

LEMMA CommitInv ==
    ASSUME ChatInv, NEW t \in Tabs, Commit(t)
    PROVE  ChatInv'
<1> USE DEF ChatInv, Commit, tasks
<1>1. Types' /\ Alone'
  <2>1. status' \in [Answers -> {"none", "generating", "gone"} \cup Final]
    BY DEF Types
  <2>2. tab' = [u \in Tabs |-> tab'[u]]
    BY DEF Types
  <2> QED BY <2>1, <2>2 DEF Types, Alone
<1>2. ASSUME NEW a \in Answers PROVE AnswerInv(a)'
  <2>1. CASE status'[a] = status[a]
    BY <2>1 DEF Types, AnswerInv, Untouched, Alive, Books, Text
  <2>2. CASE status'[a] # status[a]
    <3>1. /\ a \in tab[t].marks
          /\ status'[a] = "interrupted"
          /\ dialogue = "open"
      BY <2>2 DEF Types
    <3>2. status[a] = "generating" /\ age[a] >= StaleAge
      BY <3>1, <2>2 DEF MarksInv, AnswerInv, Books
    <3> QED BY <3>1, <3>2 DEF Types, AnswerInv, Untouched, Alive, Books, Text
  <2> QED BY <2>1, <2>2
<1>3. MarksInv'
  BY DEF Types, MarksInv
<1> QED BY <1>1, <1>2, <1>3

LEMMA DeleteInv == ASSUME ChatInv, Delete PROVE ChatInv'
<1> USE DEF ChatInv, Delete, tasks, Exists
<1>1. Types' /\ Alone'
  BY DEF Types, Alone
<1>2. \A a \in Answers : AnswerInv(a)'
  BY DEF Types, AnswerInv, Untouched, Alive, Books, Text
<1>3. MarksInv'
  BY DEF Types, MarksInv
<1> QED BY <1>1, <1>2, <1>3

\* A step inside answer_turn touches nothing that is committed.
LEMMA TurnInv ==
    ASSUME ChatInv, NEW a \in Answers, task[a] \in InTurn,
           \/ Search(a) \/ Piece(a) \/ CallFails(a) \/ CallRefuses(a)
           \/ CallFiltered(a) \/ CallEnds(a) \/ Timeout(a)
    PROVE  ChatInv'
<1> USE DEF ChatInv
<1>0. /\ UNCHANGED <<rows, event, tab>>
      /\ task' = [task EXCEPT ![a] = task'[a]] /\ task'[a] \in Living
      /\ shown' = [shown EXCEPT ![a] = shown'[a]] /\ shown'[a] \in SUBSET Calls
      /\ read' = [read EXCEPT ![a] = read'[a]] /\ read'[a] \in SUBSET Calls
      /\ result' = [result EXCEPT ![a] = result'[a]]
      /\ result'[a] \in [as : {"none"} \cup Final, text : SUBSET Calls]
      /\ Text(a)'
  <2> USE DEF Types, AnswerInv, Text, Go, Outcome, Fail, CallModel, ReserveOf
  <2>1. CASE Search(a)
    BY <2>1 DEF Search
  <2>2. CASE Piece(a)
    BY <2>2 DEF Piece, StopNoticed, PieceShown
  <2>3. CASE CallFails(a)
    BY <2>3 DEF CallFails
  <2>4. CASE CallRefuses(a)
    BY <2>4 DEF CallRefuses
  <2>5. CASE CallFiltered(a)
    BY <2>5 DEF CallFiltered
  <2>6. CASE CallEnds(a)
    BY <2>6 DEF CallEnds
  <2>7. CASE Timeout(a)
    BY <2>7 DEF Timeout
  <2> QED BY <2>1, <2>2, <2>3, <2>4, <2>5, <2>6, <2>7
<1>1. Types'
  <2>1. task' \in [Answers -> {"none", "ended", "dead"} \cup Living]
    BY <1>0 DEF Types
  <2>2. shown' \in [Answers -> SUBSET Calls] /\ read' \in [Answers -> SUBSET Calls]
    BY <1>0 DEF Types
  <2>3. result' \in [Answers -> [as : {"none"} \cup Final, text : SUBSET Calls]]
    BY <1>0 DEF Types
  <2> QED BY <1>0, <2>1, <2>2, <2>3 DEF Types, rows
<1>2. ASSUME NEW b \in Answers PROVE AnswerInv(b)'
  <2>1. CASE b = a
    BY <2>1, <1>0 DEF Types, AnswerInv, Untouched, Alive, Books, rows
  <2>2. CASE b # a
    BY <2>2, <1>0 DEF Types, AnswerInv, Untouched, Alive, Books, Text, rows
  <2> QED BY <2>1, <2>2
<1>3. MarksInv'
  BY <1>0 DEF MarksInv, rows
<1>4. Alone'
  BY <1>0 DEF Types, Alone
<1> QED BY <1>1, <1>2, <1>3, <1>4

\* The end of a task, with or without storing the answer.
LEMMA EndInv ==
    ASSUME ChatInv, NEW a \in Answers, NEW e \in {"done", "error"},
           task[a] \in Living, End(a, e), UNCHANGED tab,
           \/ UNCHANGED rows /\ e = "error"
           \/ /\ Store(a)
              /\ status[a] = "generating" 
              /\ task[a] = "loaded"
              /\ e = "done" => result[a].as # "failed"
           \/ /\ Journal(a)
              /\ status[a] = "gone"
              /\ e = "error"
              /\ UNCHANGED <<dialogue, current, under, question, status, content, age>>
    PROVE  ChatInv'
<1> USE DEF ChatInv, End, Go
<1>0. /\ UNCHANGED dialogue
      /\ \A b \in Answers \ {a} : /\ UNCHANGED <<status[b], content[b], age[b]>>
                                  /\ UNCHANGED <<journal[b], event[b], task[b]>>
                                  /\ UNCHANGED <<shown[b], read[b], result[b]>>
  BY DEF Types, rows, Store, Journal
<1>1. Types'
  <2>1. result[a].as \in {"none"} \cup Final /\ result[a].text \in SUBSET Calls
    BY DEF Types
  <2>2. /\ task' \in [Answers -> {"none", "ended", "dead"} \cup Living]
        /\ event' \in [Answers -> {"none", "done", "error"}]
    BY DEF Types
  <2>3. /\ shown' \in [Answers -> SUBSET Calls]
        /\ read' \in [Answers -> SUBSET Calls]
    BY DEF Types
  <2>4. result' \in [Answers -> [as : {"none"} \cup Final, text : SUBSET Calls]]
    BY DEF Types
  <2>5. /\ status' \in [Answers -> {"none", "generating", "gone"} \cup Final]
        /\ content' \in [Answers -> SUBSET Calls]
        /\ age' \in [Answers -> 0..StaleAge]
    <3>1. CASE UNCHANGED <<status, content, age>>
      BY <3>1 DEF Types
    <3>2. CASE Store(a)
      BY <3>2, <2>1 DEF Types, Store
    <3> QED BY <3>1, <3>2 DEF rows
  <2>6. journal' \in [Answers -> Nat]
    BY DEF Types, rows, Store, Journal
  <2> QED BY <2>2, <2>3, <2>4, <2>5, <2>6 DEF Types
<1>2. ASSUME NEW b \in Answers PROVE AnswerInv(b)'
  <2>1. CASE b # a
    BY <2>1, <1>0 DEF AnswerInv, Untouched, Alive, Books, Text
  <2>2. CASE b = a /\ UNCHANGED rows /\ e = "error"
    BY <2>2 DEF Types, AnswerInv, Untouched, Alive, Books, Text, rows
  <2>3. CASE b = a /\ Store(a) /\ status[a] = "generating" /\ task[a] = "loaded"
             /\ (e = "done" => result[a].as # "failed")
    <3>1. result[a].as \in {"complete", "stopped", "failed"} /\ journal[a] = 0
      BY <2>3 DEF AnswerInv, Text, Alive
    <3> QED BY <2>3, <3>1 DEF Types, AnswerInv, Untouched, Alive, Books, Text, Store,
               Journal
  <2>4. CASE b = a /\ Journal(a) /\ status[a] = "gone" /\ e = "error"
             /\ UNCHANGED <<dialogue, current, under, question, status, content, age>>
    BY <2>4 DEF Types, AnswerInv, Untouched, Alive, Books, Text, Journal
  <2> QED BY <2>1, <2>2, <2>3, <2>4
<1>3. MarksInv'
  <2> SUFFICES ASSUME NEW t \in Tabs, NEW b \in Answers, b \in tab[t].marks
               PROVE  /\ status'[b] \in {"generating", "interrupted", "gone"}
                      /\ age'[b] >= StaleAge
    BY DEF MarksInv
  <2>1. b # a
    BY DEF MarksInv, AnswerInv, Alive, Types
  <2> QED BY <2>1, <1>0 DEF MarksInv
<1>4. Alone'
  BY <1>0 DEF Types, Alone
<1> QED BY <1>1, <1>2, <1>3, <1>4

LEMMA LoadInv == ASSUME ChatInv, NEW a \in Answers, Load(a) PROVE ChatInv'
<1> USE DEF ChatInv
<1>1. CASE Exists(a)
  <2> USE DEF Load, Go
  <2>1. task' \in [Answers -> {"none", "ended", "dead"} \cup Living]
    BY <1>1 DEF Types
  <2>2. Types'
    BY <1>1, <2>1 DEF Types
  <2>3. Alone'
    BY <1>1 DEF Types, Alone
  <2>4. ASSUME NEW b \in Answers PROVE AnswerInv(b)'
    BY <1>1 DEF Types, AnswerInv, Untouched, Alive, Books, Text
  <2>5. MarksInv'
    BY <1>1 DEF MarksInv
  <2> QED BY <2>2, <2>4, <2>5, <2>3
<1>2. CASE ~Exists(a)
  <2>1. status[a] = "gone"
    BY <1>2 DEF Load, Exists, AnswerInv, Alive
  <2>2. CASE result[a].as = "failed"
    BY <1>2, <2>2, EndInv DEF Load, rows
  <2>3. CASE result[a].as # "failed"
    BY <1>2, <2>1, <2>3, EndInv DEF Load
  <2> QED BY <2>2, <2>3
<1> QED BY <1>1, <1>2

LEMMA SaveInv == ASSUME ChatInv, NEW a \in Answers, Save(a) PROVE ChatInv'
<1>1. CASE Exists(a)
  <2>1. status[a] = "generating" /\ task[a] \in Living
    BY <1>1 DEF Save, Exists, ChatInv, AnswerInv, Alive
  <2>2. PICK e \in {"done", "error"} :
          End(a, e) /\ (e = "done" => result[a].as # "failed")
    BY <1>1 DEF Save
  <2> QED BY <1>1, <2>1, <2>2, EndInv DEF Save
<1>2. CASE ~Exists(a)
  BY <1>2, EndInv DEF Save
<1> QED BY <1>1, <1>2

LEMMA ShutdownInv == ASSUME ChatInv, NEW a \in Answers, Shutdown(a) PROVE ChatInv'
<1>1. CASE UNCHANGED rows
  BY <1>1, EndInv DEF Shutdown
<1>2. CASE task[a] = "loaded" /\ Exists(a) /\ Store(a)
  <2>1. status[a] = "generating" /\ task[a] \in Living
    BY <1>2 DEF Exists, ChatInv, AnswerInv, Alive
  <2> QED BY <1>2, <2>1, EndInv DEF Shutdown
<1> QED BY <1>1, <1>2 DEF Shutdown

LEMMA CrashInv == ASSUME ChatInv, Crash PROVE ChatInv'
<1> USE DEF ChatInv, Crash, rows
<1>1. Types'
  <2>1. task' \in [Answers -> {"none", "ended", "dead"} \cup Living]
    BY DEF Types
  <2> QED BY <2>1 DEF Types
<1>2. \A a \in Answers : AnswerInv(a)'
  BY DEF Types, AnswerInv, Untouched, Alive, Books, Text
<1>3. MarksInv' /\ Alone'
  BY DEF Types, MarksInv, Alone
<1> QED BY <1>1, <1>2, <1>3

LEMMA TickInv == ASSUME ChatInv, Tick PROVE ChatInv'
<1> USE DEF ChatInv, Tick, tasks
<1>1. Types'
  <2>1. age' \in [Answers -> 0..StaleAge]
    BY DEF Types, Ageing
  <2> QED BY <2>1 DEF Types
<1>2. ASSUME NEW a \in Answers PROVE AnswerInv(a)'
  BY DEF Types, AnswerInv, Untouched, Alive, Books, Text, Ageing
<1>3. MarksInv' /\ Alone'
  BY DEF Types, MarksInv, Alone, Ageing
<1> QED BY <1>1, <1>2, <1>3

LEMMA NextInv == ChatInv /\ [Next]_vars => ChatInv'
<1> SUFFICES ASSUME ChatInv, [Next]_vars PROVE ChatInv'
  OBVIOUS
<1>1. ASSUME NEW a \in Answers, NEW p \in Answers \cup {NoAnswer}, Begin(a, p)
      PROVE  ChatInv'
  BY <1>1, NewAnswerInv DEF Begin
<1>2. ASSUME NEW a \in Answers, NEW b \in Answers, Regenerate(a, b) PROVE ChatInv'
  BY <1>2, NewAnswerInv DEF Regenerate
<1>3. ASSUME NEW t \in Tabs, Open(t) \/ Select(t) \/ Commit(t) PROVE ChatInv'
  BY <1>3, ReadInv, CommitInv DEF Open, Select
<1>4. ASSUME NEW a \in Answers, Stop(a) PROVE ChatInv'
  BY <1>4 DEF Stop, rows, tasks, ChatInv, Types, AnswerInv, Untouched, Alive, Books,
              Text, MarksInv, Alone
<1>5. ASSUME NEW a \in Answers, TaskStep(a) PROVE ChatInv'
  <2>1. CASE Load(a) \/ Save(a)
    BY <2>1, LoadInv, SaveInv
  <2>2. CASE SaveFails(a)
    BY <2>2, EndInv DEF SaveFails
  <2>3. CASE ~(Load(a) \/ Save(a) \/ SaveFails(a))
    <3>1. task[a] \in InTurn
      BY <1>5, <2>3 DEF TaskStep, Search, Piece, CallFails, CallRefuses, CallFiltered,
                        CallEnds, Timeout
    <3> QED BY <1>5, <2>3, <3>1, TurnInv DEF TaskStep
  <2> QED BY <2>1, <2>2, <2>3
<1>6. ASSUME NEW a \in Answers, Shutdown(a) PROVE ChatInv'
  BY <1>6, ShutdownInv
<1>7. CASE UNCHANGED vars
  BY <1>7 DEF vars, rows, tasks, ChatInv, Types, AnswerInv, Untouched, Alive, Books,
              Text, MarksInv, Alone
<1> QED BY <1>1, <1>2, <1>3, <1>4, <1>5, <1>6, <1>7, DeleteInv, CrashInv, TickInv
        DEF Next

LEMMA InvAlways == Spec => []ChatInv
  BY InitInv, NextInv, PTL DEF Spec

-----------------------------------------------------------------------------
\* Never do two tasks write into a dialogue: STALE_GENERATION exceeds
\* GENERATION_TIMEOUT (chat_service.py:68).
THEOREM OneWriterAlways == Spec => []OneWriter
<1>1. ChatInv => OneWriter
  <2> SUFFICES ASSUME ChatInv PROVE OneWriter
    OBVIOUS
  <2> DEFINE L == {a \in Answers : task[a] \in Living}
  <2>1. CASE L = {}
    BY <2>1, FS_EmptySet DEF OneWriter
  <2>2. CASE L # {}
    <3>1. PICK a : a \in L
      BY <2>2
    <3>2. L = {a}
      BY <3>1 DEF ChatInv, Alone
    <3> QED BY <3>2, FS_Singleton DEF OneWriter
  <2> QED BY <2>1, <2>2
<1> QED BY <1>1, InvAlways, PTL

\* An answer is paid for exactly when it is there (answer_turn, commit=False).
THEOREM PaidIffAnsweredAlways == Spec => []PaidIffAnswered
<1>1. ChatInv => PaidIffAnswered
  BY DEF ChatInv, AnswerInv, Books, PaidIffAnswered
<1> QED BY <1>1, InvAlways, PTL

\* How the status and the text of an answer change in a step.
LEMMA StepOfAnswer ==
    ASSUME ChatInv, [Next]_vars, NEW a \in Answers
    PROVE  \/ status'[a] = status[a] /\ content'[a] = content[a]
           \/ status'[a] = "gone"
           \/ status[a] = "none" /\ status'[a] = "generating"
           \/ status[a] = "generating" /\ status'[a] = "interrupted"
           \/ /\ status[a] = "generating"
              /\ task[a] = "loaded"
              /\ status'[a] = result[a].as
              /\ content'[a] = result[a].text
<1> USE DEF ChatInv
<1>1. ASSUME NEW b \in Answers, NEW p, NEW q, IsNext(b), NewAnswer(b, p, q)
      PROVE  \/ status'[a] = status[a] /\ content'[a] = content[a]
             \/ status[a] = "none" /\ status'[a] = "generating"
             \/ status[a] = "generating" /\ status'[a] = "interrupted"
  BY <1>1 DEF NewAnswer, MarkedStatus, StaleAnswers, IsNext, Types
<1>2. ASSUME NEW t \in Tabs, Commit(t)
      PROVE  \/ status'[a] = status[a] /\ content'[a] = content[a]
             \/ status[a] = "generating" /\ status'[a] = "interrupted"
             \/ status'[a] = "gone"
  BY <1>2 DEF Commit, MarksInv, AnswerInv, Books, Types
<1>3. ASSUME NEW b \in Answers, Store(b), Exists(b), task[b] = "loaded"
      PROVE  \/ status'[a] = status[a] /\ content'[a] = content[a]
             \/ /\ status[a] = "generating"
                /\ task[a] = "loaded"
                /\ status'[a] = result[a].as
                /\ content'[a] = result[a].text
  BY <1>3 DEF Store, Exists, AnswerInv, Alive, Types
<1>4. CASE Delete
  BY <1>4 DEF Delete, Types
<1>5. CASE UNCHANGED <<status, content>>
  BY <1>5
<1>6. CASE Next
  <2>1. CASE \E b \in Answers, p \in Answers \cup {NoAnswer} : Begin(b, p)
    BY <2>1, <1>1 DEF Begin
  <2>2. CASE \E b, c \in Answers : Regenerate(b, c)
    BY <2>2, <1>1 DEF Regenerate
  <2>3. CASE \E t \in Tabs : Open(t) \/ Select(t) \/ Commit(t)
    BY <2>3, <1>2, <1>5 DEF Open, Select, Read, rows
  <2>4. CASE \E b \in Answers : Stop(b)
    BY <2>4, <1>5 DEF Stop, rows
  <2>5. ASSUME NEW b \in Answers, TaskStep(b)
        PROVE UNCHANGED <<status, content>> \/ (Store(b) /\ Exists(b) /\ task[b] = "loaded")
    BY <2>5 DEF TaskStep, Search, Piece, CallFails, CallRefuses, CallFiltered, CallEnds,
                Timeout, Load, Save, SaveFails, rows
  <2>6. CASE \E b \in Answers : TaskStep(b)
    BY <2>5, <2>6, <1>3, <1>5
  <2>7. CASE \E b \in Answers : Shutdown(b)
    BY <2>7, <1>3, <1>5 DEF Shutdown, rows
  <2>8. CASE Crash \/ Tick
    BY <2>8, <1>5 DEF Crash, Tick, rows
  <2> QED BY <1>4, <1>6, <2>1, <2>2, <2>3, <2>4, <2>6, <2>7, <2>8 DEF Next
<1> QED BY <1>5, <1>6 DEF vars, rows

\* An answer that has ended is never rewritten (MessageRepository.get, _tree).
THEOREM FinalIsFinalAlways == Spec => FinalIsFinal
<1>1. ChatInv /\ [Next]_vars =>
        [\A a \in Answers :
           status[a] \in Final =>
             \/ status'[a] = status[a] /\ content'[a] = content[a]
             \/ status'[a] = "gone"]_vars
  BY StepOfAnswer
<1> QED BY <1>1, InvAlways, PTL DEF Spec, FinalIsFinal

LEMMA AtMostOne ==
    ASSUME NEW c, NEW S, S \subseteq {c}
    PROVE  Cardinality(S) <= 1
<1>1. CASE S = {}
  BY <1>1, FS_EmptySet
<1>2. CASE S = {c}
  <2>1. Cardinality({c}) = 1
    BY FS_Singleton
  <2> QED BY <1>2, <2>1
<1> QED BY <1>1, <1>2

\* What is stored is one model's text and holds what was on the screen.
THEOREM KeepsWhatWasShownAlways == Spec => KeepsWhatWasShown
<1>1. ASSUME ChatInv, [Next]_vars, NEW a \in Answers,
             status'[a] # status[a], status'[a] \in {"complete", "stopped", "failed"}
      PROVE  Cardinality(content'[a]) <= 1 /\ shown[a] \subseteq content'[a]
  <2>1. task[a] = "loaded" /\ content'[a] = result[a].text
    BY <1>1, StepOfAnswer
  <2>2. /\ \E c \in Calls : result[a].text \subseteq {c}
        /\ shown[a] \subseteq result[a].text
    BY <1>1, <2>1 DEF ChatInv, AnswerInv, Text
  <2> QED BY <2>1, <2>2, AtMostOne
<1>2. ChatInv /\ [Next]_vars =>
        [\A a \in Answers :
           status'[a] # status[a] /\ status'[a] \in {"complete", "stopped", "failed"} =>
               /\ Cardinality(content'[a]) <= 1
               /\ shown[a] \subseteq content'[a]]_vars
  BY <1>1
<1> QED BY <1>2, InvAlways, PTL DEF Spec, KeepsWhatWasShown
=============================================================================
