-------------------------------- MODULE Chat --------------------------------
(***************************************************************************)
(* One dialogue of the chat and the background tasks that write its        *)
(* answers (services/chat_service.py, services/chat_generation.py,         *)
(* FaqService.answer_turn and FallbackGateway under it).                   *)
(*                                                                         *)
(* A question is stored together with an empty answer in status            *)
(* "generating"; the answer is written by a task with a database session   *)
(* of its own, which survives the request that began it.  The task streams *)
(* what a model says, and stores the answer, its journal row and its       *)
(* credits in one transaction.  It may be stopped, fail, run out of time   *)
(* or die with its process; the dialogue may be read, switched to another  *)
(* branch or deleted meanwhile from several tabs.                          *)
(*                                                                         *)
(* An answer stands for the pair of messages it was born with: question[a] *)
(* is the answer that was created together with a's question, under[a] the *)
(* answer that question follows.  A text is the set of model calls whose   *)
(* pieces it contains.  Time is the age of an unfinished answer, in units  *)
(* of five minutes.                                                        *)
(***************************************************************************)
EXTENDS Naturals, FiniteSets

CONSTANTS Tabs,         \* requests of the owner that may be in flight
          MaxAnswers,   \* answers a dialogue may get (bound)
          MaxCrashes,   \* restarts of the API (bound)
          Reserve       \* is a second model configured

ASSUME ChatAssumption ==
    /\ MaxAnswers \in Nat
    /\ MaxCrashes \in Nat
    /\ Reserve \in BOOLEAN

Answers == 1..MaxAnswers
NoAnswer == 0

\* GENERATION_TIMEOUT is 300 s, STALE_GENERATION ten minutes.
TimeoutAge == 1
StaleAge == 2

\* Model calls: on the excerpts, and, when they hold no answer, a general one;
\* each by the first model or by the reserve.
Calls == {"documents", "documentsReserve", "general", "generalReserve"}
First == {"documents", "general"}
ReserveOf == [c \in First |->
                IF c = "documents" THEN "documentsReserve" ELSE "generalReserve"]

Final == {"complete", "stopped", "failed", "interrupted"}
Saved == {"complete", "stopped"}
\* Steps inside answer_turn, and all steps of a living task.
InTurn == {"search"} \cup Calls
Living == InTurn \cup {"saving", "loaded"}

VARIABLES
    dialogue,   \* "none", "open" or "deleted"
    current,    \* conversations.current_message_id
    under, question, status, content, age,   \* messages
    journal,    \* rows of qa_log, with their credits, committed for an answer
    stop,       \* flags chat-stop:<id> in Redis
    task,       \* where the task of an answer is
    shown,      \* what the stream of a living task shows (_StreamSink.text)
    read,       \* what has been read of the present call
    result,     \* what is to be stored, as status and text
    event,      \* the last event of the stream
    tab,        \* requests between their read and their commit
    crashes

rows == <<dialogue, current, under, question, status, content, age, journal>>
tasks == <<task, shown, read, result, event>>
vars == <<rows, tasks, stop, tab, crashes>>

NoResult == [as |-> "none", text |-> {}]
IdleTab == [at |-> "idle", marks |-> {}, target |-> NoAnswer]

Exists(a) == status[a] \notin {"none", "gone"}

\* Mutant of StaleAnswers: the limit is that of the generation itself.
StaleTooEarly == {a \in Answers : status[a] = "generating" /\ age[a] >= TimeoutAge}

\* Written for longer than STALE_GENERATION: the task must have died.
StaleAnswers == {a \in Answers : status[a] = "generating" /\ age[a] >= StaleAge}

Init ==
    /\ dialogue = "none"
    /\ current = NoAnswer
    /\ under = [a \in Answers |-> NoAnswer]
    /\ question = [a \in Answers |-> NoAnswer]
    /\ status = [a \in Answers |-> "none"]
    /\ content = [a \in Answers |-> {}]
    /\ age = [a \in Answers |-> 0]
    /\ journal = [a \in Answers |-> 0]
    /\ stop = {}
    /\ task = [a \in Answers |-> "none"]
    /\ shown = [a \in Answers |-> {}]
    /\ read = [a \in Answers |-> {}]
    /\ result = [a \in Answers |-> NoResult]
    /\ event = [a \in Answers |-> "none"]
    /\ tab = [t \in Tabs |-> IdleTab]
    /\ crashes = 0

-----------------------------------------------------------------------------
(* Requests that hold the row of the dialogue FOR UPDATE                   *)

\* _tree inside begin: stale answers become interrupted ...
MarkedStatus == [a \in Answers |->
                   IF a \in StaleAnswers THEN "interrupted" ELSE status[a]]

\* ... and _check_can_write lets one answer be written at a time.
CanWrite == \A a \in Answers : MarkedStatus[a] # "generating"

\* created_at orders the messages of a dialogue.
IsNext(a) ==
    /\ status[a] = "none"
    /\ \A b \in Answers : b < a => status[b] # "none"

NewAnswer(a, parent, q) ==
    /\ CanWrite
    /\ status' = [MarkedStatus EXCEPT ![a] = "generating"]
    /\ under' = [under EXCEPT ![a] = parent]
    /\ question' = [question EXCEPT ![a] = q]
    /\ current' = a
    /\ task' = [task EXCEPT ![a] = "search"]
    /\ UNCHANGED <<content, age, journal, shown, read, result, event, stop, tab,
                   crashes>>

\* begin: a new question in a new dialogue, after any answer, or, with
\* another parent, an edited question.
Begin(a, parent) ==
    /\ IsNext(a)
    /\ dialogue # "deleted"
    /\ dialogue = "none" => parent = NoAnswer
    /\ parent # NoAnswer => Exists(parent)
    /\ dialogue' = "open"
    /\ NewAnswer(a, parent, a)

\* begin_regenerate: one more answer to the question of b.
Regenerate(a, b) ==
    /\ IsNext(a)
    /\ dialogue = "open"
    /\ Exists(b)
    /\ NewAnswer(a, under[b], question[b])
    /\ UNCHANGED dialogue

-----------------------------------------------------------------------------
(* Requests that read first and commit later, without a lock               *)
(* (a column that keeps the value it was read with is not written).        *)

Largest(S) == CHOOSE a \in S : \A b \in S : b <= a

\* _Tree.latest_leaf: down the youngest question, then its youngest answer.
LatestLeaf[a \in Answers] ==
    LET below == {b \in Answers : Exists(b) /\ under[b] = a}
        asked == Largest({question[b] : b \in below})
    IN  IF below = {} THEN a
        ELSE LatestLeaf[Largest({b \in below : question[b] = asked})]

\* Mutant of Read: every unfinished answer is taken for an abandoned one.
ReadMarksUnfinished(t, target) ==
    /\ tab[t].at = "idle"
    /\ dialogue = "open"
    /\ tab' = [tab EXCEPT ![t] = [at |-> "read", target |-> target,
                                  marks |-> {a \in Answers : status[a] = "generating"}]]
    /\ UNCHANGED <<rows, tasks, stop, crashes>>

\* get and select: the tree is read, stale answers are marked in memory.
Read(t, target) ==
    /\ tab[t].at = "idle"
    /\ dialogue = "open"
    /\ tab' = [tab EXCEPT ![t] = [at |-> "read", marks |-> StaleAnswers,
                                  target |-> target]]
    /\ UNCHANGED <<rows, tasks, stop, crashes>>

Open(t) == Read(t, NoAnswer)
Select(t) ==
    \E a \in Answers :
      LET leaf == LatestLeaf[a]
      IN  Exists(a) /\ Read(t, IF leaf = current THEN NoAnswer ELSE leaf)

\* The commit writes the marks and the choice, whatever the rows hold by now.
Commit(t) ==
    /\ tab[t].at = "read"
    /\ tab' = [tab EXCEPT ![t] = IdleTab]
    /\ IF dialogue = "open"
         THEN /\ status' = [a \in Answers |->
                              IF a \in tab[t].marks THEN "interrupted" ELSE status[a]]
              /\ current' = IF tab[t].target = NoAnswer THEN current
                                                        ELSE tab[t].target
         ELSE UNCHANGED <<status, current>>
    /\ UNCHANGED <<dialogue, under, question, content, age, journal, tasks, stop,
                   crashes>>

\* delete: the messages go with the dialogue, the journal stays.
Delete ==
    /\ dialogue = "open"
    /\ dialogue' = "deleted"
    /\ status' = [a \in Answers |-> IF Exists(a) THEN "gone" ELSE status[a]]
    /\ UNCHANGED <<current, under, question, content, age, journal, tasks, stop, tab,
                   crashes>>

\* check_stop and StopSignals.request: only an answer that is being written
\* (a flag that no task reads any more is left out).
Stop(a) ==
    /\ status[a] = "generating"
    /\ task[a] \in InTurn
    /\ stop' = stop \cup {a}
    /\ UNCHANGED <<rows, tasks, tab, crashes>>

-----------------------------------------------------------------------------
(* The task of an answer: FaqService.answer_turn                           *)

Go(a, step) == task' = [task EXCEPT ![a] = step]
Outcome(a, as, text) == result' = [result EXCEPT ![a] = [as |-> as, text |-> text]]

\* An exception leaves answer_turn: what has been shown stays visible.
Fail(a) ==
    /\ Go(a, "saving")
    /\ Outcome(a, "failed", shown[a])
    /\ UNCHANGED <<shown, read, event>>

\* allow_primary: with an open breaker the call goes to the reserve at once,
\* and without a reserve it fails.
CallModel(a, call) ==
    \/ Go(a, call) /\ UNCHANGED result
    \/ Reserve /\ Go(a, ReserveOf[call]) /\ UNCHANGED result

\* Credits, the embedding of the question, the search; then a call on the
\* excerpts, a general call, or a refusal without any call.
Search(a) ==
    /\ task[a] = "search"
    /\ \/ Fail(a)
       \/ /\ \E call \in First : CallModel(a, call)
          /\ UNCHANGED <<shown, read, event>>
       \/ /\ Go(a, "saving")
          /\ Outcome(a, "complete", {})
          /\ UNCHANGED <<shown, read, event>>
    /\ UNCHANGED <<rows, stop, tab, crashes>>

\* A piece comes: the flag is asked before it is shown (_consume).  The flag
\* may be missed: it is asked four times a second, and Redis may not answer.
\* A gate may hold the beginning of a text back.
StopNoticed(a) ==
    /\ a \in stop
    /\ Go(a, "saving")
    /\ Outcome(a, "stopped", read[a])
    /\ UNCHANGED <<shown, read>>

PieceShown(a) ==
    /\ read' = [read EXCEPT ![a] = @ \cup {task[a]}]
    /\ \E held \in BOOLEAN :
         shown' = [shown EXCEPT ![a] = IF held THEN @ ELSE @ \cup {task[a]}]
    /\ UNCHANGED <<task, result>>

Piece(a) ==
    /\ task[a] \in Calls
    /\ StopNoticed(a) \/ PieceShown(a)
    /\ UNCHANGED <<rows, event, stop, tab, crashes>>

\* Mutant of CallFails: the reserve takes over a text that is on the screen.
CallFailsAnyTime(a) ==
    /\ task[a] \in Calls
    /\ \/ /\ Reserve
          /\ task[a] \in First
          /\ Go(a, ReserveOf[task[a]])
          /\ UNCHANGED <<result, shown, read, event>>
       \/ Fail(a)
    /\ UNCHANGED <<rows, stop, tab, crashes>>

\* FallbackGateway.stream: an error before the first piece goes to the
\* reserve; any other ends the answer, and so does our own full queue
\* (ThrottleBusyError), before the first piece too.
CallFails(a) ==
    /\ task[a] \in Calls
    /\ \/ /\ Reserve
          /\ task[a] \in First
          /\ task[a] \notin read[a]
          /\ Go(a, ReserveOf[task[a]])
          /\ UNCHANGED <<result, shown, read, event>>
       \/ Fail(a)
    /\ UNCHANGED <<rows, stop, tab, crashes>>

\* _fallback: the model found no answer in the excerpts.  What it said is
\* taken back; a general answer follows, or a refusal (NotFoundMode).
CallRefuses(a) ==
    /\ task[a] \in {"documents", "documentsReserve"}
    /\ \/ CallModel(a, "general")
       \/ Go(a, "saving") /\ Outcome(a, "complete", {})
    /\ shown' = [shown EXCEPT ![a] = {}]
    /\ read' = [read EXCEPT ![a] = {}]
    /\ UNCHANGED <<rows, event, stop, tab, crashes>>

\* The provider filtered its text: a fixed refusal instead of it.
CallFiltered(a) ==
    /\ task[a] \in Calls
    /\ Go(a, "saving")
    /\ Outcome(a, "complete", {})
    /\ shown' = [shown EXCEPT ![a] = {}]
    /\ UNCHANGED <<rows, read, event, stop, tab, crashes>>

\* Mutant of CallEnds: answer_turn commits its journal by itself.
CallEndsCommitted(a) ==
    /\ task[a] \in Calls
    /\ Go(a, "saving")
    /\ Outcome(a, "complete", read[a] \cup {task[a]})
    /\ journal' = [journal EXCEPT ![a] = 1]
    /\ UNCHANGED <<dialogue, current, under, question, status, content, age>>
    /\ UNCHANGED <<shown, read, event, stop, tab, crashes>>

\* The stream ends with its Completion: the whole text of the call.
CallEnds(a) ==
    /\ task[a] \in Calls
    /\ Go(a, "saving")
    /\ Outcome(a, "complete", read[a] \cup {task[a]})
    /\ UNCHANGED <<rows, shown, read, event, stop, tab, crashes>>

\* Mutant of Timeout: the limit covers the search only.
TimeoutOfSearch(a) ==
    /\ task[a] = "search"
    /\ age[a] >= TimeoutAge
    /\ Fail(a)
    /\ UNCHANGED <<rows, stop, tab, crashes>>

\* asyncio.timeout(GENERATION_TIMEOUT) around answer_turn.
Timeout(a) ==
    /\ task[a] \in InTurn
    /\ age[a] >= TimeoutAge
    /\ Fail(a)
    /\ UNCHANGED <<rows, stop, tab, crashes>>

-----------------------------------------------------------------------------
(* The task of an answer: storing it                                       *)

\* The task is over, and what only it knew is forgotten.
End(a, e) ==
    /\ Go(a, "ended")
    /\ event' = [event EXCEPT ![a] = e]
    /\ read' = [read EXCEPT ![a] = {}]
    /\ result' = [result EXCEPT ![a] = NoResult]
    /\ shown' = [shown EXCEPT ![a] = {}]
    /\ stop' = stop \ {a}

Journal(a) == journal' = [journal EXCEPT ![a] = @ + 1]

\* MessageRepository.get.  Without the message a failure ends, an answer is
\* still journaled and charged.
Load(a) ==
    /\ task[a] = "saving"
    /\ IF Exists(a)
         THEN /\ Go(a, "loaded")
              /\ UNCHANGED <<shown, read, result, event, stop, journal>>
         ELSE /\ End(a, "error")
              /\ IF result[a].as = "failed" THEN UNCHANGED journal ELSE Journal(a)
    /\ UNCHANGED <<dialogue, current, under, question, status, content, age, tab, crashes>>

\* The transaction of the answer: message, journal and credits.
Store(a) ==
    /\ status' = [status EXCEPT ![a] = result[a].as]
    /\ content' = [content EXCEPT ![a] = result[a].text]
    /\ age' = [age EXCEPT ![a] = 0]
    /\ IF result[a].as = "failed" THEN UNCHANGED journal ELSE Journal(a)
    /\ UNCHANGED <<dialogue, current, under, question>>

\* The commit; then the last event.  An UPDATE of a message deleted since it
\* was read matches no row, and the whole transaction is rolled back.
Save(a) ==
    /\ task[a] = "loaded"
    /\ IF Exists(a)
         THEN /\ Store(a)
              /\ End(a, IF result[a].as = "failed" THEN "error" ELSE "done")
         ELSE End(a, "error") /\ UNCHANGED rows
    /\ UNCHANGED <<tab, crashes>>

\* The database fails: run() tells the stream, the answer stays unfinished.
SaveFails(a) ==
    /\ task[a] \in {"saving", "loaded"}
    /\ End(a, "error")
    /\ UNCHANGED <<rows, tab, crashes>>

-----------------------------------------------------------------------------
(* Restarts and time                                                       *)

\* The process dies with its tasks.
Crash ==
    /\ crashes < MaxCrashes
    /\ crashes' = crashes + 1
    /\ task' = [a \in Answers |-> IF task[a] \in Living THEN "dead" ELSE task[a]]
    /\ read' = [a \in Answers |-> {}]
    /\ shown' = [a \in Answers |-> {}]
    /\ result' = [a \in Answers |-> NoResult]
    /\ stop' = {}
    /\ UNCHANGED <<rows, event, tab>>

\* ChatRunner.shutdown cancels what has not ended in 15 seconds.  A commit on
\* its way may have reached the database.
Shutdown(a) ==
    /\ crashes < MaxCrashes
    /\ task[a] \in Living
    /\ crashes' = crashes + 1
    /\ End(a, "error")
    /\ \/ UNCHANGED rows
       \/ task[a] = "loaded" /\ Exists(a) /\ Store(a)
    /\ UNCHANGED tab

\* Five minutes pass.  A task whose time is over ends within the next five:
\* only a rollback and one short transaction are left to it.
Ageing == {a \in Answers : /\ status[a] = "generating" \/ task[a] \in Living
                           /\ age[a] < StaleAge}

Tick ==
    /\ Ageing # {}
    /\ \A a \in Answers : task[a] \in Living => age[a] < TimeoutAge
    /\ age' = [a \in Answers |-> IF a \in Ageing THEN age[a] + 1 ELSE age[a]]
    /\ UNCHANGED <<dialogue, current, under, question, status, content, journal, tasks,
                   stop, tab, crashes>>

-----------------------------------------------------------------------------
TaskStep(a) ==
    \/ Search(a) \/ Piece(a) \/ CallFails(a) \/ CallRefuses(a) \/ CallFiltered(a)
    \/ CallEnds(a) \/ Timeout(a) \/ Load(a) \/ Save(a) \/ SaveFails(a)

Next ==
    \/ \E a \in Answers, p \in Answers \cup {NoAnswer} : Begin(a, p)
    \/ \E a, b \in Answers : Regenerate(a, b)
    \/ \E t \in Tabs : Open(t) \/ Select(t) \/ Commit(t)
    \/ Delete
    \/ \E a \in Answers : Stop(a) \/ TaskStep(a) \/ Shutdown(a)
    \/ Crash
    \/ Tick

\* A task waits for nobody but the provider, and for it no longer than the
\* timeout: its own end is fair, an answer of the provider is not.
Fairness ==
    /\ WF_vars(Tick)
    /\ \A a \in Answers : WF_vars(Timeout(a)) /\ WF_vars(Load(a) \/ Save(a))

Spec == Init /\ [][Next]_vars /\ Fairness

-----------------------------------------------------------------------------
(* Properties                                                              *)

\* The types of the variables.
TypeOK ==
    /\ dialogue \in {"none", "open", "deleted"}
    /\ current \in Answers \cup {NoAnswer}
    /\ under \in [Answers -> Answers \cup {NoAnswer}]
    /\ question \in [Answers -> Answers \cup {NoAnswer}]
    /\ status \in [Answers -> {"none", "generating", "gone"} \cup Final]
    /\ content \in [Answers -> SUBSET Calls]
    /\ age \in [Answers -> 0..StaleAge]
    /\ journal \in [Answers -> Nat]
    /\ stop \in SUBSET Answers
    /\ task \in [Answers -> {"none", "ended", "dead"} \cup Living]
    /\ shown \in [Answers -> SUBSET Calls]
    /\ read \in [Answers -> SUBSET Calls]
    /\ result \in [Answers -> [as : {"none"} \cup Final, text : SUBSET Calls]]
    /\ event \in [Answers -> {"none", "done", "error"}]
    /\ tab \in [Tabs -> [at : {"idle", "read"}, marks : SUBSET Answers,
                        target : Answers \cup {NoAnswer}]]
    /\ crashes \in 0..MaxCrashes

\* One task at most writes into a dialogue: an answer is declared interrupted,
\* and another question let in, only when its task cannot be alive any more
\* (STALE_GENERATION against GENERATION_TIMEOUT, chat_service.py:68).
OneWriter == Cardinality({a \in Answers : task[a] \in Living}) <= 1

\* The company pays for an answer exactly when its owner can see it: the
\* journal row and its credits are committed with the message, whatever
\* failed, died or timed out in between (answer_turn with commit=False).
PaidIffAnswered ==
    \A a \in Answers :
        /\ status[a] \in Saved => journal[a] = 1
        /\ status[a] \in {"generating", "failed", "interrupted"} => journal[a] = 0
        /\ journal[a] <= 1
        /\ event[a] = "done" => status[a] \in Saved \cup {"gone"}

\* An answer that has ended keeps what has been on the screen, and is the text
\* of one model only: what a model said is replaced by another's words only
\* after the screen was cleared (FallbackGateway.stream, FaqService._fallback).
KeepsWhatWasShown ==
    [][\A a \in Answers :
         status'[a] # status[a] /\ status'[a] \in {"complete", "stopped", "failed"} =>
             /\ Cardinality(content'[a]) <= 1
             /\ shown[a] \subseteq content'[a]]_vars

\* An answer that has ended is never rewritten: neither by a late task nor by
\* a request that read the dialogue earlier.
FinalIsFinal ==
    [][\A a \in Answers :
         status[a] \in Final =>
             \/ status'[a] = status[a] /\ content'[a] = content[a]
             \/ status'[a] = "gone"]_vars

\* A stream that has begun ends with "done" or "error", even when no provider
\* ever answers, unless the process dies (ChatGenerator.run).
StreamEnds ==
    \A a \in Answers :
        task[a] \in Living ~> (event[a] # "none" \/ task[a] = "dead")
=============================================================================
