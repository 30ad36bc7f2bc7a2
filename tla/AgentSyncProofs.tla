-------------------------- MODULE AgentSyncProofs --------------------------
(***************************************************************************)
(* What AgentSync guarantees for any number of files, handlers, runs and   *)
(* changes.                                                                *)
(*                                                                         *)
(* The invariant follows a file from the walk to the report.  Nothing is   *)
(* newer than the last run (Past); what the agent knows and sends of a     *)
(* file nobody touches is the file's version (Known, Sent); what its walk  *)
(* has met is on its way or recorded (Walked), so a complete report finds  *)
(* all of it recorded (Reported), and what is gone untouched (Absent).     *)
(* Met is kept by every step, also by the finish of another run: what one  *)
(* run answers for the later ones do too, or it is spoilt (MetKept).  A    *)
(* report so stays true while new runs begin, until its removal commits.   *)
(***************************************************************************)
EXTENDS AgentSync, TLAPS

USE DEF fileVars, materialVars, walkVars, uploadVars, finishVars, handlerVars, historyVars

\* Runs are used in order.
RunsInOrder == \E n \in 0..MaxRuns : \A r \in Runs : run[r] # "unused" <=> r <= n

\* What the agent is doing.
Agent ==
    /\ step \in {"walking", "uploading", "finishing"} => mine = Now /\ mine # 0
    /\ step \in {"idle", "asked"} =>
          mine = 0 /\ visited = {} /\ pending = {} /\ unknown = {}
    /\ step = "uploading" => upload \in visited
    /\ step # "uploading" => upload = NoDoc /\ read = 0 /\ awaits = NoHandler
    /\ pending \subseteq visited /\ unknown \subseteq visited

\* Runs are used in order, so Now is the last one started.
LEMMA NowIsLast ==
    /\ RunsInOrder => Now \in 0..MaxRuns /\ \A r \in Runs : run[r] # "unused" <=> r <= Now
    /\ RunsInOrder' => Now' \in 0..MaxRuns /\ \A r \in Runs : run'[r] # "unused" <=> r <= Now'
<1>1. ASSUME NEW f, NEW n \in 0..MaxRuns, \A r \in Runs : f[r] # "unused" <=> r <= n
      PROVE  n = IF f[1] = "unused" THEN 0
                 ELSE CHOOSE r \in Runs : f[r] # "unused" /\ \A q \in Runs : q > r => f[q] = "unused"
  <2> DEFINE Last(r) == f[r] # "unused" /\ \A q \in Runs : q > r => f[q] = "unused"
  <2>1. CASE n = 0
    BY <1>1, <2>1, BoundsAssumption DEF Runs
  <2>2. CASE n > 0
    <3>1. n \in Runs /\ Last(n) /\ f[1] # "unused"
      BY <1>1, <2>2, BoundsAssumption DEF Runs
    <3>2. \A r \in Runs : Last(r) => r = n
      BY <1>1, <3>1, BoundsAssumption DEF Runs
    <3> HIDE DEF Last
    <3>3. n = CHOOSE r \in Runs : Last(r)
      BY <3>1, <3>2
    <3> QED BY <3>1, <3>3 DEF Last
  <2> QED BY <2>1, <2>2
<1> QED BY <1>1 DEF RunsInOrder, Now

\* ... and stays it while no run begins.
LEMMA NowStays ==
    ASSUME RunsInOrder, RunsInOrder', \A r \in Runs : run'[r] = "unused" <=> run[r] = "unused"
    PROVE  Now' = Now
<1>1. Now \in 0..MaxRuns /\ Now' \in 0..MaxRuns /\ \A r \in Runs : r <= Now <=> r <= Now'
  BY NowIsLast
<1>2. ~ Now < Now' /\ ~ Now' < Now
  BY <1>1, BoundsAssumption DEF Runs
<1> QED BY <1>1, <1>2, BoundsAssumption

\* The type invariant in four parts.
StoreType ==
    /\ file \in [Docs -> Versions] /\ text \in [Docs -> Versions] /\ changes \in 0..MaxChanges
    /\ content \in [Docs -> Versions] /\ named \in [Docs -> Versions]
    /\ synced \in [Docs -> 0..MaxRuns]
    /\ run \in [Runs -> {"unused", "running", "failed", "finished"}]
    /\ finish \in [Runs -> {"none", "complete", "incomplete"}] /\ checked \subseteq Runs

WalkType ==
    /\ step \in {"idle", "asked", "walking", "uploading", "finishing"}
    /\ mine \in 0..MaxRuns
    /\ state \in [Docs -> Versions]
    /\ visited \subseteq Docs /\ owed \subseteq Docs /\ pending \subseteq Docs
    /\ unknown \subseteq Docs
    /\ upload \in Docs \cup {NoDoc} /\ stat \in Versions /\ read \in Versions
    /\ awaits \in Handlers \cup {NoHandler}
    /\ whole \in BOOLEAN

HandlerType ==
    /\ doc \in [Handlers -> Docs \cup {NoDoc}]
    /\ of \in [Handlers -> 0..MaxRuns]
    /\ was \in [Handlers -> Versions] /\ found \in [Handlers -> Versions]
    /\ gave \in [Handlers -> Versions] /\ has \in [Handlers -> Versions]

HistoryType ==
    /\ steady \in [Runs -> SUBSET Docs] /\ skipped \in [Runs -> SUBSET Docs]
    /\ overtaken \in [Runs -> SUBSET Docs] /\ outdated \in [Runs -> SUBSET Docs]
    /\ mixed \subseteq Docs

\* The type invariant is the four together.
LEMMA TypeParts ==
    /\ TypeOK <=> StoreType /\ WalkType /\ HandlerType /\ HistoryType
    /\ TypeOK' <=> StoreType' /\ WalkType' /\ HandlerType' /\ HistoryType'
  BY DEF TypeOK, StoreType, WalkType, HandlerType, HistoryType

\* Versions are never used again.
VersionsPast ==
    /\ \A d \in Docs : /\ file[d] <= changes + 1 /\ named[d] <= changes + 1
                       /\ state[d] <= changes + 1
    /\ stat <= changes + 1
    /\ \A h \in Handlers : gave[h] <= changes + 1

\* A version that is the file's is told with the file's text, and a handler
\* that holds the text of a row knows the row is there.
Texts ==
    /\ \A d \in Docs : /\ Stored(d) => named[d] > 0
                       /\ file[d] > 0 <=> text[d] > 0
    /\ VersionTellsText
    /\ \A d \in pending \cup unknown : state[d] > 0
    /\ upload # NoDoc =>
          stat > 0 /\ (read > 0 /\ stat = file[upload] => read = text[upload])
    /\ \A h \in Handlers : Busy(h) =>
          /\ gave[h] > 0 /\ has[h] > 0
          /\ gave[h] = file[doc[h]] => has[h] = text[doc[h]]
          /\ found[h] > 0 => Stored(doc[h])

\* Nothing is newer than the last run, and no other is open.
Past ==
    /\ \A d \in Docs : synced[d] <= Now
    /\ \A h \in Handlers : of[h] <= Now
    /\ \A r \in Runs : /\ finish[r] # "none" => r <= Now
                       /\ run[r] = "running" => r = Now
                       /\ r \in checked => r <= Now /\ run[r] # "finished"
                       /\ r > Now => outdated[r] = {}

\* What nobody has touched since a run began nobody has touched since a later one.
Nested == \A q, r \in Runs : q <= r /\ r <= Now => steady[q] \subseteq steady[r]

\* The request the agent waits for.
Awaited == awaits # NoHandler => Busy(awaits) /\ doc[awaits] = upload /\ of[awaits] = Now

\* What the agent knows of files nobody has touched or overtaken is so.
Known == mine # 0 =>
    \A d \in steady[mine] \ (overtaken[mine] \cup outdated[mine]) :
       state[d] = file[d] /\ Stored(d) => named[d] = file[d]

\* What is confirmed, uploaded and stored of them is the file's version.
Sent ==
    /\ mine # 0 =>
          /\ \A d \in steady[mine] : d \in (pending \ skipped[mine]) \cup unknown => state[d] = file[d]
          /\ upload \in steady[mine] => stat = file[upload]
    /\ \A h \in Handlers : Busy(h) =>
          /\ of[h] # 0
          /\ doc[h] \in steady[of[h]] =>
                /\ gave[h] = file[doc[h]]
                /\ doc[h] \notin overtaken[of[h]] /\ was[h] = gave[h] /\ found[h] > 0
                      => named[doc[h]] = gave[h]

\* A deleted file is neither met nor stored.
Absent ==
    /\ mine # 0 => \A d \in steady[mine] : file[d] = 0 => d \notin visited
    /\ \A r \in Runs : r <= Now => \A d \in steady[r] : file[d] = 0 => synced[d] < r

\* Files that a walk answers for,
Due(r) == {d \in steady[r] \ (skipped[r] \cup overtaken[r]) : file[d] > 0}

\* ... and has met: kronto has not forgotten that, and has them as they are.
Met(r, d) ==
    /\ Stored(d) => synced[d] >= r
    /\ d \notin Spoilt(r) => Stored(d) /\ named[d] = file[d]

\* Of a walk that is whole so far.
Walked == mine # 0 /\ whole =>
    \A d \in Due(mine) :
       /\ d \in owed
       /\ d \in visited => d \in pending \cup unknown \cup {upload} \/ Met(mine, d)

\* Of a walk that is reported as complete.
Reported ==
    \A r \in Runs : finish[r] = "complete" => \A d \in Due(r) : Met(r, d)

AgentInv ==
    /\ TypeOK /\ RunsInOrder /\ Agent
    /\ VersionsPast /\ Texts
    /\ Past /\ Nested /\ Awaited
    /\ Known /\ Sent /\ Absent /\ Walked /\ Reported

\* What is known of what the agent forgets.
LEMMA Forgotten ==
    ASSUME Forget
    PROVE  /\ mine' = 0 /\ visited' = {} /\ owed' = {} /\ pending' = {} /\ unknown' = {}
           /\ upload' = NoDoc /\ stat' = 0 /\ read' = 0 /\ awaits' = NoHandler
           /\ \A d \in Docs : state'[d] = 0
  BY DEF Forget, None

\* A handler that is let go, and an agent that forgets, keep their types.
LEMMA ReleaseType ==
    ASSUME HandlerType, NEW h \in Handlers, Release(h) PROVE HandlerType'
  BY BoundsAssumption DEF HandlerType, Release, Versions

LEMMA ForgetType ==
    ASSUME Forget, step' = "idle" PROVE WalkType'
  BY BoundsAssumption DEF WalkType, Forget, None, Versions

----------------------------------------------------------------------------
(* The steps that write documents or end runs.                             *)

\* What a commit writes.
LEMMA CommitWrites ==
    ASSUME TypeOK, Texts, NEW h \in Handlers, Commit(h)
    PROVE  /\ doc[h] \in Docs /\ Busy(h) /\ doc'[h] = NoDoc /\ gave[h] > 0 /\ has[h] > 0
           /\ \A d \in Docs : d # doc[h] =>
                 content'[d] = content[d] /\ named'[d] = named[d] /\ synced'[d] = synced[d]
           /\ synced'[doc[h]] = of[h] /\ content'[doc[h]] > 0
           /\ named'[doc[h]] = gave[h] \/ (was[h] = gave[h] /\ found[h] > 0 /\ Stored(doc[h])
                                           /\ named'[doc[h]] = named[doc[h]])
           /\ \A r \in Runs : overtaken'[r] = IF of[h] < r /\ r <= Now THEN overtaken[r] \cup {doc[h]}
                                              ELSE overtaken[r]
           /\ \A g \in Handlers : g # h =>
                 /\ doc'[g] = doc[g] /\ of'[g] = of[g] /\ was'[g] = was[g]
                 /\ found'[g] = found[g] /\ gave'[g] = gave[g] /\ has'[g] = has[g]
           /\ UNCHANGED <<fileVars, run, walkVars, finishVars, steady, skipped, outdated>>
<1>1. doc[h] \in Docs /\ Busy(h) /\ has[h] > 0 /\ gave[h] > 0
  BY DEF Commit, Busy, TypeOK, Texts
<1>2. doc'[h] = NoDoc /\ \A g \in Handlers : g # h =>
         /\ doc'[g] = doc[g] /\ of'[g] = of[g] /\ was'[g] = was[g]
         /\ found'[g] = found[g] /\ gave'[g] = gave[g] /\ has'[g] = has[g]
  BY DEF Commit, Release, TypeOK
<1>3. synced'[doc[h]] = of[h] /\ \A d \in Docs : d # doc[h] => synced'[d] = synced[d]
  BY <1>1 DEF Commit, TypeOK
<1>4. UNCHANGED <<fileVars, run, walkVars, finishVars, steady, skipped, outdated>>
      /\ \A r \in Runs : overtaken'[r] = IF of[h] < r /\ r <= Now THEN overtaken[r] \cup {doc[h]}
                                         ELSE overtaken[r]
  BY DEF Commit
<1>5. found[h] > 0 => Stored(doc[h])
  BY <1>1 DEF Texts
<1>6. CASE was[h] = gave[h]
  <2>1. found[h] > 0
    BY <1>1, <1>6, BoundsAssumption DEF Commit, RowIsThere, TypeOK, Versions
  <2> QED BY <1>1, <1>2, <1>3, <1>4, <1>5, <1>6, <2>1 DEF Commit, Store, Stored
<1>7. CASE was[h] # gave[h] /\ found[h] = has[h]
  BY <1>1, <1>2, <1>3, <1>4, <1>5, <1>7 DEF Commit, Store, Stored, TypeOK
<1>8. CASE was[h] # gave[h] /\ found[h] # has[h]
  BY <1>1, <1>2, <1>3, <1>4, <1>8 DEF Commit, Store, TypeOK
<1> QED BY <1>6, <1>7, <1>8

\* What a finish removes, and ends.
LEMMA FinishRemoves ==
    ASSUME TypeOK, RunsInOrder, Past, NEW r \in Runs, Finish(r)
    PROVE  /\ r \in checked /\ r <= Now
           /\ \A q \in Runs : run'[q] = IF q = r THEN "finished" ELSE run[q]
           /\ \A q \in Runs : finish'[q] = IF q = r THEN "none" ELSE finish[q]
           /\ checked' = checked \ {r}
           /\ \A d \in Docs :
                 \/ content'[d] = content[d] /\ named'[d] = named[d] /\ synced'[d] = synced[d]
                 \/ /\ finish[r] = "complete" /\ Stored(d) /\ synced[d] < r
                    /\ content'[d] = 0 /\ named'[d] = 0 /\ synced'[d] = 0
           /\ \A h \in Handlers : \/ found'[h] = 0
                                  \/ found'[h] = found[h] /\ (Busy(h) =>
                                        content'[doc[h]] = content[doc[h]] /\ named'[doc[h]] = named[doc[h]])
           /\ mixed' \subseteq mixed /\ \A d \in mixed \ mixed' : content'[d] = 0
           /\ \/ /\ mine' = 0 /\ visited' = {} /\ owed' = {} /\ pending' = {} /\ unknown' = {}
                 /\ upload' = NoDoc /\ stat' = 0 /\ read' = 0 /\ awaits' = NoHandler /\ step' = "idle"
                 /\ \A d \in Docs : state'[d] = 0
              \/ UNCHANGED <<step, walkVars, uploadVars>>
           /\ UNCHANGED <<fileVars, doc, of, was, gave, has, steady, skipped, overtaken, outdated>>
<1> DEFINE gone == IF finish[r] = "complete" THEN Untouched(r) ELSE {}
<1>1. EndFinish(r) /\ Remove(gone)
  BY DEF Finish
<1>2. \A d \in gone : d \in Docs /\ finish[r] = "complete" /\ Stored(d) /\ synced[d] < r
  BY DEF Untouched
<1> HIDE DEF gone
<1>3. r \in checked /\ r <= Now
  BY <1>1 DEF EndFinish, Past
<1>4. /\ \A q \in Runs : run'[q] = IF q = r THEN "finished" ELSE run[q]
      /\ \A q \in Runs : finish'[q] = IF q = r THEN "none" ELSE finish[q]
      /\ checked' = checked \ {r}
      /\ UNCHANGED <<fileVars, doc, of, was, gave, has, steady, skipped, overtaken, outdated>>
  BY <1>1 DEF EndFinish, TypeOK
<1>5. \A d \in Docs :
         \/ content'[d] = content[d] /\ named'[d] = named[d] /\ synced'[d] = synced[d]
         \/ /\ finish[r] = "complete" /\ Stored(d) /\ synced[d] < r
            /\ content'[d] = 0 /\ named'[d] = 0 /\ synced'[d] = 0
  BY <1>1, <1>2 DEF Remove
<1>6. \A h \in Handlers : \/ found'[h] = 0
                          \/ found'[h] = found[h] /\ (Busy(h) =>
                                content'[doc[h]] = content[doc[h]] /\ named'[doc[h]] = named[doc[h]])
  <2>1. \A h \in Handlers : found'[h] = IF doc[h] \in gone THEN 0 ELSE found[h]
    BY <1>1 DEF Remove
  <2>2. \A d \in Docs : d \notin gone => content'[d] = content[d] /\ named'[d] = named[d]
    BY <1>1 DEF Remove
  <2>3. \A h \in Handlers : Busy(h) => doc[h] \in Docs
    BY DEF Busy, TypeOK
  <2>4. ASSUME NEW h \in Handlers, doc[h] \notin gone
        PROVE  /\ found'[h] = found[h]
               /\ Busy(h) => content'[doc[h]] = content[doc[h]] /\ named'[doc[h]] = named[doc[h]]
    BY <2>1, <2>2, <2>3, <2>4
  <2> QED BY <2>1, <2>4
<1>7. mixed' \subseteq mixed /\ \A d \in mixed \ mixed' : content'[d] = 0
  BY <1>1, <1>2 DEF Remove
<1>8. \/ /\ mine' = 0 /\ visited' = {} /\ owed' = {} /\ pending' = {} /\ unknown' = {}
         /\ upload' = NoDoc /\ stat' = 0 /\ read' = 0 /\ awaits' = NoHandler /\ step' = "idle"
         /\ \A d \in Docs : state'[d] = 0
      \/ UNCHANGED <<step, walkVars, uploadVars>>
  BY <1>1, Forgotten DEF EndFinish, Finished
<1> QED BY <1>3, <1>4, <1>5, <1>6, <1>7, <1>8

----------------------------------------------------------------------------
(* Types and runs.                                                         *)

\* Runs stay in order after every step.
LEMMA OrderNext ==
    ASSUME TypeOK, RunsInOrder, Past, [Next]_vars
    PROVE  RunsInOrder'
<1> USE BoundsAssumption DEF Runs
<1>0. Now \in 0..MaxRuns /\ \A r \in Runs : run[r] # "unused" <=> r <= Now
  BY NowIsLast
<1>1. ASSUME NEW d \in Docs, Change(d) PROVE RunsInOrder'
  BY <1>1, <1>0 DEF Change, RunsInOrder
<1>2. ASSUME Ask PROVE RunsInOrder'
  BY <1>2, <1>0 DEF Ask, RunsInOrder
<1>3. ASSUME StartRun PROVE RunsInOrder'
  <2>1. Now + 1 \in 0..MaxRuns
    BY <1>3, <1>0 DEF StartRun
  <2>2. \A r \in Runs : run'[r] # "unused" <=> r <= Now + 1
    BY <1>3, <1>0 DEF StartRun, TypeOK
  <2> QED BY <2>1, <2>2 DEF RunsInOrder
<1>4. ASSUME NEW d \in Docs, Confirm(d) PROVE RunsInOrder'
  BY <1>4, <1>0 DEF Confirm, Visit, RunsInOrder
<1>5. ASSUME NEW d \in Docs, Upload(d) PROVE RunsInOrder'
  BY <1>5, <1>0 DEF Upload, Visit, BeginUpload, RunsInOrder
<1>6. ASSUME NEW d \in Docs, UploadUnknown(d) PROVE RunsInOrder'
  BY <1>6, <1>0 DEF UploadUnknown, BeginUpload, RunsInOrder
<1>7. ASSUME NEW d \in Docs, PassOver(d) PROVE RunsInOrder'
  BY <1>7, <1>0 DEF PassOver, Visit, RunsInOrder
<1>8. ASSUME NEW d \in Docs, NoReaders(d) PROVE RunsInOrder'
  BY <1>8, <1>0 DEF NoReaders, Visit, RunsInOrder
<1>9. ASSUME FolderFails PROVE RunsInOrder'
  BY <1>9, <1>0 DEF FolderFails, RunsInOrder
<1>10. ASSUME Flush PROVE RunsInOrder'
  BY <1>10, <1>0 DEF Flush, RunsInOrder
<1>11. ASSUME ReadFile PROVE RunsInOrder'
  BY <1>11, <1>0 DEF ReadFile, RunsInOrder
<1>12. ASSUME ReadFails PROVE RunsInOrder'
  BY <1>12, <1>0 DEF ReadFails, EndUpload, RunsInOrder
<1>13. ASSUME NEW h \in Handlers, Send(h) PROVE RunsInOrder'
  BY <1>13, <1>0 DEF Send, RunsInOrder
<1>14. ASSUME Timeout PROVE RunsInOrder'
  BY <1>14, <1>0 DEF Timeout, RunsInOrder
<1>15. ASSUME NEW h \in Handlers, Commit(h) PROVE RunsInOrder'
  BY <1>15, <1>0 DEF Commit, Store, Answer, EndUpload, Release, RunsInOrder
<1>16. ASSUME NEW h \in Handlers, Conflict(h) PROVE RunsInOrder'
  BY <1>16, <1>0 DEF Conflict, Release, RunsInOrder
<1>17. ASSUME NEW h \in Handlers, Reject(h) PROVE RunsInOrder'
  BY <1>17, <1>0 DEF Reject, Answer, EndUpload, Release, RunsInOrder
<1>18. ASSUME EndWalk PROVE RunsInOrder'
  BY <1>18, <1>0 DEF EndWalk, RunsInOrder
<1>19. ASSUME GiveUp PROVE RunsInOrder'
  BY <1>19, <1>0 DEF GiveUp, Forget, RunsInOrder
<1>20. ASSUME Die PROVE RunsInOrder'
  BY <1>20, <1>0 DEF Die, Forget, RunsInOrder
<1>21. ASSUME NEW r \in Runs, BeginFinish(r) PROVE RunsInOrder'
  BY <1>21, <1>0 DEF BeginFinish, RunsInOrder
<1>22. ASSUME NEW r \in Runs, Finish(r) PROVE RunsInOrder'
  <2>1. \A q \in Runs : run'[q] # "unused" <=> run[q] # "unused"
    BY <1>22, <1>0, FinishRemoves
  <2> QED BY <2>1 DEF RunsInOrder
<1>23. ASSUME NEW r \in Runs, FinishFails(r) PROVE RunsInOrder'
  BY <1>23, <1>0 DEF FinishFails, Finished, Forget, RunsInOrder
<1>24. ASSUME UNCHANGED vars PROVE RunsInOrder'
  BY <1>24, <1>0 DEF vars, RunsInOrder
<1> QED
  BY <1>1, <1>2, <1>3, <1>4, <1>5, <1>6, <1>7, <1>8, <1>9, <1>10, <1>11, <1>12, <1>13, <1>14, <1>15, <1>16, <1>17, <1>18, <1>19, <1>20, <1>21, <1>22, <1>23, <1>24
  DEF Next, Walk, Server

\* StartRun takes the next number.
LEMMA NowStarts ==
    ASSUME TypeOK, RunsInOrder, RunsInOrder', StartRun
    PROVE  Now' = Now + 1 /\ Now \in 0..(MaxRuns - 1)
<1>1. Now \in 0..MaxRuns /\ \A r \in Runs : run[r] # "unused" <=> r <= Now
  BY NowIsLast
<1>2. Now' \in 0..MaxRuns /\ \A r \in Runs : run'[r] # "unused" <=> r <= Now'
  BY NowIsLast
<1>3. Now < MaxRuns
  BY DEF StartRun
<1>4. \A r \in Runs : run'[r] # "unused" <=> r <= Now + 1
  BY <1>1, BoundsAssumption DEF StartRun, TypeOK, Runs
<1>5. Now + 1 \in Runs
  BY <1>1, <1>3, BoundsAssumption DEF Runs
<1>6. Now + 1 <= Now'
  <2>1. run'[Now + 1] # "unused"
    BY <1>1, <1>5 DEF StartRun
  <2> QED BY <1>2, <1>5, <2>1
<1>7. ~ (Now + 1 < Now')
  BY <1>1, <1>2, <1>4, <1>5, BoundsAssumption DEF Runs
<1> QED BY <1>1, <1>2, <1>3, <1>6, <1>7, BoundsAssumption

\* Every step keeps the types.
LEMMA TypesNext ==
    ASSUME TypeOK, RunsInOrder, Agent, Past, Texts, [Next]_vars
    PROVE  TypeOK'
<1> USE NamesAssumption, BoundsAssumption DEF Versions, Runs, None
<1>0. Now \in 0..MaxRuns /\ StoreType /\ WalkType /\ HandlerType /\ HistoryType
  BY NowIsLast, TypeParts
<1>1. ASSUME NEW d \in Docs, Change(d) PROVE TypeOK'
  <2>1. file' \in [Docs -> Versions] /\ text' \in [Docs -> Versions] /\ changes + 1 \in 0..MaxChanges
    <3>1. PICK v \in {0, changes + 2}, t \in 0..(changes + 2) :
             file' = [file EXCEPT ![d] = v] /\ text' = [text EXCEPT ![d] = t]
      <4>1. CASE file' = [file EXCEPT ![d] = 0] /\ text' = [text EXCEPT ![d] = 0]
        <5>1. 0 \in 0..(changes + 2)
          BY <1>0 DEF StoreType
        <5> QED BY <4>1, <5>1
      <4>2. CASE /\ file' = [file EXCEPT ![d] = changes + 2]
                 /\ \E t \in 1..(changes + 2) : text' = [text EXCEPT ![d] = t]
        <5>1. 1..(changes + 2) \subseteq 0..(changes + 2)
          BY <1>0 DEF StoreType
        <5> QED BY <4>2, <5>1
      <4> QED BY <1>1, <4>1, <4>2 DEF Change
    <3>2. changes + 1 \in 0..MaxChanges /\ v \in Versions /\ t \in Versions
      BY <1>1, <1>0 DEF Change, StoreType
    <3> QED BY <1>0, <3>1, <3>2 DEF StoreType
  <2>2. StoreType'
    BY <1>1, <1>0, <2>1 DEF Change, StoreType
  <2>3. WalkType' /\ HandlerType' /\ HistoryType'
    BY <1>1, <1>0 DEF Change, WalkType, HandlerType, HistoryType
  <2> QED BY <2>2, <2>3, TypeParts
<1>2. ASSUME Ask PROVE TypeOK'
  BY <1>2, <1>0 DEF Ask, TypeOK, Agent, Busy
<1>3. ASSUME StartRun PROVE TypeOK'
  <2>1. Now + 1 \in Runs
    BY <1>3, <1>0 DEF StartRun
  <2>2. StoreType' /\ HandlerType'
    BY <1>3, <1>0, <2>1 DEF StartRun, StoreType, HandlerType
  <2>4. WalkType'
    BY <1>3, <1>0, <2>1 DEF StartRun, WalkType
  <2>3. HistoryType'
    BY <1>3, <1>0, <2>1 DEF StartRun, HistoryType
  <2> QED BY <2>2, <2>3, <2>4, TypeParts
<1>4. ASSUME NEW d \in Docs, Confirm(d) PROVE TypeOK'
  BY <1>4, <1>0 DEF Confirm, Visit, TypeOK, Agent, Busy
<1>5. ASSUME NEW d \in Docs, Upload(d) PROVE TypeOK'
  BY <1>5, <1>0 DEF Upload, Visit, BeginUpload, TypeOK, Agent, Busy
<1>6. ASSUME NEW d \in Docs, UploadUnknown(d) PROVE TypeOK'
  BY <1>6, <1>0 DEF UploadUnknown, BeginUpload, TypeOK, Agent, Busy
<1>7. ASSUME NEW d \in Docs, PassOver(d) PROVE TypeOK'
  BY <1>7, <1>0 DEF PassOver, Visit, TypeOK, Agent, Busy
<1>8. ASSUME NEW d \in Docs, NoReaders(d) PROVE TypeOK'
  BY <1>8, <1>0 DEF NoReaders, Visit, TypeOK, Agent, Busy
<1>9. ASSUME FolderFails PROVE TypeOK'
  BY <1>9, <1>0 DEF FolderFails, TypeOK, Agent, Busy
<1>10. ASSUME Flush PROVE TypeOK'
  BY <1>10, <1>0 DEF Flush, TypeOK, Agent, Busy
<1>11. ASSUME ReadFile PROVE TypeOK'
  BY <1>11, <1>0 DEF ReadFile, TypeOK, Agent, Busy
<1>12. ASSUME ReadFails PROVE TypeOK'
  <2>1. StoreType' /\ HandlerType'
    BY <1>12, <1>0 DEF ReadFails, StoreType, HandlerType
  <2>2. WalkType'
    BY <1>12, <1>0 DEF ReadFails, EndUpload, WalkType
  <2>3. HistoryType'
    BY <1>12, <1>0 DEF ReadFails, Agent, WalkType, HistoryType
  <2> QED BY <2>1, <2>2, <2>3, TypeParts
<1>13. ASSUME NEW h \in Handlers, Send(h) PROVE TypeOK'
  BY <1>13, <1>0 DEF Send, TypeOK, Agent, Busy
<1>14. ASSUME Timeout PROVE TypeOK'
  BY <1>14, <1>0 DEF Timeout, TypeOK, Agent, Busy
<1>15. ASSUME NEW h \in Handlers, Commit(h) PROVE TypeOK'
  <2>1. /\ doc[h] \in Docs /\ of[h] \in 0..MaxRuns /\ has[h] \in Versions
        /\ gave[h] \in Versions
    BY <1>15, <1>0 DEF Commit, Busy, HandlerType
  <2>2. StoreType'
    BY <1>15, <1>0, <2>1 DEF Commit, Store, StoreType
  <2>3. WalkType'
    BY <1>15, <1>0 DEF Commit, Answer, EndUpload, WalkType
  <2>4. HandlerType'
    BY <1>15, <1>0, ReleaseType DEF Commit
  <2>5. overtaken' \in [Runs -> SUBSET Docs] /\ mixed' \subseteq Docs
    BY <1>15, <1>0, <2>1 DEF Commit, Store, HistoryType
  <2>6. HistoryType'
    BY <1>15, <1>0, <2>5 DEF Commit, HistoryType
  <2> QED BY <2>2, <2>3, <2>4, <2>6, TypeParts
<1>16. ASSUME NEW h \in Handlers, Conflict(h) PROVE TypeOK'
  <2>1. StoreType' /\ WalkType' /\ HistoryType'
    BY <1>16, <1>0 DEF Conflict, StoreType, WalkType, HistoryType
  <2> QED BY <1>16, <1>0, <2>1, ReleaseType, TypeParts DEF Conflict
<1>17. ASSUME NEW h \in Handlers, Reject(h) PROVE TypeOK'
  <2>1. StoreType' /\ HistoryType'
    BY <1>17, <1>0 DEF Reject, Busy, StoreType, HandlerType, HistoryType
  <2>2. WalkType'
    BY <1>17, <1>0 DEF Reject, Answer, EndUpload, WalkType
  <2> QED BY <1>17, <1>0, <2>1, <2>2, ReleaseType, TypeParts DEF Reject
<1>18. ASSUME EndWalk PROVE TypeOK'
  BY <1>18, <1>0 DEF EndWalk, TypeOK, Agent, Busy
<1>19. ASSUME GiveUp PROVE TypeOK'
  <2>1. WalkType'
    BY <1>19, <1>0, ForgetType DEF GiveUp
  <2> QED BY <1>19, <1>0, <2>1, TypeParts DEF GiveUp, StoreType, HandlerType, HistoryType
<1>20. ASSUME Die PROVE TypeOK'
  <2>1. WalkType'
    BY <1>20, <1>0, ForgetType DEF Die
  <2> QED BY <1>20, <1>0, <2>1, TypeParts DEF Die, StoreType, HandlerType, HistoryType
<1>21. ASSUME NEW r \in Runs, BeginFinish(r) PROVE TypeOK'
  BY <1>21, <1>0 DEF BeginFinish, TypeOK, Agent, Busy
<1>22. ASSUME NEW r \in Runs, Finish(r) PROVE TypeOK'
  <2> DEFINE gone == IF finish[r] = "complete" THEN Untouched(r) ELSE {}
  <2>1. EndFinish(r) /\ Remove(gone)
    BY <1>22 DEF Finish
  <2> HIDE DEF gone
  <2>2. StoreType' /\ HandlerType' /\ HistoryType'
    BY <1>0, <2>1 DEF EndFinish, Remove, StoreType, HandlerType, HistoryType
  <2>3. WalkType'
    BY <1>0, <2>1, ForgetType DEF EndFinish, Finished, WalkType
  <2> QED BY <2>2, <2>3, TypeParts
<1>23. ASSUME NEW r \in Runs, FinishFails(r) PROVE TypeOK'
  <2>1. StoreType' /\ HandlerType' /\ HistoryType'
    BY <1>23, <1>0 DEF FinishFails, StoreType, HandlerType, HistoryType
  <2>2. WalkType'
    BY <1>23, <1>0, ForgetType DEF FinishFails, Finished, WalkType
  <2> QED BY <2>1, <2>2, TypeParts
<1>24. ASSUME UNCHANGED vars PROVE TypeOK'
  BY <1>24, <1>0 DEF vars, TypeOK, Agent, Busy
<1> QED
  BY <1>1, <1>2, <1>3, <1>4, <1>5, <1>6, <1>7, <1>8, <1>9, <1>10, <1>11, <1>12, <1>13, <1>14, <1>15, <1>16, <1>17, <1>18, <1>19, <1>20, <1>21, <1>22, <1>23, <1>24
  DEF Next, Walk, Server

\* The agent is where its step says.
LEMMA AgentNext ==
    ASSUME TypeOK, TypeOK', RunsInOrder, RunsInOrder', Agent, Past, [Next]_vars
    PROVE  Agent'
<1> USE BoundsAssumption, NamesAssumption DEF Runs, Busy
<1>0. Now \in 0..MaxRuns /\ Now' \in 0..MaxRuns
  BY NowIsLast
<1>00. (\A r \in Runs : run'[r] = "unused" <=> run[r] = "unused") => Now' = Now
  BY NowStays
<1>000. run' = run => Now' = Now
  BY <1>00
<1>1. ASSUME NEW d \in Docs, Change(d) PROVE Agent'
  BY <1>1, <1>0, <1>000 DEF Change, TypeOK, Agent
<1>2. ASSUME Ask PROVE Agent'
  BY <1>2, <1>0, <1>000 DEF Ask, TypeOK, Agent
<1>3. ASSUME StartRun PROVE Agent'
  BY <1>3, <1>0, <1>000, NowStarts DEF StartRun, TypeOK, Agent
<1>4. ASSUME NEW d \in Docs, Confirm(d) PROVE Agent'
  BY <1>4, <1>0, <1>000 DEF Confirm, Visit, TypeOK, Agent
<1>5. ASSUME NEW d \in Docs, Upload(d) PROVE Agent'
  BY <1>5, <1>0, <1>000 DEF Upload, Visit, BeginUpload, TypeOK, Agent
<1>6. ASSUME NEW d \in Docs, UploadUnknown(d) PROVE Agent'
  BY <1>6, <1>0, <1>000 DEF UploadUnknown, BeginUpload, TypeOK, Agent
<1>7. ASSUME NEW d \in Docs, PassOver(d) PROVE Agent'
  BY <1>7, <1>0, <1>000 DEF PassOver, Visit, TypeOK, Agent
<1>8. ASSUME NEW d \in Docs, NoReaders(d) PROVE Agent'
  BY <1>8, <1>0, <1>000 DEF NoReaders, Visit, TypeOK, Agent
<1>9. ASSUME FolderFails PROVE Agent'
  BY <1>9, <1>0, <1>000 DEF FolderFails, TypeOK, Agent
<1>10. ASSUME Flush PROVE Agent'
  BY <1>10, <1>0, <1>000 DEF Flush, TypeOK, Agent
<1>11. ASSUME ReadFile PROVE Agent'
  BY <1>11, <1>0, <1>000 DEF ReadFile, TypeOK, Agent
<1>12. ASSUME ReadFails PROVE Agent'
  BY <1>12, <1>0, <1>000 DEF ReadFails, EndUpload, TypeOK, Agent
<1>13. ASSUME NEW h \in Handlers, Send(h) PROVE Agent'
  BY <1>13, <1>0, <1>000 DEF Send, TypeOK, Agent
<1>14. ASSUME Timeout PROVE Agent'
  BY <1>14, <1>0, <1>000 DEF Timeout, TypeOK, Agent
<1>15. ASSUME NEW h \in Handlers, Commit(h) PROVE Agent'
  BY <1>15, <1>0, <1>000 DEF Commit, Store, Answer, EndUpload, Release, TypeOK, Agent
<1>16. ASSUME NEW h \in Handlers, Conflict(h) PROVE Agent'
  BY <1>16, <1>0, <1>000 DEF Conflict, Release, TypeOK, Agent
<1>17. ASSUME NEW h \in Handlers, Reject(h) PROVE Agent'
  BY <1>17, <1>0, <1>000 DEF Reject, Answer, EndUpload, Release, TypeOK, Agent
<1>18. ASSUME EndWalk PROVE Agent'
  BY <1>18, <1>0, <1>000 DEF EndWalk, TypeOK, Agent
<1>19. ASSUME GiveUp PROVE Agent'
  BY <1>19, <1>0, <1>000 DEF GiveUp, Forget, TypeOK, Agent
<1>20. ASSUME Die PROVE Agent'
  BY <1>20, <1>0, <1>000 DEF Die, Forget, TypeOK, Agent
<1>21. ASSUME NEW r \in Runs, BeginFinish(r) PROVE Agent'
  BY <1>21, <1>0, <1>000 DEF BeginFinish, TypeOK, Agent
<1>22. ASSUME NEW r \in Runs, Finish(r) PROVE Agent'
  <2>1. Now' = Now
    BY <1>22, <1>0, <1>00, FinishRemoves, NowIsLast
  <2> QED BY <1>22, <2>1, FinishRemoves DEF Agent
<1>23. ASSUME NEW r \in Runs, FinishFails(r) PROVE Agent'
  BY <1>23, <1>0, <1>000 DEF FinishFails, Finished, Forget, TypeOK, Agent
<1>24. ASSUME UNCHANGED vars PROVE Agent'
  BY <1>24, <1>0, <1>000 DEF vars, TypeOK, Agent
<1> QED
  BY <1>1, <1>2, <1>3, <1>4, <1>5, <1>6, <1>7, <1>8, <1>9, <1>10, <1>11, <1>12, <1>13, <1>14, <1>15, <1>16, <1>17, <1>18, <1>19, <1>20, <1>21, <1>22, <1>23, <1>24
  DEF Next, Walk, Server

\* No step leaves anything newer than the last run.
LEMMA PastNext ==
    ASSUME TypeOK, TypeOK', RunsInOrder, RunsInOrder', Agent, Texts, Past, [Next]_vars
    PROVE  Past'
<1> USE BoundsAssumption, NamesAssumption DEF Runs, Busy
<1>0. Now \in 0..MaxRuns /\ Now' \in 0..MaxRuns
  BY NowIsLast
<1>00. (\A r \in Runs : run'[r] = "unused" <=> run[r] = "unused") => Now' = Now
  BY NowStays
<1>000. run' = run => Now' = Now
  BY <1>00
<1>1. ASSUME NEW d \in Docs, Change(d) PROVE Past'
  BY <1>1, <1>0, <1>000 DEF Change, TypeOK, Agent, Past
<1>2. ASSUME Ask PROVE Past'
  BY <1>2, <1>0, <1>000 DEF Ask, TypeOK, Agent, Past
<1>3. ASSUME StartRun PROVE Past'
  <2>1. Now' = Now + 1 /\ Now + 1 \in Runs
    BY <1>3, <1>0, NowStarts
  <2>2. \A r \in Runs : r > Now + 1 => outdated'[r] = {}
    BY <1>3, <1>0, <2>1 DEF StartRun, Past, TypeOK
  <2> QED BY <1>3, <1>0, <2>1, <2>2 DEF StartRun, TypeOK, Past
<1>4. ASSUME NEW d \in Docs, Confirm(d) PROVE Past'
  BY <1>4, <1>0, <1>000 DEF Confirm, Visit, TypeOK, Agent, Past
<1>5. ASSUME NEW d \in Docs, Upload(d) PROVE Past'
  BY <1>5, <1>0, <1>000 DEF Upload, Visit, BeginUpload, TypeOK, Agent, Past
<1>6. ASSUME NEW d \in Docs, UploadUnknown(d) PROVE Past'
  BY <1>6, <1>0, <1>000 DEF UploadUnknown, BeginUpload, TypeOK, Agent, Past
<1>7. ASSUME NEW d \in Docs, PassOver(d) PROVE Past'
  BY <1>7, <1>0, <1>000 DEF PassOver, Visit, TypeOK, Agent, Past
<1>8. ASSUME NEW d \in Docs, NoReaders(d) PROVE Past'
  BY <1>8, <1>0, <1>000 DEF NoReaders, Visit, TypeOK, Agent, Past
<1>9. ASSUME FolderFails PROVE Past'
  BY <1>9, <1>0, <1>000 DEF FolderFails, TypeOK, Agent, Past
<1>10. ASSUME Flush PROVE Past'
  BY <1>10, <1>0, <1>000 DEF Flush, TypeOK, Agent, Past
<1>11. ASSUME ReadFile PROVE Past'
  BY <1>11, <1>0, <1>000 DEF ReadFile, TypeOK, Agent, Past
<1>12. ASSUME ReadFails PROVE Past'
  BY <1>12, <1>0, <1>000 DEF ReadFails, EndUpload, TypeOK, Agent, Past
<1>13. ASSUME NEW h \in Handlers, Send(h) PROVE Past'
  BY <1>13, <1>0, <1>000 DEF Send, TypeOK, Agent, Past
<1>14. ASSUME Timeout PROVE Past'
  BY <1>14, <1>0, <1>000 DEF Timeout, TypeOK, Agent, Past
<1>15. ASSUME NEW h \in Handlers, Commit(h) PROVE Past'
  <2>1. Now' = Now
    BY <1>15, <1>000, CommitWrites
  <2>2. \A d \in Docs : synced'[d] <= Now
    <3> SUFFICES ASSUME NEW d \in Docs PROVE synced'[d] <= Now
      OBVIOUS
    <3> QED BY <1>15, CommitWrites DEF Past
  <2>3. \A g \in Handlers : of'[g] <= Now
    BY <1>15, <1>0 DEF Commit, Release, Past, TypeOK
  <2> QED BY <1>15, <2>1, <2>2, <2>3, CommitWrites DEF Past
<1>16. ASSUME NEW h \in Handlers, Conflict(h) PROVE Past'
  BY <1>16, <1>0, <1>000 DEF Conflict, Release, TypeOK, Agent, Past
<1>17. ASSUME NEW h \in Handlers, Reject(h) PROVE Past'
  BY <1>17, <1>0, <1>000 DEF Reject, Answer, EndUpload, Release, TypeOK, Agent, Past
<1>18. ASSUME EndWalk PROVE Past'
  BY <1>18, <1>0, <1>000 DEF EndWalk, TypeOK, Agent, Past
<1>19. ASSUME GiveUp PROVE Past'
  BY <1>19, <1>0, <1>000 DEF GiveUp, Forget, TypeOK, Agent, Past
<1>20. ASSUME Die PROVE Past'
  BY <1>20, <1>0, <1>000 DEF Die, Forget, TypeOK, Agent, Past
<1>21. ASSUME NEW r \in Runs, BeginFinish(r) PROVE Past'
  BY <1>21, <1>0, <1>000, NowIsLast DEF BeginFinish, TypeOK, Agent, Past
<1>22. ASSUME NEW r \in Runs, Finish(r) PROVE Past'
  <2>1. Now' = Now
    BY <1>22, <1>0, <1>00, FinishRemoves, NowIsLast
  <2>2. \A d \in Docs : synced'[d] <= Now
    BY <1>22, <1>0, FinishRemoves DEF Past
  <2>3. \A h \in Handlers : of'[h] <= Now
    BY <1>22, FinishRemoves DEF Past
  <2>4. \A q \in Runs : /\ finish'[q] # "none" => q <= Now
                        /\ run'[q] = "running" => q = Now
                        /\ q \in checked' => q <= Now /\ run'[q] # "finished"
                        /\ q > Now => outdated'[q] = {}
    BY <1>22, FinishRemoves DEF Past
  <2>5. \A q \in Runs : /\ finish'[q] # "none" => q <= Now'
                        /\ run'[q] = "running" => q = Now'
                        /\ q \in checked' => q <= Now' /\ run'[q] # "finished"
                        /\ q > Now' => outdated'[q] = {}
    BY <2>1, <2>4
  <2>6. (\A d \in Docs : synced'[d] <= Now') /\ (\A h \in Handlers : of'[h] <= Now')
    BY <2>1, <2>2, <2>3
  <2> HIDE DEF Runs
  <2> QED BY <2>5, <2>6, Zenon DEF Past
<1>23. ASSUME NEW r \in Runs, FinishFails(r) PROVE Past'
  BY <1>23, <1>0, <1>000 DEF FinishFails, Finished, Forget, TypeOK, Agent, Past
<1>24. ASSUME UNCHANGED vars PROVE Past'
  BY <1>24, <1>0, <1>000 DEF vars, TypeOK, Agent, Past
<1> QED
  BY <1>1, <1>2, <1>3, <1>4, <1>5, <1>6, <1>7, <1>8, <1>9, <1>10, <1>11, <1>12, <1>13, <1>14, <1>15, <1>16, <1>17, <1>18, <1>19, <1>20, <1>21, <1>22, <1>23, <1>24
  DEF Next, Walk, Server

\* A later run begins with every file steady.
LEMMA NestedNext ==
    ASSUME TypeOK, TypeOK', RunsInOrder, RunsInOrder', Texts, Past, Nested, [Next]_vars
    PROVE  Nested'
<1> USE BoundsAssumption, NamesAssumption DEF Runs, Busy
<1>0. Now \in 0..MaxRuns /\ Now' \in 0..MaxRuns
  BY NowIsLast
<1>00. (\A r \in Runs : run'[r] = "unused" <=> run[r] = "unused") => Now' = Now
  BY NowStays
<1>000. run' = run => Now' = Now
  BY <1>00
<1>1. ASSUME NEW d \in Docs, Change(d) PROVE Nested'
  <2>1. Now' = Now /\ \A r \in Runs : steady'[r] = steady[r] \ {d}
    BY <1>1, <1>000 DEF Change
  <2> QED BY <2>1 DEF Nested
<1>2. ASSUME Ask PROVE Nested'
  BY <1>2, <1>0, <1>000 DEF Ask, TypeOK, Nested
<1>3. ASSUME StartRun PROVE Nested'
  <2>1. Now' = Now + 1 /\ Now + 1 \in Runs
    BY <1>3, <1>0, NowStarts
  <2>2. \A r \in Runs : steady'[r] = IF r = Now + 1 THEN Docs ELSE steady[r]
    BY <1>3, <1>0, <2>1 DEF StartRun, TypeOK
  <2>3. \A r \in Runs : steady[r] \subseteq Docs
    BY DEF TypeOK
  <2> QED BY <1>0, <2>1, <2>2, <2>3 DEF Nested
<1>4. ASSUME NEW d \in Docs, Confirm(d) PROVE Nested'
  BY <1>4, <1>0, <1>000 DEF Confirm, Visit, TypeOK, Nested
<1>5. ASSUME NEW d \in Docs, Upload(d) PROVE Nested'
  BY <1>5, <1>0, <1>000 DEF Upload, Visit, BeginUpload, TypeOK, Nested
<1>6. ASSUME NEW d \in Docs, UploadUnknown(d) PROVE Nested'
  BY <1>6, <1>0, <1>000 DEF UploadUnknown, BeginUpload, TypeOK, Nested
<1>7. ASSUME NEW d \in Docs, PassOver(d) PROVE Nested'
  BY <1>7, <1>0, <1>000 DEF PassOver, Visit, TypeOK, Nested
<1>8. ASSUME NEW d \in Docs, NoReaders(d) PROVE Nested'
  BY <1>8, <1>0, <1>000 DEF NoReaders, Visit, TypeOK, Nested
<1>9. ASSUME FolderFails PROVE Nested'
  BY <1>9, <1>0, <1>000 DEF FolderFails, TypeOK, Nested
<1>10. ASSUME Flush PROVE Nested'
  BY <1>10, <1>0, <1>000 DEF Flush, TypeOK, Nested
<1>11. ASSUME ReadFile PROVE Nested'
  BY <1>11, <1>0, <1>000 DEF ReadFile, TypeOK, Nested
<1>12. ASSUME ReadFails PROVE Nested'
  BY <1>12, <1>0, <1>000 DEF ReadFails, EndUpload, TypeOK, Nested
<1>13. ASSUME NEW h \in Handlers, Send(h) PROVE Nested'
  BY <1>13, <1>0, <1>000 DEF Send, TypeOK, Nested
<1>14. ASSUME Timeout PROVE Nested'
  BY <1>14, <1>0, <1>000 DEF Timeout, TypeOK, Nested
<1>15. ASSUME NEW h \in Handlers, Commit(h) PROVE Nested'
  BY <1>15, <1>000, CommitWrites DEF Nested
<1>16. ASSUME NEW h \in Handlers, Conflict(h) PROVE Nested'
  BY <1>16, <1>0, <1>000 DEF Conflict, Release, TypeOK, Nested
<1>17. ASSUME NEW h \in Handlers, Reject(h) PROVE Nested'
  BY <1>17, <1>0, <1>000 DEF Reject, Answer, EndUpload, Release, TypeOK, Nested
<1>18. ASSUME EndWalk PROVE Nested'
  BY <1>18, <1>0, <1>000 DEF EndWalk, TypeOK, Nested
<1>19. ASSUME GiveUp PROVE Nested'
  BY <1>19, <1>0, <1>000 DEF GiveUp, Forget, TypeOK, Nested
<1>20. ASSUME Die PROVE Nested'
  BY <1>20, <1>0, <1>000 DEF Die, Forget, TypeOK, Nested
<1>21. ASSUME NEW r \in Runs, BeginFinish(r) PROVE Nested'
  BY <1>21, <1>0, <1>000 DEF BeginFinish, TypeOK, Nested
<1>22. ASSUME NEW r \in Runs, Finish(r) PROVE Nested'
  <2>1. Now' = Now
    BY <1>22, <1>0, <1>00, FinishRemoves, NowIsLast
  <2> QED BY <1>22, <2>1, FinishRemoves DEF Nested
<1>23. ASSUME NEW r \in Runs, FinishFails(r) PROVE Nested'
  BY <1>23, <1>0, <1>000 DEF FinishFails, Finished, Forget, TypeOK, Nested
<1>24. ASSUME UNCHANGED vars PROVE Nested'
  BY <1>24, <1>0, <1>000 DEF vars, TypeOK, Nested
<1> QED
  BY <1>1, <1>2, <1>3, <1>4, <1>5, <1>6, <1>7, <1>8, <1>9, <1>10, <1>11, <1>12, <1>13, <1>14, <1>15, <1>16, <1>17, <1>18, <1>19, <1>20, <1>21, <1>22, <1>23, <1>24
  DEF Next, Walk, Server

\* The agent waits for the request of the file it uploads.
LEMMA AwaitedNext ==
    ASSUME TypeOK, TypeOK', RunsInOrder, RunsInOrder', Agent, Past, Awaited, [Next]_vars
    PROVE  Awaited'
<1> USE BoundsAssumption, NamesAssumption DEF Runs, Busy
<1>0. Now \in 0..MaxRuns /\ Now' \in 0..MaxRuns
  BY NowIsLast
<1>00. (\A r \in Runs : run'[r] = "unused" <=> run[r] = "unused") => Now' = Now
  BY NowStays
<1>000. run' = run => Now' = Now
  BY <1>00
<1>1. ASSUME NEW d \in Docs, Change(d) PROVE Awaited'
  BY <1>1, <1>0, <1>000 DEF Change, TypeOK, Agent, Awaited
<1>2. ASSUME Ask PROVE Awaited'
  BY <1>2, <1>0, <1>000 DEF Ask, TypeOK, Agent, Awaited
<1>3. ASSUME StartRun PROVE Awaited'
  BY <1>3, <1>0, <1>000, NowStarts DEF StartRun, TypeOK, Agent, Awaited
<1>4. ASSUME NEW d \in Docs, Confirm(d) PROVE Awaited'
  BY <1>4, <1>0, <1>000 DEF Confirm, Visit, TypeOK, Agent, Awaited
<1>5. ASSUME NEW d \in Docs, Upload(d) PROVE Awaited'
  BY <1>5, <1>0, <1>000 DEF Upload, Visit, BeginUpload, TypeOK, Agent, Awaited
<1>6. ASSUME NEW d \in Docs, UploadUnknown(d) PROVE Awaited'
  BY <1>6, <1>0, <1>000 DEF UploadUnknown, BeginUpload, TypeOK, Agent, Awaited
<1>7. ASSUME NEW d \in Docs, PassOver(d) PROVE Awaited'
  BY <1>7, <1>0, <1>000 DEF PassOver, Visit, TypeOK, Agent, Awaited
<1>8. ASSUME NEW d \in Docs, NoReaders(d) PROVE Awaited'
  BY <1>8, <1>0, <1>000 DEF NoReaders, Visit, TypeOK, Agent, Awaited
<1>9. ASSUME FolderFails PROVE Awaited'
  BY <1>9, <1>0, <1>000 DEF FolderFails, TypeOK, Agent, Awaited
<1>10. ASSUME Flush PROVE Awaited'
  BY <1>10, <1>0, <1>000 DEF Flush, TypeOK, Agent, Awaited
<1>11. ASSUME ReadFile PROVE Awaited'
  BY <1>11, <1>0, <1>000 DEF ReadFile, TypeOK, Agent, Awaited
<1>12. ASSUME ReadFails PROVE Awaited'
  BY <1>12, <1>0, <1>000 DEF ReadFails, EndUpload, TypeOK, Agent, Awaited
<1>13. ASSUME NEW h \in Handlers, Send(h) PROVE Awaited'
  BY <1>13, <1>0, <1>000 DEF Send, TypeOK, Agent, Awaited
<1>14. ASSUME Timeout PROVE Awaited'
  BY <1>14, <1>0, <1>000 DEF Timeout, TypeOK, Agent, Awaited
<1>15. ASSUME NEW h \in Handlers, Commit(h) PROVE Awaited'
  <2>1. Now' = Now
    BY <1>15, <1>000 DEF Commit
  <2> QED BY <1>15, <2>1 DEF Commit, Answer, EndUpload, Release, TypeOK, Awaited
<1>16. ASSUME NEW h \in Handlers, Conflict(h) PROVE Awaited'
  BY <1>16, <1>0, <1>000 DEF Conflict, Release, TypeOK, Agent, Awaited
<1>17. ASSUME NEW h \in Handlers, Reject(h) PROVE Awaited'
  BY <1>17, <1>0, <1>000 DEF Reject, Answer, EndUpload, Release, TypeOK, Agent, Awaited
<1>18. ASSUME EndWalk PROVE Awaited'
  BY <1>18, <1>0, <1>000 DEF EndWalk, TypeOK, Agent, Awaited
<1>19. ASSUME GiveUp PROVE Awaited'
  BY <1>19, <1>0, <1>000 DEF GiveUp, Forget, TypeOK, Agent, Awaited
<1>20. ASSUME Die PROVE Awaited'
  BY <1>20, <1>0, <1>000 DEF Die, Forget, TypeOK, Agent, Awaited
<1>21. ASSUME NEW r \in Runs, BeginFinish(r) PROVE Awaited'
  BY <1>21, <1>0, <1>000 DEF BeginFinish, TypeOK, Agent, Awaited
<1>22. ASSUME NEW r \in Runs, Finish(r) PROVE Awaited'
  <2>1. Now' = Now
    BY <1>22, <1>0, <1>00, FinishRemoves, NowIsLast
  <2> QED BY <1>22, <2>1, FinishRemoves DEF Awaited
<1>23. ASSUME NEW r \in Runs, FinishFails(r) PROVE Awaited'
  BY <1>23, <1>0, <1>000 DEF FinishFails, Finished, Forget, TypeOK, Agent, Awaited
<1>24. ASSUME UNCHANGED vars PROVE Awaited'
  BY <1>24, <1>0, <1>000 DEF vars, TypeOK, Agent, Awaited
<1> QED
  BY <1>1, <1>2, <1>3, <1>4, <1>5, <1>6, <1>7, <1>8, <1>9, <1>10, <1>11, <1>12, <1>13, <1>14, <1>15, <1>16, <1>17, <1>18, <1>19, <1>20, <1>21, <1>22, <1>23, <1>24
  DEF Next, Walk, Server

----------------------------------------------------------------------------
(* Versions and texts.                                                     *)

\* Every step keeps the versions in use below the next one.
LEMMA VersionsPastNext ==
    ASSUME TypeOK, TypeOK', RunsInOrder, Past, Texts, VersionsPast, [Next]_vars
    PROVE  VersionsPast'
<1>0. /\ changes \in Nat /\ stat \in Nat /\ StoreType /\ WalkType /\ HandlerType
      /\ \A d \in Docs : file[d] \in Nat /\ named[d] \in Nat /\ state[d] \in Nat
      /\ \A h \in Handlers : gave[h] \in Nat
  BY TypeParts, BoundsAssumption DEF TypeOK, Versions
<1>1. ASSUME NEW d \in Docs, Change(d) PROVE VersionsPast'
  BY <1>1, <1>0 DEF Change, StoreType, VersionsPast
<1>2. ASSUME Ask PROVE VersionsPast'
  BY <1>2, <1>0 DEF Ask, StoreType, VersionsPast
<1>3. ASSUME StartRun PROVE VersionsPast'
  BY <1>3, <1>0 DEF StartRun, VersionsPast
<1>4. ASSUME NEW d \in Docs, Confirm(d) PROVE VersionsPast'
  BY <1>4, <1>0 DEF Confirm, Visit, VersionsPast
<1>5. ASSUME NEW d \in Docs, Upload(d) PROVE VersionsPast'
  BY <1>5, <1>0 DEF Upload, Visit, BeginUpload, VersionsPast
<1>6. ASSUME NEW d \in Docs, UploadUnknown(d) PROVE VersionsPast'
  BY <1>6, <1>0 DEF UploadUnknown, BeginUpload, VersionsPast
<1>7. ASSUME NEW d \in Docs, PassOver(d) PROVE VersionsPast'
  BY <1>7, <1>0 DEF PassOver, Visit, VersionsPast
<1>8. ASSUME NEW d \in Docs, NoReaders(d) PROVE VersionsPast'
  BY <1>8, <1>0 DEF NoReaders, Visit, VersionsPast
<1>9. ASSUME FolderFails PROVE VersionsPast'
  BY <1>9, <1>0 DEF FolderFails, VersionsPast
<1>10. ASSUME Flush PROVE VersionsPast'
  BY <1>10, <1>0 DEF Flush, VersionsPast
<1>11. ASSUME ReadFile PROVE VersionsPast'
  BY <1>11, <1>0 DEF ReadFile, VersionsPast
<1>12. ASSUME ReadFails PROVE VersionsPast'
  BY <1>12, <1>0 DEF ReadFails, EndUpload, VersionsPast
<1>13. ASSUME NEW h \in Handlers, Send(h) PROVE VersionsPast'
  BY <1>13, <1>0 DEF Send, HandlerType, VersionsPast
<1>14. ASSUME Timeout PROVE VersionsPast'
  BY <1>14, <1>0 DEF Timeout, VersionsPast
<1>15. ASSUME NEW h \in Handlers, Commit(h) PROVE VersionsPast'
  <2>1. \A d \in Docs : named'[d] <= changes + 1
    BY <1>15, <1>0, CommitWrites DEF VersionsPast
  <2>2. UNCHANGED <<file, changes, state>> /\ (stat' = stat \/ stat' = 0)
    BY <1>15 DEF Commit, Answer, EndUpload
  <2>3. \A g \in Handlers : gave'[g] = gave[g] \/ gave'[g] = 0
    BY <1>15 DEF Commit, Release, TypeOK
  <2> QED BY <1>0, <2>1, <2>2, <2>3 DEF VersionsPast
<1>16. ASSUME NEW h \in Handlers, Conflict(h) PROVE VersionsPast'
  BY <1>16, <1>0 DEF Conflict, Release, HandlerType, VersionsPast
<1>17. ASSUME NEW h \in Handlers, Reject(h) PROVE VersionsPast'
  BY <1>17, <1>0 DEF Reject, Answer, EndUpload, Release, HandlerType, VersionsPast
<1>18. ASSUME EndWalk PROVE VersionsPast'
  BY <1>18, <1>0 DEF EndWalk, VersionsPast
<1>19. ASSUME GiveUp PROVE VersionsPast'
  BY <1>19, <1>0, Forgotten DEF GiveUp, VersionsPast
<1>20. ASSUME Die PROVE VersionsPast'
  BY <1>20, <1>0, Forgotten DEF Die, VersionsPast
<1>21. ASSUME NEW r \in Runs, BeginFinish(r) PROVE VersionsPast'
  BY <1>21, <1>0 DEF BeginFinish, VersionsPast
<1>22. ASSUME NEW r \in Runs, Finish(r) PROVE VersionsPast'
  <2>1. \A d \in Docs : named'[d] = named[d] \/ named'[d] = 0
    BY <1>22, FinishRemoves
  <2>2. (\A d \in Docs : state'[d] = state[d] \/ state'[d] = 0) /\ (stat' = stat \/ stat' = 0)
    BY <1>22, FinishRemoves
  <2>3. UNCHANGED <<file, changes, gave>>
    BY <1>22, FinishRemoves
  <2> QED BY <1>0, <2>1, <2>2, <2>3 DEF VersionsPast
<1>23. ASSUME NEW r \in Runs, FinishFails(r) PROVE VersionsPast'
  <2>1. (\A d \in Docs : state'[d] = state[d] \/ state'[d] = 0) /\ (stat' = stat \/ stat' = 0)
    BY <1>23, Forgotten DEF FinishFails, Finished
  <2> QED BY <1>23, <1>0, <2>1 DEF FinishFails, VersionsPast
<1>24. ASSUME UNCHANGED vars PROVE VersionsPast'
  BY <1>24, <1>0 DEF vars, VersionsPast
<1> QED
  BY <1>1, <1>2, <1>3, <1>4, <1>5, <1>6, <1>7, <1>8, <1>9, <1>10, <1>11, <1>12, <1>13, <1>14, <1>15, <1>16, <1>17, <1>18, <1>19, <1>20, <1>21, <1>22, <1>23, <1>24
  DEF Next, Walk, Server

\* A version is told with its text after every step: the file is listed before it is
\* read, so a change in between leaves an older version with a newer text, never the
\* other way round; where the version alone is written the document is mixed.
LEMMA TextsNext ==
    ASSUME TypeOK, TypeOK', RunsInOrder, Past, VersionsPast, Agent, Texts, [Next]_vars
    PROVE  Texts'
<1> USE BoundsAssumption, NamesAssumption DEF Versions, Stored, Busy
<1>1. ASSUME NEW d \in Docs, Change(d) PROVE Texts'
  <2>1. PICK v \in {0, changes + 2}, t \in Versions :
           /\ file' = [file EXCEPT ![d] = v] /\ text' = [text EXCEPT ![d] = t] /\ (v > 0 <=> t > 0)
    BY <1>1 DEF Change, TypeOK
  <2>2. /\ file'[d] = v /\ \A e \in Docs : e # d => file'[e] = file[e] /\ text'[e] = text[e]
        /\ named[d] # v \/ v = 0
        /\ \A h \in Handlers : gave[h] # v \/ v = 0
        /\ stat # v \/ v = 0
    BY <2>1 DEF VersionsPast, TypeOK
  <2>3. UNCHANGED <<content, named, mixed, state, pending, unknown, upload, stat, read, doc, found, gave, has>>
    BY <1>1 DEF Change
  <2>4. VersionTellsText'
    BY <2>2, <2>3 DEF Texts, VersionTellsText
  <2>5. upload # NoDoc => stat > 0 /\ (read > 0 /\ stat = file'[upload] => read = text'[upload])
    BY <2>2 DEF Texts, TypeOK
  <2>6. \A h \in Handlers : Busy(h) =>
          /\ gave[h] > 0 /\ has[h] > 0
          /\ gave[h] = file'[doc[h]] => has[h] = text'[doc[h]]
          /\ found[h] > 0 => Stored(doc[h])
    BY <2>2 DEF Texts, TypeOK
  <2>7. \A e \in Docs : file'[e] > 0 <=> text'[e] > 0
    BY <2>1 DEF Texts, TypeOK
  <2> QED BY <2>3, <2>4, <2>5, <2>6, <2>7 DEF Texts
<1>2. ASSUME Ask PROVE Texts'
  BY <1>2 DEF Ask, Agent, TypeOK, Texts, VersionTellsText
<1>3. ASSUME StartRun PROVE Texts'
  BY <1>3 DEF StartRun, TypeOK, Texts, VersionTellsText
<1>4. ASSUME NEW d \in Docs, Confirm(d) PROVE Texts'
  BY <1>4 DEF Confirm, Visit, TypeOK, Texts, VersionTellsText
<1>5. ASSUME NEW d \in Docs, Upload(d) PROVE Texts'
  BY <1>5 DEF Upload, Visit, BeginUpload, Agent, TypeOK, Texts, VersionTellsText
<1>6. ASSUME NEW d \in Docs, UploadUnknown(d) PROVE Texts'
  BY <1>6 DEF UploadUnknown, BeginUpload, Agent, TypeOK, Texts, VersionTellsText
<1>7. ASSUME NEW d \in Docs, PassOver(d) PROVE Texts'
  BY <1>7 DEF PassOver, Visit, TypeOK, Texts, VersionTellsText
<1>8. ASSUME NEW d \in Docs, NoReaders(d) PROVE Texts'
  BY <1>8 DEF NoReaders, Visit, TypeOK, Texts, VersionTellsText
<1>9. ASSUME FolderFails PROVE Texts'
  BY <1>9 DEF FolderFails, TypeOK, Texts, VersionTellsText
<1>10. ASSUME Flush PROVE Texts'
  BY <1>10 DEF Flush, TypeOK, Texts, VersionTellsText
<1>11. ASSUME ReadFile PROVE Texts'
  BY <1>11 DEF ReadFile, TypeOK, Texts, VersionTellsText
<1>12. ASSUME ReadFails PROVE Texts'
  BY <1>12 DEF ReadFails, EndUpload, TypeOK, Texts, VersionTellsText
<1>13. ASSUME NEW h \in Handlers, Send(h) PROVE Texts'
  BY <1>13 DEF Send, TypeOK, Texts, VersionTellsText
<1>14. ASSUME Timeout PROVE Texts'
  BY <1>14 DEF Timeout, TypeOK, Texts, VersionTellsText
<1>15. ASSUME NEW h \in Handlers, Commit(h) PROVE Texts'
  <2>1. UNCHANGED <<file, text, state, pending, unknown>>
        /\ (upload' # NoDoc => upload' = upload /\ stat' = stat /\ read' = read)
    BY <1>15 DEF Commit, Answer, EndUpload
  <2>2. \A e \in Docs : content'[e] > 0 => named'[e] > 0
    BY <1>15, CommitWrites DEF Texts
  <2>3. ASSUME NEW e \in Docs \ mixed', content'[e] > 0, named'[e] = file[e] PROVE content'[e] = text[e]
    <3>1. CASE e # doc[h]
      <4>1. e \notin mixed /\ content'[e] = content[e] /\ named'[e] = named[e]
        BY <1>15, <2>3, <3>1, CommitWrites DEF Commit, Store
      <4> QED BY <2>3, <4>1 DEF Texts, VersionTellsText
    <3>2. CASE e = doc[h] /\ was[h] = gave[h]
      BY <1>15, <2>3, <3>2 DEF Commit, Store, Texts, VersionTellsText
    <3>3. CASE e = doc[h] /\ was[h] # gave[h]
      <4>1. named'[e] = gave[h] /\ has[h] = text[e]
        BY <1>15, <2>3, <3>3, CommitWrites DEF Texts
      <4>2. CASE found[h] = has[h]
        BY <1>15, <2>3, <3>3, <4>1, <4>2 DEF Commit, Store
      <4>3. CASE found[h] # has[h]
        BY <1>15, <2>3, <3>3, <4>1, <4>3 DEF Commit, Store, TypeOK
      <4> QED BY <4>2, <4>3
    <3> QED BY <3>1, <3>2, <3>3
  <2>4. \A g \in Handlers : Busy(g)' =>
          /\ gave'[g] > 0 /\ has'[g] > 0
          /\ gave'[g] = file[doc'[g]] => has'[g] = text[doc'[g]]
          /\ found'[g] > 0 => content'[doc'[g]] > 0
    <3> SUFFICES ASSUME NEW g \in Handlers, Busy(g)', g # h
                 PROVE  /\ gave[g] > 0 /\ has[g] > 0
                        /\ gave[g] = file[doc[g]] => has[g] = text[doc[g]]
                        /\ found[g] > 0 => content'[doc[g]] > 0
      BY <1>15, CommitWrites
    <3>1. Busy(g) /\ doc[g] \in Docs
      BY <1>15, CommitWrites DEF TypeOK
    <3>2. found[g] > 0 => content'[doc[g]] > 0
      BY <1>15, <3>1, CommitWrites DEF Texts
    <3> QED BY <3>1, <3>2 DEF Texts
  <2> QED BY <2>1, <2>2, <2>3, <2>4 DEF Texts, VersionTellsText
<1>16. ASSUME NEW h \in Handlers, Conflict(h) PROVE Texts'
  BY <1>16 DEF Conflict, Release, TypeOK, Texts, VersionTellsText
<1>17. ASSUME NEW h \in Handlers, Reject(h) PROVE Texts'
  BY <1>17 DEF Reject, Answer, EndUpload, Release, TypeOK, Texts, VersionTellsText
<1>18. ASSUME EndWalk PROVE Texts'
  BY <1>18 DEF EndWalk, TypeOK, Texts, VersionTellsText
<1>19. ASSUME GiveUp PROVE Texts'
  BY <1>19 DEF GiveUp, Forget, TypeOK, Texts, VersionTellsText
<1>20. ASSUME Die PROVE Texts'
  BY <1>20 DEF Die, Forget, TypeOK, Texts, VersionTellsText
<1>21. ASSUME NEW r \in Runs, BeginFinish(r) PROVE Texts'
  BY <1>21 DEF BeginFinish, TypeOK, Texts, VersionTellsText
<1>22. ASSUME NEW r \in Runs, Finish(r) PROVE Texts'
  <2>1. /\ UNCHANGED <<file, text, doc, gave, has>>
        /\ (upload' = NoDoc \/ (upload' = upload /\ stat' = stat /\ read' = read))
        /\ ((pending' = {} /\ unknown' = {}) \/ UNCHANGED <<state, pending, unknown>>)
    BY <1>22, FinishRemoves
  <2>2. \A d \in Docs : content'[d] > 0 => Stored(d) /\ content'[d] = content[d] /\ named'[d] = named[d]
    BY <1>22, FinishRemoves
  <2>3. \A d \in Docs : d \notin mixed' /\ content'[d] > 0 => d \notin mixed
    BY <1>22, FinishRemoves DEF TypeOK
  <2>4. \A h \in Handlers : Busy(h) => (found'[h] > 0 => content'[doc[h]] > 0)
    BY <1>22, FinishRemoves DEF Texts
  <2> QED BY <2>1, <2>2, <2>3, <2>4 DEF Texts, VersionTellsText
<1>23. ASSUME NEW r \in Runs, FinishFails(r) PROVE Texts'
  BY <1>23 DEF FinishFails, Finished, Forget, TypeOK, Texts, VersionTellsText
<1>24. ASSUME UNCHANGED vars PROVE Texts'
  BY <1>24 DEF vars, TypeOK, Texts, VersionTellsText
<1> QED
  BY <1>1, <1>2, <1>3, <1>4, <1>5, <1>6, <1>7, <1>8, <1>9, <1>10, <1>11, <1>12, <1>13, <1>14, <1>15, <1>16, <1>17, <1>18, <1>19, <1>20, <1>21, <1>22, <1>23, <1>24
  DEF Next, Walk, Server
----------------------------------------------------------------------------
(* What a walk answers for.                                                *)

\* The exceptions only grow, and what stays steady keeps its version.
Grows ==
    \A r \in Runs :
       /\ skipped[r] \subseteq skipped'[r] /\ overtaken[r] \subseteq overtaken'[r]
       /\ outdated[r] \subseteq outdated'[r]
       /\ r <= Now => steady'[r] \subseteq steady[r] /\ \A d \in steady'[r] : file'[d] = file[d]

\* ... with every step.
LEMMA GrowsNext ==
    ASSUME TypeOK, TypeOK', RunsInOrder, RunsInOrder', Agent, Agent', Texts, Past, [Next]_vars
    PROVE  Grows
<1> USE BoundsAssumption, NamesAssumption DEF Runs, Busy
<1>0. Now \in 0..MaxRuns /\ Now' \in 0..MaxRuns
  BY NowIsLast
<1>00. (\A r \in Runs : run'[r] = "unused" <=> run[r] = "unused") => Now' = Now
  BY NowStays
<1>000. run' = run => Now' = Now
  BY <1>00
<1>m. (mine # 0 => mine = Now /\ mine \in Runs) /\ (mine' # 0 => mine' = Now' /\ mine' \in Runs)
  BY <1>0 DEF Agent, TypeOK
<1>1. ASSUME NEW d \in Docs, Change(d) PROVE Grows
  BY <1>1, <1>0, <1>000, <1>m DEF Change, TypeOK, Agent, Grows
<1>2. ASSUME Ask PROVE Grows
  BY <1>2, <1>0, <1>000, <1>m DEF Ask, TypeOK, Agent, Grows
<1>3. ASSUME StartRun PROVE Grows
  <2>1. mine' = Now + 1 /\ Now + 1 \in Runs /\ outdated[Now + 1] = {}
    BY <1>3, <1>0 DEF StartRun, Past
  <2>2. \A r \in Runs : r # Now + 1 => steady'[r] = steady[r] /\ outdated'[r] = outdated[r]
    BY <1>3, <2>1 DEF StartRun, TypeOK
  <2>3. UNCHANGED <<file, skipped, overtaken>>
    BY <1>3 DEF StartRun
  <2> QED BY <1>0, <2>1, <2>2, <2>3 DEF Grows
<1>4. ASSUME NEW d \in Docs, Confirm(d) PROVE Grows
  BY <1>4, <1>0, <1>000, <1>m DEF Confirm, Visit, TypeOK, Agent, Grows
<1>5. ASSUME NEW d \in Docs, Upload(d) PROVE Grows
  BY <1>5, <1>0, <1>000, <1>m DEF Upload, Visit, BeginUpload, TypeOK, Agent, Grows
<1>6. ASSUME NEW d \in Docs, UploadUnknown(d) PROVE Grows
  BY <1>6, <1>0, <1>000, <1>m DEF UploadUnknown, BeginUpload, TypeOK, Agent, Grows
<1>7. ASSUME NEW d \in Docs, PassOver(d) PROVE Grows
  BY <1>7, <1>0, <1>000, <1>m DEF PassOver, Visit, TypeOK, Agent, Grows
<1>8. ASSUME NEW d \in Docs, NoReaders(d) PROVE Grows
  BY <1>8, <1>0, <1>000, <1>m DEF NoReaders, Visit, TypeOK, Agent, Grows
<1>9. ASSUME FolderFails PROVE Grows
  BY <1>9, <1>0, <1>000, <1>m DEF FolderFails, TypeOK, Agent, Grows
<1>10. ASSUME Flush PROVE Grows
  BY <1>10, <1>0, <1>000, <1>m DEF Flush, TypeOK, Agent, Grows
<1>11. ASSUME ReadFile PROVE Grows
  BY <1>11, <1>0, <1>000, <1>m DEF ReadFile, TypeOK, Agent, Grows
<1>12. ASSUME ReadFails PROVE Grows
  BY <1>12, <1>0, <1>000, <1>m DEF ReadFails, EndUpload, TypeOK, Agent, Grows
<1>13. ASSUME NEW h \in Handlers, Send(h) PROVE Grows
  BY <1>13, <1>0, <1>000, <1>m DEF Send, TypeOK, Agent, Grows
<1>14. ASSUME Timeout PROVE Grows
  BY <1>14, <1>0, <1>000, <1>m DEF Timeout, TypeOK, Agent, Grows
<1>15. ASSUME NEW h \in Handlers, Commit(h) PROVE Grows
  BY <1>15, CommitWrites DEF Grows
<1>16. ASSUME NEW h \in Handlers, Conflict(h) PROVE Grows
  BY <1>16, <1>0, <1>000, <1>m DEF Conflict, Release, TypeOK, Agent, Grows
<1>17. ASSUME NEW h \in Handlers, Reject(h) PROVE Grows
  BY <1>17, <1>0, <1>000, <1>m DEF Reject, Answer, EndUpload, Release, TypeOK, Agent, Grows
<1>18. ASSUME EndWalk PROVE Grows
  BY <1>18, <1>0, <1>000, <1>m DEF EndWalk, TypeOK, Agent, Grows
<1>19. ASSUME GiveUp PROVE Grows
  BY <1>19, <1>0, <1>000, <1>m DEF GiveUp, Forget, TypeOK, Agent, Grows
<1>20. ASSUME Die PROVE Grows
  BY <1>20, <1>0, <1>000, <1>m DEF Die, Forget, TypeOK, Agent, Grows
<1>21. ASSUME NEW r \in Runs, BeginFinish(r) PROVE Grows
  BY <1>21, <1>0, <1>000, <1>m DEF BeginFinish, TypeOK, Agent, Grows
<1>22. ASSUME NEW r \in Runs, Finish(r) PROVE Grows
  BY <1>22, FinishRemoves DEF Grows
<1>23. ASSUME NEW r \in Runs, FinishFails(r) PROVE Grows
  BY <1>23, <1>0, <1>000, <1>m DEF FinishFails, Finished, Forget, TypeOK, Agent, Grows
<1>24. ASSUME UNCHANGED vars PROVE Grows
  BY <1>24, <1>0, <1>000, <1>m DEF vars, TypeOK, Agent, Grows
<1> QED
  BY <1>1, <1>2, <1>3, <1>4, <1>5, <1>6, <1>7, <1>8, <1>9, <1>10, <1>11, <1>12, <1>13, <1>14, <1>15, <1>16, <1>17, <1>18, <1>19, <1>20, <1>21, <1>22, <1>23, <1>24
  DEF Next, Walk, Server

\* So does what is spoilt,
LEMMA SpoiltGrows ==
    ASSUME Grows, NEW r \in Runs PROVE Spoilt(r) \subseteq Spoilt(r)'
<1>1. r..MaxRuns \subseteq Runs
  BY BoundsAssumption DEF Runs
<1> QED BY <1>1 DEF Grows, Spoilt

\* ... and a walk answers for less and less.
LEMMA DueShrinks ==
    ASSUME TypeOK, Grows, NEW r \in Runs, r <= Now, NEW d \in Due(r)'
    PROVE  d \in Due(r) /\ d \in Docs /\ file'[d] = file[d]
  BY DEF Grows, Due, TypeOK

\* What spoils a later run spoils an earlier one.
LEMMA SpoiltNests ==
    ASSUME NEW q \in Runs, NEW r \in Runs, q <= r
    PROVE  /\ Spoilt(r) \subseteq Spoilt(q)
           /\ \A d \in Docs : d \in skipped[r] \cup overtaken[r] \cup outdated[r] => d \in Spoilt(q)
           /\ \A d \in Docs : d \in skipped'[r] \cup overtaken'[r] \cup outdated'[r] => d \in Spoilt(q)'
<1>1. r..MaxRuns \subseteq q..MaxRuns /\ r \in r..MaxRuns
  BY BoundsAssumption DEF Runs
<1> QED BY <1>1 DEF Spoilt

\* A request that has not overtaken a run stores the version of a file that
\* nobody has touched since the run began.
LEMMA OwnCommit ==
    ASSUME TypeOK, RunsInOrder, Texts, Past, Nested, Sent, NEW h \in Handlers, Commit(h),
           NEW r \in Runs, r <= Now, doc[h] \in steady[r], doc[h] \notin overtaken'[r]
    PROVE  /\ r <= of[h] /\ of[h] \in Runs /\ of[h] <= Now /\ doc[h] \in steady[of[h]]
           /\ gave[h] = file[doc[h]] /\ gave[h] > 0
           /\ doc[h] \notin overtaken[of[h]] => named'[doc[h]] = file[doc[h]]
<1>1. r <= of[h] /\ of[h] \in Runs /\ of[h] <= Now
  <2>1. of[h] \in 0..MaxRuns /\ of[h] <= Now /\ r \in 1..MaxRuns
    BY DEF Past, TypeOK, Runs
  <2>2. ~(of[h] < r)
    BY CommitWrites
  <2> QED BY <2>1, <2>2, BoundsAssumption DEF Runs
<1>2. doc[h] \in steady[of[h]]
  BY <1>1 DEF Nested
<1>3. gave[h] = file[doc[h]]
  BY <1>2, CommitWrites DEF Sent
<1>4. ASSUME doc[h] \notin overtaken[of[h]] PROVE named'[doc[h]] = file[doc[h]]
  BY <1>2, <1>3, <1>4, CommitWrites DEF Sent
<1> QED BY <1>1, <1>2, <1>3, <1>4, CommitWrites

\* ... so that run has met it.
LEMMA CommitMeets ==
    ASSUME TypeOK, RunsInOrder, Texts, Past, Nested, Sent, NEW h \in Handlers, Commit(h),
           NEW r \in Runs, r <= Now, NEW d \in Docs, d = doc[h], d \in steady[r], d \notin overtaken'[r]
    PROVE  Met(r, d)'
<1>1. content'[d] > 0 /\ synced'[d] = of[h] /\ file' = file
  BY CommitWrites
<1>2. r <= of[h] /\ of[h] \in Runs
  BY OwnCommit
<1>3. ASSUME d \notin Spoilt(r)' PROVE named'[d] = file[d]
  <2>1. d \notin overtaken'[of[h]]
    BY <1>2, <1>3, SpoiltNests
  <2>2. d \notin overtaken[of[h]]
    <3>1. overtaken[of[h]] \subseteq overtaken'[of[h]]
      BY <1>2, CommitWrites
    <3> QED BY <2>1, <3>1
  <2> QED BY <2>2, OwnCommit
<1> QED BY <1>1, <1>2, <1>3 DEF Met, Stored

\* The steps that write documents.
LEMMA StoreSteps ==
    ASSUME [Next]_vars
    PROVE  \/ UNCHANGED <<content, named, synced>>
           \/ Flush \/ (\E h \in Handlers : Commit(h)) \/ (\E r \in Runs : Finish(r))
  BY DEF Next, Walk, Server, vars, Change, Ask, StartRun, Confirm, Upload, UploadUnknown,
        BeginUpload, PassOver, NoReaders, FolderFails, ReadFile, ReadFails, Send, Timeout,
        Conflict, Reject, EndWalk, GiveUp, Die, BeginFinish, FinishFails

\* What a run has met and answers for it has met after every step, the finish of
\* another run included: the later run answers for it too, and has met it.
LEMMA MetKept ==
    ASSUME TypeOK, RunsInOrder, RunsInOrder', Texts, Past, Nested, Sent, Reported, Grows, [Next]_vars,
           NEW q \in Runs, q <= Now, NEW e \in Due(q)', Met(q, e)
    PROVE  Met(q, e)'
<1>1. e \in Due(q) /\ e \in Docs /\ file'[e] = file[e] /\ Spoilt(q) \subseteq Spoilt(q)'
  BY DueShrinks, SpoiltGrows
<1>2. e \in steady[q] \ (skipped[q] \cup overtaken[q]) /\ e \notin overtaken'[q] /\ file[e] > 0
  BY <1>1 DEF Due
<1>3. ASSUME content'[e] = content[e], named'[e] = named[e], synced'[e] = synced[e] PROVE Met(q, e)'
  BY <1>1, <1>3 DEF Met, Stored
<1>4. ASSUME Flush PROVE Met(q, e)'
  <2>1. Now \in 0..MaxRuns
    BY NowIsLast
  <2>2. content'[e] = content[e] /\ named'[e] = named[e] /\ (synced'[e] = synced[e] \/ synced'[e] = Now)
    BY <1>1, <1>4 DEF Flush
  <2> QED BY <1>1, <2>1, <2>2, BoundsAssumption DEF Met, Stored, Runs
<1>5. ASSUME NEW h \in Handlers, Commit(h) PROVE Met(q, e)'
  <2>1. CASE e = doc[h]
    BY <1>1, <1>2, <1>5, <2>1, CommitMeets
  <2>2. CASE e # doc[h]
    BY <1>1, <1>3, <1>5, <2>2, CommitWrites
  <2> QED BY <2>1, <2>2
<1>6. ASSUME NEW r \in Runs, Finish(r) PROVE Met(q, e)'
  <2>1. SUFFICES ASSUME finish[r] = "complete", Stored(e), synced[e] < r, content'[e] = 0, e \notin Spoilt(q)'
                 PROVE  FALSE
    BY <1>1, <1>3, <1>6, FinishRemoves DEF Met, Stored
  <2>2. r \in 1..MaxRuns /\ q \in 1..MaxRuns /\ synced[e] \in 0..MaxRuns
    BY <1>1 DEF TypeOK, Runs
  <2>3. ~ r <= q
    BY <2>1, <2>2, BoundsAssumption DEF Met
  <2>4. q <= r /\ r <= Now
    BY <1>6, <2>2, <2>3, FinishRemoves, BoundsAssumption
  <2>5. e \in steady[r] /\ e \notin Spoilt(q)
    BY <1>1, <1>2, <2>1, <2>4 DEF Nested
  <2>6. e \in Due(r)
    BY <1>1, <1>2, <2>4, <2>5, SpoiltNests DEF Due
  <2> QED BY <2>1, <2>2, <2>6, BoundsAssumption DEF Reported, Met
<1> QED BY <1>1, <1>3, <1>4, <1>5, <1>6, StoreSteps

----------------------------------------------------------------------------
(* The walk.                                                               *)

\* What the agent knew stays so for files nobody touches or overtakes.
LEMMA KnownNext ==
    ASSUME TypeOK, TypeOK', RunsInOrder, RunsInOrder', Agent, Agent', Texts, Past, Past', Nested, Known, Sent, [Next]_vars
    PROVE  Known'
<1> USE BoundsAssumption, NamesAssumption DEF Runs, Busy
<1>0. Now \in 0..MaxRuns /\ Now' \in 0..MaxRuns
  BY NowIsLast
<1>00. (\A r \in Runs : run'[r] = "unused" <=> run[r] = "unused") => Now' = Now
  BY NowStays
<1>000. run' = run => Now' = Now
  BY <1>00
<1>m. (mine # 0 => mine = Now /\ mine \in Runs) /\ (mine' # 0 => mine' = Now' /\ mine' \in Runs)
  BY <1>0 DEF Agent, TypeOK
<1>1. ASSUME NEW d \in Docs, Change(d) PROVE Known'
  <2>1. \A r \in Runs : steady'[r] = steady[r] \ {d}
    BY <1>1 DEF Change
  <2>2. UNCHANGED <<content, named, state, mine, overtaken, outdated>> /\ \A e \in Docs : e # d => file'[e] = file[e]
    BY <1>1 DEF Change, TypeOK
  <2> QED BY <1>m, <2>1, <2>2 DEF Known, Stored, TypeOK
<1>2. ASSUME Ask PROVE Known'
  BY <1>2, <1>0, <1>000, <1>m DEF Ask, TypeOK, Agent, Known, Stored
<1>3. ASSUME StartRun PROVE Known'
  <2>1. mine' = Now + 1 /\ Now + 1 \in Runs /\ Now + 1 \in DOMAIN outdated
    BY <1>3, <1>0 DEF StartRun, TypeOK
  <2>2. outdated'[Now + 1] = {d \in Docs : Stored(d) /\ named[d] # state[d] /\ state[d] = file[d]}
    BY <1>3, <2>1 DEF StartRun
  <2>3. steady'[Now + 1] = Docs /\ UNCHANGED <<file, content, named, state>>
    BY <1>3, <2>1 DEF StartRun, TypeOK
  <2> QED BY <2>1, <2>2, <2>3 DEF Known, Stored
<1>4. ASSUME NEW d \in Docs, Confirm(d) PROVE Known'
  BY <1>4, <1>0, <1>000, <1>m DEF Confirm, Visit, TypeOK, Agent, Known, Stored
<1>5. ASSUME NEW d \in Docs, Upload(d) PROVE Known'
  BY <1>5, <1>0, <1>000, <1>m DEF Upload, Visit, BeginUpload, TypeOK, Agent, Known, Stored
<1>6. ASSUME NEW d \in Docs, UploadUnknown(d) PROVE Known'
  BY <1>6, <1>0, <1>000, <1>m DEF UploadUnknown, BeginUpload, TypeOK, Agent, Known, Stored
<1>7. ASSUME NEW d \in Docs, PassOver(d) PROVE Known'
  BY <1>7, <1>0, <1>000, <1>m DEF PassOver, Visit, TypeOK, Agent, Known, Stored
<1>8. ASSUME NEW d \in Docs, NoReaders(d) PROVE Known'
  BY <1>8, <1>0, <1>000, <1>m DEF NoReaders, Visit, TypeOK, Agent, Known, Stored
<1>9. ASSUME FolderFails PROVE Known'
  BY <1>9, <1>0, <1>000, <1>m DEF FolderFails, TypeOK, Agent, Known, Stored
<1>10. ASSUME Flush PROVE Known'
  BY <1>10, <1>0, <1>000, <1>m DEF Flush, TypeOK, Agent, Known, Stored
<1>11. ASSUME ReadFile PROVE Known'
  BY <1>11, <1>0, <1>000, <1>m DEF ReadFile, TypeOK, Agent, Known, Stored
<1>12. ASSUME ReadFails PROVE Known'
  BY <1>12, <1>0, <1>000, <1>m DEF ReadFails, EndUpload, TypeOK, Agent, Known, Stored
<1>13. ASSUME NEW h \in Handlers, Send(h) PROVE Known'
  BY <1>13, <1>0, <1>000, <1>m DEF Send, TypeOK, Agent, Known, Stored
<1>14. ASSUME Timeout PROVE Known'
  BY <1>14, <1>0, <1>000, <1>m DEF Timeout, TypeOK, Agent, Known, Stored
<1>15. ASSUME NEW h \in Handlers, Commit(h) PROVE Known'
  <2>1. UNCHANGED <<file, mine, state, steady, outdated>>
    BY <1>15, CommitWrites
  <2> SUFFICES ASSUME mine # 0, NEW d \in steady[mine] \ (overtaken'[mine] \cup outdated[mine]),
                      state[d] = file[d], content'[d] > 0
               PROVE  named'[d] = file[d]
    BY <2>1 DEF Known, Stored
  <2>2. d \in Docs /\ d \notin overtaken[mine] /\ mine <= Now
    <3>1. overtaken[mine] \subseteq overtaken'[mine] /\ steady[mine] \subseteq Docs
      <4>1. \A q \in Runs : overtaken[q] \subseteq overtaken'[q]
        BY <1>15, CommitWrites
      <4>2. \A q \in Runs : steady[q] \subseteq Docs
        BY DEF TypeOK
      <4> QED BY <1>m, <4>1, <4>2
    <3> QED BY <1>0, <1>m, <3>1
  <2>3. CASE d = doc[h]
    <3>1. of[h] = mine
      BY <1>15, <1>0, <1>m, <2>2, <2>3, OwnCommit
    <3> QED BY <1>15, <1>m, <2>2, <2>3, <3>1, OwnCommit
  <2>4. CASE d # doc[h]
    BY <1>15, <2>2, <2>4, CommitWrites DEF Known, Stored
  <2> QED BY <2>3, <2>4
<1>16. ASSUME NEW h \in Handlers, Conflict(h) PROVE Known'
  BY <1>16, <1>0, <1>000, <1>m DEF Conflict, Release, TypeOK, Agent, Known, Stored
<1>17. ASSUME NEW h \in Handlers, Reject(h) PROVE Known'
  BY <1>17, <1>0, <1>000, <1>m DEF Reject, Answer, EndUpload, Release, TypeOK, Agent, Known, Stored
<1>18. ASSUME EndWalk PROVE Known'
  BY <1>18, <1>0, <1>000, <1>m DEF EndWalk, TypeOK, Agent, Known, Stored
<1>19. ASSUME GiveUp PROVE Known'
  BY <1>19, <1>0, <1>000, <1>m DEF GiveUp, Forget, TypeOK, Agent, Known, Stored
<1>20. ASSUME Die PROVE Known'
  BY <1>20, <1>0, <1>000, <1>m DEF Die, Forget, TypeOK, Agent, Known, Stored
<1>21. ASSUME NEW r \in Runs, BeginFinish(r) PROVE Known'
  BY <1>21, <1>0, <1>000, <1>m DEF BeginFinish, TypeOK, Agent, Known, Stored
<1>22. ASSUME NEW r \in Runs, Finish(r) PROVE Known'
  <2>1. CASE mine' = 0
    BY <2>1 DEF Known
  <2>2. CASE mine' # 0
    <3>1. UNCHANGED <<file, mine, state, steady, overtaken, outdated>>
      BY <1>22, <2>2, FinishRemoves
    <3>2. \A d \in Docs : content'[d] > 0 => Stored(d) /\ named'[d] = named[d]
      BY <1>22, FinishRemoves DEF Stored
    <3> QED BY <1>m, <3>1, <3>2 DEF Known, Stored, TypeOK
  <2> QED BY <2>1, <2>2
<1>23. ASSUME NEW r \in Runs, FinishFails(r) PROVE Known'
  BY <1>23, <1>0, <1>000, <1>m DEF FinishFails, Finished, Forget, TypeOK, Agent, Known, Stored
<1>24. ASSUME UNCHANGED vars PROVE Known'
  BY <1>24, <1>0, <1>000, <1>m DEF vars, TypeOK, Agent, Known, Stored
<1> QED
  BY <1>1, <1>2, <1>3, <1>4, <1>5, <1>6, <1>7, <1>8, <1>9, <1>10, <1>11, <1>12, <1>13, <1>14, <1>15, <1>16, <1>17, <1>18, <1>19, <1>20, <1>21, <1>22, <1>23, <1>24
  DEF Next, Walk, Server

\* The agent confirms and sends the file's version.
LEMMA SentNext ==
    ASSUME TypeOK, TypeOK', RunsInOrder, RunsInOrder', Agent, Agent', Texts, Past, Past', Nested, Sent, [Next]_vars
    PROVE  Sent'
<1> USE BoundsAssumption, NamesAssumption DEF Runs, Busy
<1>0. Now \in 0..MaxRuns /\ Now' \in 0..MaxRuns
  BY NowIsLast
<1>00. (\A r \in Runs : run'[r] = "unused" <=> run[r] = "unused") => Now' = Now
  BY NowStays
<1>000. run' = run => Now' = Now
  BY <1>00
<1>m. (mine # 0 => mine = Now /\ mine \in Runs) /\ (mine' # 0 => mine' = Now' /\ mine' \in Runs)
  BY <1>0 DEF Agent, TypeOK
<1>1. ASSUME NEW d \in Docs, Change(d) PROVE Sent'
  <2>1. \A r \in Runs : steady'[r] = steady[r] \ {d}
    BY <1>1 DEF Change
  <2>2. UNCHANGED <<named, state, stat, upload, mine, skipped, overtaken, pending, unknown, doc, of, was, found, gave>>
        /\ \A e \in Docs : e # d => file'[e] = file[e]
    BY <1>1 DEF Change, TypeOK
  <2>3. \A h \in Handlers : Busy(h) => of[h] \in Runs
    BY <1>0 DEF Sent, TypeOK
  <2>4. \A r \in Runs : steady[r] \subseteq Docs
    BY DEF TypeOK
  <2> QED BY <1>m, <2>1, <2>2, <2>3, <2>4 DEF Sent
<1>2. ASSUME Ask PROVE Sent'
  BY <1>2, <1>0, <1>000, <1>m DEF Ask, TypeOK, Agent, Sent
<1>3. ASSUME StartRun PROVE Sent'
  <2>1. mine' = Now + 1 /\ Now + 1 \in Runs
    BY <1>3, <1>0 DEF StartRun
  <2>2. \A r \in Runs : r # Now + 1 => steady'[r] = steady[r]
    BY <1>3, <2>1 DEF StartRun, TypeOK
  <2>3. UNCHANGED <<file, named, doc, of, was, found, gave, overtaken>>
        /\ pending' = {} /\ unknown' = {} /\ upload' = NoDoc
    BY <1>3 DEF StartRun, Agent
  <2>4. \A h \in Handlers : Busy(h) => of[h] \in Runs /\ of[h] # Now + 1
    BY <1>0 DEF Past, Sent, TypeOK
  <2>5. \A r \in Runs : steady'[r] \subseteq Docs
    BY DEF TypeOK
  <2> QED BY <2>1, <2>2, <2>3, <2>4, <2>5 DEF Sent
<1>4. ASSUME NEW d \in Docs, Confirm(d) PROVE Sent'
  BY <1>4, <1>0, <1>000, <1>m DEF Confirm, Visit, TypeOK, Agent, Sent
<1>5. ASSUME NEW d \in Docs, Upload(d) PROVE Sent'
  BY <1>5, <1>0, <1>000, <1>m DEF Upload, Visit, BeginUpload, TypeOK, Agent, Sent
<1>6. ASSUME NEW d \in Docs, UploadUnknown(d) PROVE Sent'
  BY <1>6, <1>0, <1>000, <1>m DEF UploadUnknown, BeginUpload, TypeOK, Agent, Sent
<1>7. ASSUME NEW d \in Docs, PassOver(d) PROVE Sent'
  BY <1>7, <1>0, <1>000, <1>m DEF PassOver, Visit, TypeOK, Agent, Sent
<1>8. ASSUME NEW d \in Docs, NoReaders(d) PROVE Sent'
  BY <1>8, <1>0, <1>000, <1>m DEF NoReaders, Visit, TypeOK, Agent, Sent
<1>9. ASSUME FolderFails PROVE Sent'
  BY <1>9, <1>0, <1>000, <1>m DEF FolderFails, TypeOK, Agent, Sent
<1>10. ASSUME Flush PROVE Sent'
  BY <1>10, <1>0, <1>000, <1>m DEF Flush, TypeOK, Agent, Sent
<1>11. ASSUME ReadFile PROVE Sent'
  BY <1>11, <1>0, <1>000, <1>m DEF ReadFile, TypeOK, Agent, Sent
<1>12. ASSUME ReadFails PROVE Sent'
  BY <1>12, <1>0, <1>000, <1>m DEF ReadFails, EndUpload, TypeOK, Agent, Sent
<1>13. ASSUME NEW h \in Handlers, Send(h) PROVE Sent'
  <2>1. mine = Now /\ mine # 0 /\ upload \in Docs
    BY <1>13, <1>m DEF Send, Agent, TypeOK
  <2>2. \A g \in Handlers : g # h => /\ doc'[g] = doc[g] /\ of'[g] = of[g] /\ was'[g] = was[g]
                                     /\ found'[g] = found[g] /\ gave'[g] = gave[g]
    BY <1>13 DEF Send, TypeOK
  <2>3. doc'[h] = upload /\ of'[h] = Now /\ was'[h] = named[upload] /\ gave'[h] = stat
    BY <1>13 DEF Send, TypeOK
  <2>4. UNCHANGED <<file, named, state, stat, upload, mine, steady, skipped, overtaken, pending, unknown>>
    BY <1>13 DEF Send
  <2>5. \A g \in Handlers : Busy(g)' =>
          /\ of'[g] # 0
          /\ doc'[g] \in steady[of'[g]] =>
                /\ gave'[g] = file[doc'[g]]
                /\ doc'[g] \notin overtaken[of'[g]] /\ was'[g] = gave'[g] /\ found'[g] > 0
                      => named[doc'[g]] = gave'[g]
    <3> SUFFICES ASSUME NEW g \in Handlers, doc'[g] # NoDoc
                 PROVE  /\ of'[g] # 0
                        /\ doc'[g] \in steady[of'[g]] =>
                              /\ gave'[g] = file[doc'[g]]
                              /\ doc'[g] \notin overtaken[of'[g]] /\ was'[g] = gave'[g] /\ found'[g] > 0
                                    => named[doc'[g]] = gave'[g]
      OBVIOUS
    <3>1. CASE g = h
      BY <2>1, <2>3, <3>1 DEF Sent
    <3>2. CASE g # h
      BY <2>2, <3>2 DEF Sent
    <3> QED BY <3>1, <3>2
  <2> QED BY <2>4, <2>5 DEF Sent
<1>14. ASSUME Timeout PROVE Sent'
  BY <1>14, <1>0, <1>000, <1>m DEF Timeout, TypeOK, Agent, Sent
<1>15. ASSUME NEW h \in Handlers, Commit(h) PROVE Sent'
  <2>1. UNCHANGED <<file, state, mine, steady, skipped, pending, unknown>>
        /\ ((upload' = upload /\ stat' = stat) \/ upload' = NoDoc)
    BY <1>15, CommitWrites DEF Commit, Answer, EndUpload
  <2>2. ASSUME NEW g \in Handlers, Busy(g)'
        PROVE  /\ of'[g] # 0
               /\ doc'[g] \in steady[of'[g]] =>
                     /\ gave'[g] = file[doc'[g]]
                     /\ doc'[g] \notin overtaken'[of'[g]] /\ was'[g] = gave'[g] /\ found'[g] > 0
                           => named'[doc'[g]] = gave'[g]
    <3>1. g # h
      BY <1>15, <2>2, CommitWrites
    <3>2. /\ doc'[g] = doc[g] /\ of'[g] = of[g] /\ was'[g] = was[g] /\ gave'[g] = gave[g]
          /\ found'[g] = found[g] /\ Busy(g)
      BY <1>15, <2>2, <3>1, CommitWrites
    <3>3. of[g] \in Runs /\ of[g] <= Now /\ doc[g] \in Docs
      BY <1>0, <3>2 DEF Sent, Past, TypeOK
    <3>4. ASSUME doc[g] \in steady[of[g]], doc[g] \notin overtaken'[of[g]], was[g] = gave[g], found[g] > 0
          PROVE  named'[doc[g]] = gave[g]
      <4>1. named[doc[g]] = gave[g] /\ gave[g] = file[doc[g]]
        BY <1>15, <3>2, <3>3, <3>4, CommitWrites DEF Sent
      <4>2. CASE doc[g] # doc[h]
        BY <1>15, <3>3, <4>1, <4>2, CommitWrites
      <4>3. CASE doc[g] = doc[h]
        <5>1. gave[h] = file[doc[h]]
          BY <1>15, <3>3, <3>4, <4>3, OwnCommit
        <5> QED BY <1>15, <4>1, <4>3, <5>1, CommitWrites
      <4> QED BY <4>2, <4>3
    <3> QED BY <3>2, <3>4 DEF Sent
  <2> QED BY <1>m, <2>1, <2>2 DEF Sent, TypeOK
<1>16. ASSUME NEW h \in Handlers, Conflict(h) PROVE Sent'
  BY <1>16, <1>0, <1>000, <1>m DEF Conflict, Release, TypeOK, Agent, Sent
<1>17. ASSUME NEW h \in Handlers, Reject(h) PROVE Sent'
  BY <1>17, <1>0, <1>000, <1>m DEF Reject, Answer, EndUpload, Release, TypeOK, Agent, Sent
<1>18. ASSUME EndWalk PROVE Sent'
  BY <1>18, <1>0, <1>000, <1>m DEF EndWalk, TypeOK, Agent, Sent
<1>19. ASSUME GiveUp PROVE Sent'
  BY <1>19, <1>0, <1>000, <1>m DEF GiveUp, Forget, TypeOK, Agent, Sent
<1>20. ASSUME Die PROVE Sent'
  BY <1>20, <1>0, <1>000, <1>m DEF Die, Forget, TypeOK, Agent, Sent
<1>21. ASSUME NEW r \in Runs, BeginFinish(r) PROVE Sent'
  BY <1>21, <1>0, <1>000, <1>m DEF BeginFinish, TypeOK, Agent, Sent
<1>22. ASSUME NEW r \in Runs, Finish(r) PROVE Sent'
  <2>1. \/ mine' = 0
        \/ UNCHANGED <<state, mine, pending, unknown, upload, stat>>
    BY <1>22, FinishRemoves
  <2>2. UNCHANGED <<file, doc, of, was, gave, steady, skipped, overtaken>>
    BY <1>22, FinishRemoves
  <2>3. \A h \in Handlers : Busy(h) /\ found'[h] > 0 => found'[h] = found[h] /\ named'[doc[h]] = named[doc[h]]
    BY <1>22, FinishRemoves
  <2> QED BY <2>1, <2>2, <2>3 DEF Sent
<1>23. ASSUME NEW r \in Runs, FinishFails(r) PROVE Sent'
  BY <1>23, <1>0, <1>000, <1>m DEF FinishFails, Finished, Forget, TypeOK, Agent, Sent
<1>24. ASSUME UNCHANGED vars PROVE Sent'
  BY <1>24, <1>0, <1>000, <1>m DEF vars, TypeOK, Agent, Sent
<1> QED
  BY <1>1, <1>2, <1>3, <1>4, <1>5, <1>6, <1>7, <1>8, <1>9, <1>10, <1>11, <1>12, <1>13, <1>14, <1>15, <1>16, <1>17, <1>18, <1>19, <1>20, <1>21, <1>22, <1>23, <1>24
  DEF Next, Walk, Server

\* A file that is gone is not touched by the run.
LEMMA AbsentNext ==
    ASSUME TypeOK, TypeOK', RunsInOrder, RunsInOrder', Agent, Agent', Texts, Past, Past', Nested, Absent, Sent, [Next]_vars
    PROVE  Absent'
<1> USE BoundsAssumption, NamesAssumption DEF Runs, Busy
<1>0. Now \in 0..MaxRuns /\ Now' \in 0..MaxRuns
  BY NowIsLast
<1>00. (\A r \in Runs : run'[r] = "unused" <=> run[r] = "unused") => Now' = Now
  BY NowStays
<1>000. run' = run => Now' = Now
  BY <1>00
<1>m. (mine # 0 => mine = Now /\ mine \in Runs) /\ (mine' # 0 => mine' = Now' /\ mine' \in Runs)
  BY <1>0 DEF Agent, TypeOK
<1>1. ASSUME NEW d \in Docs, Change(d) PROVE Absent'
  <2>1. \A r \in Runs : steady'[r] = steady[r] \ {d}
    BY <1>1 DEF Change
  <2>2. UNCHANGED <<mine, visited, synced, run>> /\ \A e \in Docs : e # d => file'[e] = file[e]
    BY <1>1 DEF Change, TypeOK
  <2>4. \A r \in Runs : steady[r] \subseteq Docs
    BY DEF TypeOK
  <2> QED BY <1>m, <1>000, <2>1, <2>2, <2>4 DEF Absent
<1>2. ASSUME Ask PROVE Absent'
  BY <1>2, <1>0, <1>000, <1>m DEF Ask, TypeOK, Agent, Absent
<1>3. ASSUME StartRun PROVE Absent'
  <2>1. mine' = Now + 1 /\ Now + 1 \in Runs /\ Now' = Now + 1 /\ visited' = {}
    BY <1>3, <1>0, NowStarts DEF StartRun, Agent
  <2>2. \A r \in Runs : r # Now + 1 => steady'[r] = steady[r]
    BY <1>3, <2>1 DEF StartRun, TypeOK
  <2>3. steady'[Now + 1] \subseteq Docs
    BY <2>1 DEF TypeOK
  <2>4. \A d \in Docs : synced[d] < Now + 1
    BY <1>0 DEF Past, TypeOK
  <2>5. file' = file /\ synced' = synced
    BY <1>3 DEF StartRun
  <2> QED BY <1>0, <2>1, <2>2, <2>3, <2>4, <2>5 DEF Absent
<1>4. ASSUME NEW d \in Docs, Confirm(d) PROVE Absent'
  BY <1>4, <1>0, <1>000, <1>m DEF Confirm, Visit, TypeOK, Agent, Absent
<1>5. ASSUME NEW d \in Docs, Upload(d) PROVE Absent'
  BY <1>5, <1>0, <1>000, <1>m DEF Upload, Visit, BeginUpload, TypeOK, Agent, Absent
<1>6. ASSUME NEW d \in Docs, UploadUnknown(d) PROVE Absent'
  BY <1>6, <1>0, <1>000, <1>m DEF UploadUnknown, BeginUpload, TypeOK, Agent, Absent
<1>7. ASSUME NEW d \in Docs, PassOver(d) PROVE Absent'
  BY <1>7, <1>0, <1>000, <1>m DEF PassOver, Visit, TypeOK, Agent, Absent
<1>8. ASSUME NEW d \in Docs, NoReaders(d) PROVE Absent'
  BY <1>8, <1>0, <1>000, <1>m DEF NoReaders, Visit, TypeOK, Agent, Absent
<1>9. ASSUME FolderFails PROVE Absent'
  BY <1>9, <1>0, <1>000, <1>m DEF FolderFails, TypeOK, Agent, Absent
<1>10. ASSUME Flush PROVE Absent'
  <2>1. Now' = Now /\ mine = Now /\ mine \in Runs
    BY <1>10, <1>000, <1>m DEF Flush, Agent
  <2>2. \A d \in Docs : synced'[d] = synced[d] \/ d \in visited
    BY <1>10 DEF Flush, Agent
  <2>3. UNCHANGED <<file, mine, visited, steady>>
    BY <1>10 DEF Flush
  <2>4. \A r \in Runs : r <= Now => steady[r] \subseteq steady[mine] /\ steady[r] \subseteq Docs
    BY <2>1 DEF Nested, TypeOK
  <2> QED BY <2>1, <2>2, <2>3, <2>4 DEF Absent
<1>11. ASSUME ReadFile PROVE Absent'
  BY <1>11, <1>0, <1>000, <1>m DEF ReadFile, TypeOK, Agent, Absent
<1>12. ASSUME ReadFails PROVE Absent'
  BY <1>12, <1>0, <1>000, <1>m DEF ReadFails, EndUpload, TypeOK, Agent, Absent
<1>13. ASSUME NEW h \in Handlers, Send(h) PROVE Absent'
  BY <1>13, <1>0, <1>000, <1>m DEF Send, TypeOK, Agent, Absent
<1>14. ASSUME Timeout PROVE Absent'
  BY <1>14, <1>0, <1>000, <1>m DEF Timeout, TypeOK, Agent, Absent
<1>15. ASSUME NEW h \in Handlers, Commit(h) PROVE Absent'
  <2>1. UNCHANGED <<file, mine, visited, steady>> /\ Now' = Now
    BY <1>15, <1>000, CommitWrites
  <2>2. ASSUME NEW r \in Runs, r <= Now, NEW d \in steady[r], file[d] = 0 PROVE synced'[d] < r
    <3>1. d \in Docs /\ synced[d] < r
      BY <2>2 DEF Absent, TypeOK
    <3>2. CASE d # doc[h]
      BY <1>15, <3>1, <3>2, CommitWrites
    <3>3. CASE d = doc[h]
      <4>1. d \in overtaken'[r]
        BY <1>15, <2>2, <3>3, OwnCommit
      <4>2. synced'[d] = of[h] /\ of[h] \in 0..MaxRuns
        BY <1>15, <3>3, CommitWrites DEF TypeOK
      <4>3. ASSUME r <= of[h] PROVE FALSE
        <5>1. of[h] \in Runs /\ of[h] <= Now
          BY <2>2, <4>2, <4>3 DEF Past
        <5>2. doc[h] \in steady[of[h]]
          BY <2>2, <3>3, <4>3, <5>1 DEF Nested
        <5> QED BY <1>15, <2>2, <3>3, <5>2, CommitWrites DEF Sent
      <4> QED BY <4>2, <4>3
    <3> QED BY <3>2, <3>3
  <2> QED BY <2>1, <2>2 DEF Absent
<1>16. ASSUME NEW h \in Handlers, Conflict(h) PROVE Absent'
  BY <1>16, <1>0, <1>000, <1>m DEF Conflict, Release, TypeOK, Agent, Absent
<1>17. ASSUME NEW h \in Handlers, Reject(h) PROVE Absent'
  BY <1>17, <1>0, <1>000, <1>m DEF Reject, Answer, EndUpload, Release, TypeOK, Agent, Absent
<1>18. ASSUME EndWalk PROVE Absent'
  BY <1>18, <1>0, <1>000, <1>m DEF EndWalk, TypeOK, Agent, Absent
<1>19. ASSUME GiveUp PROVE Absent'
  BY <1>19, <1>0, <1>000, <1>m DEF GiveUp, Forget, TypeOK, Agent, Absent
<1>20. ASSUME Die PROVE Absent'
  BY <1>20, <1>0, <1>000, <1>m DEF Die, Forget, TypeOK, Agent, Absent
<1>21. ASSUME NEW r \in Runs, BeginFinish(r) PROVE Absent'
  BY <1>21, <1>0, <1>000, <1>m DEF BeginFinish, TypeOK, Agent, Absent
<1>22. ASSUME NEW r \in Runs, Finish(r) PROVE Absent'
  <2>1. Now' = Now
    BY <1>22, <1>0, <1>00, FinishRemoves, NowIsLast
  <2>2. UNCHANGED <<file, steady>> /\ (mine' = 0 \/ UNCHANGED <<mine, visited>>)
    BY <1>22, FinishRemoves
  <2>3. \A d \in Docs : synced'[d] = synced[d] \/ synced'[d] = 0
    BY <1>22, FinishRemoves
  <2>4. \A q \in Runs : steady[q] \subseteq Docs
    BY DEF TypeOK
  <2> QED BY <2>1, <2>2, <2>3, <2>4 DEF Absent
<1>23. ASSUME NEW r \in Runs, FinishFails(r) PROVE Absent'
  BY <1>23, <1>0, <1>000, <1>m DEF FinishFails, Finished, Forget, TypeOK, Agent, Absent
<1>24. ASSUME UNCHANGED vars PROVE Absent'
  BY <1>24, <1>0, <1>000, <1>m DEF vars, TypeOK, Agent, Absent
<1> QED
  BY <1>1, <1>2, <1>3, <1>4, <1>5, <1>6, <1>7, <1>8, <1>9, <1>10, <1>11, <1>12, <1>13, <1>14, <1>15, <1>16, <1>17, <1>18, <1>19, <1>20, <1>21, <1>22, <1>23, <1>24
  DEF Next, Walk, Server

\* Every file the walk has met is being dealt with or recorded.
LEMMA WalkedNext ==
    ASSUME TypeOK, TypeOK', RunsInOrder, RunsInOrder', Agent, Agent', Texts, Past, Past', Nested, Awaited, Known, Sent, Reported, Walked, Grows, [Next]_vars
    PROVE  Walked'
<1> USE BoundsAssumption, NamesAssumption DEF Runs, Busy
<1>0. Now \in 0..MaxRuns /\ Now' \in 0..MaxRuns
  BY NowIsLast
<1>00. (\A r \in Runs : run'[r] = "unused" <=> run[r] = "unused") => Now' = Now
  BY NowStays
<1>000. run' = run => Now' = Now
  BY <1>00
<1>m. (mine # 0 => mine = Now /\ mine \in Runs) /\ (mine' # 0 => mine' = Now' /\ mine' \in Runs)
  BY <1>0 DEF Agent, TypeOK
<1>j. ASSUME NEW q \in Runs, q <= Now, NEW d \in Due(q)'
      PROVE  /\ d \in Due(q) /\ d \in Docs /\ d \notin skipped'[q] /\ d \notin overtaken'[q]
             /\ d \in steady[q] /\ d \in steady'[q] /\ d \notin skipped[q] /\ d \notin overtaken[q]
             /\ file[d] > 0 /\ (Met(q, d) => Met(q, d)')
  <2>1. d \in Due(q) /\ d \in Docs /\ file'[d] = file[d] /\ (Met(q, d) => Met(q, d)')
    BY <1>j, DueShrinks, MetKept
  <2> QED BY <1>j, <2>1 DEF Due
<1>k. ASSUME mine # 0, mine' = mine, NEW d \in Due(mine)'
      PROVE  /\ d \in Due(mine) /\ d \in Docs /\ d \notin skipped'[mine] /\ d \notin overtaken'[mine]
             /\ d \in steady[mine] /\ d \in steady'[mine] /\ d \notin skipped[mine] /\ d \notin overtaken[mine]
             /\ file[d] > 0 /\ (Met(mine, d) => Met(mine, d)')
  BY <1>0, <1>m, <1>j, <1>k
<1>1. ASSUME NEW d \in Docs, Change(d) PROVE Walked'
  <2>1. UNCHANGED <<mine, visited, pending, unknown, upload, whole>> /\ owed' = owed \ {d}
    BY <1>1 DEF Change
  <2>2. \A r \in Runs : d \notin steady'[r]
    BY <1>1 DEF Change
  <2> QED BY <1>k, <1>m, <2>1, <2>2 DEF Walked
<1>2. ASSUME Ask PROVE Walked'
  BY <1>2, <1>k, <1>m DEF Ask, Agent, Walked
<1>3. ASSUME StartRun PROVE Walked'
  <2>1. mine' = Now + 1 /\ visited' = {} /\ file' = file /\ owed' = {d \in Docs : file[d] > 0}
    BY <1>3 DEF StartRun, Agent
  <2>2. \A d \in Due(mine)' : d \in Docs /\ file[d] > 0
    BY <1>0, <1>m, <2>1 DEF Due, TypeOK
  <2> QED BY <2>1, <2>2 DEF Walked
<1>4. ASSUME NEW d \in Docs, Confirm(d) PROVE Walked'
  BY <1>4, <1>k, <1>m DEF Confirm, Visit, Agent, Walked
<1>5. ASSUME NEW d \in Docs, Upload(d) PROVE Walked'
  BY <1>5, <1>k, <1>m DEF Upload, Visit, BeginUpload, Agent, Walked
<1>6. ASSUME NEW d \in Docs, UploadUnknown(d) PROVE Walked'
  BY <1>6, <1>k, <1>m DEF UploadUnknown, BeginUpload, Agent, Walked
<1>7. ASSUME NEW d \in Docs, PassOver(d) PROVE Walked'
  BY <1>7, <1>k, <1>m DEF PassOver, Visit, TypeOK, Agent, Walked
<1>8. ASSUME NEW d \in Docs, NoReaders(d) PROVE Walked'
  BY <1>8, <1>k, <1>m DEF NoReaders, Visit, TypeOK, Agent, Walked
<1>9. ASSUME FolderFails PROVE Walked'
  BY <1>9, <1>k, <1>m DEF FolderFails, Agent, Walked
<1>10. ASSUME Flush PROVE Walked'
  <2>1. mine = Now /\ mine \in Runs /\ mine # 0
    BY <1>10, <1>m DEF Flush, Agent
  <2>2. UNCHANGED <<mine, visited, owed, upload, whole, file, content, named, skipped, overtaken, outdated>>
        /\ unknown' = unknown \cup {d \in pending \ skipped[mine] : ~Stored(d)}
    BY <1>10 DEF Flush
  <2>3. ASSUME NEW d \in Due(mine)', d \in pending, Stored(d) PROVE Met(mine, d)'
    <3>1. d \in Docs /\ synced'[d] = Now
      BY <1>10, <1>k, <2>1, <2>3 DEF Flush, TypeOK
    <3>2. d \notin outdated[mine] => named[d] = file[d]
      <4>1. d \in steady[mine] \ (skipped[mine] \cup overtaken[mine])
        BY <1>k, <2>1, <2>2, <2>3
      <4>2. state[d] = file[d]
        BY <2>1, <2>3, <4>1 DEF Sent
      <4> QED BY <2>1, <2>3, <4>1, <4>2 DEF Known
    <3>3. d \notin Spoilt(mine)' => d \notin outdated[mine]
      BY <2>1, <2>2, <3>1, SpoiltNests
    <3>4. mine = mine' /\ synced'[d] >= mine
      BY <1>0, <2>1, <2>2, <3>1
    <3> QED BY <2>2, <2>3, <3>2, <3>3, <3>4 DEF Met, Stored
  <2> QED BY <1>k, <2>1, <2>2, <2>3 DEF Walked
<1>11. ASSUME ReadFile PROVE Walked'
  BY <1>11, <1>k, <1>m DEF ReadFile, Agent, Walked
<1>12. ASSUME ReadFails PROVE Walked'
  <2>1. UNCHANGED <<mine, visited, owed, pending, unknown>>
    BY <1>12 DEF ReadFails
  <2>2. (whole' = whole \/ ~whole') /\ (~whole' \/ (mine # 0 => upload \in skipped'[mine]))
    BY <1>12, <1>m DEF ReadFails, TypeOK
  <2> QED BY <1>k, <1>m, <2>1, <2>2 DEF Walked
<1>13. ASSUME NEW h \in Handlers, Send(h) PROVE Walked'
  BY <1>13, <1>k, <1>m DEF Send, Agent, Walked
<1>14. ASSUME Timeout PROVE Walked'
  BY <1>14, <1>k, <1>m DEF Timeout, Agent, Walked
<1>15. ASSUME NEW h \in Handlers, Commit(h) PROVE Walked'
  <2>1. UNCHANGED <<mine, visited, owed, pending, unknown, whole>> /\ (upload' = upload \/ upload = doc[h])
    BY <1>15, CommitWrites DEF Commit, Answer, EndUpload, Awaited
  <2>2. ASSUME NEW d \in Due(mine)', mine # 0, d = doc[h] PROVE Met(mine, d)'
    <3>1. mine \in Runs /\ mine <= Now /\ d \in Docs /\ d \in steady[mine] /\ d \notin overtaken'[mine]
      BY <1>0, <1>k, <1>m, <2>1, <2>2
    <3>2. \A q \in Runs : q = mine => Met(q, d)'
      BY <1>15, <2>2, <3>1, CommitMeets
    <3> QED BY <2>1, <3>1, <3>2
  <2> QED BY <1>k, <1>m, <2>1, <2>2 DEF Walked
<1>16. ASSUME NEW h \in Handlers, Conflict(h) PROVE Walked'
  BY <1>16, <1>k, <1>m DEF Conflict, Release, Agent, Walked
<1>17. ASSUME NEW h \in Handlers, Reject(h) PROVE Walked'
  <2>1. UNCHANGED <<mine, visited, owed, pending, unknown, whole>>
    BY <1>17 DEF Reject
  <2>2. upload' = upload \/ (mine # 0 => upload \in skipped'[mine])
    BY <1>17, <1>m DEF Reject, Answer, EndUpload, Awaited, TypeOK
  <2> QED BY <1>k, <1>m, <2>1, <2>2 DEF Walked
<1>18. ASSUME EndWalk PROVE Walked'
  BY <1>18, <1>k, <1>m DEF EndWalk, Agent, Walked
<1>19. ASSUME GiveUp PROVE Walked'
  BY <1>19, <1>k, <1>m DEF GiveUp, Forget, Agent, Walked
<1>20. ASSUME Die PROVE Walked'
  BY <1>20, <1>k, <1>m DEF Die, Forget, Agent, Walked
<1>21. ASSUME NEW r \in Runs, BeginFinish(r) PROVE Walked'
  BY <1>21, <1>k, <1>m DEF BeginFinish, Agent, Walked
<1>22. ASSUME NEW r \in Runs, Finish(r) PROVE Walked'
  BY <1>22, <1>k, <1>m, FinishRemoves DEF Walked
<1>23. ASSUME NEW r \in Runs, FinishFails(r) PROVE Walked'
  BY <1>23, <1>k, <1>m DEF FinishFails, Finished, Forget, Agent, Walked
<1>24. ASSUME UNCHANGED vars PROVE Walked'
  BY <1>24, <1>k, <1>m DEF vars, Agent, Walked
<1> QED
  BY <1>1, <1>2, <1>3, <1>4, <1>5, <1>6, <1>7, <1>8, <1>9, <1>10, <1>11, <1>12, <1>13, <1>14, <1>15, <1>16, <1>17, <1>18, <1>19, <1>20, <1>21, <1>22, <1>23, <1>24
  DEF Next, Walk, Server

\* A complete report finds every file recorded, and goes on to while others end or begin.
LEMMA ReportedNext ==
    ASSUME TypeOK, TypeOK', RunsInOrder, RunsInOrder', Agent, Texts, Past, Nested, Sent, Walked, Reported,
           Grows, [Next]_vars
    PROVE  Reported'
<1> SUFFICES ASSUME NEW q \in Runs, finish'[q] = "complete", NEW e \in Due(q)'
             PROVE  Met(q, e)'
  BY DEF Reported
<1>0. Now \in 0..MaxRuns
  BY NowIsLast
<1>1. CASE finish[q] = "complete"
  <2>1. q <= Now
    BY <1>1 DEF Past
  <2> QED BY <1>1, <2>1, DueShrinks, MetKept DEF Reported
<1>2. CASE finish[q] # "complete"
  <2>1. EndWalk /\ q = mine /\ whole
    <3>1. finish' # finish /\ ~GiveUp
      BY <1>2 DEF GiveUp, TypeOK
    <3>2. ASSUME NEW r \in Runs, Finish(r) \/ FinishFails(r) PROVE FALSE
      BY <1>2, <3>2 DEF Finish, EndFinish, FinishFails, TypeOK
    <3>3. EndWalk
      BY <3>1, <3>2 DEF Next, Walk, Server, vars, Change, Ask, StartRun, Confirm, Upload, UploadUnknown,
        BeginUpload, PassOver, NoReaders, FolderFails, Flush, ReadFile, ReadFails, Send, Timeout,
        Commit, Conflict, Reject, Die, BeginFinish
    <3> QED BY <1>2, <3>3 DEF EndWalk, TypeOK
  <2>2. q = Now /\ q # 0 /\ pending = {} /\ unknown = {} /\ upload = NoDoc /\ owed \subseteq visited
    BY <2>1 DEF EndWalk, Agent
  <2>3. q <= Now /\ e \in Due(q) /\ e \in Docs
    BY <1>0, <2>2, DueShrinks
  <2>4. Met(q, e)
    BY <2>1, <2>2, <2>3, NamesAssumption DEF Walked
  <2> QED BY <2>3, <2>4, MetKept
<1> QED BY <1>1, <1>2

----------------------------------------------------------------------------
(* The theorems.                                                           *)

\* The invariant holds at first,
LEMMA InitHolds ==
    Init => AgentInv
<1> SUFFICES ASSUME Init PROVE AgentInv
  OBVIOUS
<1> USE NamesAssumption, BoundsAssumption DEF Init, None, Versions, Runs, Stored, Busy
<1>1. \A r \in Runs : run[r] = "unused"
  OBVIOUS
<1>2. RunsInOrder
  <2>1. 0 \in 0..MaxRuns /\ \A r \in Runs : run[r] # "unused" <=> r <= 0
    BY <1>1
  <2> QED BY <2>1 DEF RunsInOrder
<1>3. Now = 0
  BY DEF Now
<1>4. TypeOK
  <2>1. StoreType
    <3>1. {0, 1} \subseteq Versions /\ 0 \in 0..MaxChanges /\ 0 \in 0..MaxRuns
      OBVIOUS
    <3>2. file \in [Docs -> {0, 1}] /\ text = file /\ named \in [Docs -> {0, 1}] /\ content = named
      OBVIOUS
    <3>3. [Docs -> {0, 1}] \subseteq [Docs -> Versions]
      BY <3>1
    <3> QED BY <3>1, <3>2, <3>3 DEF StoreType
  <2>2. WalkType
    BY DEF WalkType
  <2>3. HandlerType /\ HistoryType
    BY DEF HandlerType, HistoryType
  <2> QED BY <2>1, <2>2, <2>3, TypeParts
<1>5. Agent /\ Awaited /\ Past /\ Nested
  BY <1>3 DEF Agent, Awaited, Past, Nested
<1>6. VersionsPast /\ Texts
  BY DEF VersionsPast, Texts, VersionTellsText
<1>7. Known /\ Sent /\ Absent /\ Walked /\ Reported
  BY <1>3 DEF Known, Sent, Absent, Walked, Reported
<1> QED BY <1>2, <1>4, <1>5, <1>6, <1>7 DEF AgentInv

\* ... is kept by every step,
LEMMA InvNext ==
    AgentInv /\ [Next]_vars => AgentInv'
<1> SUFFICES ASSUME AgentInv, [Next]_vars PROVE AgentInv'
  OBVIOUS
<1> USE DEF AgentInv
<1>1. RunsInOrder' /\ TypeOK'
  BY OrderNext, TypesNext
<1>2. Agent' /\ Past' /\ Nested' /\ VersionsPast' /\ Texts' /\ Awaited'
  BY <1>1, AgentNext, PastNext, NestedNext, VersionsPastNext, TextsNext, AwaitedNext
<1>3. Grows
  BY <1>1, <1>2, GrowsNext
<1>4. Known' /\ Sent' /\ Absent'
  BY <1>1, <1>2, KnownNext, SentNext, AbsentNext
<1>5. Walked' /\ Reported'
  BY <1>1, <1>2, <1>3, WalkedNext, ReportedNext
<1> QED BY <1>1, <1>2, <1>4, <1>5

\* ... and so holds always.
LEMMA Invariant ==
    Spec => []AgentInv
  BY InitHolds, InvNext, PTL DEF Spec

\* put_document keeps no document in an old text under the version of a new one,
\* whatever the handlers and the changes of the files do in between, except where
\* store_document has written the version alone beside another request's text.
THEOREM MaterialsSoundAlways ==
    Spec => []MaterialsSound
<1>1. AgentInv => MaterialsSound
  BY DEF AgentInv, Texts, MaterialsSound
<1> QED BY <1>1, Invariant, PTL

\* The step in which a finish commits.
LEMMA OnlyFinishEnds ==
    ASSUME AgentInv, [Next]_vars, NEW r \in Runs, Finishes(r) PROVE Finish(r)
<1>1. r \in checked /\ checked' = checked \ {r} /\ run'[r] = "finished" /\ run[r] # "finished"
  BY DEF Finishes, AgentInv, Past
<1>2. ASSUME NEW q \in Runs, BeginFinish(q) PROVE FALSE
  BY <1>1, <1>2 DEF BeginFinish
<1>3. ASSUME NEW q \in Runs, FinishFails(q) PROVE FALSE
  BY <1>1, <1>3 DEF FinishFails
<1>4. ASSUME NEW q \in Runs, Finish(q) PROVE q = r
  BY <1>1, <1>4 DEF Finish, EndFinish
<1>5. checked' # checked
  BY <1>1
<1> QED BY <1>2, <1>3, <1>4, <1>5 DEF Next, Walk, Server, vars, Change, Ask, StartRun, Confirm, Upload,
        UploadUnknown, BeginUpload, PassOver, NoReaders, FolderFails, Flush, ReadFile, ReadFails, Send,
        Timeout, Commit, Conflict, Reject, EndWalk, GiveUp, Die

\* What a complete finish leaves of a file its walk answers for.
LEMMA FinishMirrors ==
    ASSUME AgentInv, [Next]_vars, NEW r \in Runs, Finishes(r), finish[r] = "complete",
           NEW d \in steady[r] \ (Spoilt(r) \cup mixed)
    PROVE  content'[d] = text[d]
<1> USE DEF AgentInv
<1>1. Finish(r) /\ r <= Now /\ d \in Docs
  BY OnlyFinishEnds, FinishRemoves DEF TypeOK
<1>2. d \notin skipped[r] \cup overtaken[r]
  BY <1>1, SpoiltNests, BoundsAssumption DEF Runs
<1>3. CASE file[d] > 0
  <2>1. Stored(d) /\ named[d] = file[d] /\ synced[d] >= r
    BY <1>1, <1>2, <1>3 DEF Reported, Due, Met
  <2>2. content[d] = text[d]
    BY <1>1, <2>1 DEF Texts, VersionTellsText
  <2> QED BY <1>1, <2>1, <2>2, FinishRemoves, BoundsAssumption DEF TypeOK, Runs
<1>4. CASE file[d] = 0
  <2>1. text[d] = 0 /\ synced[d] < r
    BY <1>1, <1>4, BoundsAssumption DEF Texts, Absent, TypeOK, Versions
  <2>2. content'[d] = IF Stored(d) THEN 0 ELSE content[d]
    BY <1>1, <2>1 DEF Finish, Remove, Untouched
  <2> QED BY <1>1, <2>1, <2>2, BoundsAssumption DEF Stored, TypeOK, Versions
<1> QED BY <1>1, <1>3, <1>4, BoundsAssumption DEF TypeOK, Versions

\* A run of the agent finished as complete leaves the connector's documents as the
\* files are, also when a new run has begun since its finish was let in: those nobody
\* touched since, unless they are spoilt (passed over, overtaken by a request of an
\* earlier run, or taken back by one) or mixed.
THEOREM MirrorsFilesAlways ==
    Spec => MirrorsFiles
<1>1. AgentInv /\ [Next]_vars =>
        [\A r \in Runs :
            Finishes(r) /\ finish[r] = "complete" =>
               \A d \in steady[r] \ (Spoilt(r) \cup mixed) : content'[d] = text[d]]_vars
  BY FinishMirrors
<1> QED BY <1>1, Invariant, PTL DEF Spec, MirrorsFiles

\* A document is removed by the finish of a complete walk only.
LEMMA OnlyFinishRemoves ==
    ASSUME AgentInv, [Next]_vars, NEW d \in Docs, Stored(d), ~Stored(d)'
    PROVE  \E r \in Runs :
              /\ Finishes(r) /\ finish[r] = "complete"
              /\ file[d] = 0 \/ d \notin steady[r] \/ d \in skipped[r] \cup overtaken[r]
<1> USE DEF AgentInv
<1>1. PICK r \in Runs : Finish(r)
  <2>1. ASSUME NEW h \in Handlers, Commit(h) PROVE FALSE
    BY <2>1, CommitWrites DEF TypeOK, Stored
  <2>2. content' # content
    BY DEF Stored
  <2>3. ~Flush
    BY <2>2 DEF Flush
  <2> QED BY <2>1, <2>2, <2>3, StoreSteps
<1>2. finish[r] = "complete" /\ synced[d] < r
  BY <1>1, FinishRemoves DEF Stored
<1>3. Finishes(r)
  BY <1>1, FinishRemoves DEF Finishes
<1>4. ASSUME file[d] # 0, d \in steady[r] \ (skipped[r] \cup overtaken[r]) PROVE FALSE
  <2>1. d \in Due(r)
    BY <1>4, BoundsAssumption DEF Due, TypeOK, Versions
  <2> QED BY <1>2, <2>1, BoundsAssumption DEF Reported, Met, TypeOK, Runs
<1> QED BY <1>2, <1>3, <1>4

\* delete_by_connector_synced_before removes no file that is there, for a walk that
\* was interrupted or one that a new run has closed; except a file that was changed or
\* passed over since the run began, or overtaken by a request of an earlier run.
THEOREM RemovedIfAbsentAlways ==
    Spec => RemovedIfAbsent
<1>1. AgentInv /\ [Next]_vars =>
        [\A d \in Docs :
            Stored(d) /\ ~Stored(d)' =>
               \E r \in Runs :
                  /\ Finishes(r) /\ finish[r] = "complete"
                  /\ file[d] = 0 \/ d \notin steady[r] \/ d \in skipped[r] \cup overtaken[r]]_vars
  BY OnlyFinishRemoves
<1> QED BY <1>1, Invariant, PTL DEF Spec, RemovedIfAbsent
=============================================================================
