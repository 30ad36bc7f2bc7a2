------------------------- MODULE IngestQueueProofs -------------------------
(***************************************************************************)
(* What IngestQueue guarantees for any number of documents, jobs, workers, *)
(* versions and crashes, with workers that overtake each other.            *)
(***************************************************************************)
EXTENDS IngestQueue, TLAPS

\* A row has a document once it is used, and the document lives until the
\* row is deleted with it.
RowsHaveMaterial ==
    \A j \in Jobs : /\ jobStatus[j] # "unused" => target[j] \in Materials
                    /\ jobStatus[j] \in IngestJobStatus => Exists(target[j])
                    /\ jobStatus[j] = "deleted" => status[target[j]] = "deleted"

\* A worker that is working holds a row it has claimed.
HoldersHaveRow ==
    \A w \in Workers : Working(w) => held[w] \in Jobs /\ jobStatus[held[w]] # "unused"

IndexInv == TypeOK /\ RowsHaveMaterial /\ HoldersHaveRow /\ OneActiveJob

USE DEF MaterialStatus, Unfinished, ActiveStatus, IngestJobStatus, Step, NoChunks,
        materialVars, jobVars, workerVars, history

LEMMA InitIndexInv == Init => IndexInv
  BY MaxTextAssumption, MaxCrashesAssumption
     DEF Init, IndexInv, TypeOK, RowsHaveMaterial, HoldersHaveRow, OneActiveJob,
         Working, Active

LEMMA EnqueueType ==
    ASSUME TypeOK, NEW m \in Materials, Enqueue(m) \/ NotEnqueued(m)
    PROVE  /\ jobStatus' \in [Jobs -> IngestJobStatus \cup {"unused", "deleted"}]
           /\ target' \in [Jobs -> Materials \cup {NoMaterial}]
           /\ due' \in [Jobs -> BOOLEAN]
           /\ stale' \in [Jobs -> BOOLEAN]
<1>1. CASE Enqueue(m)
  BY <1>1 DEF TypeOK, Enqueue
<1>2. CASE NotEnqueued(m)
  BY <1>2 DEF TypeOK, NotEnqueued
<1> QED BY <1>1, <1>2

LEMMA NextIndexInv == IndexInv /\ [Next]_vars => IndexInv'
<1> USE MaxTextAssumption, MaxCrashesAssumption
<1> SUFFICES ASSUME IndexInv, [Next]_vars PROVE IndexInv'
  OBVIOUS
<1> USE DEF IndexInv
<1>1. ASSUME NEW m \in Materials, Create(m) PROVE IndexInv'
  <2>1. TypeOK'
    BY <1>1 DEF Create, Enqueue, TypeOK, HoldersHaveRow, Working, Exists, TargetOf
  <2>2. RowsHaveMaterial'
    BY <1>1 DEF Create, Enqueue, TypeOK, RowsHaveMaterial, HoldersHaveRow, Working, Active, Exists, TargetOf
  <2>3. HoldersHaveRow'
    BY <1>1 DEF Create, Enqueue, TypeOK, HoldersHaveRow, Working
  <2>4. OneActiveJob'
    BY <1>1 DEF Create, Enqueue, TypeOK, RowsHaveMaterial, HoldersHaveRow, Working, Active, OneActiveJob, HasActiveJob
  <2> QED BY <2>1, <2>2, <2>3, <2>4
<1>2. ASSUME NEW m \in Materials, Rename(m) \/ StoreDocument(m) PROVE IndexInv'
  <2>1. TypeOK'
    <3>1. /\ status' \in [Materials -> MaterialStatus \cup {"absent", "deleted"}]
             /\ text' \in [Materials -> 0..MaxText]
             /\ chunks' \in [Materials -> 0..MaxText]
      BY <1>2 DEF Rename, StoreDocument, NewText, Enqueue, NotEnqueued, TypeOK, HoldersHaveRow, Working, Exists, TargetOf
    <3>2. /\ jobStatus' \in [Jobs -> IngestJobStatus \cup {"unused", "deleted"}]
             /\ target' \in [Jobs -> Materials \cup {NoMaterial}]
             /\ due' \in [Jobs -> BOOLEAN]
             /\ stale' \in [Jobs -> BOOLEAN]
      BY <1>2, EnqueueType DEF Rename, StoreDocument, NewText
    <3>3. /\ step' \in [Workers -> Step]
             /\ held' \in [Workers -> Jobs \cup {NoJob}]
             /\ read' \in [Workers -> 0..MaxText]
             /\ raced' \in [Materials -> BOOLEAN]
             /\ spoiled' \in [Materials -> BOOLEAN]
             /\ owner' \in [Jobs -> Workers \cup {NoWorker}]
             /\ crashes' \in 0..MaxCrashes
      BY <1>2 DEF Rename, StoreDocument, NewText, Enqueue, NotEnqueued, TypeOK, HoldersHaveRow, Working, Exists, TargetOf
    <3> QED BY <3>1, <3>2, <3>3 DEF TypeOK
  <2>2. RowsHaveMaterial'
    BY <1>2 DEF Rename, StoreDocument, NewText, Enqueue, NotEnqueued, TypeOK, RowsHaveMaterial, HoldersHaveRow, Working, Active, Exists, TargetOf
  <2>3. HoldersHaveRow'
    BY <1>2 DEF Rename, StoreDocument, NewText, Enqueue, NotEnqueued, TypeOK, HoldersHaveRow, Working
  <2>4. OneActiveJob'
    BY <1>2 DEF Rename, StoreDocument, NewText, Enqueue, NotEnqueued, TypeOK, RowsHaveMaterial, HoldersHaveRow, Working, Active, OneActiveJob, HasActiveJob
  <2> QED BY <2>1, <2>2, <2>3, <2>4
<1>3. ASSUME NEW m \in Materials, SyncUnchanged(m) \/ RequestIngest(m) PROVE IndexInv'
  <2>1. TypeOK'
    <3>1. /\ status' \in [Materials -> MaterialStatus \cup {"absent", "deleted"}]
             /\ text' \in [Materials -> 0..MaxText]
             /\ chunks' \in [Materials -> 0..MaxText]
      BY <1>3 DEF SyncUnchanged, RequestIngest, Enqueue, TypeOK, HoldersHaveRow, Working, Exists, TargetOf
    <3>2. /\ jobStatus' \in [Jobs -> IngestJobStatus \cup {"unused", "deleted"}]
             /\ target' \in [Jobs -> Materials \cup {NoMaterial}]
             /\ due' \in [Jobs -> BOOLEAN]
             /\ stale' \in [Jobs -> BOOLEAN]
      BY <1>3, EnqueueType DEF SyncUnchanged, RequestIngest
    <3>3. /\ step' \in [Workers -> Step]
             /\ held' \in [Workers -> Jobs \cup {NoJob}]
             /\ read' \in [Workers -> 0..MaxText]
             /\ raced' \in [Materials -> BOOLEAN]
             /\ spoiled' \in [Materials -> BOOLEAN]
             /\ owner' \in [Jobs -> Workers \cup {NoWorker}]
             /\ crashes' \in 0..MaxCrashes
      BY <1>3 DEF SyncUnchanged, RequestIngest, Enqueue, TypeOK, HoldersHaveRow, Working, Exists, TargetOf
    <3> QED BY <3>1, <3>2, <3>3 DEF TypeOK
  <2>2. RowsHaveMaterial'
    BY <1>3 DEF SyncUnchanged, RequestIngest, Enqueue, TypeOK, RowsHaveMaterial, HoldersHaveRow, Working, Active, Exists, TargetOf
  <2>3. HoldersHaveRow'
    BY <1>3 DEF SyncUnchanged, RequestIngest, Enqueue, TypeOK, HoldersHaveRow, Working
  <2>4. OneActiveJob'
    BY <1>3 DEF SyncUnchanged, RequestIngest, Enqueue, TypeOK, RowsHaveMaterial, HoldersHaveRow, Working, Active, OneActiveJob, HasActiveJob
  <2> QED BY <2>1, <2>2, <2>3, <2>4
<1>4. ASSUME NEW m \in Materials, Delete(m) PROVE IndexInv'
  <2>1. TypeOK'
    BY <1>4 DEF Delete, TypeOK, HoldersHaveRow, Working, Exists, TargetOf
  <2>2. RowsHaveMaterial'
    BY <1>4 DEF Delete, TypeOK, RowsHaveMaterial, HoldersHaveRow, Working, Active, Exists, TargetOf
  <2>3. HoldersHaveRow'
    BY <1>4 DEF Delete, TypeOK, HoldersHaveRow, Working
  <2>4. OneActiveJob'
    BY <1>4 DEF Delete, TypeOK, RowsHaveMaterial, HoldersHaveRow, Working, Active, OneActiveJob
  <2> QED BY <2>1, <2>2, <2>3, <2>4
<1>5. ASSUME NEW j \in Jobs, BackoffEnds(j) \/ LeaseEnds(j) PROVE IndexInv'
  <2>1. TypeOK'
    BY <1>5 DEF BackoffEnds, LeaseEnds, TypeOK, HoldersHaveRow, Working, Exists, TargetOf
  <2>2. RowsHaveMaterial'
    BY <1>5 DEF BackoffEnds, LeaseEnds, TypeOK, RowsHaveMaterial, HoldersHaveRow, Working, Active, Exists, TargetOf
  <2>3. HoldersHaveRow'
    BY <1>5 DEF BackoffEnds, LeaseEnds, TypeOK, HoldersHaveRow, Working
  <2>4. OneActiveJob'
    BY <1>5 DEF BackoffEnds, LeaseEnds, TypeOK, RowsHaveMaterial, HoldersHaveRow, Working, Active, OneActiveJob
  <2> QED BY <2>1, <2>2, <2>3, <2>4
<1>6. ASSUME NEW w \in Workers, NEW j \in Jobs, Claim(w, j) PROVE IndexInv'
  <2>1. TypeOK'
    BY <1>6 DEF Claim, TypeOK, HoldersHaveRow, Working, Exists, TargetOf
  <2>2. RowsHaveMaterial'
    BY <1>6 DEF Claim, TypeOK, RowsHaveMaterial, HoldersHaveRow, Working, Active, Exists, TargetOf
  <2>3. HoldersHaveRow'
    BY <1>6 DEF Claim, TypeOK, HoldersHaveRow, Working
  <2>4. OneActiveJob'
    BY <1>6 DEF Claim, TypeOK, RowsHaveMaterial, HoldersHaveRow, Working, Active, OneActiveJob
  <2> QED BY <2>1, <2>2, <2>3, <2>4
<1>7. ASSUME NEW w \in Workers, Ingest(w) PROVE IndexInv'
  <2>1. TypeOK'
    <3>1. /\ status' \in [Materials -> MaterialStatus \cup {"absent", "deleted"}]
             /\ text' \in [Materials -> 0..MaxText]
             /\ chunks' \in [Materials -> 0..MaxText]
      BY <1>7 DEF Ingest, BeginIngest, ReplaceChunks, DocumentGone, ProviderFails, IngestFails, Mark, TypeOK, HoldersHaveRow, Working, Exists, TargetOf
    <3>2. /\ jobStatus' \in [Jobs -> IngestJobStatus \cup {"unused", "deleted"}]
             /\ target' \in [Jobs -> Materials \cup {NoMaterial}]
             /\ due' \in [Jobs -> BOOLEAN]
             /\ stale' \in [Jobs -> BOOLEAN]
      BY <1>7 DEF Ingest, BeginIngest, ReplaceChunks, DocumentGone, ProviderFails, IngestFails, Mark, TypeOK, HoldersHaveRow, Working
    <3>3. step' \in [Workers -> Step]
      BY <1>7 DEF Ingest, BeginIngest, ReplaceChunks, DocumentGone, ProviderFails, IngestFails, Mark, TypeOK
    <3>4. /\ held' \in [Workers -> Jobs \cup {NoJob}]
          /\ crashes' \in 0..MaxCrashes
          /\ owner' \in [Jobs -> Workers \cup {NoWorker}]
      BY <1>7 DEF Ingest, BeginIngest, ReplaceChunks, DocumentGone, ProviderFails, IngestFails, Mark, TypeOK
    <3>5. TargetOf(w) \in Materials
      BY <1>7 DEF Ingest, BeginIngest, ReplaceChunks, DocumentGone, ProviderFails, IngestFails, Mark, HoldersHaveRow, RowsHaveMaterial, Working, TargetOf
    <3>6. /\ read' \in [Workers -> 0..MaxText]
          /\ raced' \in [Materials -> BOOLEAN]
          /\ spoiled' \in [Materials -> BOOLEAN]
      <4>1. CASE BeginIngest(w)
        BY <3>5, <4>1 DEF BeginIngest, Late, Working, TypeOK
      <4>2. CASE UNCHANGED <<read, raced>> /\ (Spoil(w) \/ UNCHANGED spoiled)
        BY <4>2 DEF Spoil, Late, Working, TypeOK
      <4> QED BY <1>7, <4>1, <4>2 DEF Ingest, BeginIngest, ReplaceChunks, DocumentGone, ProviderFails, IngestFails, Mark
    <3> QED BY <3>1, <3>2, <3>3, <3>4, <3>6 DEF TypeOK
  <2>2. RowsHaveMaterial'
    BY <1>7 DEF Ingest, BeginIngest, ReplaceChunks, DocumentGone, ProviderFails, IngestFails, Mark, TypeOK, RowsHaveMaterial, HoldersHaveRow, Working, Active, Exists, TargetOf
  <2>3. HoldersHaveRow'
    BY <1>7 DEF Ingest, BeginIngest, ReplaceChunks, DocumentGone, ProviderFails, IngestFails, Mark, TypeOK, HoldersHaveRow, Working
  <2>4. OneActiveJob'
    BY <1>7 DEF Ingest, BeginIngest, ReplaceChunks, DocumentGone, ProviderFails, IngestFails, Mark, TypeOK, RowsHaveMaterial, HoldersHaveRow, Working, Active, OneActiveJob
  <2> QED BY <2>1, <2>2, <2>3, <2>4
<1>8. ASSUME NEW w \in Workers, Settle(w) PROVE IndexInv'
  <2>1. TypeOK'
    <3>1. /\ status' \in [Materials -> MaterialStatus \cup {"absent", "deleted"}]
             /\ text' \in [Materials -> 0..MaxText]
             /\ chunks' \in [Materials -> 0..MaxText]
      BY <1>8 DEF Settle, MarkDone, MarkFailed, RetryLater, RetryRefused, OtherActiveJob, SetStatus, Spoil, Late, Return, TypeOK, HoldersHaveRow, Working, Exists, TargetOf
    <3>2. /\ jobStatus' \in [Jobs -> IngestJobStatus \cup {"unused", "deleted"}]
          /\ owner' \in [Jobs -> Workers \cup {NoWorker}]
      <4>1. \/ UNCHANGED <<jobStatus, owner>>
            \/ \E new \in {"DONE", "FAILED", "QUEUED"} : SetStatus(held[w], new)
        BY <1>8 DEF Settle, MarkDone, MarkFailed, RetryLater, RetryRefused
      <4> QED BY <4>1 DEF SetStatus, TypeOK
    <3>5. /\ target' \in [Jobs -> Materials \cup {NoMaterial}]
          /\ due' \in [Jobs -> BOOLEAN]
          /\ stale' \in [Jobs -> BOOLEAN]
      BY <1>8 DEF Settle, MarkDone, MarkFailed, RetryLater, RetryRefused, TypeOK
    <3>3. /\ step' \in [Workers -> Step]
             /\ held' \in [Workers -> Jobs \cup {NoJob}]
             /\ read' \in [Workers -> 0..MaxText]
             /\ raced' \in [Materials -> BOOLEAN]
             /\ crashes' \in 0..MaxCrashes
      BY <1>8 DEF Settle, MarkDone, MarkFailed, RetryLater, RetryRefused, OtherActiveJob, SetStatus, Spoil, Late, Return, TypeOK, HoldersHaveRow, Working, Exists, TargetOf
    <3>4. spoiled' \in [Materials -> BOOLEAN]
      <4>1. Spoil(w) \/ UNCHANGED spoiled
        BY <1>8 DEF Settle, MarkDone, MarkFailed, RetryLater, RetryRefused
      <4> QED BY <4>1 DEF Spoil, TypeOK
    <3> QED BY <3>1, <3>2, <3>3, <3>4, <3>5 DEF TypeOK
  <2>2. RowsHaveMaterial'
    BY <1>8 DEF Settle, MarkDone, MarkFailed, RetryLater, RetryRefused, OtherActiveJob, SetStatus, Spoil, Late, Return, TypeOK, RowsHaveMaterial, HoldersHaveRow, Working, Active, Exists, TargetOf
  <2>3. HoldersHaveRow'
    BY <1>8 DEF Settle, MarkDone, MarkFailed, RetryLater, RetryRefused, OtherActiveJob, SetStatus, Spoil, Late, Return, TypeOK, HoldersHaveRow, Working
  <2>4. OneActiveJob'
    BY <1>8 DEF Settle, MarkDone, MarkFailed, RetryLater, RetryRefused, OtherActiveJob, SetStatus, Spoil, Late, Return, TypeOK, RowsHaveMaterial, HoldersHaveRow, Working, Active, OneActiveJob
  <2> QED BY <2>1, <2>2, <2>3, <2>4
<1>9. ASSUME NEW w \in Workers, Crash(w) PROVE IndexInv'
  <2>1. TypeOK'
    BY <1>9 DEF Crash, Return, TypeOK, HoldersHaveRow, Working, Exists, TargetOf
  <2>2. RowsHaveMaterial'
    BY <1>9 DEF Crash, Return, TypeOK, RowsHaveMaterial, HoldersHaveRow, Working, Active, Exists, TargetOf
  <2>3. HoldersHaveRow'
    BY <1>9 DEF Crash, Return, TypeOK, HoldersHaveRow, Working
  <2>4. OneActiveJob'
    BY <1>9 DEF Crash, Return, TypeOK, RowsHaveMaterial, HoldersHaveRow, Working, Active, OneActiveJob
  <2> QED BY <2>1, <2>2, <2>3, <2>4
<1>10. CASE UNCHANGED vars
  BY <1>10 DEF vars, TypeOK, RowsHaveMaterial, HoldersHaveRow, OneActiveJob,
              Working, Active, Exists
<1> QED
  BY <1>1, <1>2, <1>3, <1>4, <1>5, <1>6, <1>7, <1>8, <1>9, <1>10
     DEF Next, Edit, Clock, WorkerStep

\* TypeOK, for any number of documents, jobs and workers.
THEOREM TypeCorrect == Spec => []TypeOK
<1>1. Spec => []IndexInv
  BY InitIndexInv, NextIndexInv, PTL DEF Spec
<1>2. IndexInv => TypeOK
  BY DEF IndexInv
<1> QED BY <1>1, <1>2, PTL

\* No two active jobs for one document (uq_ingest_jobs_active_material),
\* whichever worker settles or puts back a job late.
THEOREM OneActiveJobAlways == Spec => []OneActiveJob
<1>1. Spec => []IndexInv
  BY InitIndexInv, NextIndexInv, PTL DEF Spec
<1>2. IndexInv => OneActiveJob
  BY DEF IndexInv
<1> QED BY <1>1, <1>2, PTL

----------------------------------------------------------------------------
(* What the owner of a job knows, and what a late worker may spoil.        *)

\* A job with an owner is running, unless it was deleted with its document.
OwnedIsRunning ==
    \A j \in Jobs : owner[j] # NoWorker => jobStatus[j] \in {"RUNNING", "deleted"}

\* A worker that found no document holds a deleted row.
MissingIsDeleted ==
    \A w \in Workers : step[w] = "missing" => jobStatus[held[w]] = "deleted"

\* Whoever embeds a text, late or not, has read one the document had.
ReadIsPast ==
    \A w \in Workers :
        step[w] = "embedding" /\ Exists(TargetOf(w)) => read[w] <= text[TargetOf(w)]

\* What the owner of a job has read or written is current, unless an edit
\* raced it or a late worker wrote beside it.
ProgressInv ==
    \A w \in Workers :
        Working(w) /\ owner[held[w]] = w /\ jobStatus[held[w]] = "RUNNING" =>
            LET m == TargetOf(w) IN
            \/ spoiled[m]
            \/ /\ step[w] = "embedding" => /\ raced[m] \/ read[w] = text[m]
                                           /\ chunks[m] <= read[w]
               /\ step[w] = "stored" =>
                     raced[m] \/ (status[m] = "READY" /\ chunks[m] = text[m])
               /\ step[w] = "failing" => raced[m] \/ status[m] = "FAILED"

\* A document nobody works on is settled.
SettledInv ==
    \A m \in Materials :
        /\ chunks[m] <= text[m]
        /\ status[m] = "absent" => chunks[m] = NoChunks
        /\ Exists(m) /\ ~HasActiveJob(m) /\ ~raced[m] /\ ~spoiled[m] =>
              \/ status[m] = "FAILED"
              \/ status[m] = "READY" /\ chunks[m] = text[m]

OwnerInv == OwnedIsRunning /\ MissingIsDeleted /\ ReadIsPast /\ ProgressInv /\ SettledInv

LEMMA NextOwner ==
    ASSUME IndexInv, IndexInv', OwnerInv, [Next]_vars
    PROVE  OwnerInv'
<1> USE NoWorkerAssumption DEF IndexInv, OwnerInv
\* Two owners at work on one living document are one worker.
<1>0. \A v, w \in Workers :
         /\ Working(v) /\ owner[held[v]] = v /\ jobStatus[held[v]] = "RUNNING"
         /\ Working(w) /\ owner[held[w]] = w /\ jobStatus[held[w]] = "RUNNING"
         /\ TargetOf(v) = TargetOf(w)
         => v = w
  BY DEF OneActiveJob, HoldersHaveRow, Active, TargetOf
<1>1. ASSUME NEW m \in Materials, Create(m) PROVE OwnerInv'
  <2>1. OwnedIsRunning'
    BY <1>1 DEF Create, Enqueue, TypeOK, OwnedIsRunning, HoldersHaveRow, RowsHaveMaterial, Working, Late, Exists, TargetOf, HasActiveJob, Active
  <2>2. MissingIsDeleted'
    BY <1>1 DEF Create, Enqueue, TypeOK, OwnedIsRunning, MissingIsDeleted, HoldersHaveRow, RowsHaveMaterial, Working, Late, Exists, TargetOf, HasActiveJob, Active
  <2>3. ReadIsPast'
    BY <1>1 DEF Create, Enqueue, TypeOK, OwnedIsRunning, ReadIsPast, MissingIsDeleted, HoldersHaveRow, RowsHaveMaterial, Working, Late, Exists, TargetOf, HasActiveJob, Active
  <2>4. ProgressInv'
    BY <1>1, <1>0 DEF Create, Enqueue, TypeOK, OwnedIsRunning, ProgressInv, MissingIsDeleted, ReadIsPast, SettledInv, HoldersHaveRow, RowsHaveMaterial, Working, Late, Exists, TargetOf, HasActiveJob, Active
  <2>5. SettledInv'
    BY <1>1 DEF Create, Enqueue, TypeOK, OwnedIsRunning, SettledInv, MissingIsDeleted, ReadIsPast, ProgressInv, HoldersHaveRow, RowsHaveMaterial, Working, Late, Exists, TargetOf, HasActiveJob, Active
  <2> QED BY <2>1, <2>2, <2>3, <2>4, <2>5
<1>2. ASSUME NEW m \in Materials, Rename(m) \/ StoreDocument(m) PROVE OwnerInv'
  <2>1. OwnedIsRunning'
    BY <1>2 DEF Rename, StoreDocument, NewText, Enqueue, NotEnqueued, ReadBefore, TypeOK, OwnedIsRunning, HoldersHaveRow, RowsHaveMaterial, Working, Late, Exists, TargetOf, HasActiveJob, Active
  <2>2. MissingIsDeleted'
    BY <1>2 DEF Rename, StoreDocument, NewText, Enqueue, NotEnqueued, ReadBefore, TypeOK, OwnedIsRunning, MissingIsDeleted, HoldersHaveRow, RowsHaveMaterial, Working, Late, Exists, TargetOf, HasActiveJob, Active
  <2>3. ReadIsPast'
    BY <1>2 DEF Rename, StoreDocument, NewText, Enqueue, NotEnqueued, ReadBefore, TypeOK, OwnedIsRunning, ReadIsPast, MissingIsDeleted, HoldersHaveRow, RowsHaveMaterial, Working, Late, Exists, TargetOf, HasActiveJob, Active
  <2>4. ProgressInv'
    BY <1>2, <1>0 DEF Rename, StoreDocument, NewText, Enqueue, NotEnqueued, ReadBefore, TypeOK, OwnedIsRunning, ProgressInv, MissingIsDeleted, ReadIsPast, SettledInv, HoldersHaveRow, RowsHaveMaterial, Working, Late, Exists, TargetOf, HasActiveJob, Active
  <2>5. SettledInv'
    BY <1>2 DEF Rename, StoreDocument, NewText, Enqueue, NotEnqueued, ReadBefore, TypeOK, OwnedIsRunning, SettledInv, MissingIsDeleted, ReadIsPast, ProgressInv, HoldersHaveRow, RowsHaveMaterial, Working, Late, Exists, TargetOf, HasActiveJob, Active
  <2> QED BY <2>1, <2>2, <2>3, <2>4, <2>5
<1>3. ASSUME NEW m \in Materials, SyncUnchanged(m) \/ RequestIngest(m) PROVE OwnerInv'
  <2>1. OwnedIsRunning'
    BY <1>3 DEF SyncUnchanged, RequestIngest, Enqueue, TypeOK, OwnedIsRunning, HoldersHaveRow, RowsHaveMaterial, Working, Late, Exists, TargetOf, HasActiveJob, Active
  <2>2. MissingIsDeleted'
    BY <1>3 DEF SyncUnchanged, RequestIngest, Enqueue, TypeOK, OwnedIsRunning, MissingIsDeleted, HoldersHaveRow, RowsHaveMaterial, Working, Late, Exists, TargetOf, HasActiveJob, Active
  <2>3. ReadIsPast'
    BY <1>3 DEF SyncUnchanged, RequestIngest, Enqueue, TypeOK, OwnedIsRunning, ReadIsPast, MissingIsDeleted, HoldersHaveRow, RowsHaveMaterial, Working, Late, Exists, TargetOf, HasActiveJob, Active
  <2>4. ProgressInv'
    BY <1>3, <1>0 DEF SyncUnchanged, RequestIngest, Enqueue, TypeOK, OwnedIsRunning, ProgressInv, MissingIsDeleted, ReadIsPast, SettledInv, HoldersHaveRow, RowsHaveMaterial, Working, Late, Exists, TargetOf, HasActiveJob, Active
  <2>5. SettledInv'
    BY <1>3 DEF SyncUnchanged, RequestIngest, Enqueue, TypeOK, OwnedIsRunning, SettledInv, MissingIsDeleted, ReadIsPast, ProgressInv, HoldersHaveRow, RowsHaveMaterial, Working, Late, Exists, TargetOf, HasActiveJob, Active
  <2> QED BY <2>1, <2>2, <2>3, <2>4, <2>5
<1>4. ASSUME NEW m \in Materials, Delete(m) PROVE OwnerInv'
  <2>1. OwnedIsRunning'
    BY <1>4 DEF Delete, TypeOK, OwnedIsRunning, HoldersHaveRow, RowsHaveMaterial, Working, Late, Exists, TargetOf, HasActiveJob, Active
  <2>2. MissingIsDeleted'
    BY <1>4 DEF Delete, TypeOK, OwnedIsRunning, MissingIsDeleted, HoldersHaveRow, RowsHaveMaterial, Working, Late, Exists, TargetOf, HasActiveJob, Active
  <2>3. ReadIsPast'
    BY <1>4 DEF Delete, TypeOK, OwnedIsRunning, ReadIsPast, MissingIsDeleted, HoldersHaveRow, RowsHaveMaterial, Working, Late, Exists, TargetOf, HasActiveJob, Active
  <2>4. ProgressInv'
    BY <1>4, <1>0 DEF Delete, TypeOK, OwnedIsRunning, ProgressInv, MissingIsDeleted, ReadIsPast, SettledInv, HoldersHaveRow, RowsHaveMaterial, Working, Late, Exists, TargetOf, HasActiveJob, Active
  <2>5. SettledInv'
    BY <1>4 DEF Delete, TypeOK, OwnedIsRunning, SettledInv, MissingIsDeleted, ReadIsPast, ProgressInv, HoldersHaveRow, RowsHaveMaterial, Working, Late, Exists, TargetOf, HasActiveJob, Active
  <2> QED BY <2>1, <2>2, <2>3, <2>4, <2>5
<1>5. ASSUME NEW j \in Jobs, BackoffEnds(j) \/ LeaseEnds(j) PROVE OwnerInv'
  <2>1. OwnedIsRunning'
    BY <1>5 DEF BackoffEnds, LeaseEnds, TypeOK, OwnedIsRunning, HoldersHaveRow, RowsHaveMaterial, Working, Late, Exists, TargetOf, HasActiveJob, Active
  <2>2. MissingIsDeleted'
    BY <1>5 DEF BackoffEnds, LeaseEnds, TypeOK, OwnedIsRunning, MissingIsDeleted, HoldersHaveRow, RowsHaveMaterial, Working, Late, Exists, TargetOf, HasActiveJob, Active
  <2>3. ReadIsPast'
    BY <1>5 DEF BackoffEnds, LeaseEnds, TypeOK, OwnedIsRunning, ReadIsPast, MissingIsDeleted, HoldersHaveRow, RowsHaveMaterial, Working, Late, Exists, TargetOf, HasActiveJob, Active
  <2>4. ProgressInv'
    BY <1>5, <1>0 DEF BackoffEnds, LeaseEnds, TypeOK, OwnedIsRunning, ProgressInv, MissingIsDeleted, ReadIsPast, SettledInv, HoldersHaveRow, RowsHaveMaterial, Working, Late, Exists, TargetOf, HasActiveJob, Active
  <2>5. SettledInv'
    BY <1>5 DEF BackoffEnds, LeaseEnds, TypeOK, OwnedIsRunning, SettledInv, MissingIsDeleted, ReadIsPast, ProgressInv, HoldersHaveRow, RowsHaveMaterial, Working, Late, Exists, TargetOf, HasActiveJob, Active
  <2> QED BY <2>1, <2>2, <2>3, <2>4, <2>5
<1>6. ASSUME NEW w \in Workers, NEW j \in Jobs, Claim(w, j) PROVE OwnerInv'
  <2>1. OwnedIsRunning'
    BY <1>6 DEF Claim, TypeOK, OwnedIsRunning, HoldersHaveRow, RowsHaveMaterial, Working, Late, Exists, TargetOf, HasActiveJob, Active
  <2>2. MissingIsDeleted'
    BY <1>6 DEF Claim, TypeOK, OwnedIsRunning, MissingIsDeleted, HoldersHaveRow, RowsHaveMaterial, Working, Late, Exists, TargetOf, HasActiveJob, Active
  <2>3. ReadIsPast'
    BY <1>6 DEF Claim, TypeOK, OwnedIsRunning, ReadIsPast, MissingIsDeleted, HoldersHaveRow, RowsHaveMaterial, Working, Late, Exists, TargetOf, HasActiveJob, Active
  <2>4. ProgressInv'
    BY <1>6, <1>0 DEF Claim, TypeOK, OwnedIsRunning, ProgressInv, MissingIsDeleted, ReadIsPast, SettledInv, HoldersHaveRow, RowsHaveMaterial, Working, Late, Exists, TargetOf, HasActiveJob, Active
  <2>5. SettledInv'
    BY <1>6 DEF Claim, TypeOK, OwnedIsRunning, SettledInv, MissingIsDeleted, ReadIsPast, ProgressInv, HoldersHaveRow, RowsHaveMaterial, Working, Late, Exists, TargetOf, HasActiveJob, Active
  <2> QED BY <2>1, <2>2, <2>3, <2>4, <2>5
<1>7. ASSUME NEW w \in Workers, BeginIngest(w) PROVE OwnerInv'
  <2>0. /\ Working(w) /\ held[w] \in Jobs /\ TargetOf(w) \in Materials
        /\ Exists(TargetOf(w)) => jobStatus[held[w]] # "deleted"
    BY <1>7 DEF BeginIngest, TypeOK, HoldersHaveRow, RowsHaveMaterial, Working, Exists, TargetOf
  <2>1. OwnedIsRunning'
    BY <1>7, <2>0 DEF BeginIngest, TypeOK, OwnedIsRunning, HoldersHaveRow, RowsHaveMaterial, Working, Late, Exists, TargetOf, HasActiveJob, Active
  <2>2. MissingIsDeleted'
    BY <1>7, <2>0 DEF BeginIngest, TypeOK, OwnedIsRunning, MissingIsDeleted, HoldersHaveRow, RowsHaveMaterial, Working, Late, Exists, TargetOf, HasActiveJob, Active
  <2>3. ReadIsPast'
    BY <1>7, <2>0 DEF BeginIngest, TypeOK, OwnedIsRunning, ReadIsPast, MissingIsDeleted, HoldersHaveRow, RowsHaveMaterial, Working, Late, Exists, TargetOf, HasActiveJob, Active
  <2>6. ~Late(w) => /\ owner[held[w]] = w /\ jobStatus[held[w]] = "RUNNING"
                    /\ HasActiveJob(TargetOf(w))
    BY <1>7, <2>0 DEF BeginIngest, Late, OwnedIsRunning, HasActiveJob, Active, TargetOf, Exists
  <2>7. /\ Late(w) => spoiled'[TargetOf(w)]
        /\ \A m \in Materials : m # TargetOf(w) => /\ spoiled'[m] = spoiled[m]
                                                   /\ raced'[m] = raced[m]
                                                   /\ status'[m] = status[m]
                                                   /\ chunks'[m] = chunks[m]
                                                   /\ text'[m] = text[m]
    BY <1>7, <2>0 DEF BeginIngest, TypeOK
  <2>4. ProgressInv'
    <3> SUFFICES ASSUME NEW v \in Workers, Working(v)', (owner[held[v]] = v)',
                        (jobStatus[held[v]] = "RUNNING")', ~spoiled'[TargetOf(v)']
                 PROVE  /\ step'[v] = "embedding" =>
                              /\ raced'[TargetOf(v)'] \/ read'[v] = text'[TargetOf(v)']
                              /\ chunks'[TargetOf(v)'] <= read'[v]
                        /\ step'[v] = "stored" =>
                              \/ raced'[TargetOf(v)']
                              \/ /\ status'[TargetOf(v)'] = "READY"
                                 /\ chunks'[TargetOf(v)'] = text'[TargetOf(v)']
                        /\ step'[v] = "failing" =>
                              raced'[TargetOf(v)'] \/ status'[TargetOf(v)'] = "FAILED"
      BY DEF ProgressInv
    <3>1. /\ TargetOf(v)' = TargetOf(v) /\ owner[held[v]] = v /\ Working(v)
          /\ jobStatus[held[v]] = "RUNNING" /\ TargetOf(v) \in Materials
      BY <1>7, <2>0 DEF BeginIngest, TypeOK, Working, TargetOf, RowsHaveMaterial, HoldersHaveRow
    <3>2. CASE TargetOf(v) # TargetOf(w)
      <4>1. v # w
        BY <3>2
      <4>2. step'[v] = step[v] /\ read'[v] = read[v]
        BY <1>7, <4>1 DEF BeginIngest, TypeOK
      <4> QED BY <2>7, <3>1, <3>2, <4>2 DEF ProgressInv
    <3>3. CASE TargetOf(v) = TargetOf(w)
      <4>1. ~Late(w) /\ v = w
        BY <1>0, <2>0, <2>6, <2>7, <3>1, <3>3
      <4> QED BY <1>7, <2>0, <2>6, <3>1, <4>1 DEF BeginIngest, TypeOK, ProgressInv, SettledInv, Late
    <3> QED BY <3>2, <3>3
  <2>5. SettledInv'
    <3> SUFFICES ASSUME NEW m \in Materials
                 PROVE  /\ chunks'[m] <= text'[m]
                        /\ status'[m] = "absent" => chunks'[m] = NoChunks
                        /\ Exists(m)' /\ ~HasActiveJob(m)' /\ ~raced'[m] /\ ~spoiled'[m] =>
                              \/ status'[m] = "FAILED"
                              \/ status'[m] = "READY" /\ chunks'[m] = text'[m]
      BY DEF SettledInv
    <3>1. HasActiveJob(m)' = HasActiveJob(m)
      BY <1>7 DEF BeginIngest, HasActiveJob, Active
    <3>2. CASE m # TargetOf(w)
      BY <2>7, <3>1, <3>2 DEF SettledInv, Exists
    <3>3. CASE m = TargetOf(w)
      BY <1>7, <2>0, <2>6, <2>7, <3>1, <3>3 DEF BeginIngest, TypeOK, SettledInv, ReadIsPast, Exists
    <3> QED BY <3>2, <3>3
  <2> QED BY <2>1, <2>2, <2>3, <2>4, <2>5
<1>8. ASSUME NEW w \in Workers, ReplaceChunks(w) PROVE OwnerInv'
  <2>0. /\ Working(w) /\ held[w] \in Jobs /\ TargetOf(w) \in Materials
        /\ Exists(TargetOf(w)) => jobStatus[held[w]] # "deleted"
    BY <1>8 DEF ReplaceChunks, Spoil, TypeOK, HoldersHaveRow, RowsHaveMaterial, Working, Exists, TargetOf
  <2>1. OwnedIsRunning'
    BY <1>8, <2>0 DEF ReplaceChunks, Spoil, TypeOK, OwnedIsRunning, HoldersHaveRow, RowsHaveMaterial, Working, Late, Exists, TargetOf, HasActiveJob, Active
  <2>2. MissingIsDeleted'
    BY <1>8, <2>0 DEF ReplaceChunks, Spoil, TypeOK, OwnedIsRunning, MissingIsDeleted, HoldersHaveRow, RowsHaveMaterial, Working, Late, Exists, TargetOf, HasActiveJob, Active
  <2>3. ReadIsPast'
    BY <1>8, <2>0 DEF ReplaceChunks, Spoil, TypeOK, OwnedIsRunning, ReadIsPast, MissingIsDeleted, HoldersHaveRow, RowsHaveMaterial, Working, Late, Exists, TargetOf, HasActiveJob, Active
  <2>6. ~Late(w) => /\ owner[held[w]] = w /\ jobStatus[held[w]] = "RUNNING"
                    /\ HasActiveJob(TargetOf(w))
    BY <1>8, <2>0 DEF ReplaceChunks, Late, OwnedIsRunning, HasActiveJob, Active, TargetOf, Exists
  <2>7. /\ Late(w) => spoiled'[TargetOf(w)]
        /\ \A m \in Materials : m # TargetOf(w) => /\ spoiled'[m] = spoiled[m]
                                                   /\ raced'[m] = raced[m]
                                                   /\ status'[m] = status[m]
                                                   /\ chunks'[m] = chunks[m]
                                                   /\ text'[m] = text[m]
    BY <1>8, <2>0 DEF ReplaceChunks, Spoil, TypeOK
  <2>4. ProgressInv'
    <3> SUFFICES ASSUME NEW v \in Workers, Working(v)', (owner[held[v]] = v)',
                        (jobStatus[held[v]] = "RUNNING")', ~spoiled'[TargetOf(v)']
                 PROVE  /\ step'[v] = "embedding" =>
                              /\ raced'[TargetOf(v)'] \/ read'[v] = text'[TargetOf(v)']
                              /\ chunks'[TargetOf(v)'] <= read'[v]
                        /\ step'[v] = "stored" =>
                              \/ raced'[TargetOf(v)']
                              \/ /\ status'[TargetOf(v)'] = "READY"
                                 /\ chunks'[TargetOf(v)'] = text'[TargetOf(v)']
                        /\ step'[v] = "failing" =>
                              raced'[TargetOf(v)'] \/ status'[TargetOf(v)'] = "FAILED"
      BY DEF ProgressInv
    <3>1. /\ TargetOf(v)' = TargetOf(v) /\ owner[held[v]] = v /\ Working(v)
          /\ jobStatus[held[v]] = "RUNNING" /\ TargetOf(v) \in Materials
      BY <1>8, <2>0 DEF ReplaceChunks, TypeOK, Working, TargetOf, RowsHaveMaterial, HoldersHaveRow
    <3>2. CASE TargetOf(v) # TargetOf(w)
      <4>1. v # w
        BY <3>2
      <4>2. step'[v] = step[v] /\ read'[v] = read[v]
        BY <1>8, <4>1 DEF ReplaceChunks, TypeOK
      <4> QED BY <2>7, <3>1, <3>2, <4>2 DEF ProgressInv
    <3>3. CASE TargetOf(v) = TargetOf(w)
      <4>1. ~Late(w) /\ v = w
        BY <1>0, <2>0, <2>6, <2>7, <3>1, <3>3
      <4> QED BY <1>8, <2>0, <2>6, <3>1, <4>1 DEF ReplaceChunks, Spoil, TypeOK, ProgressInv, SettledInv, Late
    <3> QED BY <3>2, <3>3
  <2>5. SettledInv'
    <3> SUFFICES ASSUME NEW m \in Materials
                 PROVE  /\ chunks'[m] <= text'[m]
                        /\ status'[m] = "absent" => chunks'[m] = NoChunks
                        /\ Exists(m)' /\ ~HasActiveJob(m)' /\ ~raced'[m] /\ ~spoiled'[m] =>
                              \/ status'[m] = "FAILED"
                              \/ status'[m] = "READY" /\ chunks'[m] = text'[m]
      BY DEF SettledInv
    <3>1. HasActiveJob(m)' = HasActiveJob(m)
      BY <1>8 DEF ReplaceChunks, HasActiveJob, Active
    <3>2. CASE m # TargetOf(w)
      BY <2>7, <3>1, <3>2 DEF SettledInv, Exists
    <3>3. CASE m = TargetOf(w)
      BY <1>8, <2>0, <2>6, <2>7, <3>1, <3>3 DEF ReplaceChunks, TypeOK, SettledInv, ReadIsPast, Exists
    <3> QED BY <3>2, <3>3
  <2> QED BY <2>1, <2>2, <2>3, <2>4, <2>5
<1>9. ASSUME NEW w \in Workers, DocumentGone(w) PROVE OwnerInv'
  <2>0. /\ Working(w) /\ held[w] \in Jobs /\ TargetOf(w) \in Materials
        /\ Exists(TargetOf(w)) => jobStatus[held[w]] # "deleted"
    BY <1>9 DEF DocumentGone, TypeOK, HoldersHaveRow, RowsHaveMaterial, Working, Exists, TargetOf
  <2>1. OwnedIsRunning'
    BY <1>9, <2>0 DEF DocumentGone, TypeOK, OwnedIsRunning, HoldersHaveRow, RowsHaveMaterial, Working, Late, Exists, TargetOf, HasActiveJob, Active
  <2>2. MissingIsDeleted'
    BY <1>9, <2>0 DEF DocumentGone, TypeOK, OwnedIsRunning, MissingIsDeleted, HoldersHaveRow, RowsHaveMaterial, Working, Late, Exists, TargetOf, HasActiveJob, Active
  <2>3. ReadIsPast'
    BY <1>9, <2>0 DEF DocumentGone, TypeOK, OwnedIsRunning, ReadIsPast, MissingIsDeleted, HoldersHaveRow, RowsHaveMaterial, Working, Late, Exists, TargetOf, HasActiveJob, Active
  <2>4. ProgressInv'
    BY <1>9, <2>0, <1>0 DEF DocumentGone, TypeOK, OwnedIsRunning, ProgressInv, MissingIsDeleted, ReadIsPast, SettledInv, HoldersHaveRow, RowsHaveMaterial, Working, Late, Exists, TargetOf, HasActiveJob, Active
  <2>5. SettledInv'
    BY <1>9, <2>0 DEF DocumentGone, TypeOK, OwnedIsRunning, SettledInv, MissingIsDeleted, ReadIsPast, ProgressInv, HoldersHaveRow, RowsHaveMaterial, Working, Late, Exists, TargetOf, HasActiveJob, Active
  <2> QED BY <2>1, <2>2, <2>3, <2>4, <2>5
<1>10. ASSUME NEW w \in Workers, ProviderFails(w) \/ IngestFails(w) PROVE OwnerInv'
  <2>0. /\ Working(w) /\ held[w] \in Jobs /\ TargetOf(w) \in Materials
        /\ Exists(TargetOf(w)) => jobStatus[held[w]] # "deleted"
    BY <1>10 DEF ProviderFails, IngestFails, Mark, Spoil, TypeOK, HoldersHaveRow, RowsHaveMaterial, Working, Exists, TargetOf
  <2>1. OwnedIsRunning'
    BY <1>10, <2>0 DEF ProviderFails, IngestFails, Mark, Spoil, TypeOK, OwnedIsRunning, HoldersHaveRow, RowsHaveMaterial, Working, Late, Exists, TargetOf, HasActiveJob, Active
  <2>2. MissingIsDeleted'
    BY <1>10, <2>0 DEF ProviderFails, IngestFails, Mark, Spoil, TypeOK, OwnedIsRunning, MissingIsDeleted, HoldersHaveRow, RowsHaveMaterial, Working, Late, Exists, TargetOf, HasActiveJob, Active
  <2>3. ReadIsPast'
    BY <1>10, <2>0 DEF ProviderFails, IngestFails, Mark, Spoil, TypeOK, OwnedIsRunning, ReadIsPast, MissingIsDeleted, HoldersHaveRow, RowsHaveMaterial, Working, Late, Exists, TargetOf, HasActiveJob, Active
  <2>4. ProgressInv'
    BY <1>10, <2>0, <1>0 DEF ProviderFails, IngestFails, Mark, Spoil, TypeOK, OwnedIsRunning, ProgressInv, MissingIsDeleted, ReadIsPast, SettledInv, HoldersHaveRow, RowsHaveMaterial, Working, Late, Exists, TargetOf, HasActiveJob, Active
  <2>5. SettledInv'
    BY <1>10, <2>0 DEF ProviderFails, IngestFails, Mark, Spoil, TypeOK, OwnedIsRunning, SettledInv, MissingIsDeleted, ReadIsPast, ProgressInv, HoldersHaveRow, RowsHaveMaterial, Working, Late, Exists, TargetOf, HasActiveJob, Active
  <2> QED BY <2>1, <2>2, <2>3, <2>4, <2>5
<1>11. ASSUME NEW w \in Workers, MarkDone(w) \/ MarkFailed(w) PROVE OwnerInv'
  <2>0. /\ Working(w) /\ held[w] \in Jobs /\ TargetOf(w) \in Materials
        /\ Exists(TargetOf(w)) => jobStatus[held[w]] # "deleted"
    BY <1>11 DEF MarkDone, MarkFailed, SetStatus, Spoil, Return, TypeOK, HoldersHaveRow, RowsHaveMaterial, Working, Exists, TargetOf
  <2>1. OwnedIsRunning'
    BY <1>11, <2>0 DEF MarkDone, MarkFailed, SetStatus, Spoil, Return, TypeOK, OwnedIsRunning, HoldersHaveRow, RowsHaveMaterial, Working, Late, Exists, TargetOf, HasActiveJob, Active
  <2>2. MissingIsDeleted'
    BY <1>11, <2>0 DEF MarkDone, MarkFailed, SetStatus, Spoil, Return, TypeOK, OwnedIsRunning, MissingIsDeleted, HoldersHaveRow, RowsHaveMaterial, Working, Late, Exists, TargetOf, HasActiveJob, Active
  <2>3. ReadIsPast'
    BY <1>11, <2>0 DEF MarkDone, MarkFailed, SetStatus, Spoil, Return, TypeOK, OwnedIsRunning, ReadIsPast, MissingIsDeleted, HoldersHaveRow, RowsHaveMaterial, Working, Late, Exists, TargetOf, HasActiveJob, Active
  <2>4. ProgressInv'
    BY <1>11, <2>0, <1>0 DEF MarkDone, MarkFailed, SetStatus, Spoil, Return, TypeOK, OwnedIsRunning, ProgressInv, MissingIsDeleted, ReadIsPast, SettledInv, HoldersHaveRow, RowsHaveMaterial, Working, Late, Exists, TargetOf, HasActiveJob, Active
  <2>5. SettledInv'
    BY <1>11, <2>0 DEF MarkDone, MarkFailed, SetStatus, Spoil, Return, TypeOK, OwnedIsRunning, SettledInv, MissingIsDeleted, ReadIsPast, ProgressInv, HoldersHaveRow, RowsHaveMaterial, Working, Late, Exists, TargetOf, HasActiveJob, Active
  <2> QED BY <2>1, <2>2, <2>3, <2>4, <2>5
<1>12. ASSUME NEW w \in Workers, RetryLater(w) \/ RetryRefused(w) PROVE OwnerInv'
  <2>0. /\ Working(w) /\ held[w] \in Jobs /\ TargetOf(w) \in Materials
        /\ Exists(TargetOf(w)) => jobStatus[held[w]] # "deleted"
    BY <1>12 DEF RetryLater, RetryRefused, OtherActiveJob, SetStatus, Spoil, Return, TypeOK, HoldersHaveRow, RowsHaveMaterial, Working, Exists, TargetOf
  <2>1. OwnedIsRunning'
    BY <1>12, <2>0 DEF RetryLater, RetryRefused, OtherActiveJob, SetStatus, Spoil, Return, TypeOK, OwnedIsRunning, HoldersHaveRow, RowsHaveMaterial, Working, Late, Exists, TargetOf, HasActiveJob, Active
  <2>2. MissingIsDeleted'
    BY <1>12, <2>0 DEF RetryLater, RetryRefused, OtherActiveJob, SetStatus, Spoil, Return, TypeOK, OwnedIsRunning, MissingIsDeleted, HoldersHaveRow, RowsHaveMaterial, Working, Late, Exists, TargetOf, HasActiveJob, Active
  <2>3. ReadIsPast'
    BY <1>12, <2>0 DEF RetryLater, RetryRefused, OtherActiveJob, SetStatus, Spoil, Return, TypeOK, OwnedIsRunning, ReadIsPast, MissingIsDeleted, HoldersHaveRow, RowsHaveMaterial, Working, Late, Exists, TargetOf, HasActiveJob, Active
  <2>4. ProgressInv'
    BY <1>12, <2>0, <1>0 DEF RetryLater, RetryRefused, OtherActiveJob, SetStatus, Spoil, Return, TypeOK, OwnedIsRunning, ProgressInv, MissingIsDeleted, ReadIsPast, SettledInv, HoldersHaveRow, RowsHaveMaterial, Working, Late, Exists, TargetOf, HasActiveJob, Active
  <2>5. SettledInv'
    BY <1>12, <2>0 DEF RetryLater, RetryRefused, OtherActiveJob, SetStatus, Spoil, Return, TypeOK, OwnedIsRunning, SettledInv, MissingIsDeleted, ReadIsPast, ProgressInv, HoldersHaveRow, RowsHaveMaterial, Working, Late, Exists, TargetOf, HasActiveJob, Active
  <2> QED BY <2>1, <2>2, <2>3, <2>4, <2>5
<1>13. ASSUME NEW w \in Workers, Crash(w) PROVE OwnerInv'
  <2>0. /\ Working(w) /\ held[w] \in Jobs /\ TargetOf(w) \in Materials
        /\ Exists(TargetOf(w)) => jobStatus[held[w]] # "deleted"
    BY <1>13 DEF Crash, Return, TypeOK, HoldersHaveRow, RowsHaveMaterial, Working, Exists, TargetOf
  <2>1. OwnedIsRunning'
    BY <1>13, <2>0 DEF Crash, Return, TypeOK, OwnedIsRunning, HoldersHaveRow, RowsHaveMaterial, Working, Late, Exists, TargetOf, HasActiveJob, Active
  <2>2. MissingIsDeleted'
    BY <1>13, <2>0 DEF Crash, Return, TypeOK, OwnedIsRunning, MissingIsDeleted, HoldersHaveRow, RowsHaveMaterial, Working, Late, Exists, TargetOf, HasActiveJob, Active
  <2>3. ReadIsPast'
    BY <1>13, <2>0 DEF Crash, Return, TypeOK, OwnedIsRunning, ReadIsPast, MissingIsDeleted, HoldersHaveRow, RowsHaveMaterial, Working, Late, Exists, TargetOf, HasActiveJob, Active
  <2>4. ProgressInv'
    BY <1>13, <2>0, <1>0 DEF Crash, Return, TypeOK, OwnedIsRunning, ProgressInv, MissingIsDeleted, ReadIsPast, SettledInv, HoldersHaveRow, RowsHaveMaterial, Working, Late, Exists, TargetOf, HasActiveJob, Active
  <2>5. SettledInv'
    BY <1>13, <2>0 DEF Crash, Return, TypeOK, OwnedIsRunning, SettledInv, MissingIsDeleted, ReadIsPast, ProgressInv, HoldersHaveRow, RowsHaveMaterial, Working, Late, Exists, TargetOf, HasActiveJob, Active
  <2> QED BY <2>1, <2>2, <2>3, <2>4, <2>5
<1>14. CASE UNCHANGED vars
  BY <1>14 DEF vars, OwnedIsRunning, MissingIsDeleted, ReadIsPast, ProgressInv, SettledInv,
              Working, Exists, TargetOf, HasActiveJob, Active
<1> QED
  BY <1>1, <1>2, <1>3, <1>4, <1>5, <1>6, <1>7, <1>8, <1>9, <1>10, <1>11, <1>12, <1>13, <1>14
     DEF Next, Edit, Clock, WorkerStep, Ingest, Settle

LEMMA OwnerInvariant == Spec => [](IndexInv /\ OwnerInv)
<1>1. Init => OwnerInv
  BY DEF Init, OwnerInv, OwnedIsRunning, MissingIsDeleted, ReadIsPast, ProgressInv,
         SettledInv, Working, Exists
<1>2. IndexInv /\ OwnerInv /\ [Next]_vars => IndexInv' /\ OwnerInv'
  BY NextIndexInv, NextOwner
<1> QED BY InitIndexInv, <1>1, <1>2, PTL DEF Spec

\* A READY document with nothing queued is searched by its current text,
\* unless an edit raced the owner of the job or a late worker wrote about it.
THEOREM SearchCurrent == Spec => []SearchIsCurrent
<1>1. OwnerInv => SearchIsCurrent
  BY DEF OwnerInv, SettledInv, SearchIsCurrent, Exists
<1> QED BY OwnerInvariant, <1>1, PTL

\* No document stays PENDING or PROCESSING without a job, but by those races.
THEOREM NothingIsForgotten == Spec => []NothingForgotten
<1>1. OwnerInv => NothingForgotten
  BY DEF OwnerInv, SettledInv, NothingForgotten, Exists
<1> QED BY OwnerInvariant, <1>1, PTL

\* Chunks are never lost or replaced by older ones while a document lives and
\* no late worker has written about it.
THEOREM ChunksOnlyAdvance == Spec => ChunksNeverRegress
<1>1. ASSUME IndexInv, OwnerInv, [Next]_vars, NEW m \in Materials, Exists(m), Exists(m)'
      PROVE  chunks'[m] >= chunks[m] \/ spoiled'[m]
  <2>1. chunks[m] \in Nat
    BY <1>1, MaxTextAssumption DEF IndexInv, TypeOK
  <2>2. CASE \E w \in Workers : ReplaceChunks(w)
    <3>1. PICK w \in Workers : ReplaceChunks(w)
      BY <2>2
    <3>2. CASE TargetOf(w) = m /\ Late(w)
      BY <1>1, <3>1, <3>2 DEF ReplaceChunks, Spoil
    <3>3. CASE TargetOf(w) = m /\ ~Late(w)
      <4>0. /\ Working(w) /\ step[w] = "embedding" /\ held[w] \in Jobs
            /\ owner[held[w]] = w /\ read[w] \in Nat
        BY <3>1, <3>3, MaxTextAssumption, <1>1
           DEF ReplaceChunks, Working, Late, IndexInv, HoldersHaveRow, TypeOK
      <4>5. jobStatus[held[w]] = "RUNNING"
        BY <1>1, <3>3, <4>0, NoWorkerAssumption
           DEF IndexInv, OwnerInv, OwnedIsRunning, RowsHaveMaterial, TargetOf, Exists
      <4>1. spoiled[m] \/ (chunks[m] <= read[w] /\ read[w] \in Nat)
        BY <1>1, <3>3, <4>0, <4>5 DEF OwnerInv, ProgressInv
      <4>2. chunks'[m] = read[w]
        BY <1>1, <3>1, <3>3 DEF ReplaceChunks, IndexInv, TypeOK
      <4>3. spoiled[m] => spoiled'[m]
        BY <1>1, <3>1 DEF ReplaceChunks, Spoil
      <4> QED BY <2>1, <4>1, <4>2, <4>3
    <3>4. CASE TargetOf(w) # m
      BY <1>1, <2>1, <3>1, <3>4 DEF ReplaceChunks, IndexInv, TypeOK
    <3> QED BY <3>2, <3>3, <3>4
  <2>3. CASE \E d \in Materials : Delete(d)
    BY <1>1, <2>1, <2>3 DEF Delete, Exists, IndexInv, TypeOK
  <2>4. CASE chunks' = chunks
    BY <2>1, <2>4
  <2>5. \/ \E w \in Workers : ReplaceChunks(w)
        \/ \E d \in Materials : Delete(d)
        \/ chunks' = chunks
    BY <1>1 DEF Next, vars, Edit, Clock, WorkerStep, Ingest, Settle, Create, Rename,
       StoreDocument, NewText, SyncUnchanged, RequestIngest, BackoffEnds, LeaseEnds,
       Claim, BeginIngest, DocumentGone, ProviderFails, IngestFails, Mark, MarkDone,
       MarkFailed, RetryLater, RetryRefused, Crash
  <2> QED BY <2>2, <2>3, <2>4, <2>5
<1>2. IndexInv /\ OwnerInv /\ [Next]_vars =>
         [\A m \in Materials :
             Exists(m) /\ Exists(m)' => chunks'[m] >= chunks[m] \/ spoiled'[m]]_vars
  BY <1>1
<1> QED BY OwnerInvariant, <1>2, PTL DEF Spec, ChunksNeverRegress
=============================================================================
