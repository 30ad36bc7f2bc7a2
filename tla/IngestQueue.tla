---------------------------- MODULE IngestQueue ----------------------------
(***************************************************************************)
(* The background indexing of documents: the ingest_jobs table, the        *)
(* IngestWorker processes that claim jobs from it, IngestService, which    *)
(* replaces a document's chunks, and the handlers of the API and of the    *)
(* connectors that edit documents and queue them.                          *)
(*                                                                         *)
(* One action is one database transaction.  Between two transactions of    *)
(* one worker anything else may happen: edits, other workers, a crash.     *)
(*                                                                         *)
(* Data is abstracted to what the properties need: a document's title and  *)
(* text are a version number, its chunks are the version they were built   *)
(* from, run_after and locked_at are the two flags "due" and "stale".      *)
(***************************************************************************)
EXTENDS Integers

CONSTANTS
    Materials,    \* documents
    Jobs,         \* identifiers of ingest_jobs rows; their number is a bound
    Workers,      \* worker processes
    NoMaterial,   \* the document of an unused row
    NoJob,        \* the job of an idle worker
    NoWorker,     \* the owner of a job nobody has claimed
    MaxText,      \* bound: how many versions a document's text goes through
    MaxCrashes    \* bound: how many times a worker dies

ASSUME NoMaterialAssumption == NoMaterial \notin Materials
ASSUME NoJobAssumption == NoJob \notin Jobs
ASSUME NoWorkerAssumption == NoWorker \notin Workers
ASSUME MaxTextAssumption == MaxText \in Nat \ {0}
ASSUME MaxCrashesAssumption == MaxCrashes \in Nat

VARIABLES
    status,       \* materials.status
    text,         \* the version of a document's title and text
    chunks,       \* the version its chunks were built from
    jobStatus,    \* ingest_jobs.status
    target,       \* ingest_jobs.material_id
    due,          \* has run_after come?
    stale,        \* is locked_at older than STALE_AFTER?
    step,         \* where each worker is in run_once
    held,         \* the job it has claimed
    read,         \* the version of the text it has read
    owner,        \* history: who claimed a job last, until the row is settled
    raced,        \* history: edited after the owner of the job had read the text
    spoiled,      \* history: touched by a late worker since an owner began
    crashes       \* history: worker deaths so far

materialVars == <<status, text, chunks>>
jobVars == <<jobStatus, target, due, stale>>
workerVars == <<step, held, read>>
history == <<owner, raced, spoiled>>
vars == <<materialVars, jobVars, workerVars, history, crashes>>

NoChunks == 0

Unfinished == {"PENDING", "PROCESSING"}
MaterialStatus == Unfinished \cup {"READY", "FAILED"}
ActiveStatus == {"QUEUED", "RUNNING"}
IngestJobStatus == ActiveStatus \cup {"DONE", "FAILED"}
Step == {"idle", "claimed", "embedding", "stored", "waiting", "failing", "missing"}

TypeOK ==
    /\ status \in [Materials -> MaterialStatus \cup {"absent", "deleted"}]
    /\ text \in [Materials -> 0..MaxText]
    /\ chunks \in [Materials -> 0..MaxText]
    /\ jobStatus \in [Jobs -> IngestJobStatus \cup {"unused", "deleted"}]
    /\ target \in [Jobs -> Materials \cup {NoMaterial}]
    /\ due \in [Jobs -> BOOLEAN]
    /\ stale \in [Jobs -> BOOLEAN]
    /\ step \in [Workers -> Step]
    /\ held \in [Workers -> Jobs \cup {NoJob}]
    /\ read \in [Workers -> 0..MaxText]
    /\ owner \in [Jobs -> Workers \cup {NoWorker}]
    /\ raced \in [Materials -> BOOLEAN]
    /\ spoiled \in [Materials -> BOOLEAN]
    /\ crashes \in 0..MaxCrashes

Exists(m) == status[m] \in MaterialStatus
Active(j) == jobStatus[j] \in ActiveStatus
HasActiveJob(m) == \E j \in Jobs : Active(j) /\ target[j] = m
Working(w) == step[w] # "idle"
Holds(w, j) == Working(w) /\ held[w] = j
TargetOf(w) == target[held[w]]

\* A worker at work on a job that another has claimed since, or settled: it
\* is slow, not dead, and nothing tells it.
Late(w) == Working(w) /\ owner[held[w]] # w

Init ==
    /\ status = [m \in Materials |-> "absent"]
    /\ text = [m \in Materials |-> 0]
    /\ chunks = [m \in Materials |-> NoChunks]
    /\ jobStatus = [j \in Jobs |-> "unused"]
    /\ target = [j \in Jobs |-> NoMaterial]
    /\ due = [j \in Jobs |-> FALSE]
    /\ stale = [j \in Jobs |-> FALSE]
    /\ step = [w \in Workers |-> "idle"]
    /\ held = [w \in Workers |-> NoJob]
    /\ read = [w \in Workers |-> 0]
    /\ owner = [j \in Jobs |-> NoWorker]
    /\ raced = [m \in Materials |-> FALSE]
    /\ spoiled = [m \in Materials |-> FALSE]
    /\ crashes = 0

----------------------------------------------------------------------------
(* Editing and queueing: the API, the connectors and the reindex command.  *)

\* INSERT ... ON CONFLICT DO NOTHING against the partial unique index on the
\* active jobs of a material: a new row, or none.
Enqueue(m) ==
    /\ ~HasActiveJob(m)
    /\ \E j \in Jobs :
          /\ jobStatus[j] = "unused"
          /\ jobStatus' = [jobStatus EXCEPT ![j] = "QUEUED"]
          /\ target' = [target EXCEPT ![j] = m]
          /\ due' = [due EXCEPT ![j] = TRUE]
          /\ UNCHANGED stale

NotEnqueued(m) == HasActiveJob(m) /\ UNCHANGED jobVars

\* The worker that owns the job has already read the text an edit of m replaces.
ReadBefore(m) ==
    \E w \in Workers : /\ step[w] \in {"embedding", "stored", "failing"}
                       /\ TargetOf(w) = m
                       /\ ~Late(w)

Create(m) ==
    /\ status[m] = "absent"
    /\ status' = [status EXCEPT ![m] = "PENDING"]
    /\ text' = [text EXCEPT ![m] = 1]
    /\ Enqueue(m)
    /\ UNCHANGED <<chunks, workerVars, history, crashes>>

\* A new text, for a job that is queued now or for the one already active.
NewText(m) ==
    /\ Exists(m)
    /\ text[m] < MaxText
    /\ text' = [text EXCEPT ![m] = @ + 1]
    /\ \/ Enqueue(m) /\ UNCHANGED raced
       \/ NotEnqueued(m) /\ raced' = [raced EXCEPT ![m] = @ \/ ReadBefore(m)]
    /\ UNCHANGED <<chunks, workerVars, owner, spoiled, crashes>>

\* Mutant of Rename: no job, as in MaterialService.move.
RenameLikeMove(m) ==
    /\ Exists(m)
    /\ text[m] < MaxText
    /\ text' = [text EXCEPT ![m] = @ + 1]
    /\ UNCHANGED <<status, chunks, jobVars, workerVars, history, crashes>>

\* MaterialService.rename: the status changes only if a job was queued.
Rename(m) ==
    /\ NewText(m)
    /\ status' = IF HasActiveJob(m) THEN status ELSE [status EXCEPT ![m] = "PENDING"]

\* The source sent a new version: store_document sets PENDING whether or not
\* its caller's enqueue then finds an active job.
StoreDocument(m) ==
    /\ NewText(m)
    /\ status' = [status EXCEPT ![m] = "PENDING"]

\* A sync met a document it has already stored: nothing but a job for one
\* that is still PENDING.
SyncUnchanged(m) ==
    /\ status[m] = "PENDING"
    /\ Enqueue(m)
    /\ UNCHANGED <<materialVars, workerVars, history, crashes>>

\* MaterialService.request_ingest and ReindexService.
RequestIngest(m) ==
    /\ Exists(m)
    /\ Enqueue(m)
    /\ status' = [status EXCEPT ![m] = "PENDING"]
    /\ UNCHANGED <<text, chunks, workerVars, history, crashes>>

\* Chunks and jobs go with the document (ON DELETE CASCADE).
Delete(m) ==
    /\ Exists(m)
    /\ status' = [status EXCEPT ![m] = "deleted"]
    /\ text' = [text EXCEPT ![m] = 0]
    /\ chunks' = [chunks EXCEPT ![m] = NoChunks]
    /\ jobStatus' = [j \in Jobs |-> IF target[j] = m THEN "deleted" ELSE jobStatus[j]]
    /\ UNCHANGED <<target, due, stale, workerVars, history, crashes>>

----------------------------------------------------------------------------
(* The worker.                                                             *)

\* run_after has come.
BackoffEnds(j) ==
    /\ jobStatus[j] = "QUEUED" /\ ~due[j]
    /\ due' = [due EXCEPT ![j] = TRUE]
    /\ UNCHANGED <<materialVars, jobStatus, target, stale, workerVars, history, crashes>>

\* locked_at is older than STALE_AFTER: nothing renews it, so this says
\* nothing of the worker that holds the job.
LeaseEnds(j) ==
    /\ jobStatus[j] = "RUNNING" /\ ~stale[j]
    /\ stale' = [stale EXCEPT ![j] = TRUE]
    /\ UNCHANGED <<materialVars, jobStatus, target, due, workerVars, history, crashes>>

\* Mutant of Claim: locked_at is not set.
ClaimKeepsLock(w, j) ==
    /\ ~Working(w)
    /\ \/ jobStatus[j] = "QUEUED" /\ due[j]
       \/ jobStatus[j] = "RUNNING" /\ stale[j]
    /\ jobStatus' = [jobStatus EXCEPT ![j] = "RUNNING"]
    /\ step' = [step EXCEPT ![w] = "claimed"]
    /\ held' = [held EXCEPT ![w] = j]
    /\ owner' = [owner EXCEPT ![j] = w]
    /\ UNCHANGED <<materialVars, target, due, stale, read, raced, spoiled, crashes>>

\* Mutant of Claim: the job of a dead worker is never taken back.
ClaimQueuedOnly(w, j) ==
    /\ ~Working(w)
    /\ jobStatus[j] = "QUEUED" /\ due[j]
    /\ jobStatus' = [jobStatus EXCEPT ![j] = "RUNNING"]
    /\ stale' = [stale EXCEPT ![j] = FALSE]
    /\ step' = [step EXCEPT ![w] = "claimed"]
    /\ held' = [held EXCEPT ![w] = j]
    /\ owner' = [owner EXCEPT ![j] = w]
    /\ UNCHANGED <<materialVars, target, due, read, raced, spoiled, crashes>>

\* _CLAIM: a due job, or a running one whose worker is taken for dead.
Claim(w, j) ==
    /\ ~Working(w)
    /\ \/ jobStatus[j] = "QUEUED" /\ due[j]
       \/ jobStatus[j] = "RUNNING" /\ stale[j]
    /\ jobStatus' = [jobStatus EXCEPT ![j] = "RUNNING"]
    /\ stale' = [stale EXCEPT ![j] = FALSE]
    /\ step' = [step EXCEPT ![w] = "claimed"]
    /\ held' = [held EXCEPT ![w] = j]
    /\ owner' = [owner EXCEPT ![j] = w]
    /\ UNCHANGED <<materialVars, target, due, read, raced, spoiled, crashes>>

\* History: a late worker has written about the document of its job.
Spoil(w) == spoiled' = [m \in Materials |-> spoiled[m] \/ (Late(w) /\ TargetOf(w) = m)]

\* NotFoundError: the document was deleted.
DocumentGone(w) ==
    /\ step[w] \in {"claimed", "embedding"}
    /\ ~Exists(TargetOf(w))
    /\ step' = [step EXCEPT ![w] = "missing"]
    /\ UNCHANGED <<materialVars, jobVars, held, read, history, crashes>>

\* Mutant of BeginIngest: the old chunks go before the new ones are ready.
BeginIngestDropsChunks(w) ==
    LET m == TargetOf(w) IN
    /\ step[w] = "claimed"
    /\ Exists(m)
    /\ status' = [status EXCEPT ![m] = "PROCESSING"]
    /\ chunks' = [chunks EXCEPT ![m] = NoChunks]
    /\ step' = [step EXCEPT ![w] = "embedding"]
    /\ read' = [read EXCEPT ![w] = text[m]]
    /\ raced' = [raced EXCEPT ![m] = @ /\ Late(w)]
    /\ spoiled' = [spoiled EXCEPT ![m] = Late(w)]
    /\ UNCHANGED <<text, jobVars, owner, held, crashes>>

\* First transaction of IngestService.ingest: PROCESSING, and a snapshot of
\* the text.
BeginIngest(w) ==
    LET m == TargetOf(w) IN
    /\ step[w] = "claimed"
    /\ Exists(m)
    /\ status' = [status EXCEPT ![m] = "PROCESSING"]
    /\ step' = [step EXCEPT ![w] = "embedding"]
    /\ read' = [read EXCEPT ![w] = text[m]]
    /\ raced' = [raced EXCEPT ![m] = @ /\ Late(w)]
    /\ spoiled' = [spoiled EXCEPT ![m] = Late(w)]
    /\ UNCHANGED <<text, chunks, jobVars, owner, held, crashes>>

\* Second transaction: the new chunks and READY at once.
ReplaceChunks(w) ==
    LET m == TargetOf(w) IN
    /\ step[w] = "embedding"
    /\ Exists(m)
    /\ status' = [status EXCEPT ![m] = "READY"]
    /\ chunks' = [chunks EXCEPT ![m] = read[w]]
    /\ step' = [step EXCEPT ![w] = "stored"]
    /\ Spoil(w)
    /\ UNCHANGED <<text, jobVars, held, read, owner, raced, crashes>>

\* IngestService.mark after an error: the document's status, in a
\* transaction of its own before the job's.
Mark(w, new, next) ==
    LET m == TargetOf(w) IN
    /\ status' = IF Exists(m) THEN [status EXCEPT ![m] = new] ELSE status
    /\ step' = [step EXCEPT ![w] = next]
    /\ Spoil(w)
    /\ UNCHANGED <<text, chunks, jobVars, held, read, owner, raced, crashes>>

\* The provider did not answer: the document waits for it without limit.
ProviderFails(w) == step[w] = "embedding" /\ Mark(w, "PENDING", "waiting")

\* The provider rejected the text, or any other exception.
IngestFails(w) == step[w] \in {"claimed", "embedding"} /\ Mark(w, "FAILED", "failing")

\* run_once returns: the worker forgets its job.
Return(w) ==
    /\ step' = [step EXCEPT ![w] = "idle"]
    /\ held' = [held EXCEPT ![w] = NoJob]
    /\ read' = [read EXCEPT ![w] = 0]

\* UPDATE ingest_jobs SET status ... WHERE id = job_id: unconditional, but no
\* row is left to update once the document was deleted.
SetStatus(j, new) ==
    /\ jobStatus' = IF jobStatus[j] = "deleted" THEN jobStatus
                    ELSE [jobStatus EXCEPT ![j] = new]
    /\ owner' = [owner EXCEPT ![j] = NoWorker]

\* Mutant of MarkDone: the document's final status written to the job.
MarkReady(w) ==
    /\ step[w] = "stored"
    /\ SetStatus(held[w], "READY")
    /\ Spoil(w)
    /\ Return(w)
    /\ UNCHANGED <<materialVars, target, due, stale, raced, crashes>>

MarkDone(w) ==
    /\ step[w] = "stored"
    /\ SetStatus(held[w], "DONE")
    /\ Spoil(w)
    /\ Return(w)
    /\ UNCHANGED <<materialVars, target, due, stale, raced, crashes>>

MarkFailed(w) ==
    /\ step[w] \in {"failing", "missing"}
    /\ SetStatus(held[w], "FAILED")
    /\ Spoil(w)
    /\ Return(w)
    /\ UNCHANGED <<materialVars, target, due, stale, raced, crashes>>

\* Mutant of OtherActiveJob: the index is not checked on update.
NoOtherActiveJob(j) == FALSE

OtherActiveJob(j) == \E k \in Jobs \ {j} : Active(k) /\ target[k] = target[j]

\* Mutant of RetryLater: attempts are limited, the document is not told.
RetryGivesUp(w) ==
    /\ step[w] = "waiting"
    /\ SetStatus(held[w], "FAILED")
    /\ Spoil(w)
    /\ Return(w)
    /\ UNCHANGED <<materialVars, target, due, stale, raced, crashes>>

RetryLater(w) ==
    LET j == held[w] IN
    /\ step[w] = "waiting"
    /\ ~OtherActiveJob(j)
    /\ SetStatus(j, "QUEUED")
    /\ due' = [due EXCEPT ![j] = FALSE]
    /\ stale' = [stale EXCEPT ![j] = FALSE]
    /\ Spoil(w)
    /\ Return(w)
    /\ UNCHANGED <<materialVars, target, raced, crashes>>

\* Another job of the document is active by now: the unique index refuses
\* the update, and the exception ends run_once.
RetryRefused(w) ==
    /\ step[w] = "waiting"
    /\ OtherActiveJob(held[w])
    /\ Return(w)
    /\ UNCHANGED <<materialVars, jobVars, history, crashes>>

\* The process dies; what it remembered is lost, what it committed is not.
Crash(w) ==
    /\ Working(w)
    /\ crashes < MaxCrashes
    /\ crashes' = crashes + 1
    /\ Return(w)
    /\ UNCHANGED <<materialVars, jobVars, history>>

----------------------------------------------------------------------------
Edit == \E m \in Materials :
           \/ Create(m) \/ Rename(m) \/ StoreDocument(m)
           \/ SyncUnchanged(m) \/ RequestIngest(m) \/ Delete(m)

Clock == \E j \in Jobs : BackoffEnds(j) \/ LeaseEnds(j)

Ingest(w) == BeginIngest(w) \/ ReplaceChunks(w) \/ DocumentGone(w)
             \/ ProviderFails(w) \/ IngestFails(w)
Settle(w) == MarkDone(w) \/ MarkFailed(w) \/ RetryLater(w) \/ RetryRefused(w)

WorkerStep(w) == (\E j \in Jobs : Claim(w, j)) \/ Ingest(w) \/ Settle(w)

Next == Edit \/ Clock \/ \E w \in Workers : WorkerStep(w) \/ Crash(w)

Spec == Init /\ [][Next]_vars

\* Time passes, workers take jobs and make progress, and the provider
\* answers again sooner or later (attempts are not limited, so a document
\* outlives any finite outage).
Fairness ==
    /\ \A j \in Jobs : /\ WF_vars(BackoffEnds(j))
                       /\ WF_vars(LeaseEnds(j))
                       /\ WF_vars(\E w \in Workers : Claim(w, j))
    /\ \A w \in Workers : /\ WF_vars(Ingest(w))
                          /\ WF_vars(Settle(w))
                          /\ SF_vars(ReplaceChunks(w))

FairSpec == Spec /\ Fairness

----------------------------------------------------------------------------
(* Properties.                                                             *)

\* Two workers never index one document from two jobs: whatever is edited,
\* retried or re-claimed, at most one job of a document is active, so the
\* partial unique index never has to be the one to stop it in enqueue.
OneActiveJob ==
    \A j, k \in Jobs :
        Active(j) /\ Active(k) /\ target[j] = target[k] => j = k

\* What the comment on STALE_AFTER says: a job that has been RUNNING for longer
\* has lost its worker, so no two workers ever hold one job.  The code does
\* not keep it.
JobHeldByOneWorker ==
    \A v, w \in Workers : \A j \in Jobs : Holds(v, j) /\ Holds(w, j) => v = w

\* The search answers from the current text of every document that is READY
\* with nothing queued for it, unless the edit came while the owner of its
\* job had already read the old text (enqueue found that job active and
\* queued no other), or a worker another had taken for dead wrote after the
\* one that took over its job had begun.
SearchIsCurrent ==
    \A m \in Materials :
        status[m] = "READY" /\ ~HasActiveJob(m) /\ ~raced[m] /\ ~spoiled[m]
            => chunks[m] = text[m]

\* No document is left PENDING or PROCESSING with no job to finish it,
\* through crashes, retries and re-claims, except by the same two races.
NothingForgotten ==
    \A m \in Materials :
        status[m] \in Unfinished => HasActiveJob(m) \/ raced[m] \/ spoiled[m]

\* While a document lives its chunks are never dropped and never replaced
\* by those of an older text: until the new vectors are committed the
\* search keeps the previous ones (IngestService.ingest), except where a
\* late worker has had a hand in it.
ChunksNeverRegress ==
    [][\A m \in Materials :
          Exists(m) /\ Exists(m)' => chunks'[m] >= chunks[m] \/ spoiled'[m]]_vars

\* Every queued job ends, however often its worker dies or the provider
\* fails, once the provider answers again.
JobEnds ==
    \A j \in Jobs : jobStatus[j] = "QUEUED" ~> ~Active(j)

=============================================================================
